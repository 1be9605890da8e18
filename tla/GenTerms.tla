------------------------------ MODULE GenTerms -------------------------------
(***************************************************************************)
(* The code generated for the terms of goals and of clause heads           *)
(* (compiler/clausegen.ml), with what annvariables.ml says of each         *)
(* variable when it is met.                                                *)
(*                                                                         *)
(* A term is <<"c", ind, types>>, <<"nil">>, <<"int", i>>, <<"bv", i>>,    *)
(* <<"var", x>>, <<"app", f, args>> (f is <<"cons">> for a list) or        *)
(* <<"lam", n, body>>; a type <<"tv", x>>, <<"ap", k, args>> or            *)
(* <<"arrow", <<a, b>>>>.  An instruction is a tuple of its name and       *)
(* operands.                                                               *)
(*                                                                         *)
(* The generator: the code so far; the variables met; the registers of     *)
(* the temporary ones and the places of the permanent ones; those known    *)
(* to be on the heap (heapvar) and those that need no moving before the    *)
(* environment goes (safety); the next register.  Registers are not used   *)
(* again (registers.ml decides that).  items is what is to be set or       *)
(* matched.                                                                *)
(***************************************************************************)
EXTENDS Naturals, Sequences, TLC

Gen(perm, next, hasenv, last) ==
    [code |-> <<>>, seen |-> {}, reg |-> <<>>, perm |-> perm, heap |-> {}, safe |-> {},
     next |-> next, hasenv |-> hasenv, last |-> last, items |-> <<>>]

Emit(g, ins) == [g EXCEPT !.code = Append(@, ins)]
New(g) == [g EXCEPT !.next = @ + 1]

First(g, x) == x \notin g.seen
Perm(g, x) == x \in DOMAIN g.perm

\* The item goes before the others.
Preceded(g, item) == [g EXCEPT !.items = <<item>> \o @]

\* x is met for the first time.
Meet(g, x, heap, safe) ==
    [g EXCEPT !.seen = @ \cup {x},
              !.heap = IF heap THEN @ \cup {x} ELSE @,
              !.safe = IF safe THEN @ \cup {x} ELSE @]

InReg(g, x, r) == [g EXCEPT !.reg = (x :> r) @@ @]
Assign(g, x) == InReg(New(g), x, g.next)
Globalized(g, x) == [g EXCEPT !.heap = @ \cup {x}, !.safe = @ \cup {x}]

-----------------------------------------------------------------------------
(* Synthesizing types.                                                     *)

RECURSIVE SType(_, _, _, _), STypeArgs(_, _), SetTypes(_, _)

STypeVar(g, x, r, last) ==
    LET a == Meet(Assign(g, x), x, FALSE, FALSE)
    IN CASE First(g, x) /\ Perm(g, x) ->
              Emit(Meet(g, x, FALSE, FALSE), <<"put_type_variable_p", g.perm[x], r>>)
         [] First(g, x) /\ ~Perm(g, x) -> Emit(a, <<"put_type_variable_t", a.reg[x], r>>)
         [] ~First(g, x) /\ Perm(g, x) ->
              IF ~last \/ x \in g.safe THEN Emit(g, <<"put_type_value_p", g.perm[x], r>>)
              ELSE Emit([g EXCEPT !.safe = @ \cup {x}],
                        <<"put_type_unsafe_value", g.perm[x], r>>)
         [] OTHER -> IF g.reg[x] = r THEN g ELSE Emit(g, <<"put_type_value_t", g.reg[x], r>>)

\* The components of a type or of a type environment: the compound ones are
\* built first, in registers.
ArgTypes(ty) == IF ty[1] = "arrow" THEN ty[2] ELSE ty[3]
AtomType(ty) == ty[1] = "tv" \/ (ty[1] = "ap" /\ ty[3] = <<>>)

\* The instruction that the setting of the types in items follows.
EmitWithTypes(g, ins) == SetTypes(Emit(g, ins), g.items)

SType(g, ty, r, last) ==
    CASE ty[1] = "tv" -> STypeVar(g, ty[2], r, last)
      [] ty[1] # "tv" /\ AtomType(ty) -> Emit(g, <<"put_type_const", r, ty[2]>>)
      [] OTHER -> EmitWithTypes(STypeArgs(g, ArgTypes(ty)),
                                IF ty[1] = "arrow" THEN <<"put_type_arrow", r>>
                                ELSE <<"put_type_structure", r, ty[2]>>)

STypeArgs(g, tys) ==
    IF tys = <<>> THEN [g EXCEPT !.items = <<>>]
    ELSE LET ty == Head(tys)
         IN Preceded(STypeArgs(IF AtomType(ty) THEN g ELSE SType(New(g), ty, g.next, FALSE),
                               Tail(tys)), IF AtomType(ty) THEN ty ELSE <<"reg", g.next>>)

SetTypeVar(g, x) ==
    LET a == Meet(IF Perm(g, x) THEN g ELSE Assign(g, x), x, FALSE, TRUE)
        value == IF x \in g.heap THEN "value" ELSE "local_value"
    IN IF First(g, x)
       THEN Emit(a, IF Perm(g, x) THEN <<"set_type_variable_p", g.perm[x]>>
                    ELSE <<"set_type_variable_t", a.reg[x]>>)
       ELSE Emit(Globalized(g, x), IF Perm(g, x) THEN <<"set_type_" \o value \o "_p", g.perm[x]>>
                                   ELSE <<"set_type_" \o value \o "_t", g.reg[x]>>)

SetType(g, item) ==
    CASE item[1] = "reg" -> Emit(g, <<"set_type_value_t", item[2]>>)
      [] item[1] = "tv" -> SetTypeVar(g, item[2])
      [] item[1] = "ap" -> Emit(g, <<"set_type_constant", item[2]>>)

SetTypes(g, items) ==
    IF items = <<>> THEN g ELSE SetTypes(SetType(g, Head(items)), Tail(items))

RECURSIVE STypes(_, _, _)
STypes(g, tys, r) ==
    IF tys = <<>> THEN g
    ELSE STypes(SType(g, Head(tys), r, g.last), Tail(tys), r + 1)

-----------------------------------------------------------------------------
(* Matching types.                                                         *)

RECURSIVE ATypes(_, _), ATypeArgs(_, _, _, _)

\* A variable of a type or, if env, of the type environment of a constant.
ATypeVar(g, x, env) ==
    LET a == Meet(IF Perm(g, x) THEN g ELSE Assign(g, x), x, FALSE, TRUE)
        name == "unify_" \o (IF env THEN "envty_" ELSE "type_")
                         \o (IF x \in g.heap THEN "value" ELSE "local_value")
    IN IF First(g, x)
       THEN Emit(a, IF Perm(g, x) THEN <<"unify_type_variable_p", g.perm[x]>>
                    ELSE <<"unify_type_variable_t", a.reg[x]>>)
       ELSE Emit(Globalized(g, x), IF Perm(g, x) THEN <<name \o "_p", g.perm[x]>>
                                   ELSE <<name \o "_t", g.reg[x]>>)

\* The components in order; the compound ones are matched after the others.
ATypeArgs(g, tys, env, delayed) ==
    LET ty == Head(tys)
    IN CASE tys = <<>> -> ATypes(g, delayed)
         [] tys # <<>> /\ ty[1] = "tv" ->
              ATypeArgs(ATypeVar(g, ty[2], env), Tail(tys), env, delayed)
         [] tys # <<>> /\ ty[1] # "tv" /\ AtomType(ty) ->
              ATypeArgs(Emit(g, <<"unify_type_constant", ty[2]>>), Tail(tys), env, delayed)
         [] OTHER ->
              ATypeArgs(Emit(New(g), <<"unify_type_variable_t", g.next>>), Tail(tys), env,
                        Append(delayed, <<g.next, ty>>))

AType(g, r, ty) ==
    LET get == IF ty[1] = "arrow" THEN <<"get_type_arrow", r>>
               ELSE <<"get_type_structure", r, ty[2]>>
    IN IF AtomType(ty) THEN Emit(g, <<"get_type_constant", r, ty[2]>>)
       ELSE ATypeArgs(Emit(g, get), ArgTypes(ty), FALSE, <<>>)

ATypes(g, delayed) ==
    IF delayed = <<>> THEN g
    ELSE ATypes(AType(g, delayed[1][1], delayed[1][2]), Tail(delayed))

-----------------------------------------------------------------------------
(* Synthesizing terms.                                                     *)

Complex(t) == t[1] \in {"app", "lam"}
IsVar(t) == t[1] = "var"

\* genPuttingVarCode; goal: as the argument of a goal, which is normalized.
PutFirst(g, x, r) ==
    LET a == Assign(g, x)
    IN IF Perm(g, x) THEN Emit(g, <<"put_variable_p", g.perm[x], r>>)
       ELSE Emit(a, <<IF g.hasenv THEN "put_variable_te" ELSE "put_variable_t", a.reg[x], r>>)

PutLater(g, x, r, last) ==
    IF Perm(g, x)
    THEN IF ~last \/ x \in g.safe THEN Emit(g, <<"put_value_p", g.perm[x], r>>)
         ELSE Emit([g EXCEPT !.safe = @ \cup {x}], <<"put_unsafe_value", g.perm[x], r>>)
    ELSE IF g.reg[x] = r THEN g ELSE Emit(g, <<"put_value_t", g.reg[x], r>>)

Normalized(g, r, goal) == IF goal THEN Emit(g, <<"head_normalize_t", r>>) ELSE g

PutVar(g, x, r, goal) ==
    IF First(g, x) THEN Meet(PutFirst(g, x, r), x, FALSE, FALSE)
    ELSE Normalized(PutLater(g, x, r, goal /\ g.last), r, goal)

\* The head of an application or the body of an abstraction: items is the
\* register it is in.
GlobalizeVar(g, x) ==
    LET r == g.next
        put == Meet(PutFirst(New(g), x, r), x, FALSE, FALSE)
        local == x \notin g.heap
    IN CASE First(g, x) ->
              [(IF Perm(g, x) THEN Emit(put, <<"globalize_t", r>>) ELSE put) EXCEPT !.items = r]
         [] ~First(g, x) /\ Perm(g, x) ->
              [Emit(IF local THEN Globalized(New(g), x) ELSE New(g),
                    <<IF local THEN "globalize_pt" ELSE "copy_value", g.perm[x], r>>)
                 EXCEPT !.items = r]
         [] OTHER ->
              [(IF local THEN Emit(Globalized(g, x), <<"globalize_t", g.reg[x]>>) ELSE g)
                 EXCEPT !.items = g.reg[x]]

RECURSIVE STerm(_, _, _, _), STermArgs(_, _)

SetVar(g, x) ==
    LET a == Meet(IF Perm(g, x) THEN g ELSE Assign(g, x), x, TRUE, TRUE)
        moved == Globalized(g, x)
    IN CASE First(g, x) /\ Perm(g, x) -> Emit(a, <<"set_variable_p", g.perm[x]>>)
         [] First(g, x) /\ ~Perm(g, x) ->
              Emit(a, <<IF g.hasenv THEN "set_variable_te" ELSE "set_variable_t", a.reg[x]>>)
         [] ~First(g, x) /\ x \in g.heap ->
              Emit(g, IF Perm(g, x) THEN <<"set_value_p", g.perm[x]>>
                      ELSE <<"set_value_t", g.reg[x]>>)
         [] OTHER ->
              IF Perm(g, x)
              THEN Emit(Emit(New(moved), <<"globalize_pt", g.perm[x], g.next>>),
                        <<"set_value_t", g.next>>)
              ELSE Emit(Emit(moved, <<"globalize_t", g.reg[x]>>), <<"set_value_t", g.reg[x]>>)

SetTerm(g, t) ==
    CASE t[1] = "reg" -> Emit(g, <<"set_value_t", t[2]>>)
      [] t[1] = "var" -> SetVar(g, t[2])
      [] t[1] = "nil" -> Emit(g, <<"set_nil">>)
      [] t[1] = "int" -> Emit(g, <<"set_integer", t[2]>>)
      [] t[1] = "bv" -> Emit(g, <<"set_index", t[2]>>)
      [] t[1] = "c" -> IF t[3] = <<>> THEN Emit(g, <<"set_m_const", t[2]>>)
                       ELSE EmitWithTypes(STypeArgs(g, t[3]), <<"set_p_const", t[2]>>)

RECURSIVE SetTerms(_, _)
SetTerms(g, items) ==
    IF items = <<>> THEN g ELSE SetTerms(SetTerm(g, Head(items)), Tail(items))

\* The compound arguments are built first, in registers.
STermArgs(g, args) ==
    IF args = <<>> THEN [g EXCEPT !.items = <<>>]
    ELSE LET t == Head(args)
         IN Preceded(STermArgs(IF Complex(t) THEN STerm(New(g), t, g.next, FALSE) ELSE g,
                               Tail(args)), IF Complex(t) THEN <<"reg", g.next>> ELSE t)

\* The head of an application, the body of an abstraction.
SHead(g, t) ==
    IF IsVar(t) THEN GlobalizeVar(g, t[2])
    ELSE [STerm(New(g), t, g.next, FALSE) EXCEPT !.items = g.next]

EmitWithTerms(g, ins) == SetTerms(Emit(g, ins), g.items)

AppArgs(h, t, r) ==
    EmitWithTerms(STermArgs(h, t[3]), IF t[2][1] = "cons" THEN <<"put_list", r>>
                                      ELSE <<"put_app", r, h.items, Len(t[3])>>)

SApp(g, t, r, goal) ==
    Normalized(AppArgs(IF t[2][1] = "cons" THEN g ELSE SHead(g, t[2]), t, r), r,
               goal /\ IsVar(t[2]) /\ ~First(g, t[2][2]))

PutLambda(b, r, n) == Emit(b, <<"put_lambda", r, b.items, n>>)

SLam(g, t, r, goal) ==
    Normalized(PutLambda(SHead(g, t[3]), r, t[2]), r, goal /\ IsVar(t[3]) /\ ~First(g, t[3][2]))

STerm(g, t, r, goal) ==
    CASE t[1] = "var" -> PutVar(g, t[2], r, goal)
      [] t[1] = "app" -> SApp(g, t, r, goal)
      [] t[1] = "lam" -> SLam(g, t, r, goal)
      [] t[1] = "nil" -> Emit(g, <<"put_nil", r>>)
      [] t[1] = "int" -> Emit(g, <<"put_integer", r, t[2]>>)
      [] t[1] = "bv" -> Emit(g, <<"put_index", r, t[2]>>)
      [] t[1] = "c" -> IF t[3] = <<>> THEN Emit(g, <<"put_m_const", r, t[2]>>)
                       ELSE EmitWithTypes(STypeArgs(g, t[3]), <<"put_p_const", r, t[2]>>)

RECURSIVE STerms(_, _, _)
STerms(g, args, r) ==
    IF args = <<>> THEN g ELSE STerms(STerm(g, Head(args), r, TRUE), Tail(args), r + 1)

\* The arguments of a goal: the types are in the registers after the terms.
setUpGoalArgs(g, args, tys) == STerms(STypes(g, tys, Len(args) + 1), args, 1)

-----------------------------------------------------------------------------
(* Matching terms.                                                         *)

RECURSIVE ATerms(_, _), AStrTermArgs(_, _, _)

\* The code for the types of a constant follows it; the constant's instruction
\* jumps over it.
WithTypes(g, ins, tys) ==
    [ATypeArgs([g EXCEPT !.code = <<>>], tys, TRUE, <<>>) EXCEPT
        !.code = g.code \o <<Append(ins, Len(@))>> \o @]

AVar(g, x) ==
    LET a == Meet(IF Perm(g, x) THEN g ELSE Assign(g, x), x, TRUE, TRUE)
        name == IF x \in g.heap THEN "unify_value" ELSE "unify_local_value"
    IN IF First(g, x)
       THEN Emit(a, IF Perm(g, x) THEN <<"unify_variable_p", g.perm[x]>>
                    ELSE <<"unify_variable_t", a.reg[x]>>)
       ELSE Emit(Globalized(g, x), IF Perm(g, x) THEN <<name \o "_p", g.perm[x]>>
                                   ELSE <<name \o "_t", g.reg[x]>>)

AtomArg(t) == t[1] \in {"var", "nil", "int", "c"}

AArg(g, t) ==
    CASE t[1] = "var" -> AVar(g, t[2])
      [] t[1] = "nil" -> Emit(g, <<"unify_nil">>)
      [] t[1] = "int" -> Emit(g, <<"unify_integer", t[2]>>)
      [] t[1] = "c" /\ t[3] = <<>> -> Emit(g, <<"unify_m_constant", t[2]>>)
      [] t[1] = "c" /\ t[3] # <<>> -> WithTypes(g, <<"unify_p_constant", t[2]>>, t[3])
      [] OTHER -> Emit(New(g), <<"unify_variable_t", g.next>>)

AStrTermArgs(g, args, delayed) ==
    LET t == Head(args)
    IN IF args = <<>> THEN ATerms(g, delayed)
       ELSE AStrTermArgs(AArg(g, t), Tail(args),
                         IF AtomArg(t) THEN delayed ELSE Append(delayed, <<g.next, t>>))

AStructure(g, r, f, args) ==
    AStrTermArgs(CASE f[1] = "cons" -> Emit(g, <<"get_list", r>>)
                   [] f[1] = "c" /\ f[3] = <<>> ->
                        Emit(g, <<"get_m_structure", r, f[2], Len(args)>>)
                   [] OTHER -> ATypeArgs(Emit(g, <<"get_p_structure", r, f[2], Len(args)>>),
                                         f[3], TRUE, <<>>),
                 args, <<>>)

UnifyBuilt(a, r) == Emit(a, <<"pattern_unify_t", a.items[1][2], r>>)

\* A flexible application or an abstraction is built and unified.
AHigherOrder(g, r, t) ==
    UnifyBuilt([STermArgs([g EXCEPT !.hasenv = FALSE], <<t>>) EXCEPT !.hasenv = g.hasenv], r)

ATerm(g, r, t) ==
    CASE t[1] = "var" -> Emit(g, IF Perm(g, t[2]) THEN <<"pattern_unify_p", g.perm[t[2]], r>>
                                 ELSE <<"pattern_unify_t", g.reg[t[2]], r>>)
      [] t[1] = "nil" -> Emit(g, <<"get_nil", r>>)
      [] t[1] = "int" -> Emit(g, <<"get_integer", r, t[2]>>)
      [] t[1] = "c" -> IF t[3] = <<>> THEN Emit(g, <<"get_m_constant", r, t[2]>>)
                       ELSE WithTypes(g, <<"get_p_constant", r, t[2]>>, t[3])
      [] t[1] = "app" /\ ~IsVar(t[2]) -> AStructure(g, r, t[2], t[3])
      [] OTHER -> AHigherOrder(g, r, t)

ATerms(g, delayed) ==
    IF delayed = <<>> THEN g
    ELSE ATerms(ATerm(g, delayed[1][1], delayed[1][2]), Tail(delayed))

-----------------------------------------------------------------------------
(* The head of a clause.                                                   *)

\* The arguments that are variables met for the first time; items is the rest.
HeadArg(g, t, r) ==
    IF ~(IsVar(t) /\ First(g, t[2])) THEN [g EXCEPT !.items = Append(@, <<r, t>>)]
    ELSE Meet(IF Perm(g, t[2]) THEN Emit(g, <<"get_variable_p", g.perm[t[2]], r>>)
              ELSE InReg(g, t[2], r), t[2], FALSE, TRUE)

RECURSIVE HeadTmVars(_, _, _)
HeadTmVars(g, args, r) ==
    IF args = <<>> THEN g ELSE HeadTmVars(HeadArg(g, Head(args), r), Tail(args), r + 1)

\* The type arguments of the predicate, all of them needed.
HeadType(g, ty, r) ==
    LET x == ty[2]
        value == IF Perm(g, x) THEN <<"get_type_value_p", g.perm[x], r>>
                 ELSE <<"get_type_value_t", g.reg[x], r>>
    IN CASE ty[1] # "tv" -> [g EXCEPT !.items = Append(@, <<r, ty>>)]
         [] ty[1] = "tv" /\ First(g, x) ->
              Meet(IF Perm(g, x) THEN Emit(g, <<"get_type_variable_p", g.perm[x], r>>)
                   ELSE InReg(g, x, r), x, FALSE, TRUE)
         [] OTHER -> Emit(g, value)

RECURSIVE HeadTyVars(_, _, _)
HeadTyVars(g, tys, r) ==
    IF tys = <<>> THEN g ELSE HeadTyVars(HeadType(g, Head(tys), r), Tail(tys), r + 1)

\* mapped: the variables the clause shares with the one it is embedded in,
\* with their places in the environment of that one.
InitVar(g, x, y) ==
    LET a == IF Perm(g, x) THEN g ELSE Assign(g, x)
    IN Emit(Meet(a, x, FALSE, TRUE), IF Perm(g, x) THEN <<"init_variable_p", g.perm[x], y>>
                                     ELSE <<"init_variable_t", a.reg[x], y>>)

RECURSIVE InitVars(_, _)
InitVars(g, mapped) ==
    IF mapped = <<>> THEN g
    ELSE InitVars(InitVar(g, mapped[1][1], mapped[1][2]), Tail(mapped))

HeadTypeVars(g, tys, r) == HeadTyVars([g EXCEPT !.items = <<>>], tys, r)
MatchTypes(g) == ATypes(g, g.items)
HeadTerms(g, args) == HeadTmVars([g EXCEPT !.items = <<>>], args, 1)
MatchTerms(g) == IF g.items = <<>> THEN g ELSE Emit(ATerms(g, g.items), <<"finish_unify">>)

genClauseHead(g, args, tys, mapped) ==
    MatchTerms(HeadTerms(MatchTypes(
        HeadTypeVars(InitVars(IF g.hasenv THEN Emit(g, <<"allocate">>) ELSE g, mapped),
                  tys, Len(args) + 1)), args))
=============================================================================
