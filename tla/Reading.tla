------------------------------- MODULE Reading -------------------------------
(***************************************************************************)
(* Building a term that was read, and its type, on the heap                *)
(* (simulator/builtins/readterm.c, driven by front/readterm.ml).           *)
(*                                                                         *)
(* b is the state of the building: the machine m and the printer's state   *)
(* pr, whose table the variables enter; fv and tv, the addresses of the    *)
(* variables and the type variables; the trees still to be built, terms    *)
(* and types, in step with the queues of the cells they go to, termq and   *)
(* typeq.  The two sides know nothing of each other but the order: a tree  *)
(* is built at the cell that is at the front of the queue.                 *)
(*                                                                         *)
(* A type is <<"s", k>>, <<"f", k, args>>, <<"->", t, u>> or <<"tv", x>>.  *)
(* The type inferred for a term is not modelled further than what its head *)
(* tells; the rest of it is a type variable.                               *)
(***************************************************************************)
EXTENDS Parsing

Builder(m, pr, termloc, typeloc) ==
    [m |-> m, pr |-> pr, fv |-> <<>>, tv |-> <<>>, terms |-> <<>>, types |-> <<>>,
     termq |-> <<termloc>>, typeq |-> <<typeloc>>]

-----------------------------------------------------------------------------
(* Types and variables of a tree.                                          *)

Unknown(k) == <<"tv", k>>

\* The type of a constant applied to n arguments.
RECURSIVE TargetType(_, _)
TargetType(ty, n) == IF n = 0 THEN ty ELSE TargetType(ty[3], n - 1)

RECURSIVE TypeOf(_, _)
TypeOf(t, k) ==
    CASE t[1] = "i" -> <<"s", "int">>
      [] t[1] = "r" -> <<"s", "real">>
      [] t[1] = "s" -> <<"s", "string">>
      [] t[1] = "c" -> Consts[t[2]].type
      [] t[1] = "lam" -> IF t[2] = 0 THEN TypeOf(t[3], k)
                         ELSE <<"->", Unknown(k), TypeOf(<<"lam", t[2] - 1, t[3]>>, k + 1)>>
      [] t[1] = "app" /\ t[2][1] = "c" -> TargetType(Consts[t[2][2]].type, Len(t[3]))
      [] OTHER -> Unknown(k)

RECURSIVE TypeVars(_)
TypeVars(ty) == CASE ty[1] = "tv" -> {ty}
                  [] ty[1] = "f" -> UNION {TypeVars(ty[3][i]) : i \in DOMAIN ty[3]}
                  [] ty[1] = "->" -> TypeVars(ty[2]) \cup TypeVars(ty[3])
                  [] OTHER -> {}

RECURSIVE TreeTypeVars(_)
TreeTypeVars(t) ==
    CASE t[1] = "c" -> UNION {TypeVars(t[3][i]) : i \in DOMAIN t[3]}
      [] t[1] = "lam" -> TreeTypeVars(t[3])
      [] t[1] = "app" -> TreeTypeVars(t[2]) \cup UNION {TreeTypeVars(t[3][i]) : i \in DOMAIN t[3]}
      [] OTHER -> {}

\* The variables of a tree put before those of fvs: the last one met is first.
RECURSIVE TreeVars(_, _), ArgVars(_, _)
TreeVars(t, fvs) ==
    CASE t[1] = "fv" -> IF \E i \in DOMAIN fvs : fvs[i] = t THEN fvs ELSE <<t>> \o fvs
      [] t[1] = "lam" -> TreeVars(t[3], fvs)
      [] t[1] = "app" -> ArgVars(t[3], TreeVars(t[2], fvs))
      [] OTHER -> fvs
ArgVars(args, fvs) == IF args = <<>> THEN fvs ELSE ArgVars(Tail(args), TreeVars(args[1], fvs))

-----------------------------------------------------------------------------
(* Variables.                                                              *)

EnterVar(b, v, x) ==
    [b EXCEPT !.m = x, !.fv = (v :> x.rt) @@ @, !.pr = EnterFreeVarTab(@, v[2], x.rt)]

\* The name is a string on the heap, the variable follows it.
BuildFreeVar(b, v) == EnterVar(b, v, Push(NewString(b.m, <<v[2]>>), Var(0)))

EnterTypeVar(b, v, x) == [b EXCEPT !.m = x, !.tv = (v :> x.rt) @@ @]
BuildFreeTypeVar(b, v) == EnterTypeVar(b, v, Push(b.m, RefType(b.m.hreg)))

RECURSIVE LayOutVars(_, _), LayOutTypeVars(_, _)
LayOutVars(b, fvs) == IF fvs = <<>> THEN b ELSE LayOutVars(BuildFreeVar(b, fvs[1]), Tail(fvs))
LayOutTypeVars(b, tvs) ==
    IF tvs = {} THEN b
    ELSE LET v == CHOOSE v \in tvs : TRUE
         IN LayOutTypeVars(BuildFreeTypeVar(b, v), tvs \ {v})

-----------------------------------------------------------------------------
(* Types.                                                                  *)

\* Atomic cells from the address at on.
Cells(at, n) == [i \in 1..n |-> Arg(at, i)]

\* A type goes to the cell at the front of the queue.
PlaceType(b, c) == [b EXCEPT !.m = Write(@, b.typeq[1], c), !.typeq = Tail(@)]
EnqueueTypes(b, at, n, top) ==
    [b EXCEPT !.typeq = @ \o Cells(at, n), !.m.hreg = top]

BuildArrowType(b) ==
    EnqueueTypes(PlaceType(b, ArrowType(b.m.hreg)), b.m.hreg, 2, b.m.hreg + 4)

BuildStrType(b, k, n) ==
    EnqueueTypes(PlaceType([b EXCEPT !.m = Write(@, @.hreg, StrFuncType(k, n))],
                           StrType(b.m.hreg)),
                 b.m.hreg + 2, n, b.m.hreg + 2 + 2 * n)

WithTypes(b, tys) == [b EXCEPT !.types = Tail(@) \o tys]

BuildAType(b, t) ==
    CASE t[1] = "->" -> WithTypes(BuildArrowType(b), <<t[2], t[3]>>)
      [] t[1] = "s" -> WithTypes(PlaceType(b, SortType(t[2])), <<>>)
      [] t[1] = "f" -> WithTypes(BuildStrType(b, t[2], Len(t[3])), t[3])
      [] t[1] = "tv" -> WithTypes(PlaceType(b, RefType(b.tv[t])), <<>>)

RECURSIVE BuildTypes(_)
BuildTypes(b) == IF b.types = <<>> THEN b ELSE BuildTypes(BuildAType(b, b.types[1]))

-----------------------------------------------------------------------------
(* Terms.                                                                  *)

Place(b, c) == [b EXCEPT !.m = Write(@, b.termq[1], c), !.termq = Tail(@)]
Enqueue(b, locs, top) == [b EXCEPT !.termq = @ \o locs, !.m.hreg = top]
WithTerms(b, ts) == [b EXCEPT !.terms = Tail(@) \o ts]

\* The text of a string is on the heap, before the cell is written.
BuildString(b, cs) == Place([b EXCEPT !.m = NewString(@, cs)], StrTm(b.m.hreg))

BuildMConst(b, c) == Place(b, Const(Consts[c].univ, c))

\* The cells of the types are enqueued behind those of the types met before.
BuildPConst(b, c, tys) ==
    LET at == b.m.hreg
    IN [EnqueueTypes(Place([b EXCEPT !.m = Write(@, at, TConst(Consts[c].univ, c, at + 3))],
                           Ref(at)), at + 3, Len(tys), at + 3 + 2 * Len(tys))
        EXCEPT !.types = @ \o tys]

BuildConst(b, c, tys) ==
    CASE c = "nil" -> Place(b, Nil)
      [] c # "nil" /\ tys = <<>> -> BuildMConst(b, c)
      [] OTHER -> BuildPConst(b, c, tys)

BuildAbstraction(b, n) == Enqueue(Place(b, Lam(n, b.m.hreg)), <<b.m.hreg>>, b.m.hreg + 2)

BuildCons(b) == Enqueue(Place(b, Cons(b.m.hreg)), Cells(b.m.hreg, 2), b.m.hreg + 4)

\* The function's cell is enqueued, then those of the arguments.
BuildApplication(b, n) ==
    LET at == b.m.hreg
    IN Enqueue(Place([b EXCEPT !.m = Write(@, at, App(n, at + 3, at + 5))], Ref(at)),
               Cells(at + 3, n + 1), at + 5 + 2 * n)

IsCons(t) == t[2][1] = "c" /\ t[2][2] = "::"

BuildATerm(b, t) ==
    CASE t[1] = "i" -> WithTerms(Place(b, IntTm(t[2])), <<>>)
      [] t[1] = "r" -> WithTerms(Place(b, FloatTm(t[2])), <<>>)
      [] t[1] = "s" -> WithTerms(BuildString(b, t[2]), <<>>)
      [] t[1] = "c" -> WithTerms(BuildConst(b, t[2], t[3]), <<>>)
      [] t[1] = "fv" -> WithTerms(Place(b, Ref(b.fv[t])), <<>>)
      [] t[1] = "b" -> WithTerms(Place(b, BV(t[2])), <<>>)
      [] t[1] = "lam" -> WithTerms(BuildAbstraction(b, t[2]), <<t[3]>>)
      [] t[1] = "app" /\ IsCons(t) -> WithTerms(BuildCons(b), t[3])
      [] OTHER -> WithTerms(BuildApplication(b, Len(t[3])), <<t[2]>> \o t[3])

RECURSIVE BuildTerms(_)
BuildTerms(b) ==
    IF b.terms = <<>> THEN BuildTypes(b) ELSE BuildTerms(BuildATerm(b, b.terms[1]))

\* Every variable of the table counts as the query's from then on.
Built(b) == [m |-> b.m, pr |-> SetQueryFreeVariables(b.pr), full |-> FALSE]

Build(b, t, ty) == Built(BuildTerms([BuildTypes([b EXCEPT !.types = <<ty>>]) EXCEPT !.terms = <<t>>]))

\* If the variables find no place in the table, nothing is built.
ReadTermAndType(m, pr, t, ty, termloc, typeloc) ==
    LET fvs == TreeVars(t, <<>>)
    IN IF FreeVarTabFull(pr, Len(fvs)) THEN [m |-> m, pr |-> pr, full |-> TRUE]
       ELSE Build(LayOutTypeVars(LayOutVars(Builder(m, pr, termloc, typeloc), fvs),
                                 TypeVars(ty) \cup TreeTypeVars(t)), t, ty)

\* The type goes to the cell at the heap top, the term to the one after.
TypeLoc(m) == m.hreg
TermLoc(m) == m.hreg + 2
SetTypeAndTermLocation(m) == [m EXCEPT !.hreg = @ + 4]

ReadTree(m, pr, t, ty) ==
    ReadTermAndType(SetTypeAndTermLocation(m), pr, t, ty, TermLoc(m), TypeLoc(m))
=============================================================================
