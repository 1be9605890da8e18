---------------------------- MODULE TermMachine -----------------------------
(***************************************************************************)
(* Unification as the abstract machine runs it: the goals of the body of a *)
(* clause put their arguments (GenTerms, TermInstr), each is called, the   *)
(* heads of the clauses of its predicate are matched with them in turn,    *)
(* and a failure of either goes back to the latest choice point.           *)
(*                                                                         *)
(* A program is a record: env, whether the body has an environment; perm,  *)
(* the places of its variables there; last, whether the environment goes   *)
(* before the last call; goals, a sequence of records: quant, the          *)
(* quantifiers opened at the goal (<<"all", x, c>> or <<"some", x>>), or   *)
(* <<"module">>, an import, which counts as one universe;                  *)
(* args, tys; clauses, a sequence of heads: args, tys, perm, mapped.  new  *)
(* is the type from which the variables of a unifier take their values.    *)
(* Facts but for the size of their environment.                            *)
(***************************************************************************)
EXTENDS TypeInstr, GenTerms, Lambda

CONSTANTS Programs,
          Values    \* closed terms of every type, to compare with

VARIABLES prog,    \* the program
          at,      \* where the machine is: its phase, goal, clause and instruction
          code,    \* the instructions of the goal or head it is in
          m,       \* the registers and the memory
          cps,     \* the choice points, the latest one last
          called   \* what the goals called meant when they were
vars == <<prog, at, code, m, cps, called>>

-----------------------------------------------------------------------------
(* The code.                                                               *)

RECURSIVE Quantify(_, _)
Quantify(g, quant) ==
    LET up == Emit(g, <<"incr_universe">>)
        x == quant[1][2]
        tagged == IF quant[1][1] = "all"
                  THEN Emit(up, <<"set_univ_tag", g.perm[x], quant[1][3]>>)
                  ELSE Emit(IF Perm(g, x) THEN g ELSE Assign(g, x),
                            IF Perm(g, x) THEN <<"tag_exists_p", g.perm[x]>>
                            ELSE <<"tag_exists_t", g.next>>)
    IN CASE quant = <<>> -> g
         [] quant # <<>> /\ quant[1][1] = "module" -> Quantify(up, Tail(quant))
         [] OTHER -> Quantify(Meet(tagged, x, FALSE, FALSE), Tail(quant))

Arity(goal) == Len(goal.args) + Len(goal.tys)

\* The generator after the k-th goal.
RECURSIVE AfterGoal(_, _)
AfterGoal(p, k) ==
    IF k = 0 THEN Gen(p.perm, 1, p.env, FALSE)
    ELSE LET goal == p.goals[k]
             g == [AfterGoal(p, k - 1) EXCEPT !.code = <<>>, !.next = Arity(goal) + 1,
                                              !.last = p.last /\ k = Len(p.goals)]
         IN setUpGoalArgs(Quantify(g, goal.quant), goal.args, goal.tys)

HeadGen(p, k, c) ==
    LET cl == p.goals[k].clauses[c]
    IN genClauseHead(Gen(cl.perm, Arity(p.goals[k]) + 1, cl.perm # <<>>, FALSE),
                     cl.args, cl.tys, cl.mapped)

-----------------------------------------------------------------------------
(* The instructions.                                                       *)

X(n) == 2 * n
Y(n) == m.ereg + 2 * n
CallerY(n) == StackBeg + 20 + 2 * n

Put(i) ==
    CASE i[1] = "put_variable_t"   -> put_variable_t(m, X(i[2]), X(i[3]))
      [] i[1] = "put_variable_te"  -> put_variable_te(m, X(i[2]), X(i[3]))
      [] i[1] = "put_variable_p"   -> put_variable_p(m, Y(i[2]), X(i[3]))
      [] i[1] = "put_value_t"      -> put_value_t(m, X(i[2]), X(i[3]))
      [] i[1] = "put_value_p"      -> put_value_p(m, Y(i[2]), X(i[3]))
      [] i[1] = "put_unsafe_value" -> put_unsafe_value(m, Y(i[2]), X(i[3]))
      [] i[1] = "copy_value"       -> copy_value(m, Y(i[2]), X(i[3]))
      [] i[1] = "put_m_const"      -> put_m_const(m, X(i[2]), i[3])
      [] i[1] = "put_p_const"      -> put_p_const(m, X(i[2]), i[3])
      [] i[1] = "put_nil"          -> put_nil(m, X(i[2]))
      [] i[1] = "put_integer"      -> put_integer(m, X(i[2]), i[3])
      [] i[1] = "put_index"        -> put_index(m, X(i[2]), i[3])
      [] i[1] = "put_app"          -> put_app(m, X(i[2]), X(i[3]), i[4])
      [] i[1] = "put_list"         -> put_list(m, X(i[2]))
      [] i[1] = "put_lambda"       -> put_lambda(m, X(i[2]), X(i[3]), i[4])
      [] i[1] = "globalize_pt"     -> globalize_pt(m, Y(i[2]), X(i[3]))
      [] i[1] = "globalize_t"      -> globalize_t(m, X(i[2]))

PutOps == {"put_variable_t", "put_variable_te", "put_variable_p", "put_value_t", "put_value_p",
           "put_unsafe_value", "copy_value", "put_m_const", "put_p_const", "put_nil",
           "put_integer", "put_index", "put_app", "put_list", "put_lambda", "globalize_pt",
           "globalize_t"}

Set(i) ==
    CASE i[1] = "set_variable_t"  -> set_variable_t(m, X(i[2]))
      [] i[1] = "set_variable_te" -> set_variable_te(m, X(i[2]))
      [] i[1] = "set_variable_p"  -> set_variable_te(m, Y(i[2]))
      [] i[1] = "set_value_t"     -> set_value_t(m, X(i[2]))
      [] i[1] = "set_value_p"     -> set_value_p(m, Y(i[2]))
      [] i[1] = "set_m_const"     -> set_m_const(m, i[2])
      [] i[1] = "set_p_const"     -> set_p_const(m, i[2])
      [] i[1] = "set_nil"         -> set_nil(m)
      [] i[1] = "set_integer"     -> set_integer(m, i[2])
      [] i[1] = "set_index"       -> set_index(m, i[2])

SetOps == {"set_variable_t", "set_variable_te", "set_variable_p", "set_value_t", "set_value_p",
           "set_m_const", "set_p_const", "set_nil", "set_integer", "set_index"}

Get(i) ==
    CASE i[1] = "get_variable_p"  -> get_variable(m, Y(i[2]), X(i[3]))
      [] i[1] = "init_variable_t" -> init_variable(m, X(i[2]), CallerY(i[3]))
      [] i[1] = "init_variable_p" -> init_variable(m, Y(i[2]), CallerY(i[3]))
      [] i[1] = "get_m_constant"  -> get_m_constant(m, X(i[2]), i[3])
      [] i[1] = "get_p_constant"  -> get_p_constant(m, X(i[2]), i[3])
      [] i[1] = "get_integer"     -> get_integer(m, X(i[2]), i[3])
      [] i[1] = "get_nil"         -> get_nil(m, X(i[2]))
      [] i[1] = "get_m_structure" -> get_m_structure(m, X(i[2]), i[3], i[4])
      [] i[1] = "get_p_structure" -> get_p_structure(m, X(i[2]), i[3], i[4])
      [] i[1] = "get_list"        -> get_list(m, X(i[2]))

GetOps == {"get_variable_p", "init_variable_t", "init_variable_p", "get_m_constant",
           "get_p_constant", "get_integer", "get_nil", "get_m_structure", "get_p_structure",
           "get_list"}

Unify(i) ==
    CASE i[1] = "unify_variable_t"      -> unify_variable(m, X(i[2]))
      [] i[1] = "unify_variable_p"      -> unify_variable(m, Y(i[2]))
      [] i[1] = "unify_m_constant"      -> unify_m_constant(m, i[2])
      [] i[1] = "unify_p_constant"      -> unify_p_constant(m, i[2])
      [] i[1] = "unify_integer"         -> unify_integer(m, i[2])
      [] i[1] = "unify_nil"             -> unify_nil(m)

UnifyOps == {"unify_variable_t", "unify_variable_p", "unify_m_constant", "unify_p_constant",
             "unify_integer", "unify_nil"}

\* The value, at a, dereferenced to t.
WriteValue(i, a, t) ==
    LET local == i[1] \in {"unify_local_value_t", "unify_local_value_p"}
        keep == i[1] = "unify_local_value_t"
    IN CASE OccursChecked(m, t, local) -> CheckValue(m, a, t, local, keep)
         [] ~OccursChecked(m, t, local) /\ local -> LocalValue(m, a, t, keep)
         [] OTHER -> IF i[1] = "unify_value_t" THEN unify_value_t(m, a) ELSE unify_value_p(m, t)

ValueOps == {"unify_value_t", "unify_value_p", "unify_local_value_t", "unify_local_value_p"}

\* In read mode the value is unified with the argument.
PatternOps == {"pattern_unify_t", "pattern_unify_p"}
Value(i) == IF i[1] \in {"unify_value_p", "unify_local_value_p", "pattern_unify_p"} THEN Y(i[2])
            ELSE X(i[2])
UnifyPair(i) ==
    LET value == i[1] \in ValueOps
        done(n) == IF value THEN NextS(n) ELSE n
    IN done(PatternUnifyPair(m, Value(i), IF value THEN m.sreg ELSE X(i[3])))

HigherOrder(i) == IF i[1] = "finish_unify" THEN finish_unify(m) ELSE head_normalize(m, X(i[2]))
HigherOrderOps == {"finish_unify", "head_normalize_t"}

Logical(i) ==
    CASE i[1] = "incr_universe" -> incr_universe(m)
      [] i[1] = "decr_universe" -> decr_universe(m)
      [] i[1] = "set_univ_tag"  -> set_univ_tag(m, Y(i[2]), i[3])
      [] i[1] = "tag_exists_t"  -> tag_exists_t(m, X(i[2]))
      [] i[1] = "tag_exists_p"  -> tag_exists_p(m, Y(i[2]))

LogicalOps == {"incr_universe", "decr_universe", "set_univ_tag", "tag_exists_t",
               "tag_exists_p"}

Type(i) ==
    CASE i[1] = "put_type_variable_t"   -> put_type_variable_t(m, X(i[2]), X(i[3]))
      [] i[1] = "put_type_variable_p"   -> put_type_variable_p(m, Y(i[2]), X(i[3]))
      [] i[1] = "put_type_value_t"      -> put_type_value(m, X(i[2]), X(i[3]))
      [] i[1] = "put_type_value_p"      -> put_type_value(m, Y(i[2]), X(i[3]))
      [] i[1] = "put_type_unsafe_value" -> put_type_unsafe_value(m, Y(i[2]), X(i[3]))
      [] i[1] = "put_type_const"        -> put_type_const(m, X(i[2]), i[3])
      [] i[1] = "put_type_structure"    -> put_type_structure(m, X(i[2]), i[3])
      [] i[1] = "put_type_arrow"        -> put_type_arrow(m, X(i[2]))
      [] i[1] = "set_type_variable_t"   -> set_type_variable(m, X(i[2]))
      [] i[1] = "set_type_variable_p"   -> set_type_variable(m, Y(i[2]))
      [] i[1] = "set_type_value_t"      -> set_type_value(m, X(i[2]))
      [] i[1] = "set_type_value_p"      -> set_type_value(m, Y(i[2]))
      [] i[1] = "set_type_local_value_t" -> set_type_local_value(m, X(i[2]))
      [] i[1] = "set_type_local_value_p" -> set_type_local_value(m, Y(i[2]))
      [] i[1] = "set_type_constant"     -> set_type_constant(m, i[2])
      [] i[1] = "get_type_variable_p"   -> get_type_variable(m, Y(i[2]), X(i[3]))
      [] i[1] = "get_type_value_t"      -> get_type_value(m, X(i[2]), X(i[3]))
      [] i[1] = "get_type_value_p"      -> get_type_value(m, Y(i[2]), X(i[3]))
      [] i[1] = "get_type_constant"     -> get_type_constant(m, X(i[2]), i[3])
      [] i[1] = "get_type_structure"    -> get_type_structure(m, X(i[2]), i[3])
      [] i[1] = "get_type_arrow"        -> get_type_arrow(m, X(i[2]))
      [] i[1] = "unify_type_variable_t" -> unify_type_variable(m, X(i[2]))
      [] i[1] = "unify_type_variable_p" -> unify_type_variable(m, Y(i[2]))
      [] i[1] = "unify_type_value_t"    -> unify_type_value(m, X(i[2]))
      [] i[1] = "unify_type_value_p"    -> unify_type_value(m, Y(i[2]))
      [] i[1] = "unify_type_local_value_t" -> unify_type_local_value_t(m, X(i[2]))
      [] i[1] = "unify_type_local_value_p" -> unify_type_local_value_p(m, Y(i[2]))
      [] i[1] = "unify_envty_value_t"   -> unify_envty_value(m, X(i[2]))
      [] i[1] = "unify_envty_value_p"   -> unify_envty_value(m, Y(i[2]))
      [] i[1] = "unify_envty_local_value_t" -> unify_envty_local_value_t(m, X(i[2]))
      [] i[1] = "unify_envty_local_value_p" -> unify_envty_local_value_p(m, Y(i[2]))
      [] i[1] = "unify_type_constant"   -> unify_type_constant(m, i[2])

-----------------------------------------------------------------------------
(* The states.                                                             *)

NoEnv == StackBeg - 60
Tos == IF m.ereg > m.breg THEN m.ereg + 40 ELSE m.breg + 10

Goal == prog.goals[at.goal]
ArgRegs == 1..Len(Goal.args)

\* allocate: an environment on top of the stack.
Allocated(n) == [n EXCEPT !.ereg = Tos + 10, !.envuc = m.ucreg]

\* deallocate, and the cells above the last choice point are gone.
Deallocated(n, ereg, envuc) ==
    [n EXCEPT !.ereg = ereg, !.envuc = envuc,
              !.h = [a \in {b \in DOMAIN @ : b < StackBeg \/ b <= ereg + 40 \/ b <= n.breg} |-> @[a]]]

BodyEnv == IF prog.env THEN StackBeg + 20 ELSE NoEnv

Start(k, n) ==
    /\ at' = [phase |-> "goal", goal |-> k, clause |-> 0, pc |-> 1]
    /\ code' = AfterGoal(prog, k).code
    /\ m' = n

Init ==
    /\ prog \in Programs
    /\ at = [phase |-> "goal", goal |-> 1, clause |-> 0, pc |-> 1]
    /\ code = AfterGoal(prog, 1).code
    /\ m = [EmptyMachine EXCEPT !.ereg = BodyEnv, !.hb = HeapBeg]
    /\ cps = <<>>
    /\ called = <<>>

\* An instruction that leaves n is done.
Done(n) ==
    LET ins == code[at.pc]
        skip == IF n.jump THEN ins[Len(ins)] ELSE 0
    IN /\ m' = [n EXCEPT !.jump = FALSE]
       /\ at' = IF n.fail THEN [at EXCEPT !.phase = "fail"]
                ELSE [at EXCEPT !.pc = @ + 1 + skip]
       /\ UNCHANGED <<prog, code, cps, called>>

InCode == at.phase \in {"goal", "head", "end"} /\ at.pc <= Len(code)
Finished(phase) == at.phase = phase /\ at.pc > Len(code)
Ops == PutOps \cup SetOps \cup GetOps \cup UnifyOps \cup ValueOps \cup PatternOps \cup HigherOrderOps \cup LogicalOps
Next1(ops) == InCode /\ code[at.pc][1] \in ops

PutTerm    == Next1(PutOps) /\ Done(Put(code[at.pc]))
SetArg     == Next1(SetOps) /\ Done(Set(code[at.pc]))
GetTerm    == Next1(GetOps) /\ Done(Get(code[at.pc]))
UnifyArg   == Next1(UnifyOps) /\ Done(Unify(code[at.pc]))
WriteArgValue ==
    LET i == code[at.pc]
    IN m.write /\ Next1(ValueOps) /\ Done(NextS(WriteValue(i, Value(i), Deref(m, Value(i)))))
UnifyValues ==
    /\ Next1(PatternOps \cup IF m.write THEN {} ELSE ValueOps)
    /\ Done(UnifyPair(code[at.pc]))
UnifyTerms == Next1(HigherOrderOps) /\ Done(HigherOrder(code[at.pc]))
Scope      == Next1(LogicalOps) /\ Done(Logical(code[at.pc]))
Allocate   == Next1({"allocate"}) /\ Done(Allocated(m))
TypeStep   == InCode /\ code[at.pc][1] \notin Ops \cup {"allocate"} /\ Done(Type(code[at.pc]))

\* What the arguments mean as the goal is called, and what is known of the
\* variables in them: their universes and, where they are variables of the
\* source, their types.
Place(g, x) == IF Perm(g, x) THEN Y(g.perm[x]) ELSE X(g.reg[x])
VarAddrs(t) == {v[2] : v \in {u \in Atoms(t) : u[1] = "v"}}

Reading ==
    LET names(g, a) == {x \in g.seen \cap DOMAIN prog.ty : Meaning(m, Place(g, x)) = V(a)}
        typed(xs) == IF xs = {} THEN "?" ELSE prog.ty[CHOOSE x \in xs : TRUE]
        reading(g, terms, atoms, free, types) ==
            [terms |-> terms, ll |-> m.ll, ucreg |-> m.ucreg, types |-> types,
             tyvars |-> UNION {TypeVarsOf(types[j]) : j \in DOMAIN types}
                        \cup UNION {TypeVarsOf(c[3][1]) :
                                      c \in {d \in atoms : d[1] = "c" /\ d[3] # <<>>}},
             uc |-> [a \in free |-> m.h[a].uc],
             ty |-> [a \in free |-> typed(names(g, a))]]
        of(g, terms, types) == reading(g, terms, UNION {Atoms(terms[i]) : i \in ArgRegs},
                                       UNION {VarAddrs(terms[i]) : i \in ArgRegs}, types)
    IN of(AfterGoal(prog, at.goal), [i \in ArgRegs |-> Meaning(m, X(i))],
          [j \in 1..Len(Goal.tys) |-> ReadType(m, X(Len(Goal.args) + j))])

EnterClause(k, c) ==
    /\ at' = [phase |-> "head", goal |-> k, clause |-> c, pc |-> 1]
    /\ code' = HeadGen(prog, k, c).code

\* The registers above the arguments hold nothing of use to the callee.
OnlyArgs(n, k) ==
    [n EXCEPT !.h = [a \in {b \in DOMAIN @ : b <= X(Arity(prog.goals[k])) \/ b >= HeapBeg} |-> @[a]]]

\* call and execute; try_me_else where there is another clause.
Call ==
    LET goal == Goal
        last == prog.last /\ at.goal = Len(prog.goals)
        n == OnlyArgs(IF last THEN Deallocated(m, NoEnv, 0) ELSE m, at.goal)
        top == IF n.ereg > n.breg THEN n.ereg + 40 ELSE n.breg + 10
        cp == [goal |-> at.goal, next |-> 2, hreg |-> n.hreg, tr |-> Len(n.trail), ll |-> n.ll,
               ucreg |-> n.ucreg, ereg |-> n.ereg, envuc |-> n.envuc, breg |-> n.breg, hb |-> n.hb,
               regs |-> [a \in {b \in DOMAIN n.h : b < HeapBeg} |-> n.h[a]]]
    IN /\ Finished("goal")
       /\ EnterClause(at.goal, 1)
       /\ IF Len(goal.clauses) = 1 THEN m' = n /\ cps' = cps
          ELSE /\ m' = [n EXCEPT !.breg = top + 20, !.hb = n.hreg]
               /\ cps' = Append(cps, cp)
       /\ called' = Append(SubSeq(called, 1, at.goal - 1), Reading)
       /\ UNCHANGED prog

\* proceed.
Return ==
    /\ Finished("head")
    /\ IF at.goal < Len(prog.goals)
       THEN Start(at.goal + 1, Deallocated(m, BodyEnv, 0))
       ELSE /\ at' = [at EXCEPT !.phase = "end", !.pc = 1]
            /\ code' = [i \in 1..m.ucreg |-> <<"decr_universe">>]
            /\ m' = m
    /\ UNCHANGED <<prog, cps, called>>

\* A failure with no choice point left.
NoMore ==
    /\ at.phase = "fail" /\ cps = <<>>
    /\ at' = [at EXCEPT !.phase = "no"]
    /\ UNCHANGED <<prog, code, m, cps, called>>

\* Fault: there is always one more clause to come.
LastClauseFault(cp) == cp.next > Len(prog.goals[cp.goal].clauses)
LastClause(cp) == cp.next = Len(prog.goals[cp.goal].clauses)

\* SIM_simulate, then retry_me_else or trust_me: what the choice point saved
\* comes back; what was built since is gone.
Retry ==
    LET cp == cps[Len(cps)]
        u == UnwindTrail(m, cp.tr)
        kept == {a \in DOMAIN u.h : (a >= HeapBeg /\ a < cp.hreg) \/ (a >= StackBeg /\ a <= m.breg)}
        back == [u EXCEPT !.h = cp.regs @@ [a \in kept |-> u.h[a]], !.pdl = <<>>, !.pdlbot = 0,
                          !.bnd = FALSE, !.fail = FALSE, !.hreg = cp.hreg, !.ll = cp.ll,
                          !.ucreg = cp.ucreg, !.ereg = cp.ereg, !.envuc = cp.envuc]
    IN /\ at.phase = "fail" /\ cps # <<>>
       /\ EnterClause(cp.goal, cp.next)
       /\ IF LastClause(cp)
          THEN /\ m' = [back EXCEPT !.breg = cp.breg, !.hb = cp.hb]
               /\ cps' = SubSeq(cps, 1, Len(cps) - 1)
          ELSE /\ m' = [back EXCEPT !.hb = cp.hreg]
               /\ cps' = [cps EXCEPT ![Len(cps)].next = @ + 1]
       /\ called' = SubSeq(called, 1, cp.goal)
       /\ UNCHANGED prog

\* Another answer is asked for.
Again ==
    /\ Finished("end") /\ cps # <<>>
    /\ at' = [at EXCEPT !.phase = "fail"]
    /\ UNCHANGED <<prog, code, m, cps, called>>

\* The query is over: no other machine state is without a successor.
Ended ==
    /\ at.phase = "no" \/ (Finished("end") /\ cps = <<>>)
    /\ UNCHANGED vars

Next == \/ PutTerm \/ SetArg \/ GetTerm \/ UnifyArg \/ WriteArgValue \/ UnifyValues \/ UnifyTerms \/ Scope \/ Allocate
        \/ TypeStep \/ Call \/ Return \/ NoMore \/ Retry \/ Again
        \/ Ended

Spec == Init /\ [][Next]_vars

-----------------------------------------------------------------------------
(* Properties.                                                             *)

\* Machine states are machine states.
TypeOK ==
    /\ at.phase \in {"goal", "head", "end", "fail", "no"}
    /\ at.goal \in 1..Len(prog.goals) /\ at.clause \in 0..Len(Goal.clauses)
    /\ at.pc \in 1..(Len(code) + 1)
    /\ m.hreg >= HeapBeg /\ m.hb <= m.hreg
    /\ \A i \in DOMAIN cps : cps[i].next \in 2..Len(prog.goals[cps[i].goal].clauses)
    /\ Len(called) >= (IF at.phase = "goal" THEN at.goal - 1 ELSE at.goal)

\* The meaning of a source term, val giving that of its variables and tval
\* that of its type variables.
RECURSIVE TypeMeaning(_, _), Source(_, _, _)
TypeMeaning(ty, tval) ==
    CASE ty[1] = "tv" -> tval[ty[2]]
      [] ty[1] = "ap" /\ ty[3] = <<>> -> <<"s", ty[2]>>
      [] ty[1] = "ap" /\ ty[3] # <<>> ->
           <<"f", ty[2], [i \in DOMAIN ty[3] |-> TypeMeaning(ty[3][i], tval)]>>
      [] ty[1] = "arrow" -> <<"->", TypeMeaning(ty[2][1], tval), TypeMeaning(ty[2][2], tval)>>

Source(t, val, tval) ==
    CASE t[1] = "var" -> val[t[2]]
      [] t[1] = "c" -> <<"c", t[2], [i \in DOMAIN t[3] |-> TypeMeaning(t[3][i], tval)]>>
      [] t[1] \in {"nil", "cons"} -> <<"k", t[1]>>
      [] t[1] = "int" -> <<"i", t[2]>>
      [] t[1] = "bv" -> B(t[2])
      [] t[1] = "lam" -> Lams(t[2], Source(t[3], val, tval))
      [] t[1] = "app" -> Apply(Source(t[2], val, tval),
                               [i \in DOMAIN t[3] |-> Source(t[3][i], val, tval)])

TypeVars(g) == {x \in g.seen : x \in prog.tyvars}
TermVars(g) == g.seen \ prog.tyvars
TVal(g) == [x \in TypeVars(g) |-> ReadType(m, Place(g, x))]
Val(g) == [x \in TermVars(g) |-> Read(m, Place(g, x))]

\* The arguments of a goal and the variables it names are sound terms, none of
\* which is beyond what lasts, and no object of the heap refers to a register
\* or to the stack.
HeapClosed ==
    \A a \in DOMAIN m.h :
       a >= HeapBeg /\ a < m.hreg => \A b \in Succ(m.h[a]) : b >= HeapBeg /\ b < m.hreg

\* setUpGoalArgs: a goal is called with the terms it has in the source.
ArgsBuilt ==
    Finished("goal") =>
       LET built(val, tval) ==
              /\ \A i \in ArgRegs : Meaning(m, X(i)) = Normal(Source(Goal.args[i], val, tval), 30)
              /\ \A j \in DOMAIN Goal.tys :
                    ReadType(m, X(Len(Goal.args) + j)) = TypeMeaning(Goal.tys[j], tval)
           with(g) == built(Val(g), TVal(g))
       IN with(AfterGoal(prog, at.goal))

Now == called[at.goal]
Matched == Finished("head")

\* The values for free variables.
Bindings == [a \in DOMAIN Now.uc |-> Meaning(m, a)] @@ [a \in Now.tyvars |-> ReadType(m, a)]

\* The destructive routines keep the meaning: after the match each argument is
\* what it was when the goal was called, under the bindings made since.
OnlyInstantiated ==
    Matched =>
       /\ \A i \in ArgRegs : Meaning(m, X(i)) = Normal(Instantiate(Now.terms[i], Bindings), 30)
       /\ \A j \in DOMAIN Now.types :
             ReadType(m, X(Len(Goal.args) + j)) = InstantiateType(Now.types[j], Bindings)

\* A match with nothing left to be unified makes each argument equal to the
\* head's.
HeadUnified ==
    Matched /\ m.ll = NULL =>
       LET head == Goal.clauses[at.clause]
           equal(val, tval) ==
              /\ \A i \in ArgRegs : Meaning(m, X(i)) = Normal(Source(head.args[i], val, tval), 30)
              /\ \A j \in DOMAIN head.tys :
                    ReadType(m, X(Len(Goal.args) + j)) = TypeMeaning(head.tys[j], tval)
           with(g) == equal(Val(g), TVal(g))
       IN with(HeadGen(prog, at.goal, at.clause))

\* A term without suspensions and redexes, d objects deep at most.
RECURSIVE Normalised(_, _, _)
Normalised(n, a, d) ==
    LET c == n.h[Deref(n, a)]
    IN /\ d > 0 /\ c.tag # "susp"
       /\ c.tag = "app" => Tag(n, Deref(n, c.f)) \notin {"lam", "app"}
       /\ \A b \in Succ(c) : Normalised(n, b, d - 1)

\* Full normalisation, by which answers and disagreement pairs are printed,
\* leaves each argument with its meaning and with nothing to be contracted.
FullyNormal ==
    Finished("goal") \/ Matched =>
       \A i \in ArgRegs :
          LET same(n) == ~n.fail /\ Normalised(n, X(i), Depth) /\ Meaning(n, X(i)) = Meaning(m, X(i))
          IN same(Lnorm(m, X(i)))

\* The universe of a universal constant is its place among the quantifiers.
Univ(c) == IF c \in DOMAIN prog.univ THEN prog.univ[c] ELSE CstUniv[c]

InScope(t, u, uc(_)) ==
    \A x \in Atoms(t) : CASE x[1] = "c" -> Univ(x[2]) <= u
                          [] x[1] = "v" -> uc(x[2]) <= u
                          [] OTHER -> TRUE

\* No variable is bound to a term with a constant, or with a variable that may
\* yet be bound to one, of a universe the variable was quantified outside of.
Scoped ==
    Matched => \A a \in DOMAIN Now.uc :
       InScope(Meaning(m, a), Now.uc[a], LAMBDA b : m.h[b].uc)

\* Going back to a clause restores what the goal was called with.
Restored ==
    at.phase = "head" /\ at.pc = 1 /\ at.clause > 1 =>
       /\ \A i \in ArgRegs : Meaning(m, X(i)) = Now.terms[i]
       /\ \A a \in DOMAIN Now.uc : m.h[a].uc = Now.uc[a]
       /\ \A a \in Now.tyvars : ReadType(m, a) = <<"tv", a>>
       /\ m.ll = Now.ll /\ m.ucreg = Now.ucreg

\* Valuations of the variables free of known types, within their universes.
RECURSIVE Valuations(_, _, _)
Valuations(free, ty, uc) ==
    IF free = {} THEN {<<>>}
    ELSE LET a == CHOOSE b \in free : TRUE
             values == {x \in Values[ty[a]] : InScope(x, uc[a], LAMBDA b : 0)}
         IN {(a :> x) @@ v : x \in values, v \in Valuations(free \ {a}, ty, uc)}

\* The valuations of the arguments' variables under which the clause's head
\* matches.
Solutions(clause) ==
    LET head == Goal.clauses[clause].args
        ground(v) == [i \in ArgRegs |-> Normal(Instantiate(Now.terms[i], v), 30)]
        heads == {[i \in ArgRegs |-> Normal(Source(head[i], w, <<>>), 30)] :
                     w \in Valuations(TermVars(HeadGen(prog, at.goal, clause)), prog.ty,
                                     [x \in DOMAIN prog.ty |-> Now.ucreg])}
    IN {v \in Valuations(DOMAIN Now.uc, Now.ty, Now.uc) : ground(v) \in heads}

\* Whether there is something to compare with: a program without types, whose
\* variables all come from the source.
Comparable ==
    /\ prog.tyvars = {} /\ prog.typed = FALSE
    /\ \A a \in DOMAIN Now.ty : Now.ty[a] # "?"
    /\ Goal.clauses[at.clause].mapped = <<>>

\* Unification fails only where the terms have no instance in common.
NoSolutionLost ==
    at.phase = "fail" /\ at.clause > 0 /\ at.pc <= Len(code) /\ Now.ll = NULL /\ Comparable
       => Solutions(at.clause) = {}

\* The unifier found has every solution as an instance: the variables it leaves
\* free can be given the solution's values, and those it introduced, NewVars of
\* them at most, some values that make the bound ones equal to the solution's.
NewVars == 2
MostGeneral ==
    Matched /\ m.ll = NULL /\ Now.ll = NULL /\ Comparable =>
       LET free == DOMAIN Now.uc
           term == [a \in free |-> Meaning(m, a)]
           left == UNION {VarAddrs(term[a]) : a \in free}
           new == left \ free
           bound == {a \in free : term[a] # V(a)}
           uc == [b \in left |-> m.h[b].uc]
       IN Cardinality(new) <= NewVars =>
             \A v \in Solutions(at.clause) :
                /\ \A a \in left \cap free : InScope(v[a], uc[a], LAMBDA b : 0)
                /\ \E r \in Valuations(new, [b \in new |-> prog.new], uc) :
                      \A a \in bound : Normal(Instantiate(term[a], r @@ v), 30) = v[a]
=============================================================================
