----------------------------- MODULE ClauseGen ------------------------------
(***************************************************************************)
(* The shapes of compiled clauses: what genClauseCode and genGoal of       *)
(* compiler/clausegen.ml emit around the instructions for terms, types and *)
(* registers.  Of the head, only one "unify" stands for all its get        *)
(* instructions.  Labels are addresses, so that code is generated for a    *)
(* given start location.                                                   *)
(***************************************************************************)
EXTENDS AnnVariables

Instr(op)     == [op |-> op]
InstrY(op, y) == [op |-> op, y |-> y]
InstrN(op, n) == [op |-> op, n |-> n]

\* getGoalEnvSize: past the last goal with an entry, no variable is needed.
EnvSize(A, num) == IF num \in DOMAIN A.sizes THEN A.sizes[num] ELSE 0

\* What ends a goal that is last in its clause.
Dealloc(A) == IF A.env THEN <<Instr("deallocate")>> ELSE <<>>

Ending(A)  == Dealloc(A) \o <<Instr("proceed")>>

\* Code, with the number of the next goal and the variables that have a value
\* after it.
Emit(code, num, set) == [code |-> code, num |-> num, set |-> set]

Permanent(A, vs) == SelectSeq(vs, LAMBDA x : x \in DOMAIN A.slot)
Each(A, op, vs)  == [k \in DOMAIN vs |-> InstrY(op, A.slot[vs[k]])]

-----------------------------------------------------------------------------
\* Atomic goals.

GenCut(A, num, last, set) ==
    Emit(<<IF num = 1 THEN Instr("neck_cut") ELSE InstrY("cut", A.slot[CutVar])>>
            \o (IF last THEN Ending(A) ELSE <<>>), num, set)

\* Nothing but the deallocation comes of a last "true" with an environment.
GenTrue(A, num, last, set) ==
    Emit(IF ~last THEN <<>>
         ELSE IF A.env THEN <<Instr("deallocate")>> ELSE <<Instr("proceed")>>,
         num, set)

\* The permanent variables among the arguments; the first time one is met it
\* is made there.
GenArgs(A, vs, set) ==
    LET ps == Permanent(A, vs)
        Met(k) == set \cup {ps[j] : j \in 1 .. k - 1}
    IN  [k \in DOMAIN ps |->
            InstrY(IF ps[k] \in Met(k) THEN "put_value" ELSE "put_variable",
                   A.slot[ps[k]])]

\* The goal is left for good when it is last, else called.
GenCall(g, A, num, last, label, set) ==
    LET args == GenArgs(A, g.vs, set)
        met  == set \cup {g.vs[k] : k \in DOMAIN g.vs}
        goto == IF g.kind = "call" THEN [op |-> "execute_name", c |-> g.c]
                ELSE [op |-> "execute", l |-> label[g.c]]
        call == IF g.kind = "call"
                THEN [op |-> "call_name", c |-> g.c, n |-> EnvSize(A, num)]
                ELSE [op |-> "call", l |-> label[g.c], n |-> EnvSize(A, num)]
    IN  IF last THEN Emit(args \o Dealloc(A) \o <<goto>>, num, met)
        ELSE Emit(args \o <<call>>, num + 1, met)

\* Goals.  The body of a universal goal or an implication is never last: what
\* it added must be taken away after it.
Then(x, y) == [y EXCEPT !.code = x.code \o @]

Within(before, b, after, A, last) ==
    [b EXCEPT !.code = before \o @ \o <<after>>
                         \o (IF last THEN Ending(A) ELSE <<>>)]
Also(set, vs) == set \cup {vs[k] : k \in DOMAIN vs}

RECURSIVE GenGoal(_, _, _, _, _, _)
GenAnd(x, g, A, last, label) ==
    Then(x, GenGoal(g, A, x.num, last, label, x.set))
GenGoal(g, A, num, last, label, set) ==
    CASE g.kind = "and" ->
            GenAnd(GenGoal(g.l, A, num, FALSE, label, set), g.r, A, last, label)
      [] g.kind = "some" ->
            Then([code |-> Each(A, "tag_exists", Permanent(A, <<g.x>>))],
                 GenGoal(g.body, A, num, last, label, set \cup {g.x}))
      [] g.kind = "all" ->
            Within(<<Instr("incr_universe")>> \o Each(A, "set_univ_tag", g.vs),
                   GenGoal(g.body, A, num, FALSE, label, Also(set, g.vs)),
                   Instr("decr_universe"), A, last)
      [] g.kind = "imp" ->
            Within(Each(A, "tag_variable",
                        SelectSeq(g.vs, LAMBDA x : x \notin set))
                     \o <<[op |-> "push_impl_point", t |-> g.t,
                           n |-> EnvSize(A, num)]>>,
                   GenGoal(g.body, A, num, FALSE, label, Also(set, g.vs)),
                   Instr("pop_impl_point"), A, last)
      [] g.kind = "cut" -> GenCut(A, num, last, set)
      [] g.kind = "true" -> GenTrue(A, num, last, set)
      [] g.kind \in {"fail", "stop"} -> Emit(<<Instr(g.kind)>>, num, set)
      [] OTHER -> GenCall(g, A, num, last, label, set)

-----------------------------------------------------------------------------
\* genClauseHeadCode: the environment, the variables shared with the enclosing
\* clause, unification, the permanent variables of the head.
InitVar(A, x, m) ==
    IF x \in DOMAIN A.slot
    THEN [op |-> "init_variable", y |-> A.slot[x], m |-> m]
    ELSE [op |-> "init_variable_t", m |-> m]

GenHead(cl, A) ==
    (IF A.env THEN <<InstrN("allocate", EnvSize(A, 1) + 1)>> ELSE <<>>)
      \o [k \in DOMAIN cl.mapped |->
             InitVar(A, cl.mapped[k], Annotate(cl.within).slot[cl.mapped[k]])]
      \o (IF cl.unify THEN <<Instr("unify")>> ELSE <<>>)
      \o Each(A, "get_variable", Permanent(A, cl.head))
      \o (IF CutVar \in DOMAIN A.slot
          THEN <<InstrY("get_level", A.slot[CutVar])>> ELSE <<>>)

\* genClauseBodyCode, for a body that starts at start.
PushPop(k, body, A, start) ==
    <<[op |-> "add_imports", n |-> 1, m |-> EnvSize(A, 1),
       l |-> start + 1 + Len(k)]>>
      \o [j \in DOMAIN k |-> [op |-> "push_import", t |-> k[j]]]
      \o body
      \o <<[op |-> "remove_imports", n |-> 1,
            l |-> start + 1 + Len(k) + Len(body) + 2],
           InstrN("pop_imports", Len(k)), Instr("deallocate"), Instr("proceed")>>

BodyCode(cl, A, last, label) ==
    GenGoal(cl.goal, A, 1, last, label, Also(Also({}, cl.head), cl.mapped)).code

GenBody(cl, A, start, label) ==
    IF cl.imports = <<>> THEN BodyCode(cl, A, TRUE, label)
    ELSE PushPop(cl.imports, BodyCode(cl, A, FALSE, label), A, start)

\* genClauseCode.
WithHead(head, cl, A, start, label) ==
    head \o (IF cl.goal = Fact THEN <<Instr("proceed")>>
             ELSE GenBody(cl, A, start + Len(head), label))
WithAnnotation(cl, A, start, label) ==
    WithHead(GenHead(cl, A), cl, A, start, label)
GenClause(cl, start, label) == WithAnnotation(cl, Annotate(cl), start, label)
=============================================================================
