---------------------------- MODULE AnnVariables ----------------------------
(***************************************************************************)
(* Which variables of a clause live in its environment, in which slots,    *)
(* and how large the environment still has to be at each goal              *)
(* (compiler/annvariables.ml).  The sizes become the operands by which the *)
(* abstract machine trims environments.                                    *)
(*                                                                         *)
(* Arguments are variables; terms around them, and types, are left out.    *)
(* A clause is a record: head, the variables that are its arguments;       *)
(* unify, whether there is more to its head; mapped, the variables it      *)
(* shares with the clause within which it is embedded; imports; goal.      *)
(***************************************************************************)
EXTENDS Integers, Sequences, FiniteSets, TLC

Fact == [kind |-> "fact"]

Pred(c, vs)   == [kind |-> "call", c |-> c, vs |-> vs]    \* called by name
Anon(c, vs)   == [kind |-> "local", c |-> c, vs |-> vs]   \* of an anonymous predicate
Cut           == [kind |-> "cut"]
Perv(op)      == [kind |-> op]                            \* true, fail, stop
And(g, h)     == [kind |-> "and", l |-> g, r |-> h]
All(vs, g)    == [kind |-> "all", vs |-> vs, body |-> g]
Some(x, g)    == [kind |-> "some", x |-> x, body |-> g]
\* Implication: the table of its clauses, the variables they share with the
\* clause the implication is in, and its goal.
Imp(t, vs, g) == [kind |-> "imp", t |-> t, vs |-> vs, body |-> g]

\* The variable for the cut point of a clause.
CutVar == "!"

-----------------------------------------------------------------------------
\* What is known of the clause so far: the number of the current goal, whether
\* only pervasive goals that leave the registers alone precede it since the
\* last call, and of each variable, in the order in which they were met, the
\* first and last goal, whether it is permanent and whether the body binds it.
State0 == [num |-> 1, perv |-> FALSE, order |-> <<>>, info |-> <<>>]

Known(s, x) == x \in DOMAIN s.info

\* initVarData.
Meet(s, x, perm, quant) ==
    [s EXCEPT !.order = Append(@, x),
              !.info = (x :> [first |-> s.num, last |-> s.num,
                              perm |-> perm, quant |-> quant]) @@ @]

\* A variable as an argument of a goal: it is permanent once it is met again
\* at another goal, or as an argument that must have a place.
Occur(s, x, perm) ==
    IF ~Known(s, x) THEN Meet(s, x, perm, FALSE)
    ELSE [s EXCEPT !.info[x].perm = @ \/ s.info[x].first # s.num
                                      \/ (perm /\ s.info[x].quant),
                   !.info[x].last = s.num]

\* processCutGoal, for a deep cut.
MeetCut(s) == IF Known(s, CutVar) THEN [s EXCEPT !.info[CutVar].last = s.num]
              ELSE Meet(s, CutVar, TRUE, FALSE)

\* processVarMaps: a variable shared with an embedded clause is permanent.
MeetMapped(s, x) == IF Known(s, x) THEN [s EXCEPT !.info[x].perm = TRUE]
                    ELSE Meet(s, x, TRUE, FALSE)

RECURSIVE Fold(_, _, _)
Fold(op(_, _), s, xs) ==
    IF xs = <<>> THEN s ELSE Fold(op, op(s, Head(xs)), Tail(xs))

Done(s, hasenv, notrim) == [s |-> s, hasenv |-> hasenv, notrim |-> notrim]
NextGoal(s) == [s EXCEPT !.num = @ + 1]

\* processGoal: the state after it, whether the goal needs an environment, and
\* whether nothing may be trimmed at the last goal.
NoTrim(d) == [d EXCEPT !.notrim = TRUE]

CutDone(s, last) ==
    Done(IF last THEN NextGoal(s) ELSE s, FALSE, last /\ s.perv)
CallDone(s, last) ==
    Done([NextGoal(s) EXCEPT !.perv = FALSE], ~last, last /\ s.perv)
PervDone(s, last) ==
    Done(IF last THEN NextGoal(s) ELSE [s EXCEPT !.perv = TRUE],
         ~last, last /\ s.perv)

\* Variables shared with embedded clauses are needed until goal at.
Until(d, vs, at) ==
    [NoTrim(d) EXCEPT !.s.info = [x \in DOMAIN @ |->
        IF \E k \in DOMAIN vs : vs[k] = x THEN [@[x] EXCEPT !.last = at] ELSE @[x]]]
ImpDone(d, vs, last) == Until(d, vs, IF last THEN d.s.num - 1 ELSE d.s.num)

RECURSIVE Goal(_, _, _, _)
AndThen(d, g, perm, last) ==
    LET r == Goal(g, d.s, perm, last) IN [r EXCEPT !.hasenv = @ \/ d.hasenv]
Goal(g, s, perm, last) ==
    CASE g.kind = "and" -> AndThen(Goal(g.l, s, TRUE, FALSE), g.r, perm, last)
      [] g.kind = "some" -> Goal(g.body, Meet(s, g.x, perm, TRUE), perm, last)
      [] g.kind = "all" ->
            LET met(t, x) == Meet(t, x, TRUE, TRUE)
            IN  NoTrim(Goal(g.body, Fold(met, s, g.vs), TRUE, last))
      [] g.kind = "imp" ->
            ImpDone(Goal(g.body, Fold(MeetMapped, s, g.vs), TRUE, last), g.vs, last)
      [] g.kind = "cut" -> CutDone(IF s.num > 1 THEN MeetCut(s) ELSE s, last)
      [] g.kind \in {"call", "local"} ->
            LET arg(t, x) == Occur(t, x, perm)
            IN  CallDone(Fold(arg, s, g.vs), last)
      [] OTHER -> PervDone(s, last)

-----------------------------------------------------------------------------
\* The head, where nothing is permanent yet.
HeadState(cl) ==
    LET arg(s, x) == IF Known(s, x) THEN s ELSE Meet(s, x, FALSE, FALSE)
    IN  Fold(arg, State0, cl.head)

\* assignPermVars: a variable belongs to the bucket of its last goal; without
\* notrim the last goal, before which the environment goes, counts with the
\* one before it.  The variables needed longest have the lowest slots.
Bucket(i, end, notrim) ==
    IF i.last = end - 1 /\ ~notrim THEN i.last - 1 ELSE i.last

\* Given the permanent variables, in order, and the bucket of each.
Slots(perms, bucket) ==
    [x \in DOMAIN bucket |->
        Cardinality({k \in DOMAIN perms :
            \/ bucket[perms[k]] > bucket[x]
            \/ bucket[perms[k]] = bucket[x]
                 /\ \E j \in k .. Len(perms) : perms[j] = x})]

Sizes(n, bucket) ==
    [k \in 1 .. n |-> Cardinality({x \in DOMAIN bucket : bucket[x] >= k})]

Buckets(s, notrim) ==
    [x \in {y \in DOMAIN s.info : s.info[y].perm} |->
        Bucket(s.info[x], s.num, notrim)]

Assign(s, env, notrim, bucket) ==
    [env |-> env,
     slot |-> Slots(SelectSeq(s.order, LAMBDA x : s.info[x].perm), bucket),
     sizes |-> Sizes(IF notrim THEN s.num - 1 ELSE s.num - 2, bucket)]
Assigned(d) ==
    Assign(d.s, d.hasenv \/ d.notrim, d.notrim, Buckets(d.s, d.notrim))

\* processClause: env, whether the clause has an environment; slot, of each
\* permanent variable; sizes, at each goal.  Nothing is trimmed in a clause
\* with imports.
Annotate(cl) ==
    CASE cl.goal = Fact -> [env |-> FALSE, slot |-> <<>>, sizes |-> <<>>]
      [] cl.imports = <<>> -> Assigned(Goal(cl.goal, HeadState(cl), FALSE, TRUE))
      [] OTHER -> Assigned(NoTrim(Goal(cl.goal, HeadState(cl), TRUE, TRUE)))
=============================================================================
