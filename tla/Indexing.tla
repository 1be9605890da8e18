------------------------------ MODULE Indexing ------------------------------
(***************************************************************************)
(* In what order the clauses of a predicate are tried: the choice and      *)
(* indexing instructions of simulator/siminstr.c alone, run on the code of *)
(* one definition until it fails for good.  Control has the same           *)
(* instructions with all they do to the stack; here the argument is known, *)
(* so that it can be said which clauses a call must come to.               *)
(*                                                                         *)
(* A program is a record: code; entry, where the definition starts;       *)
(* firsts, the first argument of each clause (see CodeGen), in the order  *)
(* in which they are to be tried; merged, whether the linker has been at   *)
(* it, and shared, whether it found two clauses for one key in a           *)
(* definition.  The code of clause k is one "execute_name" of k, which     *)
(* fails.                                                                  *)
(***************************************************************************)
EXTENDS Integers, Sequences

CONSTANTS Programs,   \* the definitions
          Args        \* first arguments: "var", "cons", "bvar" or constants

VARIABLES
    prg,      \* the program
    arg,      \* the head of the first argument
    outer,    \* is there a definition for an open one to extend?
    p,        \* AM_preg; 0 when there is nothing left to try
    ncl,      \* the next clause of each choice point
    tried     \* the clauses come to; 0 is the definition extended

vars == <<prg, arg, outer, p, ncl, tried>>

I == prg.code[p]
Is(op) == p # 0 /\ I.op = op
Last == Len(ncl)
Rest == SubSeq(ncl, 1, Last - 1)

\* Where the switch_on_term i leads for a first argument with head a.
TermLabel(i, a) == CASE a = "var" -> i.v
                     [] a = "cons" -> i.l
                     [] a = "bvar" -> i.b
                     [] OTHER -> i.c

\* Going to q with choice points cs.
Go(q, cs) == p' = q /\ ncl' = cs /\ UNCHANGED <<prg, arg, outer, tried>>

\* The handler of EM_FAIL: the next clause of the newest choice point.
Failing == /\ p' = IF ncl = <<>> THEN 0 ELSE ncl[Last]
           /\ UNCHANGED <<prg, arg, outer, ncl>>

Init == /\ prg \in Programs
        /\ arg \in Args
        /\ outer \in BOOLEAN
        /\ p = prg.entry
        /\ ncl = <<>>
        /\ tried = <<>>

TryMeElse == Is("try_me_else") /\ Go(p + 1, Append(ncl, I.l))
TryElse   == Is("try_else") /\ Go(I.k, Append(ncl, I.l))
Try       == Is("try") /\ Go(I.l, Append(ncl, p + 1))

\* Fault: the clauses left are forgotten.
Retry_Last == Is("retry") /\ ncl # <<>> /\ Go(I.l, Rest)

RetryMeElse == Is("retry_me_else") /\ ncl # <<>> /\ Go(p + 1, Append(Rest, I.l))
RetryElse   == Is("retry_else") /\ ncl # <<>> /\ Go(I.k, Append(Rest, I.l))
Retry       == Is("retry") /\ ncl # <<>> /\ Go(I.l, Append(Rest, p + 1))

\* Fault: the choice point outlives its last clause.
Trust_KeepsPoint == Is("trust") /\ ncl # <<>> /\ Go(I.l, ncl)

TrustMe == Is("trust_me") /\ ncl # <<>> /\ Go(p + 1, Rest)
Trust   == Is("trust") /\ ncl # <<>> /\ Go(I.l, Rest)

\* The definition extended is run by failing.
TrustExt ==
    /\ Is("trust_ext") /\ ncl # <<>>
    /\ tried' = Append(tried, 0)
    /\ ncl' = Rest
    /\ p' = IF Rest = <<>> THEN 0 ELSE Rest[Len(Rest)]
    /\ UNCHANGED <<prg, arg, outer>>

\* Fault: the first label is the definition itself.
SwitchOnReg_SelfLabel == Is("switch_on_reg") /\ Go(IF outer THEN p ELSE I.k, ncl)

SwitchOnReg == Is("switch_on_reg") /\ Go(IF outer THEN I.l ELSE I.k, ncl)

\* Fault: the switch takes every first argument to be flexible.
SwitchOnTerm_AlwaysVar == Is("switch_on_term") /\ Go(I.v, ncl)

SwitchOnTerm == Is("switch_on_term") /\ Go(TermLabel(I, arg), ncl)

SwitchOnConstant ==
    /\ Is("switch_on_constant")
    /\ IF arg \in DOMAIN I.tab THEN Go(I.tab[arg], ncl)
       ELSE Failing /\ UNCHANGED tried

Fail == Is("fail") /\ Failing /\ UNCHANGED tried

Clause == /\ Is("execute_name")
          /\ tried' = Append(tried, I.c)
          /\ Failing

\* Nothing is left to try.
Done == p = 0 /\ UNCHANGED vars

Step == \/ TryMeElse \/ TryElse \/ Try \/ RetryMeElse \/ RetryElse \/ Retry
        \/ TrustMe \/ Trust \/ TrustExt
        \/ SwitchOnReg \/ SwitchOnTerm \/ SwitchOnConstant \/ Fail \/ Clause

Next == Step \/ Done

Spec == Init /\ [][Next]_vars

\* SIM_simulate runs as long as there is an instruction.
FairSpec == Spec /\ WF_vars(Step)

-----------------------------------------------------------------------------
\* What must be tried: a clause can match if either first argument is
\* flexible, or both have the same head; then the definition extended.
ClausesFor(pr, a) == {k \in DOMAIN pr.firsts : a = "var" \/ pr.firsts[k] \in {"var", a}}
IsOpen(pr) == pr.code[pr.entry].op = "switch_on_reg"
ExpectedOf(pr, a, o) == ClausesFor(pr, a) \cup (IF IsOpen(pr) /\ o THEN {0} ELSE {})

Clauses == ClausesFor(prg, arg)
Expected == ExpectedOf(prg, arg, outer)

Before(k, j) == k # 0 /\ (j = 0 \/ k < j)
Tried == {tried[j] : j \in 1 .. Len(tried)}

\* Indexing and linking keep the order of the source: no clause is tried twice
\* or before one that precedes it.
SourceOrder ==
    \A i, j \in 1 .. Len(tried) : i < j => Before(tried[i], tried[j])

\* No clause that could match has been passed over when a later one is tried,
\* and all of them have been tried when the call fails.
NoneSkipped ==
    \A k \in Expected :
       p = 0 \/ (\E j \in Tried : Before(k, j)) => k \in Tried

\* The same of definitions that were not both linked and with two clauses for
\* one key in one of them: the others are those the linker gets wrong.
NoneSkippedApart == ~prg.shared => NoneSkipped

\* When every clause has a rigid first argument and there is nothing to
\* extend, the index of the compiler lets a call with a rigid first argument
\* come to its last clause without a choice point: that call is deterministic.
Keyed(pr, a, o) == /\ ~pr.merged /\ ~o /\ a \notin {"var", "bvar"}
                   /\ \A k \in DOMAIN pr.firsts : pr.firsts[k] # "var"
IsKeyed == Keyed(prg, arg, outer)

LastIsDeterministic ==
    /\ IsKeyed /\ Is("execute_name")
    /\ I.c \in Clauses /\ \A k \in Clauses : k <= I.c
    => ncl = <<>>

\* A call whose clauses all fail comes to an end.
Fails == <>(p = 0)

-----------------------------------------------------------------------------
\* The code of a definition as a graph, for a first argument a and o, whether
\* there is something to extend.  The two ways on from the instruction at q:
\* where it goes, unless it fails, and what it leaves to be tried, if anything.
Goes(pr, q, a, o) ==
    LET i == pr.code[q]
    IN  CASE i.op \in {"try_me_else", "retry_me_else", "trust_me"} -> {q + 1}
          [] i.op \in {"try_else", "retry_else"} -> {i.k}
          [] i.op \in {"try", "retry", "trust"} -> {i.l}
          [] i.op = "switch_on_reg" -> {IF o THEN i.l ELSE i.k}
          [] i.op = "switch_on_term" -> {TermLabel(i, a)}
          [] i.op = "switch_on_constant" -> {i.tab[c] : c \in {a} \cap DOMAIN i.tab}
          [] OTHER -> {}

Leaves(pr, q) ==
    LET i == pr.code[q]
    IN  CASE i.op \in {"try_me_else", "retry_me_else", "try_else", "retry_else"} -> {i.l}
          [] i.op \in {"try", "retry"} -> {q + 1}
          [] OTHER -> {}

WaysOn(pr, q, a, o) == Goes(pr, q, a, o) \cup Leaves(pr, q)

\* The addresses that can be come to from q.
From(pr, a, o) ==
    LET from[q \in DOMAIN pr.code] ==
            {q} \cup UNION {from[r] : r \in WaysOn(pr, q, a, o)}
    IN  from
Reachable(pr, a, o) == From(pr, a, o)[pr.entry]

\* The clauses at an address, and at those that can be come to from it.
ClauseAt(pr, q) == CASE pr.code[q].op = "execute_name" -> {pr.code[q].c}
                     [] pr.code[q].op = "trust_ext" -> {0}
                     [] OTHER -> {}
ClausesFrom(pr, a, o, q) == UNION {ClauseAt(pr, r) : r \in From(pr, a, o)[q]}

\* The instructions that a choice point leads to.
Alternatives == {"retry_me_else", "retry_else", "retry", "trust_me", "trust", "trust_ext"}
IsAlternative(pr, q) == pr.code[q].op \in Alternatives

\* Code as the compiler makes it: an instruction leaves an alternative for
\* later, goes on with something else, and the clauses it goes on with precede
\* those it leaves.
Sequential(pr, a, o, q) ==
    /\ From(pr, a, o)[q] = {q} \cup UNION {From(pr, a, o)[r] : r \in WaysOn(pr, q, a, o)}
    /\ \A r \in Goes(pr, q, a, o) : ~IsAlternative(pr, r)
    /\ \A l \in Leaves(pr, q) : IsAlternative(pr, l)
    /\ \A r \in Goes(pr, q, a, o), l \in Leaves(pr, q) :
          \A j \in ClausesFrom(pr, a, o, r), k \in ClausesFrom(pr, a, o, l) : Before(j, k)

\* No clause that could match is out of reach.
Complete(pr, a, o) ==
    ExpectedOf(pr, a, o) \subseteq ClausesFrom(pr, a, o, pr.entry)

\* Every alternative leads to a clause that can match.
Lean(pr, a, o) ==
    \A q \in Reachable(pr, a, o) :
       IsAlternative(pr, q) => ClausesFrom(pr, a, o, q) \cap ClausesFor(pr, a) # {}

Indexed(pr, a, o) ==
    /\ 0 \notin DOMAIN pr.firsts
    /\ ~IsAlternative(pr, pr.entry)
    /\ ClausesFrom(pr, a, o, pr.entry) \subseteq Nat
    /\ pr.entry \in Reachable(pr, a, o)
    /\ \A q \in Reachable(pr, a, o) :
          /\ q # 0 /\ WaysOn(pr, q, a, o) \subseteq Reachable(pr, a, o)
          /\ Sequential(pr, a, o, q)
    /\ Complete(pr, a, o)
    /\ Keyed(pr, a, o) => Lean(pr, a, o)

\* Only the linker brings two clauses for one key under one label.
ASSUME SharedByLinking == \A pr \in Programs : pr.shared => pr.merged

\* What the compiler and the linker owe the instructions.
ASSUME IndexedPrograms ==
    \A pr \in Programs, a \in Args, o \in BOOLEAN : ~pr.shared => Indexed(pr, a, o)
=============================================================================
