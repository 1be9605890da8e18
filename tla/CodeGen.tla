------------------------------ MODULE CodeGen -------------------------------
(***************************************************************************)
(* The code of definitions: the choice and indexing instructions around    *)
(* their clauses (compiler/codegen.ml).  A clause has one more field,      *)
(* first: "var" if the head of its first argument is a free variable,      *)
(* "cons" for a nonempty list, "bvar" for a bound variable, else the       *)
(* constant that it is (one for all integers, reals or strings).           *)
(***************************************************************************)
EXTENDS ClauseGen, TLC

FailLoc == 1    \* failInstrLoc: the fail instruction comes first

\* The definition being compiled: its clauses, their number of arguments, where
\* its code starts, and the labels of the predicates it may call.
Defn(cls, n, start, label) == [cls |-> cls, n |-> n, start |-> start, label |-> label]

\* The code so far, and where the code of each clause starts.
Code0(P) == [code |-> <<>>, offs |-> [k \in DOMAIN P.cls |-> 0]]
Loc(P, S) == P.start + Len(S.code)
Put(S, ins) == [S EXCEPT !.code = Append(@, ins)]
PutClause(P, S, k) ==
    [code |-> S.code \o GenClause(P.cls[k], Loc(P, S), P.label),
     offs |-> [S.offs EXCEPT ![k] = Loc(P, S)]]

-----------------------------------------------------------------------------
\* Choice instructions.

\* What goes before one of several alternatives.
Choice(P, S, first, last) ==
    CASE first /\ last -> S
      [] last -> Put(S, InstrN("trust_me", P.n))
      [] OTHER -> Put(S, [op |-> IF first THEN "try_me_else" ELSE "retry_me_else",
                          n |-> P.n, l |-> FailLoc])

\* T follows a choice instruction, the ith: its label is the next alternative.
Chosen(P, i, T, last) == IF last THEN T ELSE [T EXCEPT !.code[i].l = Loc(P, T)]

VarClause(P, S, k, first, last) ==
    Chosen(P, Len(S.code) + 1, PutClause(P, Choice(P, S, first, last), k), last)

\* genVarClausesCode: the clauses ks, each tried after the one before; first
\* and last tell whether there are alternatives before and after them.
RECURSIVE VarClauses(_, _, _, _, _)
VarClauses(P, S, ks, first, last) ==
    IF ks = <<>> THEN S
    ELSE VarClauses(P, VarClause(P, S, Head(ks), first, last /\ Len(ks) = 1),
                    Tail(ks), FALSE, last)

-----------------------------------------------------------------------------
\* Indexing.

\* genCodeTableEntry: where to go for the clauses ks, nothing being known but
\* their order.
Entry(P, S, ks) == IF Len(ks) = 1 THEN S.offs[ks[1]] ELSE Loc(P, S)

Sequence(P, S, ks) ==
    IF Len(ks) = 1 THEN S
    ELSE [S EXCEPT !.code = @ \o
             [j \in DOMAIN ks |->
                [op |-> IF j = 1 THEN "try" ELSE IF j = Len(ks) THEN "trust"
                        ELSE "retry",
                 n |-> P.n, l |-> S.offs[ks[j]]]]]

\* genSwConstCode: a table with an entry for each constant, here on the way.
Constants(P, ks) == {P.cls[k].first : k \in {ks[j] : j \in DOMAIN ks}}
                        \ {"cons", "bvar"}

With(P, ks, c) == SelectSeq(ks, LAMBDA k : P.cls[k].first = c)

RECURSIVE ConstTable(_, _, _, _, _)
NextConst(P, S, ks, c, cs, tab) ==
    ConstTable(P, Sequence(P, S, With(P, ks, c)), ks, cs \ {c},
               tab @@ (c :> Entry(P, S, With(P, ks, c))))
ConstTable(P, S, ks, cs, tab) ==
    IF cs = {} THEN [S |-> S, tab |-> tab]
    ELSE NextConst(P, S, ks, CHOOSE c \in cs : TRUE, cs, tab)

\* genPartitionCode: rigid clauses, by the first argument.  All of them are
\* tried when it is flexible, or has a bound variable as its head.
VarCode(P, S, ks) ==
    VarClauses(P, Put(S, [op |-> "switch_on_term", v |-> Loc(P, S) + 1, c |-> FailLoc,
                          l |-> FailLoc, b |-> Loc(P, S) + 1]),
               ks, TRUE, TRUE)
SwitchOnConstant(P, T, at) ==
    IF DOMAIN T.tab = {} THEN T.S
    ELSE [Put(T.S, [op |-> "switch_on_constant", tab |-> T.tab])
             EXCEPT !.code[at].c = Loc(P, T.S)]
ConstCode(P, V, ks, at) ==
    SwitchOnConstant(P, ConstTable(P, V, ks, Constants(P, ks), <<>>), at)

ConsCode(P, C, ks, at) ==
    IF ks = <<>> THEN C
    ELSE [Sequence(P, C, ks) EXCEPT !.code[at].l = Entry(P, C, ks)]
SwitchOnTerm(P, S, ks) ==
    ConsCode(P, ConstCode(P, VarCode(P, S, ks), ks, Len(S.code) + 1),
             With(P, ks, "cons"), Len(S.code) + 1)

Rigid(P, S, ks, first, last) ==
    IF Len(ks) = 1 THEN VarClauses(P, S, ks, first, last)
    ELSE Chosen(P, Len(S.code) + 1,
                SwitchOnTerm(P, Choice(P, S, first, last), ks), last)

\* calculateIndexing and genSwitchCode: runs of clauses with a free variable
\* for a first argument, and runs of others, from clause k on.
IsVar(P, k) == P.n = 0 \/ P.cls[k].first = "var"
RunEnd(P, k) == CHOOSE j \in k .. Len(P.cls) :
                   /\ \A i \in k .. j : IsVar(P, i) = IsVar(P, k)
                   /\ j = Len(P.cls) \/ IsVar(P, j + 1) # IsVar(P, k)

RECURSIVE Switch(_, _, _)
SwitchRun(P, S, k, j) ==
    Switch(P, IF IsVar(P, k)
              THEN VarClauses(P, S, [i \in 1 .. j + 1 - k |-> k + i - 1],
                              k = 1, j = Len(P.cls))
              ELSE Rigid(P, S, [i \in 1 .. j + 1 - k |-> k + i - 1],
                         k = 1, j = Len(P.cls)),
           j + 1)
Switch(P, S, k) == IF k > Len(P.cls) THEN S ELSE SwitchRun(P, S, k, RunEnd(P, k))

-----------------------------------------------------------------------------
\* Definitions.

\* genDummyTryMeElse: room for an instruction that the linker may need before
\* a single clause, or a single switch.
DummyTryMeElse(P) ==
    IF Len(P.cls) = 1 \/ \A k \in DOMAIN P.cls : ~IsVar(P, k)
    THEN <<[op |-> "try_me_else", n |-> 0, l |-> FailLoc]>> ELSE <<>>

After(P, code) == [P EXCEPT !.start = @ + Len(code)]
Prefixed(P, code) == code \o Switch(After(P, code), Code0(P), 1).code

\* processDef: a definition that may extend others, the mth of its record,
\* first looks whether there is one.
Extending(P, m, l) ==
    << [op |-> "switch_on_reg", n |-> m, l |-> P.start + 1, k |-> l],
       [op |-> "try", n |-> P.n, l |-> l],
       [op |-> "trust_ext", n |-> P.n, m |-> m] >>
DefCode(P, pd, dummy) ==
    [code |-> Prefixed(P, (IF pd.closed THEN <<>>
                           ELSE Extending(P, pd.m, P.start + 3 + Len(dummy)))
                             \o dummy),
     entry |-> IF pd.closed THEN P.start + Len(dummy) ELSE P.start]
DefAt(P, pd) == DefCode(P, pd, DummyTryMeElse(P))
GenDef(pd, start, label) == DefAt(Defn(pd.clauses, pd.arity, start, label), pd)

\* processTopLevelDefs: the definitions pds, one after the other; D is the code
\* and the entries of those before.
RECURSIVE GenDefs(_, _, _, _)
AndDef(D, d, pds, start, label) ==
    GenDefs([code |-> D.code \o d.code,
             entry |-> D.entry @@ (pds[1].name :> d.entry)],
            Tail(pds), start, label)
GenDefs(D, pds, start, label) ==
    IF pds = <<>> THEN D
    ELSE AndDef(D, GenDef(pds[1], start + Len(D.code), label), pds, start, label)

NoDefs == [code |-> <<>>, entry |-> <<>>]

\* Where each of them starts: sizes do not depend on labels.
Labels(pds, start) ==
    GenDefs(NoDefs, pds, start,
            [c \in {pds[i].name : i \in DOMAIN pds} |-> FailLoc]).entry

Compile(pds, start) == GenDefs(NoDefs, pds, start, Labels(pds, start)).code
=============================================================================
