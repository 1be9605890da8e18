----------------------------- MODULE MCIndexing -----------------------------
(***************************************************************************)
(* All definitions of up to four clauses, and merged definitions of up to  *)
(* three and two, for Indexing.                                            *)
(***************************************************************************)
EXTENDS Indexing

(* Definitions by the first arguments of their clauses, compiled by CodeGen *)
(* and merged by Linker, as programs for Indexing.                         *)

G == INSTANCE CodeGen
L == INSTANCE Linker

\* A clause that calls the predicate named k.
ClauseOn(first, k) ==
    [head |-> <<>>, first |-> first, unify |-> FALSE, mapped |-> <<>>,
     imports |-> <<>>, goal |-> G!Pred(k, <<>>)]
Def(name, closed, firsts, k) ==
    [name |-> name, closed |-> closed, m |-> 1, arity |-> 1,
     clauses |-> [j \in DOMAIN firsts |-> ClauseOn(firsts[j], k + j)]]

\* After the fail instruction.
Fail1 == <<[op |-> "fail"]>>
CodeOf(defs) == G!GenDefs(G!NoDefs, defs, 2, <<>>)

Program(D, firsts) ==
    [code |-> Fail1 \o D.code, entry |-> D.entry["d"], firsts |-> firsts,
     merged |-> FALSE, shared |-> FALSE]
Compiled(closed, firsts) == Program(CodeOf(<<Def("d", closed, firsts, 0)>>), firsts)

\* Two definitions of one predicate, merged by the linker: the clauses of the
\* younger come first.
Link(m, firsts, shared) ==
    [code |-> m.code, entry |-> m.at, firsts |-> firsts, merged |-> TRUE, shared |-> shared]
LinkCode(D, firsts, shared) ==
    Link(L!MergeDefs(Fail1 \o D.code, D.entry["older"], D.entry["younger"]), firsts, shared)
\* There are no two clauses for one key.
Distinct(firsts) == \A i, j \in DOMAIN firsts :
                       firsts[i] = firsts[j] => i = j \/ firsts[i] \in {"var", "bvar"}
Linked(closed, younger, older) ==
    LinkCode(CodeOf(<<Def("older", closed, older, Len(younger)),
                      Def("younger", FALSE, younger, 0)>>), younger \o older,
             ~Distinct(younger) \/ ~Distinct(older))

Firsts(S, n) == UNION {[1 .. k -> S] : k \in 1 .. n}
ArgHeads == {"var", "cons", "bvar", "a", "b", "c"}
FirstArgs == {"var", "cons", "bvar", "a", "b"}

Definitions == {Compiled(closed, firsts) :
                  closed \in BOOLEAN, firsts \in Firsts(FirstArgs, 4)}

\* Merged definitions of which neither has two clauses for one key.
DistinctFirsts(n) == {f \in Firsts(FirstArgs, n) : Distinct(f)}
MergedDefinitions == {Linked(closed, y, o) : closed \in BOOLEAN,
                         y \in DistinctFirsts(3), o \in DistinctFirsts(2)}

\* Merged definitions of one or two clauses each, that may share their keys.
SharedKeys == {Linked(closed, y, o) : closed \in BOOLEAN,
                  y \in Firsts({"var", "a", "b"}, 2), o \in Firsts({"var", "a", "b"}, 2)}

AllDefinitions == Definitions \cup MergedDefinitions \cup SharedKeys
=============================================================================
