----------------------------- MODULE MCControl ------------------------------
(***************************************************************************)
(* Programs, compiled by CodeGen, and queries for Control.  Every program  *)
(* is small enough for all its executions to be enumerated, and every      *)
(* "unify" may fail, succeed or bind any variable in reach.                *)
(***************************************************************************)
EXTENDS Shapes

G == INSTANCE CodeGen
L == INSTANCE Linker

\* A clause with head variables vs; what a clause may have beside.
Clause(vs, g) == [head |-> vs, first |-> "var", unify |-> vs # <<>>,
                  mapped |-> <<>>, imports |-> <<>>, goal |-> g]
FactOf(vs) == Clause(vs, G!Fact)
Sure(cl) == [cl EXCEPT !.unify = FALSE]
On(c, cl) == [cl EXCEPT !.first = c]
Importing(ts, cl) == [cl EXCEPT !.imports = ts]
\* An embedded clause that shares the variables ms with the clause it is in.
Embedded(cl, ms, outer) ==
    [head |-> cl.head, first |-> cl.first, unify |-> cl.unify, mapped |-> ms,
     imports |-> <<>>, goal |-> cl.goal, within |-> outer]

Bang == G!Cut
MainGoals == << [kind |-> "atom", c |-> "main"] >>
And(g, h) == G!And(g, h)
Pred(c, vs) == G!Pred(c, vs)

Def(name, cls) ==
    [name |-> name, closed |-> TRUE, m |-> 0, clauses |-> cls,
     arity |-> Len(cls[1].head)]
OpenDef(name, m, cls) == [Def(name, cls) EXCEPT !.closed = FALSE, !.m = m]

At == Len(Boot) + 1
CodeOf(pds) == G!Compile(pds, At)

\* A table with the code of some of the definitions pds, by predicate.
Table(pds, names, link, segs, locals) ==
    [code |-> [c \in DOMAIN names |-> G!Labels(pds, At)[names[c]]],
     link |-> link, segs |-> segs, locals |-> locals]
Named(S) == [c \in S |-> c]

\* A program and its tables, with a stack up to end, and its queries.
System(pds, tables, goals, queries, end) ==
    [code |-> CodeOf(pds), tables |-> tables, top |-> 1, goals |-> goals,
     queries |-> queries, stackEnd |-> end, ucMax |-> 3, merged |-> FALSE]

-----------------------------------------------------------------------------
\* Choice points, environments and cuts.
\*   main :- p X, q Y, !, q X.     p X.                  q X.
\*   main :- r.                    p X :- q X, r, q X.   q X :- !, fail.    r.
CutDefs ==
    << Def("main", << Clause(<<>>, And(Pred("p", <<"X">>),
                        And(Pred("q", <<"Y">>), And(Bang, Pred("q", <<"X">>))))),
                      Clause(<<>>, Pred("r", <<>>)) >>),
       Def("p", << FactOf(<<"X">>),
                   Sure(Clause(<<"X">>, And(Pred("q", <<"X">>),
                        And(Pred("r", <<>>), Pred("q", <<"X">>))))) >>),
       Def("q", << FactOf(<<"X">>), Sure(Clause(<<"X">>, And(Bang, G!Perv("fail")))) >>),
       Def("r", << FactOf(<<>>) >>) >>
CutTables == << Table(CutDefs, Named({"main", "p", "q", "r"}), <<>>, 0, FALSE) >>
CutGoals == << [kind |-> "atom", c |-> "main"],
               [kind |-> "or", l |-> 3, r |-> 1],
               [kind |-> "and", l |-> 4, r |-> 5],
               [kind |-> "atom", c |-> "p"],
               [kind |-> "cut"] >>
CutSystem == System(CutDefs, CutTables, CutGoals, {1, 2}, 90)
\* The same where the stack overflows.
SmallSystem == [CutSystem EXCEPT !.stackEnd = 70]

\* The queries p X, p X and p X, !.
CutAgainGoals == << [kind |-> "and", l |-> 3, r |-> 3],
                    [kind |-> "and", l |-> 3, r |-> 4],
                    [kind |-> "atom", c |-> "p"],
                    [kind |-> "cut"] >>
CutAgainSystems == {System(CutDefs, CutTables, CutAgainGoals, {1, 2}, 90)}

\* A clause that ends in "true":   main :- r, true.   main :- r.   r.   r :- fail.
TrueDefs ==
    << Def("main", << Clause(<<>>, And(Pred("r", <<>>), G!Perv("true"))),
                      Clause(<<>>, Pred("r", <<>>)) >>),
       Def("r", << FactOf(<<>>), Clause(<<>>, G!Perv("fail")) >>) >>
TrueTables == << Table(TrueDefs, Named({"main", "r"}), <<>>, 0, FALSE) >>
TrueSystems == {System(TrueDefs, TrueTables, MainGoals, {1}, 90)}

-----------------------------------------------------------------------------
\* Goals given to solve: pi x\ sigma y\ (p Z, true), (q Z, fail ; main),
\* ((p Z ; not (q Z)), pi x\ ...), (stop ; true) and a goal without clauses, with
\*   p X.   p X :- sigma y\ (q Y, q X).   q X.   main :- p X, q X, stop.
SolveDefs ==
    << Def("p", << FactOf(<<"X">>),
                   Clause(<<"X">>, G!Some("Y", And(Pred("q", <<"Y">>),
                                                   Pred("q", <<"X">>)))) >>),
       Def("q", << FactOf(<<"X">>) >>),
       Def("main", << Clause(<<>>, And(Pred("p", <<"X">>),
                         And(Pred("q", <<"X">>), G!Perv("stop")))) >>) >>
SolveTables == << Table(SolveDefs, Named({"p", "q", "main"}), <<>>, 0, FALSE) >>
SolveGoals == << [kind |-> "or", l |-> 2, r |-> 3],
                 [kind |-> "atom", c |-> "p"],
                 [kind |-> "not", l |-> 4],
                 [kind |-> "atom", c |-> "q"],
                 [kind |-> "all", l |-> 6],
                 [kind |-> "some", l |-> 7],
                 [kind |-> "and", l |-> 2, r |-> 8],
                 [kind |-> "true"],
                 [kind |-> "or", l |-> 10, r |-> 11],
                 [kind |-> "and", l |-> 4, r |-> 13],
                 [kind |-> "atom", c |-> "main"],
                 [kind |-> "stop"],
                 [kind |-> "fail"],
                 [kind |-> "and", l |-> 1, r |-> 5],
                 [kind |-> "atom", c |-> "undefined"],
                 [kind |-> "or", l |-> 12, r |-> 8] >>
\* Universal goals nest one level deeper than the universe count may go.
SolveSystem == [System(SolveDefs, SolveTables, SolveGoals, {5, 9, 14, 15, 16}, 90)
                  EXCEPT !.ucMax = 1]

-----------------------------------------------------------------------------
\* Imports: the clauses of the module import t, whose clauses import u.  The
\* module and t have constants of their own.  The module is queried for main.
\*   main :- s, t.        s :- u.           t :- s.       u.
\*   main :- t.           s :- loc X, u.    t :- loc X.   u :- fail.     loc X.
\* and main :- s, !, t, in place of its first clause.
ImportDefs(body) ==
    << Def("main", << Importing(<<2>>, Clause(<<>>, body)),
                      Importing(<<2>>, Clause(<<>>, Pred("t", <<>>))) >>),
       Def("s", << Importing(<<3>>, Clause(<<>>, Pred("u", <<>>))),
                   Importing(<<3>>, Clause(<<>>, And(G!Anon("loc", <<"X">>),
                                                     Pred("u", <<>>)))) >>),
       Def("t", << Importing(<<3>>, Clause(<<>>, Pred("s", <<>>))),
                   Clause(<<>>, G!Anon("loc", <<"X">>)) >>),
       Def("u", << FactOf(<<>>), Clause(<<>>, G!Perv("fail")) >>),
       Def("loc", << FactOf(<<"X">>) >>) >>
ImportTablesOf(ds) == << Table(ds, Named({"main"}), <<>>, 1, TRUE),
                         Table(ds, Named({"s", "t"}), <<>>, 1, TRUE),
                         Table(ds, Named({"u"}), <<>>, 0, FALSE) >>
NoCut == ImportDefs(And(Pred("s", <<>>), Pred("t", <<>>)))
WithCut == ImportDefs(And(Pred("s", <<>>), And(Bang, Pred("t", <<>>))))
ImportSystem == System(NoCut, ImportTablesOf(NoCut), MainGoals, {1}, 200)
ImportCutSystems == {System(WithCut, ImportTablesOf(WithCut), MainGoals, {1}, 200)}

-----------------------------------------------------------------------------
\* Implications: clauses that extend a predicate of the module, one of them
\* within another, sharing variables with the clause they are in.
\*   main :- pi c\ (p c => (p c, !, p c)), r D.
\*   main :- (p Z :- r X, r Z) => (p Y, q Y).
\*   p X.      q X :- (p W :- r X) => p X.      r X.
Outer1 == Clause(<<>>, G!Imp(2, <<"X">>, And(Pred("p", <<"Y">>), Pred("q", <<"Y">>))))
Outer2 == Clause(<<>>, And(G!All(<<"C">>, G!Imp(3, <<"C">>,
                          And(Pred("p", <<"C">>), And(Bang, Pred("p", <<"C">>))))),
                       Pred("r", <<"D">>)))
Outer3 == Clause(<<"X">>, G!Imp(4, <<"X">>, Pred("p", <<"X">>)))
ImplDefs ==
    << Def("main", << Outer2, Outer1 >>),
       Def("p", << FactOf(<<"X">>) >>),
       Def("q", << Sure(Outer3) >>),
       Def("r", << Sure(FactOf(<<"X">>)) >>),
       OpenDef("p in main1", 1,
               << Embedded(Sure(Clause(<<"Z">>, And(Pred("r", <<"X">>), Pred("r", <<"Z">>)))),
                           <<"X">>, Outer1) >>),
       OpenDef("p in main2", 1, << Embedded(FactOf(<<"C">>), <<"C">>, Outer2) >>),
       OpenDef("p in q", 1, << Embedded(Clause(<<"W">>, Pred("r", <<"X">>)),
                                        <<"X">>, Outer3) >>) >>
ImplTables == << Table(ImplDefs, Named({"main", "p", "q", "r"}), <<>>, 0, FALSE),
                 Table(ImplDefs, [p |-> "p in main1"], <<"p">>, 0, FALSE),
                 Table(ImplDefs, [p |-> "p in main2"], <<"p">>, 0, FALSE),
                 Table(ImplDefs, [p |-> "p in q"], <<"p">>, 0, FALSE) >>
ImplSystem == System(ImplDefs, ImplTables, MainGoals, {1}, 150)

-----------------------------------------------------------------------------
\* Indexing: runs of clauses with rigid first arguments, some of them alike,
\* before and after one with a variable.
\*   main :- s X, t X.    s a.    s X :- !, t X.    s b :- t X.     t a.
\*                        s b.                      s (X::L).       t a :- !.
\*                                                                  t a.
IndexDefs ==
    << Def("main", << Clause(<<>>, And(Pred("s", <<"X">>), Pred("t", <<"X">>))) >>),
       Def("s", << On("a", FactOf(<<"X">>)), On("b", Sure(FactOf(<<"X">>))),
                   Sure(Clause(<<"X">>, And(Bang, Pred("t", <<"X">>)))),
                   On("b", Sure(Clause(<<"X">>, Pred("t", <<"X">>)))),
                   On("cons", FactOf(<<"X">>)) >>),
       Def("t", << On("a", FactOf(<<"X">>)), On("a", Clause(<<"X">>, Bang)),
                   On("a", Sure(FactOf(<<"X">>))) >>) >>
IndexTables == << Table(IndexDefs, Named({"main", "s", "t"}), <<>>, 0, FALSE) >>
IndexSystem == System(IndexDefs, IndexTables, MainGoals, {1}, 90)

-----------------------------------------------------------------------------
\* Two definitions of s, linked, that both have clauses for a and for b.
\*   main :- s X, s X.    s a.   s b.   s b :- r.       s a.   s a :- r, r.   s b.
\*   r.
LinkDefs ==
    << Def("main", << Clause(<<>>, And(Pred("s", <<"X">>), Pred("s", <<"X">>))) >>),
       Def("r", << FactOf(<<>>) >>),
       Def("older s", << On("a", FactOf(<<"X">>)),
                   On("a", Sure(Clause(<<"X">>, And(Pred("r", <<>>), Pred("r", <<>>))))),
                   On("b", FactOf(<<"X">>)) >>),
       OpenDef("younger s", 1,
                << On("a", FactOf(<<"X">>)), On("b", Sure(FactOf(<<"X">>))),
                   On("b", Sure(Clause(<<"X">>, Pred("r", <<>>)))) >>) >>
LinkMerged == L!MergeDefs(Boot \o CodeOf(LinkDefs), G!Labels(LinkDefs, At)["older s"],
                          G!Labels(LinkDefs, At)["younger s"])
LinkTables ==
    << [Table(LinkDefs, [main |-> "main", r |-> "r", s |-> "older s"], <<>>, 0, FALSE)
          EXCEPT !.code.s = LinkMerged.at] >>
LinkSystem == [System(LinkDefs, LinkTables, MainGoals, {1}, 90)
                 EXCEPT !.merged = TRUE,
                        !.code = SubSeq(LinkMerged.code, At, Len(LinkMerged.code))]

-----------------------------------------------------------------------------
ShapedSystems == {CutSystem, SmallSystem, IndexSystem, SolveSystem, ImplSystem}
AllSystems == ShapedSystems \cup {ImportSystem, LinkSystem}

\* What CodeGen compiles is well shaped, implications included.
ASSUME CompiledShaped ==
    \A s \in ShapedSystems :
       LET pr == [s EXCEPT !.code = Boot \o @]
       IN  WellShaped(pr) /\ ClosuresShaped(pr)
=============================================================================
