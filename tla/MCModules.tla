------------------------------ MODULE MCModules -----------------------------
(***************************************************************************)
(* Programs of up to five modules.  The constants x, y, z have the kind i, *)
(* the predicates the kind j, which a module may declare or not.           *)
(***************************************************************************)
EXTENDS Modules

BC == INSTANCE ModuleCode

MCPervasives == << "pi", "sigma" >>
Data == {"x", "y", "z"}
MCKindOf == [c \in Data \cup {"hidden"} |-> "i"] @@
            [p \in {"p", "q", "r", "s", "m", "n"} |-> "j"]

Clause(p, arg, body) == [pred |-> p, arg |-> arg, body |-> body]
CallTo(p) == <<"call", p>>
Under(k, p) == <<"impl", k, p>>

\* A module with the signature sig and the local constants x, s, y, z.
Module(sig, expd, acc, imp, clauses, impls) ==
    [sig |-> sig, expd |-> expd, locals |-> << "x", "s", "y", "z" >>, kinds |-> << "j" >>,
     lkinds |-> << "i" >>, arity |-> [i |-> 0, j |-> 1], acc |-> acc, imp |-> imp,
     clauses |-> clauses, impls |-> impls]
Plain(sig, clauses) == Module(sig, {}, <<>>, <<>>, clauses, <<>>)

\* The program of the modules now, each compiled against what seen has for it.
Program(now, seen) ==
    [src |-> now, saw |-> seen, top |-> "T",
     files |-> [m \in DOMAIN now |-> BC!ByteCode([seen[m] EXCEPT ![m] = now[m]], m)]]
Current(now) == Program(now, [m \in DOMAIN now |-> now])

\* T imports A, which imports B; all three have clauses for p.
Chain == Current(
    [T |-> Module(<< "p", "q" >>, {}, <<>>, << "A" >>,
                  << Clause("p", "x", <<>>),
                    Clause("q", "x", << CallTo("m"), CallTo("p") >>) >>, <<>>),
     A |-> Module(<< "m", "p" >>, {}, <<>>, << "B" >>,
                  << Clause("p", "y", << CallTo("n") >>), Clause("m", "x", << CallTo("p") >>),
                     Clause("m", "y", <<>>) >>, <<>>),
     B |-> Plain(<< "n", "p" >>,
                 << Clause("p", "x", <<>>), Clause("p", "hidden", <<>>),
                   Clause("n", "z", <<>>) >>)])

\* T imports A and B, which import a C each.
Diamond == Current(
    [T |-> Module(<< "q", "p" >>, {}, <<>>, << "A", "B" >>,
                  << Clause("q", "x", << CallTo("m"), CallTo("n") >>) >>, <<>>),
     A |-> Module(<< "m", "p" >>, {}, <<>>, << "C" >>,
                  << Clause("m", "x", << CallTo("r"), CallTo("p") >>) >>, <<>>),
     B |-> Module(<< "n", "p" >>, {}, <<>>, << "C" >>,
                  << Clause("n", "y", << CallTo("p") >>), Clause("p", "y", <<>>) >>, <<>>),
     C |-> Plain(<< "r", "p" >>, << Clause("r", "z", <<>>), Clause("p", "z", <<>>) >>)])

\* T accumulates A and B, B accumulates C; a predicate that is not in the
\* signature of T is called straight.
Accumulation == Current(
    [T |-> Module(<< "q", "p" >>, {"q"}, << "A", "B" >>, <<>>,
                  << Clause("q", "x", << CallTo("p"), CallTo("m") >>), Clause("p", "x", <<>>),
                     Clause("q", "y", << CallTo("q") >>) >>, <<>>),
     A |-> Plain(<< "p", "m" >>,
                 << Clause("m", "x", << CallTo("s"), CallTo("p") >>), Clause("p", "y", <<>>),
                    Clause("s", "hidden", <<>>), Clause("s", "y", <<>>) >>),
     B |-> Module(<< "p", "m" >>, {}, << "C" >>, <<>>,
                  << Clause("p", "z", << CallTo("n") >>), Clause("m", "z", <<>>) >>, <<>>),
     C |-> Plain(<< "p", "n", "m" >>,
                 << Clause("n", "x", <<>>), Clause("p", "x", << CallTo("m") >>),
                    Clause("m", "y", <<>>) >>)])

\* T imports B and accumulates A, which imports C: two segments; p is entered
\* again while its imports are there.
Segments == Current(
    [T |-> Module(<< "q", "p", "m" >>, {}, << "A" >>, << "B" >>,
                  << Clause("q", "x", << CallTo("p") >>),
                    Clause("p", "x", << CallTo("m"), CallTo("r") >>),
                     Clause("p", "y", <<>>) >>, <<>>),
     A |-> Module(<< "m", "p" >>, {}, <<>>, << "C" >>,
                  << Clause("m", "x", << CallTo("n"), CallTo("p") >>),
                    Clause("m", "y", <<>>) >>, <<>>),
     B |-> Plain(<< "r", "p" >>, << Clause("r", "x", <<>>), Clause("p", "z", <<>>) >>),
     C |-> Plain(<< "n", "p" >>,
                 << Clause("n", "y", << CallTo("p") >>), Clause("n", "x", <<>>) >>)])

\* An imported module with accumulated ones, which have the names x, s of
\* their own, and predicates that it closes.
ImportedScope == Current(
    [T |-> Module(<< "q", "m", "p" >>, {}, <<>>, << "A" >>,
                  << Clause("q", "x", << CallTo("m") >>), Clause("q", "y", << CallTo("p") >>),
                     Clause("m", "z", <<>>), Clause("p", "y", <<>>) >>, <<>>),
     A |-> Module(<< "m", "p" >>, {"p"}, << "B" >>, <<>>,
                  << Clause("m", "x", << CallTo("p"), CallTo("s") >>),
                    Clause("p", "x", << CallTo("n") >>),
                     Clause("s", "x", <<>>) >>, <<>>),
     B |-> Plain(<< "m", "n" >>,
                 << Clause("m", "x", << CallTo("n") >>), Clause("n", "y", << CallTo("s") >>),
                    Clause("s", "z", <<>>), Clause("s", "y", <<>>) >>)])

\* Implications: of an open predicate, and of an exported one, of which the
\* calls are by name then.
Implications == Current(
    [T |-> Module(<< "q", "p", "r", "n" >>, {"r", "n"}, <<>>, <<>>,
                  << Clause("q", "x", << Under(1, "p") >>), Clause("p", "x", << CallTo("r") >>),
                     Clause("n", "x", << CallTo("r") >>), Clause("r", "y", <<>>),
                     Clause("q", "y", << Under(2, "s"), CallTo("s") >>),
                     Clause("s", "x", << Under(1, "p") >>) >>,
                  << << Clause("p", "y", << CallTo("r"), CallTo("s") >>), Clause("r", "z", <<>>),
                        Clause("p", "z", << CallTo("n") >>) >>,
                     << Clause("s", "y", << CallTo("p") >>), Clause("r", "x", <<>>) >> >>)])

\* Implications in an imported module, and an import under an implication.
ImplicationImport == Current(
    [T |-> Module(<< "q", "p" >>, {}, <<>>, << "A" >>,
                  << Clause("q", "x", << Under(1, "m"), CallTo("p") >>), Clause("p", "x", <<>>) >>,
                  << << Clause("p", "y", << CallTo("m") >>) >> >>),
     A |-> Module(<< "m", "p" >>, {}, <<>>, << "B" >>,
                  << Clause("m", "x", << CallTo("p"), CallTo("s") >>), Clause("m", "z", <<>>),
                     Clause("s", "x", << Under(1, "n") >>) >>,
                  << << Clause("s", "y", <<>>), Clause("p", "z", << CallTo("s") >>) >> >>),
     B |-> Plain(<< "n", "p" >>,
                 << Clause("n", "x", << CallTo("p") >>), Clause("p", "x", <<>>) >>)])

\* The predicate r of T is exportdef; A extends it.  So is p, but T has no
\* clauses for it.
ExtendedExport == Current(
    [T |-> Module(<< "q", "r", "p" >>, {"p", "r"}, <<>>, << "A" >>,
                  << Clause("q", "x", << CallTo("r"), CallTo("m") >>), Clause("r", "x", <<>>),
                     Clause("q", "y", << CallTo("p") >>),
                     Clause("r", "y", << CallTo("r") >>) >>, <<>>),
     A |-> Plain(<< "m", "r" >>,
                 << Clause("r", "z", <<>>), Clause("m", "y", << CallTo("r") >>) >>)])

\* Kinds: A declares those of its constants, B leaves i to T.
KindsShared == Current(
    LET A == [Plain(<< "m", "x" >>, << Clause("m", "x", <<>>), Clause("m", "y", <<>>) >>)
                EXCEPT !.kinds = << "j", "i" >>, !.lkinds = <<>>, !.locals = << "y", "z" >>]
        B == [Plain(<< "n", "p" >>, << Clause("n", "x", << CallTo("p") >>) >>)
                EXCEPT !.kinds = << "i" >>, !.lkinds = << "j" >>]
    IN  [T |-> [Module(<< "q", "p", "x" >>, {}, << "B" >>, << "A" >>,
                       << Clause("q", "x", << CallTo("m") >>), Clause("p", "y", <<>>) >>, <<>>)
                   EXCEPT !.kinds = << "i", "j" >>, !.lkinds = <<>>, !.locals = << "y", "z" >>],
         A |-> A, B |-> B])

\* A has changed since T was compiled, after B is read: it has lost a name, has another one,
\* another kind, or a kind with another arity.
OldA == Plain(<< "m", "p" >>, << Clause("m", "x", <<>>) >>)
NewA == { [OldA EXCEPT !.sig = << "m" >>], [OldA EXCEPT !.sig = << "n", "m", "p" >>],
          [OldA EXCEPT !.kinds = << "j", "i" >>, !.lkinds = <<>>],
          [OldA EXCEPT !.arity = [i |-> 0, j |-> 2]],
          [OldA EXCEPT !.arity = [i |-> 1, j |-> 1]] }
B == Plain(<< "n", "p" >>, << Clause("n", "x", <<>>) >>)
OldT(acc, imp) == Module(<< "q", "p" >>, {}, acc, imp,
                         << Clause("q", "x", << CallTo("p") >>), Clause("p", "y", <<>>) >>, <<>>)
Changed ==
    { LET now == [T |-> T, A |-> A, B |-> B]
      IN  Program(now, [T |-> [now EXCEPT !.A = OldA], A |-> now, B |-> now]) :
         T \in {OldT(<< "A", "B" >>, <<>>), OldT(<<>>, << "B", "A" >>)}, A \in NewA \cup {OldA} }

MCPrograms == { Chain, Diamond, Accumulation, Segments, ImportedScope, Implications,
              ImplicationImport, ExtendedExport, KindsShared } \cup Changed

\* An implication whose clause calls a predicate of T that has imports.
Straight == Current(
    [T |-> Module(<< "q", "p", "r" >>, {"r"}, <<>>, << "A" >>,
                  << Clause("q", "x", << Under(1, "p") >>), Clause("r", "x", << CallTo("m") >>) >>,
                  << << Clause("p", "x", << CallTo("r") >>) >> >>),
     A |-> Plain(<< "m" >>, << Clause("m", "x", <<>>) >>)])
ContextPrograms == { Straight }
=============================================================================
