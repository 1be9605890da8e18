------------------------------ MODULE Modules -------------------------------
(***************************************************************************)
(* From bytecode files to running clauses: a program is linked             *)
(* (ModuleLinker), loaded (Loader) and queried, and the instructions that  *)
(* put the code of modules and implications into the program context and   *)
(* find clauses in it are run (simulator/abstmachine.c, siminstr.c).       *)
(*                                                                         *)
(* A call that has several clauses takes any of them, and a run ends with  *)
(* an answer, a failure, or a call more than Depth deep; how clauses are   *)
(* tried one after the other is in module Control.  The records of the     *)
(* context are kept as a sequence, its last one being the I register.      *)
(*                                                                         *)
(* Beside the machine goes what should be there: the source of the modules *)
(* and the context that the source says its clauses have (ModuleScopes).   *)
(***************************************************************************)
EXTENDS ModuleLinker

CONSTANTS Depth,       \* how many calls may wait for their return
          KindOf,      \* the kind in the type of each constant
          Programs     \* the programs: the sources, what each was compiled
                       \* against, the files and the top module

VARIABLES src,         \* the source of each module
          saw,         \* the sources that it was compiled against
          image,       \* what the loader made, or None
          mach,        \* the machine: program counter p, records recs, the
                       \* one ci of the clause, the calls rets waiting
          scope        \* the context ctx by the source, those of the callers

vars == <<linkVars, src, saw, image, mach, scope>>
sources == <<src, saw>>
runVars == <<image, mach, scope>>

L == INSTANCE Loader
S == INSTANCE ModuleScopes

None == <<>>
NoCode == -1

Start == [p |-> NoCode, recs |-> <<>>, ci |-> 0, rets |-> <<>>, of |-> <<>>]

-----------------------------------------------------------------------------
\* Implication and import records.

\* AM_findCode, from the i-th record down.
FindCodeFrom(recs, i, c) ==
    LET code(j) == IF recs[j].psts = 0 THEN L!NULL
                   ELSE L!Search(image.mem, recs[j].fc, recs[j].pst, recs[j].psts, c)
        found == {j \in 1..i : code(j) # L!NULL}
    IN  IF found = {} THEN [code |-> NoCode, ip |-> 0]
        ELSE [code |-> code(Max(found)), ip |-> Max(found)]
FindCode(recs, c) == FindCodeFrom(recs, Len(recs), c)

\* AM_mkImpNCLTab: the n-th entry, counted from 1, is for the n-th predicate
\* that the table extends.
NCLTab(recs, lt, m) ==
    [n \in 1..m |-> FindCode(recs, Elem(image.mem, lt + n - 1))]

\* AM_mkImptRecWL, AM_mkImptRecWOL with AM_initBCKVector.
ImportRec(recs, t) ==
    LET mem == image.mem
        m   == L!ImpLTS(mem, t)
    IN  [tag |-> "import", tab |-> t,
         pst |-> L!ImpPST(t, m, L!ImpNLC(mem, t)), psts |-> L!ImpPSTS(mem, t),
         fc |-> L!ImpFC(mem, t), ncl |-> NCLTab(recs, L!ImpLT(t), m),
         bck |-> [n \in 1..L!ImpNCSEG(mem, t) |-> 0]]

\* AM_mkImplRec.
ImplRec(recs, t) ==
    LET mem == image.mem
        m   == L!ImplLTS(mem, t)
    IN  [tag |-> "implication", tab |-> t, pst |-> L!ImplPST(t, m),
         psts |-> L!ImplPSTS(mem, t), fc |-> L!ImplFC(mem, t),
         ncl |-> NCLTab(recs, L!ImplLT(t), m), bck |-> <<>>]

\* The clauses that are tried from the code a of the record ip on, with the
\* record of each: after those of a definition that is open come those of its
\* entry in the next clause table of that record (trust_ext).
RECURSIVE Reach(_, _)
Reach(a, ip) ==
    IF a = NoCode \/ Elem(image.code, a).op # "def" THEN <<>>
    ELSE LET def  == Elem(image.code, a)
             next == mach.recs[ip].ncl[def.n]
         IN  [i \in DOMAIN def.cls |-> [code |-> def.cls[i], ip |-> ip]]
             \o (IF def.n = 0 THEN <<>> ELSE Reach(next.code, next.ip))

-----------------------------------------------------------------------------
\* Linking, writing and loading (FRONT_link, FRONT_load, FRONT_moduleInstall).
LinkWith(step) == step /\ UNCHANGED <<sources, runVars>>

LoadLinked ==
    /\ phase = "linked" /\ image = None
    /\ image' = L!Load(tables, importTabs, Written)
    /\ UNCHANGED <<linkVars, sources, mach, scope>>

\* FRONT_addModuleImportPoint, FRONT_initModuleContext.
Install ==
    /\ image # None /\ mach.recs = <<>>
    /\ mach' = [mach EXCEPT !.recs = << ImportRec(<<>>, image.addtable) >>]
    /\ scope' = [scope EXCEPT !.ctx = << [path |-> <<>>, w |-> 0] >>]
    /\ UNCHANGED <<linkVars, sources, image>>

-----------------------------------------------------------------------------
\* Running.  A clause is entered with its record as ci.
I == Elem(image.code, mach.p)
Running == mach.p # NoCode
Is(op) == Running /\ I.op = op
Goto(m, a) == [m EXCEPT !.p = a]
Next1(m) == [m EXCEPT !.p = @ + 1]
Step(m) == mach' = m /\ UNCHANGED <<linkVars, sources, image, scope>>
StepIn(m, ctx) ==
    /\ mach' = m
    /\ scope' = [scope EXCEPT !.ctx = ctx]
    /\ UNCHANGED <<linkVars, sources, image>>
Here == I.from[1]

Enter(m, cl) == [m EXCEPT !.p = cl.code, !.ci = cl.ip]

\* A goal, a predicate of the top module's signature.
Query(c) ==
    /\ mach.recs # <<>> /\ ~Running /\ mach.of = <<>>
    /\ LET code == FindCode(mach.recs, c)
       IN  \E cl \in ToSet(Reach(code.code, code.ip)) :
              Step([Enter(mach, cl) EXCEPT !.of = <<c>>])

\* What unifies the head of a clause.
GetHead == Is("head") /\ Step(Next1(mach))

\* The field of a count: AM_cimpBCK, where the record of the clause has one.
HasCount == mach.recs[mach.ci].tag = "import" /\ I.seg \in DOMAIN mach.recs[mach.ci].bck
Count == mach.recs[mach.ci].bck[I.seg]
SetCount(n) == [mach EXCEPT !.recs[mach.ci].bck[I.seg] = n]

AddImports ==
    /\ Is("add_imports") /\ HasCount
    /\ StepIn(IF Count > 0 THEN Goto(SetCount(Count + 1), I.l) ELSE Next1(SetCount(Count + 1)),
              S!WithImports(src, top, scope.ctx, Here))

PushImport ==
    /\ Is("push_import")
    /\ Step(Next1([mach EXCEPT !.recs = Append(@, ImportRec(mach.recs, I.t))]))

RemoveImports ==
    /\ Is("remove_imports") /\ HasCount
    /\ Step(IF Count > 1 THEN Goto(SetCount(Count - 1), I.l) ELSE Next1(SetCount(Count - 1)))

PopImports ==
    /\ Is("pop_imports")
    /\ Step(Next1([mach EXCEPT !.recs = SubSeq(@, 1, Len(@) - I.n)]))

\* The implication of the source that an embedded definition belongs to.
PushImplPoint ==
    /\ Is("push_impl_point")
    /\ LET w == files[S!ModAt(src, top, Here)].code[I.from[2] + 1].t + 1
       IN  StepIn(Next1([mach EXCEPT !.recs = Append(@, ImplRec(mach.recs, I.t))]),
                  Append(scope.ctx, [path |-> Here, w |-> w]))
PopImplPoint ==
    /\ Is("pop_impl_point")
    /\ StepIn(Next1([mach EXCEPT !.recs = Front(@)]), Front(scope.ctx))

\* call, call_name: the clause comes back to here, with its CI register, which
\* its environment has kept.
Target == IF I.op \in {"call_name", "execute_name"} THEN FindCode(mach.recs, I.c)
          ELSE [code |-> I.l, ip |-> mach.ci]
Called == Reach(Target.code, Target.ip)
Call ==
    /\ Running /\ I.op \in {"call", "call_name"}
    /\ Len(mach.rets) < Depth
    /\ \E cl \in ToSet(Called) :
          mach' = Enter([mach EXCEPT !.rets = Append(@, [p |-> mach.p + 1, ci |-> mach.ci])], cl)
    /\ scope' = [scope EXCEPT !.callers = Append(@, scope.ctx)]
    /\ UNCHANGED <<linkVars, sources, image>>
Execute ==
    /\ Running /\ I.op \in {"execute", "execute_name"}
    /\ \E cl \in ToSet(Called) : Step(Enter(mach, cl))

Proceed ==
    /\ Is("proceed")
    /\ IF mach.rets = <<>>
       THEN Step(Goto(mach, NoCode))
       ELSE /\ mach' = [mach EXCEPT !.p = Last(mach.rets).p, !.ci = Last(mach.rets).ci,
                                    !.rets = Front(@)]
            /\ scope' = [scope EXCEPT !.ctx = Last(scope.callers), !.callers = Front(@)]
            /\ UNCHANGED <<linkVars, sources, image>>

Goals == IF image = None THEN {}
         ELSE {L!ConstIndex(tables, <<"G", i - 1>>) : i \in DOMAIN tables.gconsts}
Next ==
    \/ LinkWith(LoadTopModule) \/ LinkWith(Accumulate) \/ LinkWith(AssignSegmentId)
    \/ LinkWith(Import) \/ LinkWith(FinishModule)
    \/ LoadLinked \/ Install
    \/ \E c \in Goals : Query(c)
    \/ GetHead \/ AddImports \/ PushImport \/ RemoveImports \/ PopImports
    \/ PushImplPoint \/ PopImplPoint \/ Call \/ Execute \/ Proceed

Init ==
    /\ LinkInit(Programs)
    /\ \E p \in Programs :
          files = p.files /\ top = p.top /\ src = p.src /\ saw = p.saw
    /\ image = None /\ mach = Start
    /\ scope = [ctx |-> <<>>, callers |-> <<>>]
Spec == Init /\ [][Next]_vars

-----------------------------------------------------------------------------
\* What the properties say in terms of the source.
Paths == S!PathsFrom(src, top, <<>>)
FileAt(path) == files[S!ModAt(src, top, path)]
SourceAt(path) == src[S!ModAt(src, top, path)]

NameOf(f, ind) ==
    CASE ind[1] = "P" -> Elem(Pervasives, ind[2])
      [] ind[1] = "G" -> Elem(f.gconsts, ind[2]).name
      [] ind[1] = "L" -> Elem(f.lconsts, ind[2]).name
      [] ind[1] = "H" -> Elem(f.hconsts, ind[2]).name
Meant(path, ind) == S!Identity(src, top, path, NameOf(FileAt(path), ind))
KindMeant(path, ind) ==
    S!KindIdentity(src, top, path,
        Elem(IF ind[1] = "G" THEN FileAt(path).gkinds ELSE FileAt(path).lkinds, ind[2]).name)
IsNamed(e, id) == e.name = id.name /\ e.path = id.path

\* The instruction of a file that ins was.
Origin(ins) == Elem(FileAt(ins.from[1]).code, ins.from[2])
At(a, path, offset) == a # L!NULL /\ Elem(image.code, a).from = <<path, offset>>

\* A table of switch_on_constant at the address tab, for the table ents.
TableDenotes(path, tab, ents) ==
    \A c \in 0..(Len(image.consts) - 1) :
        LET of   == {i \in DOMAIN ents :
                        IsNamed(Elem(image.consts, c), Meant(path, ents[i][1]))}
            code == L!HashSrch(image.mem, tab, Len(ents), c)
        IN  IF of = {} THEN code = L!NULL
            ELSE \E i \in of : At(code, path, ents[i][2])
ImportAt(t) == importTabs[CHOOSE j \in DOMAIN image.tabAt : image.tabAt[j] = t]
ImplAt(t) == tables.impls[CHOOSE j \in DOMAIN image.implAt : image.implAt[j] = t]

InstrDenotes(ins) ==
    LET was  == Origin(ins)
        path == ins.from[1]
        both(f) == f \in DOMAIN ins /\ f \in DOMAIN was
    IN  /\ both("c") => IsNamed(Elem(image.consts, ins.c), Meant(path, was.c))
        /\ both("k") => IsNamed(Elem(image.kinds, ins.k), KindMeant(path, was.k))
        /\ both("s") => Elem(image.mem, ins.s) = Elem(FileAt(path).strings, was.s)
        /\ both("l") => At(ins.l, path, was.l)
        /\ both("h") => TableDenotes(path, ins.h, Elem(FileAt(path).hashtabs, was.h))
        /\ ins.op = "push_import" =>
              ImportAt(ins.t).path = Append(path, [kind |-> "imp", i |-> was.t + 1])
        /\ ins.op = "push_impl_point" => ImplAt(ins.t).of = [path |-> path, w |-> was.t + 1]

\* The local constants that the import table at t gives a universe.
LocalsAt(t) ==
    LET lct == L!ImpLCT(t, L!ImpLTS(image.mem, t))
    IN  [i \in 1..L!ImpNLC(image.mem, t) |->
            LET e == Elem(image.consts, Elem(image.mem, lct + i - 1))
            IN  [name |-> e.name, path |-> e.path]]
LocalsOf(path) ==
    UNION {{[name |-> e.name, path |-> p] : e \in ToSet(FileAt(p).lconsts)} :
               p \in {q \in Paths : S!Scope(q) = path}}

\* The entry of a context that a record stands for.
EntryOf(rec) == IF rec.tag = "import" THEN [path |-> ImportAt(rec.tab).path, w |-> 0]
                ELSE ImplAt(rec.tab).of
ClauseAt(a) == [path |-> Elem(image.code, a).from[1], of |-> Elem(image.code, a).of]
Tried(cls) == [i \in DOMAIN cls |-> ClauseAt(cls[i].code)]
Visible(id) == S!Visible(src, top, scope.ctx, id)

Idle == image # None /\ ~Running /\ mach.of = <<>>
CallOps == {"call", "call_name", "execute", "execute_name"}

-----------------------------------------------------------------------------
\* Through the renaming of names, the offsets of the linker's vectors, the
\* packing of indices and the loader's addresses, every operand of the code
\* and every table still means what it meant in the file it comes from: the
\* same constant, kind, string, clause, import or implication
\* (linker/module.c, linker/code.c, loader/code.c).
OperandsDenote ==
    Idle /\ mach.recs = <<>> =>
        /\ \A a \in DOMAIN image.code : InstrDenotes(image.code[a])
        /\ \A j \in DOMAIN image.tabAt :
              ToSet(LocalsAt(image.tabAt[j])) = LocalsOf(importTabs[j].path)

\* The type of each constant of the linked program is over the kind that its
\* declaration names, whichever module declared it (linker/const.c,
\* linker/kind.c, linker/tyskel.c).
TypesResolve ==
    phase = "linked" =>
        \A e \in ToSet(tables.gconsts \o tables.lconsts \o tables.hconsts) :
            LET k  == Elem(tables.skels, e.skel)[1]
                id == S!KindIdentity(src, top, e.path, KindOf[e.name])
            IN  /\ IsNamed(KindData(k), id)
                /\ KindData(k).arity = SourceAt(id.path).arity[id.name]

\* A call tries the clauses that the modules and implications of its context
\* have for the predicate, in their order, and no others; how the linker
\* resolved it (MakeCall, MakeCallName), the merging of tables and the next
\* clause tables make no difference (linker/importtab.c, abstmachine.c).  One
\* compiled to fail has none.
CallsReach ==
    /\ Running /\ I.op \in CallOps =>
          Tried(Called) = Visible(Meant(Here, Origin(I).c))
    /\ Is("fail") /\ "c" \in DOMAIN I => Visible(Meant(Here, Origin(I).c)) = <<>>
    /\ Idle /\ mach.recs # <<>> =>
          \A c \in Goals :
              LET code == FindCode(mach.recs, c)
                  e    == Elem(image.consts, c)
              IN  Tried(Reach(code.code, code.ip)) = Visible([name |-> e.name, path |-> e.path])

\* When a goal is called the records of the context are those that the source
\* says it is solved in: an import is there once however often clauses of its
\* module are entered, and goes with the outermost of them (the counts of
\* add_imports and remove_imports).
ContextAsSource ==
    LET entries == [i \in DOMAIN mach.recs |-> EntryOf(mach.recs[i])]
    IN  /\ Running /\ I.op \in CallOps => entries = scope.ctx
        /\ Is("proceed") =>
              entries = IF mach.rets = <<>> THEN << [path |-> <<>>, w |-> 0] >>
                        ELSE Last(scope.callers)

\* Linking fails when a module has a name in its signature that the one it
\* goes into was not compiled with, or a kind with another arity, and only
\* then (LoadGConst, LoadGKind).
Stale(path) ==
    LET m     == S!ModAt(src, top, path)
        above == S!ModAt(src, top, Front(path))
        known == saw[above][m]
    IN  \/ ~(ToSet(src[m].sig) \subseteq ToSet(known.sig))
        \/ ~(ToSet(src[m].kinds) \subseteq ToSet(known.kinds))
        \/ \E k \in ToSet(src[m].kinds) :
              src[m].arity[k] # SourceAt(S!KindIdentity(src, top, path, k).path).arity[k]
StaleRejected ==
    LET some == \E path \in Paths \ {<<>>} : Stale(path)
    IN  (phase = "linked" => ~some) /\ (phase = "failed" => some)

\* "CI: This stores a pointer to the impl/import point record that the clause
\* currently being used comes from" (implnotes/simulator/dataareas.txt:96):
\* add_imports finds the count of its module there.
CIOfClause ==
    Is("add_imports") => EntryOf(mach.recs[mach.ci]) = [path |-> S!Scope(Here), w |-> 0]
=============================================================================
