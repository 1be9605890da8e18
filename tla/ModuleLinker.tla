---------------------------- MODULE ModuleLinker ----------------------------
(***************************************************************************)
(* The linker (src/source/linker): the bytecode files of the modules that  *)
(* a module accumulates and imports become one program.  The constants,    *)
(* kinds, types, strings and tables of all of them go one behind the other *)
(* into the linker's vectors, so an index of a file is moved by where the  *)
(* module's part of the vector starts; the names a module shares with the  *)
(* one it goes into are those of that module, through the renaming tables. *)
(* An import table gathers what the code of an imported module needs, that *)
(* of the modules accumulated into it included.                            *)
(*                                                                         *)
(* files has the file of every module.  A path, ghost state, says how a    *)
(* module came into the program: <<>> is the top one.                      *)
(***************************************************************************)
EXTENDS Integers, Sequences, FiniteSets, SequencesExt, TLC

CONSTANTS Pervasives,  \* the pervasive constants
          Width        \* 2^16: a packed index has 16 bits
PervKinds == << "o" >>

VARIABLES files,       \* the bytecode file of each module
          top,         \* the top module
          tables,      \* the vectors
          importTabs,  \* the import tables
          frames,      \* the modules being read, the innermost last (Module_st)
          renamed,     \* KindRNTree and ConstRNTree
          phase        \* "link", "linked" or "failed"
linkVars == <<files, top, tables, importTabs, frames, renamed, phase>>

Elem(s, i) == s[i + 1]
Curr == frames[Len(frames)]
File(fr) == files[fr.mod]

\* CT is the import table of the innermost module.
CTID == Curr.tab

-----------------------------------------------------------------------------
\* Indices (module.c).  The compiler writes none that is out of range, so the
\* checks of LK_ADJUST do not fail.
\* Fault: local kinds are not moved.
GetKindInd_Unmoved(fr, ind) == IF ind[1] = "G" THEN Elem(fr.gkinds, ind[2]) ELSE ind

GetKindInd(fr, ind) ==
    CASE ind[1] = "L" -> <<"L", ind[2] + fr.at.lkinds>>
      [] ind[1] = "G" -> Elem(fr.gkinds, ind[2])
      [] OTHER        -> ind

\* Fault: a hidden constant is moved by the offset of the local ones.
GetConstInd_HiddenAsLocal(fr, ind) ==
    CASE ind[1] = "L" -> <<"L", ind[2] + fr.at.lconsts>>
      [] ind[1] = "H" -> <<"H", ind[2] + fr.at.lconsts>>
      [] ind[1] = "G" -> Elem(fr.gconsts, ind[2])
      [] OTHER        -> ind

GetConstInd(fr, ind) ==
    CASE ind[1] = "L" -> <<"L", ind[2] + fr.at.lconsts>>
      [] ind[1] = "H" -> <<"H", ind[2] + fr.at.hconsts>>
      [] ind[1] = "G" -> Elem(fr.gconsts, ind[2])
      [] OTHER        -> ind
GetCodeInd(fr, a) == a + fr.at.code
GetTab(fr, tab) ==
    [i \in DOMAIN tab |-> <<GetConstInd(fr, tab[i][1]), GetCodeInd(fr, tab[i][2])>>]
GetInds(fr, inds) == [i \in DOMAIN inds |-> GetConstInd(fr, inds[i])]

\* PackConstInd, UnPackConstInd and those of kinds, with the sizes of the
\* vectors when the file is written.
PackConstInd(ind, globals) ==
    CASE ind[1] = "P" -> ind[2]
      [] ind[1] = "G" -> ind[2] + Len(Pervasives)
      [] ind[1] = "L" -> (ind[2] + Len(Pervasives) + globals) % Width
      [] ind[1] = "H" -> (-(ind[2] + 1)) % Width
UnPackConstInd(c, globals, locals) ==
    CASE c < Len(Pervasives) -> <<"P", c>>
      [] c \in Len(Pervasives)..(Len(Pervasives) + globals - 1) ->
            <<"G", c - Len(Pervasives)>>
      [] c \in (Len(Pervasives) + globals)..(Len(Pervasives) + globals + locals - 1) ->
            <<"L", c - Len(Pervasives) - globals>>
      [] OTHER -> <<"H", (-c - 1) % Width>>
PackKindInd(ind, globals) ==
    CASE ind[1] = "P" -> ind[2]
      [] ind[1] = "G" -> ind[2] + Len(PervKinds)
      [] ind[1] = "L" -> (ind[2] + Len(PervKinds) + globals) % Width
UnPackKindInd(k, globals) ==
    CASE k < Len(PervKinds) -> <<"P", k>>
      [] k \in Len(PervKinds)..(Len(PervKinds) + globals - 1) -> <<"G", k - Len(PervKinds)>>
      [] OTHER -> <<"L", k - Len(PervKinds) - globals>>

-----------------------------------------------------------------------------
\* Renaming (rename.c, tree.c).
Tree(ents, inds) ==
    [x \in {ents[i][1] : i \in DOMAIN ents} |->
        inds[CHOOSE i \in DOMAIN ents : ents[i][1] = x]]
KindRNTab(fr, ents) == Tree(ents, [i \in DOMAIN ents |-> GetKindInd(fr, ents[i][2])])
ConstRNTab(fr, ents) == Tree(ents, [i \in DOMAIN ents |-> GetConstInd(fr, ents[i][2])])

\* Fault: the tree still has the names of the module read before.
LoadRNTables_Kept(fr, ren) ==
    [kinds |-> KindRNTab(fr, ren.kinds) @@ renamed.kinds,
     consts |-> ConstRNTab(fr, ren.consts) @@ renamed.consts]

LoadRNTables(fr, ren) ==
    [kinds |-> KindRNTab(fr, ren.kinds), consts |-> ConstRNTab(fr, ren.consts)]
NoNames == [kinds |-> <<>>, consts |-> <<>>]

KindData(ind) == Elem(IF ind[1] = "L" THEN tables.lkinds ELSE tables.gkinds, ind[2])
\* LoadGKind and LoadGConst throw for a name that is not in the tree, and for
\* a kind whose arity is not that of the kind it becomes.
Renames(ren, f) ==
    /\ \A i \in DOMAIN f.gkinds :
          /\ f.gkinds[i].name \in DOMAIN ren.kinds
          /\ f.gkinds[i].arity = KindData(ren.kinds[f.gkinds[i].name]).arity
    /\ \A i \in DOMAIN f.gconsts : f.gconsts[i].name \in DOMAIN ren.consts

-----------------------------------------------------------------------------
\* Reading the tables of a module (LoadTopModule, LoadAccModule and
\* LoadImpModule up to LoadBvrTabs; the compiler writes no table of bound
\* variables).
Empty == [gkinds |-> <<>>, lkinds |-> <<>>, skels |-> <<>>, gconsts |-> <<>>,
          lconsts |-> <<>>, hconsts |-> <<>>, strings |-> <<>>, impls |-> <<>>,
          hashtabs |-> <<>>, code |-> <<>>]

\* LK_VECTOR_Read and the like: where the module's part of each vector starts.
Offsets == [v \in DOMAIN Empty |-> Len(tables[v])]
Frame(mod, path, tab, gkinds, gconsts) ==
    [mod |-> mod, path |-> path, tab |-> tab, at |-> Offsets, gkinds |-> gkinds,
     gconsts |-> gconsts, stage |-> "accumulate", read |-> 0, seg |-> -1, imports |-> <<>>]

\* LoadTopGKinds, LoadTopGConsts.
TopFrame ==
    LET globals(s) == [i \in DOMAIN s |-> <<"G", i - 1>>]
    IN  Frame(top, <<>>, 0, globals(files[top].gkinds), globals(files[top].gconsts))
\* LoadGKinds, LoadGConsts.
ChildFrame(mod, path, tab, ren) ==
    Frame(mod, path, tab,
          [i \in DOMAIN files[mod].gkinds |-> ren.kinds[files[mod].gkinds[i].name]],
          [i \in DOMAIN files[mod].gconsts |-> ren.consts[files[mod].gconsts[i].name]])

\* A constant's type is moved with the types of its module.
ConstEntries(fr, s) ==
    [i \in DOMAIN s |-> [name |-> s[i].name, path |-> fr.path,
                         skel |-> s[i].skel + fr.at.skels]]
KindEntries(fr, s) ==
    [i \in DOMAIN s |-> [name |-> s[i].name, path |-> fr.path, arity |-> s[i].arity]]
SkelEntries(fr, s) == [i \in DOMAIN s |-> [j \in DOMAIN s[i] |-> GetKindInd(fr, s[i][j])]]
ImplEntries(fr, s) ==
    [i \in DOMAIN s |-> [ext |-> GetInds(fr, s[i].ext), tab |-> GetTab(fr, s[i].tab),
                         of |-> [path |-> fr.path, w |-> i]]]

\* The vectors with those of the file; LoadCodeSize keeps room for its code.
LoadTables(fr) ==
    LET f == File(fr)
        own == fr.path = <<>>
    IN  [gkinds |-> IF own THEN KindEntries(fr, f.gkinds) ELSE tables.gkinds,
         lkinds |-> tables.lkinds \o KindEntries(fr, f.lkinds),
         skels |-> tables.skels \o SkelEntries(fr, f.skels),
         gconsts |-> IF own THEN ConstEntries(fr, f.gconsts) ELSE tables.gconsts,
         lconsts |-> tables.lconsts \o ConstEntries(fr, f.lconsts),
         hconsts |-> tables.hconsts \o ConstEntries(fr, f.hconsts),
         strings |-> tables.strings \o f.strings,
         impls |-> tables.impls \o ImplEntries(fr, f.impls),
         hashtabs |-> tables.hashtabs \o [j \in DOMAIN f.hashtabs |-> GetTab(fr, f.hashtabs[j])],
         code |-> tables.code \o [i \in DOMAIN f.code |-> [op |-> "unread"]]]

-----------------------------------------------------------------------------
\* Import tables (importtab.c).
LocalConstants(fr) ==
    [i \in 1..Len(File(fr).lconsts) |-> <<"L", fr.at.lconsts + i - 1>>]
\* LoadImplGoal marks what the implications of the module extend.
Implied(fr) ==
    UNION {ToSet(GetInds(fr, File(fr).impls[k].ext)) : k \in DOMAIN File(fr).impls}
ImportTab(fr, parent, low) ==
    [parent |-> parent, path |-> fr.path, numSegs |-> 0,
     nct |-> GetInds(fr, File(fr).nct), expd |-> GetInds(fr, File(fr).expd),
     lconsts |-> LocalConstants(fr), low |-> low, tabs |-> << GetTab(fr, File(fr).tab) >>,
     dynamic |-> Implied(fr), calls |-> <<>>]

IsImportLocal(it, ind) == ind[1] = "L" /\ ind[2] >= it.low
ShouldTidy(it, ind) == IsImportLocal(it, ind) \/ Contains(it.expd, ind)
ConditionallyAdd(it, ind) ==
    IF ShouldTidy(it, ind) \/ Contains(it.nct, ind) THEN it
    ELSE [it EXCEPT !.nct = Append(@, ind)]

TopImportTab(fr) == << ImportTab(fr, -1, 0) >>
AccImportTab(fr) ==
    LET it == FoldLeft(ConditionallyAdd, Elem(importTabs, fr.tab), GetInds(fr, File(fr).nct))
    IN  [importTabs EXCEPT ![fr.tab + 1] =
            [it EXCEPT !.lconsts = @ \o LocalConstants(fr),
                       !.tabs = Append(@, GetTab(fr, File(fr).tab)),
                       !.dynamic = @ \cup Implied(fr)]]

ImpImportTab(fr, parent) ==
    LET it == ImportTab(fr, parent, fr.at.lconsts)
    IN  Append([importTabs EXCEPT ![parent + 1].dynamic =
                    @ \cup ToSet(it.nct) \cup ToSet(it.expd)],
               [it EXCEPT !.dynamic = @ \cup ToSet(it.nct)])

-----------------------------------------------------------------------------
\* Code (LoadCode).  An operand that is not named below is kept.
LoadInstr(fr, i) ==
    LET ins == File(fr).code[i]
        globals(v) == Len(tables[v])
        operand(f) ==
            CASE f = "from" -> <<fr.path, i - 1>>
              [] f = "c"    -> PackConstInd(GetConstInd(fr, ins.c), globals("gconsts"))
              [] f = "k"    -> PackKindInd(GetKindInd(fr, ins.k), globals("gkinds"))
              [] f = "s"    -> ins.s + fr.at.strings
              [] f = "h"    -> ins.h + fr.at.hashtabs
              [] f = "l"    -> GetCodeInd(fr, ins.l)
              [] f = "cls"  -> [j \in DOMAIN ins.cls |-> GetCodeInd(fr, ins.cls[j])]
              [] f = "t"    -> IF ins.op = "push_import" THEN Elem(fr.imports, ins.t)
                               ELSE ins.t + fr.at.impls
              [] f = "seg"  -> fr.seg
              [] OTHER      -> ins[f]
    IN  [f \in DOMAIN ins \cup {"from"} |-> operand(f)]
LoadCode(fr) ==
    [a \in DOMAIN tables.code |->
        IF a > fr.at.code /\ a <= fr.at.code + Len(File(fr).code)
        THEN LoadInstr(fr, a - fr.at.code) ELSE tables.code[a]]

\* PushCall: the calls of the module that RestoreImportTab resolves.
LinkOnly == {"call_link_only", "execute_link_only"}
PushedCalls(fr) ==
    LET calls == SelectSeq([i \in DOMAIN File(fr).code |-> i],
                           LAMBDA i : File(fr).code[i].op \in LinkOnly)
    IN  [j \in DOMAIN calls |-> [pred |-> GetConstInd(fr, File(fr).code[calls[j]].c),
                                 addr |-> GetCodeInd(fr, calls[j] - 1)]]

\* HashTabSearch.
Entry(tab, ind) == {i \in DOMAIN tab : tab[i][1] = ind}

\* The definition that is left of two has the clauses cls; it is the older
\* one, which stays open, or the younger one, which is closed by now.
MergedDef(code, older, younger, cls) ==
    LET at  == IF Elem(code, older).n > 0 THEN older ELSE younger
        out == IF Elem(code, older).n > 0 THEN younger ELSE older
    IN  [code |-> [code EXCEPT ![out + 1] = [op |-> "fail", from |-> @.from],
                               ![at + 1] = [Elem(code, older) EXCEPT !.cls = cls]],
         at |-> at]

\* MergeDefs, as far as it shows here (module Linker has the instructions).
MergeDefs(code, older, younger) ==
    MergedDef(code, older, younger, Elem(code, younger).cls \o Elem(code, older).cls)

\* MergeFindCodeTabs, for an entry e of the younger table.
MergeEntry(it, r, e) ==
    IF Entry(r.tab, e[1]) # {}
    THEN LET j == CHOOSE i \in Entry(r.tab, e[1]) : TRUE
             m == MergeDefs(r.code, r.tab[j][2], e[2])
         IN  [code |-> m.code, tab |-> [r.tab EXCEPT ![j][2] = m.at]]
    ELSE [code |-> IF ShouldTidy(it, e[1]) THEN [r.code EXCEPT ![e[2] + 1].n = 0] ELSE r.code,
          tab |-> Append(r.tab, e)]
MergeTabs(it, code) ==
    FoldLeft(LAMBDA r, e : MergeEntry(it, r, e), [code |-> code, tab |-> it.tabs[1]],
             FlattenSeq(Tail(it.tabs)))

\* ResolvePredCalls: MakeCallName or MakeCall.
HashCodeAddr(tab, ind) ==
    IF Entry(tab, ind) = {} THEN -1 ELSE tab[CHOOSE i \in Entry(tab, ind) : TRUE][2]
ResolveCall(it, tab, code, call) ==
    LET exec == Elem(code, call.addr).op = "execute_link_only"
        from == Elem(code, call.addr).from
    IN  [code EXCEPT ![call.addr + 1] =
            IF call.pred \in it.dynamic
            THEN [op |-> IF exec THEN "execute_name" ELSE "call_name", from |-> from,
                  c |-> PackConstInd(call.pred, Len(tables.gconsts))]
            ELSE [op |-> IF exec THEN "execute" ELSE "call", from |-> from,
                  l |-> HashCodeAddr(tab, call.pred)]]

-----------------------------------------------------------------------------
\* LoadTopModule, until it reads the modules it accumulates.
LoadTopModule ==
    /\ phase = "link" /\ importTabs = <<>>
    /\ frames' = << TopFrame >>
    /\ tables' = LoadTables(TopFrame)
    /\ importTabs' = TopImportTab(TopFrame)
    /\ UNCHANGED <<files, top, renamed, phase>>

\* An iteration of LoadAccModules or LoadImpModules: the tables of the next
\* module are read, into the import table tab, tabs(fr).
Child(kind) == [kind |-> kind, i |-> Curr.read + 1]
ReadModule(kind, tab, tabs(_)) ==
    LET ren   == LoadRNTables(Curr, File(Curr)[kind][Curr.read + 1])
        mod   == File(Curr)[kind][Curr.read + 1].name
        fr    == ChildFrame(mod, Append(Curr.path, Child(kind)), tab, ren)
        known == IF kind = "imp" THEN Append(Curr.imports, tab) ELSE Curr.imports
    IN  IF Renames(ren, files[mod])
        THEN /\ renamed' = ren
             /\ frames' = Append([frames EXCEPT ![Len(frames)].read = @ + 1,
                                                ![Len(frames)].imports = known], fr)
             /\ tables' = LoadTables(fr)
             /\ importTabs' = tabs(fr)
             /\ UNCHANGED <<files, top, phase>>
        ELSE /\ phase' = "failed"
             /\ renamed' = ren
             /\ UNCHANGED <<files, top, frames, tables, importTabs>>

Reading(stage, kind) ==
    /\ phase = "link" /\ frames # <<>>
    /\ Curr.stage = stage
    /\ Curr.read < Len(File(Curr)[kind])
AllRead(stage, kind) ==
    /\ phase = "link" /\ frames # <<>>
    /\ Curr.stage = stage
    /\ Curr.read = Len(File(Curr)[kind])

Accumulate ==
    /\ Reading("accumulate", "acc")
    /\ ReadModule("acc", CTID, AccImportTab)

\* Fault: all the modules of an import table share one segment.
AssignSegmentId_Shared ==
    /\ AllRead("accumulate", "acc")
    /\ LET some == File(Curr).imp # <<>>
       IN  /\ importTabs' = [importTabs EXCEPT ![CTID + 1].numSegs = IF some THEN 1 ELSE @]
           /\ frames' = [frames EXCEPT ![Len(frames)].stage = "import",
                                       ![Len(frames)].read = 0,
                                       ![Len(frames)].seg = IF some THEN 1 ELSE @]
    /\ UNCHANGED <<files, top, tables, renamed, phase>>

\* The start of LoadImpModules: a module that imports has a segment of its own
\* in its import table.
AssignSegmentId ==
    /\ AllRead("accumulate", "acc")
    /\ LET n == Elem(importTabs, CTID).numSegs + (IF File(Curr).imp # <<>> THEN 1 ELSE 0)
       IN  /\ importTabs' = [importTabs EXCEPT ![CTID + 1].numSegs = n]
           /\ frames' = [frames EXCEPT ![Len(frames)].stage = "import",
                                       ![Len(frames)].read = 0,
                                       ![Len(frames)].seg = IF File(Curr).imp # <<>> THEN n ELSE -1]
    /\ UNCHANGED <<files, top, tables, renamed, phase>>

\* NewImportTab, LoadImpModule.
Import ==
    /\ Reading("import", "imp")
    /\ ReadModule("imp", Len(importTabs), LAMBDA fr : ImpImportTab(fr, CTID))

\* LoadCode, and RestoreImportTab when the module has an import table.
FinishModule ==
    /\ AllRead("import", "imp")
    /\ frames' = Front(frames)
    /\ LET it   == [Elem(importTabs, CTID) EXCEPT !.calls = @ \o PushedCalls(Curr)]
           owns == it.path = Curr.path
           m    == MergeTabs(it, LoadCode(Curr))
       IN  IF owns
           THEN /\ tables' = [tables EXCEPT !.code =
                        FoldLeft(LAMBDA code, call : ResolveCall(it, m.tab, code, call),
                                 m.code, it.calls)]
                /\ importTabs' = [importTabs EXCEPT ![CTID + 1] =
                        [it EXCEPT !.tabs = << m.tab >>, !.calls = <<>>]]
           ELSE /\ tables' = [tables EXCEPT !.code = LoadCode(Curr)]
                /\ importTabs' = [importTabs EXCEPT ![CTID + 1] = it]
    /\ phase' = IF Len(frames) = 1 THEN "linked" ELSE phase
    /\ UNCHANGED <<files, top, renamed>>

LinkInit(programs) ==
    /\ \E p \in programs : files = p.files /\ top = p.top
    /\ tables = Empty /\ importTabs = <<>> /\ frames = <<>>
    /\ renamed = NoNames /\ phase = "link"

-----------------------------------------------------------------------------
\* WriteAll: the instructions as they are in the linked file.
Written ==
    [a \in DOMAIN tables.code |->
        LET ins == tables.code[a]
            g(v) == Len(tables[v])
        IN  [f \in DOMAIN ins |->
                CASE f = "c" -> UnPackConstInd(ins.c, g("gconsts"), g("lconsts"))
                  [] f = "k" -> UnPackKindInd(ins.k, g("gkinds"))
                  [] OTHER   -> ins[f]]]
=============================================================================
