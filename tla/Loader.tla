------------------------------- MODULE Loader -------------------------------
(***************************************************************************)
(* The loader (src/source/loader) and the layout of the tables it makes    *)
(* (system/memory.c).  The tables of the linked file go to memory one      *)
(* behind the other; an operand of the code that was an index becomes the  *)
(* address of its table.  The tables of a table (the predicates it         *)
(* extends, its local constants, its search table) have no address of      *)
(* their own in it: they are found by the sizes of those before them.      *)
(* The symbol tables are sequences here, and a string is one word.         *)
(***************************************************************************)
EXTENDS Integers, Sequences, SequencesExt

CONSTANTS Pervasives
PervKinds == << "o" >>

NULL == -1
Elem(s, i) == s[i + 1]

-----------------------------------------------------------------------------
\* LD_CONST_GetConstInd, LD_KIND_GetKindInd: the constants of all sorts are in
\* one table, and so are the kinds.
ConstIndex(t, ind) ==
    LET past == CASE ind[1] = "H" -> Len(t.lconsts) + Len(t.gconsts)
                  [] ind[1] = "L" -> Len(t.gconsts)
                  [] OTHER        -> 0
    IN  ind[2] + past + (IF ind[1] = "P" THEN 0 ELSE Len(Pervasives))
KindIndex(t, ind) ==
    LET past == IF ind[1] = "L" THEN Len(t.gkinds) ELSE 0
    IN  ind[2] + past + (IF ind[1] = "P" THEN 0 ELSE Len(PervKinds))

\* LD_CONST_LoadCst, LD_KIND_LoadKst.
ConstTable(t) ==
    [i \in DOMAIN Pervasives |-> [name |-> Pervasives[i], path |-> <<>>]]
    \o t.gconsts \o t.lconsts \o t.hconsts
KindTable(t) ==
    [i \in DOMAIN PervKinds |-> [name |-> PervKinds[i], path |-> <<>>]]
    \o t.gkinds \o t.lkinds

-----------------------------------------------------------------------------
\* Search tables.  A sequential one has two words for an entry; in a hash
\* table an entry, or a link of a chain, has three: the constant, the address
\* of its code and the next one.
SeqWords(t, tab) ==
    FlattenSeq([i \in DOMAIN tab |-> << ConstIndex(t, tab[i][1]), tab[i][2] >>])

Hash(c, size) == c % size
RECURSIVE LastOfChain(_, _)
LastOfChain(mem, a) ==
    IF Elem(mem, a + 2) = NULL THEN a ELSE LastOfChain(mem, Elem(mem, a + 2))

\* Fault: an entry whose place is taken follows the one that has it, and the
\* rest of the chain is lost.
HashInsert_Unchained(mem, tab, size, c, code) ==
    LET a == tab + 3 * Hash(c, size)
    IN  IF Elem(mem, a) = NULL
        THEN [mem EXCEPT ![a + 1] = c, ![a + 2] = code]
        ELSE [mem EXCEPT ![a + 3] = Len(mem)] \o << c, code, NULL >>

HashInsert(mem, tab, size, c, code) ==
    LET a == tab + 3 * Hash(c, size)
    IN  IF Elem(mem, a) = NULL
        THEN [mem EXCEPT ![a + 1] = c, ![a + 2] = code]
        ELSE [mem EXCEPT ![LastOfChain(mem, a) + 3] = Len(mem)] \o << c, code, NULL >>

\* LD_SEARCHTAB_LoadHashTab: the memory with the table at its end.
LoadHashTab(t, mem, tab) ==
    FoldLeft(LAMBDA w, e : HashInsert(w, Len(mem), Len(tab), ConstIndex(t, e[1]), e[2]),
             mem \o [i \in 1..(3 * Len(tab)) |-> NULL], tab)

\* LD_SEARCHTAB_HashSrch, LD_SEARCHTAB_SeqnSrch.
RECURSIVE ChainSearch(_, _, _)
ChainSearch(mem, a, c) ==
    CASE a = NULL -> NULL
      [] a # NULL /\ Elem(mem, a) = c -> Elem(mem, a + 1)
      [] OTHER -> ChainSearch(mem, Elem(mem, a + 2), c)
HashSrch(mem, tab, size, c) == ChainSearch(mem, tab + 3 * Hash(c, size), c)
SeqnSrch(mem, tab, size, c) ==
    LET at == {i \in 0..(size - 1) : Elem(mem, tab + 2 * i) = c}
    IN  IF at = {} THEN NULL
        ELSE Elem(mem, tab + 2 * (CHOOSE i \in at : \A j \in at : i <= j) + 1)
Search(mem, fc, tab, size, c) ==
    IF fc = "hash" THEN HashSrch(mem, tab, size, c) ELSE SeqnSrch(mem, tab, size, c)

-----------------------------------------------------------------------------
\* The layout of implication and import tables (system/memory.c).
ImplFix == 3
ImplLT(tab) == tab + ImplFix
ImplPST(tab, lts) == tab + ImplFix + lts
ImplLTS(mem, tab) == Elem(mem, tab)
ImplFC(mem, tab) == Elem(mem, tab + 1)
ImplPSTS(mem, tab) == Elem(mem, tab + 2)

ImpFix == 5
ImpLT(tab) == tab + ImpFix
ImpLCT(tab, lts) == tab + ImpFix + lts
ImpPST(tab, lts, nlc) == tab + ImpFix + lts + nlc
ImpNCSEG(mem, tab) == Elem(mem, tab)
ImpNLC(mem, tab) == Elem(mem, tab + 1)
ImpLTS(mem, tab) == Elem(mem, tab + 2)
ImpFC(mem, tab) == Elem(mem, tab + 3)
ImpPSTS(mem, tab) == Elem(mem, tab + 4)

Indexes(t, inds) == [i \in DOMAIN inds |-> ConstIndex(t, inds[i])]

\* LD_IMPLGOAL_LoadImplGoal: its search function is always the sequential one.
LoadImplGoal(t, mem, impl) ==
    mem \o << Len(impl.ext), "seqn", Len(impl.tab) >> \o Indexes(t, impl.ext)
        \o SeqWords(t, impl.tab)

\* LD_IMPORTTAB_LoadImportTab.
LoadImportTab(t, mem, it) ==
    LoadHashTab(t, mem \o << it.numSegs, Len(it.lconsts), Len(it.nct), "hash",
                             Len(it.tabs[1]) >>
                    \o Indexes(t, it.nct) \o Indexes(t, it.lconsts),
                it.tabs[1])

\* The memory after loading the entries of s one by one, and their addresses.
LoadAll(t, mem, s, load(_, _, _)) ==
    FoldLeft(LAMBDA r, e : [mem |-> load(t, r.mem, e), at |-> Append(r.at, Len(r.mem))],
             [mem |-> mem, at |-> <<>>], s)
LoadString(t, mem, str) == Append(mem, str)

-----------------------------------------------------------------------------
\* LD_LOADER_Load.  LD_CODE_LoadCode makes addresses of the operands.
LoadInstr(t, ins, strings, impls, hashtabs, imports) ==
    [f \in DOMAIN ins |->
        CASE f = "c" -> ConstIndex(t, ins.c)
          [] f = "k" -> KindIndex(t, ins.k)
          [] f = "s" -> Elem(strings, ins.s)
          [] f = "h" -> Elem(hashtabs, ins.h)
          [] f = "t" -> Elem(IF ins.op = "push_import" THEN imports ELSE impls, ins.t)
          [] OTHER   -> ins[f]]

Load(t, importTabs, code) ==
    LET strings  == LoadAll(t, <<>>, t.strings, LoadString)
        impls    == LoadAll(t, strings.mem, t.impls, LoadImplGoal)
        hashtabs == LoadAll(t, impls.mem, t.hashtabs, LoadHashTab)
        imports  == LoadAll(t, hashtabs.mem, importTabs, LoadImportTab)
    IN  [mem |-> imports.mem, addtable |-> imports.at[1], tabAt |-> imports.at,
         implAt |-> impls.at, consts |-> ConstTable(t), kinds |-> KindTable(t),
         code |-> [a \in DOMAIN code |->
                    LoadInstr(t, code[a], strings.at, impls.at, hashtabs.at, imports.at)]]
=============================================================================
