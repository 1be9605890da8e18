---------------------------- MODULE Backtracking ----------------------------
(***************************************************************************)
(* What the trail of the abstract machine promises to the rest of the      *)
(* simulator, with no trail in sight: a store of cells, and a stack of     *)
(* snapshots of it, one for each choice point.  Backtracking brings the    *)
(* whole snapshot back, whatever was bound, rebound or cut in between.     *)
(* Trail.tla implements this with the trail stack, the HB and B registers  *)
(* and the conditional trailing of trail.c.                                *)
(***************************************************************************)
EXTENDS Naturals, Sequences

CONSTANTS
    Addr,       \* addresses of the cells of the heap and of the stack
    Content     \* what a cell may hold

VARIABLES
    store,      \* the live cells and their contents
    saved       \* for each choice point, oldest first, the store it preserves

avars == <<store, saved>>

OnlyLive(f, D) == [a \in D |-> f[a]]

\* The cells that the newest choice point keeps alive.
Protected(sv) == DOMAIN sv[Len(sv)]

EmptyStore == [a \in {} |-> CHOOSE c \in Content : TRUE]

-----------------------------------------------------------------------------

\* The bottom choice point preserves no cell and is never forgotten.
AInit == /\ store = EmptyStore
         /\ saved = <<EmptyStore>>

\* A new cell comes to life, on the heap or on the stack.
AExtend == \E a \in Addr \ DOMAIN store, c \in Content :
              /\ store' = [b \in DOMAIN store \cup {a} |->
                              IF b = a THEN c ELSE store[b]]
              /\ UNCHANGED saved

\* Cells that no choice point preserves are given up.
AShrink == \E D \in SUBSET DOMAIN store :
              /\ Protected(saved) \subseteq D
              /\ store' = OnlyLive(store, D)
              /\ UNCHANGED saved

\* Any live cell may be overwritten, one a choice point preserves included.
AUpdate == \E a \in DOMAIN store, c \in Content :
              /\ store' = [store EXCEPT ![a] = c]
              /\ UNCHANGED saved

ASave == /\ saved' = Append(saved, store)
         /\ UNCHANGED store

\* Backtracking to the newest choice point, which has more alternatives (or
\* is the bottom one: the search has failed).
ARestore == /\ store' = saved[Len(saved)]
            /\ UNCHANGED saved

\* The newest choice point gives its last alternative and is forgotten.
AForget == /\ Len(saved) > 1
           /\ store' = saved[Len(saved)]
           /\ saved' = SubSeq(saved, 1, Len(saved) - 1)

\* The newest choice point turns out to have no alternative left: control
\* goes on to the one below it.
ASkip == /\ Len(saved) > 1
         /\ saved' = SubSeq(saved, 1, Len(saved) - 1)
         /\ store' = saved[Len(saved) - 1]

\* The newest choice points are cut away; the store is not touched, except
\* that cells only they kept alive may be given up.
ACut == \E k \in 1 .. Len(saved), D \in SUBSET DOMAIN store :
           /\ saved' = SubSeq(saved, 1, k)
           /\ Protected(saved') \subseteq D
           /\ store' = OnlyLive(store, D)

\* A new query starts from the store of the bottom choice point.
ARestart == /\ saved' = SubSeq(saved, 1, 1)
            /\ store' = saved[1]

ANext == \/ AExtend \/ AShrink \/ AUpdate \/ ASave
         \/ ARestore \/ AForget \/ ASkip \/ ACut \/ ARestart

ASpec == AInit /\ [][ANext]_avars
=============================================================================
