------------------------------- MODULE Trail --------------------------------
(***************************************************************************)
(* The binding store of the abstract machine: heap and stack cells, the    *)
(* choice points that delimit them, the trail and its unwinding            *)
(* (simulator/trail.c, the choice point part of simulator/abstmachine.c    *)
(* and the fail handler of simulator/simulator.c).                         *)
(*                                                                         *)
(* Addresses are the words of one memory block: the heap comes first and   *)
(* the stack begins where the heap ends, so that addresses of the two can  *)
(* be compared, as the code does.  A cell takes one address, and a choice  *)
(* point none: its own words hold no cell.  The registers HREG, HB and TR, *)
(* and B through the stack of choice points, are variables; tos stands for *)
(* the end of the live part of the stack (the environment on top, the TOS  *)
(* register, whichever is higher).                                         *)
(***************************************************************************)
EXTENDS Integers, Sequences

CONSTANTS
    StackBeg,   \* AM_stackBeg, the first stack address: the heap is below
    StackEnd,   \* AM_stackEnd, the first address past the stack
    TrailMax,   \* how many items the trail holds
    CPMax,      \* bound on the number of choice points, for TLC
    Terms,      \* contents of term cells
    Types,      \* contents of type cells
    Counts,     \* contents of backchained fields: a count and a choice point
    FreeType    \* the content of an unbound type variable

ASSUME SizeAssumption == /\ StackBeg \in Nat
                         /\ StackEnd \in Nat
                         /\ StackBeg < StackEnd
                         /\ TrailMax \in Nat
                         /\ CPMax \in Nat

ASSUME ContentAssumption == FreeType \in Types

Addr == 0 .. StackEnd - 1

Content == Terms \cup Types \cup Counts

\* The item tags of TR_TrailDataCategory that the code pushes.
Tags == {"TERM", "TYPE", "MOD"}

\* A trail item; "old" means nothing in an item tagged TYPE.
Item == [tag : Tags, addr : Addr, old : Content]

\* The fields of a choice point that concern the store: the stack address it
\* was put at, its heap point and its trail point.
ChoicePoint == [addr : StackBeg .. StackEnd, h : 0 .. StackBeg, tr : Nat]

VARIABLES
    mem,        \* the memory: a content for each address
    hreg,       \* AM_hreg, the heap top
    tos,        \* end of the live part of the stack
    hbreg,      \* AM_hbreg, the heap backtrack point register
    cps,        \* the choice points, AM_fstCP first
    trail,      \* the items between AM_trailBeg and AM_trreg
    mode,       \* "run", "unwind" (backtracking), "failed" or "toplevel"
    saved       \* history: the store at the creation of each choice point

regs == <<hreg, tos, hbreg, cps>>
vars == <<mem, hreg, tos, hbreg, cps, trail, mode, saved>>

Top(s) == s[Len(s)]

\* AM_breg: the newest choice point.  AM_fstCP sits on the first stack word.
breg == Top(cps).addr

AM_cpH(s) == Top(s).h
AM_cpTR   == Top(cps).tr

Live(h, t) == (0 .. h - 1) \cup (StackBeg + 1 .. t - 1)

Store == [a \in Live(hreg, tos) |-> mem[a]]

Init == /\ mem \in [Addr -> {FreeType}]
        /\ hreg = 0
        /\ tos = StackBeg + 1
        /\ hbreg = 0
        /\ cps = <<[addr |-> StackBeg, h |-> 0, tr |-> 0]>>
        /\ trail = <<>>
        /\ mode = "run"
        /\ saved = <<[a \in {} |-> FreeType]>>

-----------------------------------------------------------------------------
\* Overflow of the heap, the stack or the trail: an error that no solution
\* attempt survives.
Overflow == /\ mode' = "toplevel"
            /\ UNCHANGED <<mem, hreg, tos, hbreg, cps, trail, saved>>

\* Fault: the limit is passed by one cell before the error is raised.
HeapAlloc_OffByOne(c) ==
    /\ mode = "run"
    /\ IF hreg > StackBeg
       THEN Overflow
       ELSE /\ mem' = [mem EXCEPT ![hreg] = c]
            /\ hreg' = hreg + 1
            /\ UNCHANGED <<tos, hbreg, cps, trail, mode, saved>>

\* Building a cell at the heap top.
HeapAlloc(c) ==
    /\ mode = "run"
    /\ IF hreg + 1 > StackBeg       \* AM_heapError
       THEN Overflow
       ELSE /\ mem' = [mem EXCEPT ![hreg] = c]
            /\ hreg' = hreg + 1
            /\ UNCHANGED <<tos, hbreg, cps, trail, mode, saved>>

\* An environment variable or a backchained field comes to life.
StackAlloc(c) ==
    /\ mode = "run"
    /\ IF tos + 1 > StackEnd        \* AM_stackError
       THEN Overflow
       ELSE /\ mem' = [mem EXCEPT ![tos] = c]
            /\ tos' = tos + 1
            /\ UNCHANGED <<hreg, hbreg, cps, trail, mode, saved>>

\* Fault: the stack shrinks below the newest choice point.
StackFree_IgnoresCP(t) ==
    /\ mode = "run"
    /\ t < tos /\ t > StackBeg
    /\ tos' = t
    /\ UNCHANGED <<mem, hreg, hbreg, cps, trail, mode, saved>>

\* deallocate, pop_impl_point or the trimming of an environment: the stack
\* shrinks, down to the newest choice point at most.
StackFree(t) ==
    /\ mode = "run"
    /\ t < tos /\ t >= breg /\ t > StackBeg
    /\ tos' = t
    /\ UNCHANGED <<mem, hreg, hbreg, cps, trail, mode, saved>>

-----------------------------------------------------------------------------
\* Fault: the tests forget that the stack has cells to trail too.
MustTrail_HeapOnly(a) == a <= hbreg

\* The three tests for trailing.  trailTerm's first one admits hbreg itself.
MustTrailTerm(a)  == a <= hbreg \/ (hreg < a /\ a < breg)
MustTrailHTerm(a) == a < hbreg
MustTrailETerm(a) == a < breg
MustTrailType(a)  == a < hbreg \/ (hreg < a /\ a < breg)

\* Trailing a cell under a test, then overwriting it.
TrailAndSet(a, tag, must, c) ==
    IF must /\ Len(trail) + 1 > TrailMax       \* AM_trailError
    THEN Overflow
    ELSE /\ trail' = IF must
                     THEN Append(trail, [tag |-> tag, addr |-> a,
                                         old |-> mem[a]])
                     ELSE trail
         /\ mem' = [mem EXCEPT ![a] = c]
         /\ UNCHANGED <<regs, mode, saved>>

\* Binding a variable, or overwriting a term by its head normal form.
BindTerm(a, c) ==
    /\ mode = "run"
    /\ a \in Live(hreg, tos) /\ mem[a] \in Terms
    /\ TrailAndSet(a, "TERM", MustTrailTerm(a), c)

\* The same when the caller knows that the term is on the heap.
BindHTerm(a, c) ==
    /\ mode = "run"
    /\ a < hreg /\ mem[a] \in Terms
    /\ TrailAndSet(a, "TERM", MustTrailHTerm(a), c)

\* The same when the caller knows that the term is on the stack.
BindETerm(a, c) ==
    /\ mode = "run"
    /\ a \in Live(0, tos) /\ mem[a] \in Terms
    /\ TrailAndSet(a, "TERM", MustTrailETerm(a), c)

\* Binding a free type variable: the item keeps no old value.
BindType(a, c) ==
    /\ mode = "run"
    /\ a \in Live(hreg, tos) /\ mem[a] = FreeType
    /\ TrailAndSet(a, "TYPE", MustTrailType(a), c)

\* TR_trailImport and the update of a backchained field.  The test is made
\* by the callers, on the field itself: see Control.tla.
SetImport(a, c) ==
    /\ mode = "run"
    /\ a \in Live(0, tos) /\ mem[a] \in Counts
    /\ TrailAndSet(a, "MOD", TRUE, c)

-----------------------------------------------------------------------------
\* Fault: the heap backtrack point register is not set.
Try_NoHB == /\ mode = "run"
            /\ Len(cps) < CPMax
            /\ cps' = Append(cps, [addr |-> tos, h |-> hreg, tr |-> Len(trail)])
            /\ saved' = Append(saved, Store)
            /\ UNCHANGED <<mem, hreg, tos, hbreg, trail, mode>>

\* try, try_me_else, try_else: a choice point on top of the stack.
Try == /\ mode = "run"
       /\ Len(cps) < CPMax
       /\ cps' = Append(cps, [addr |-> tos, h |-> hreg, tr |-> Len(trail)])
       /\ hbreg' = hreg
       /\ saved' = Append(saved, Store)
       /\ UNCHANGED <<mem, hreg, tos, trail, mode>>

\* What EM_FAIL leads to: at AM_fstCP there is nothing left to try.
Backtrack(s) == IF Len(s) = 1 THEN "failed" ELSE "unwind"

Fail == /\ mode = "run"
        /\ mode' = Backtrack(cps)
        /\ UNCHANGED <<mem, regs, trail, saved>>

\* What an item of the trail brings back.
Undo(item) == IF item.tag = "TYPE" THEN FreeType ELSE item.old

\* Fault: the items are undone in the order they were trailed in.
Unwind_OldestFirst ==
    /\ mode = "unwind"
    /\ Len(trail) > AM_cpTR
    /\ LET item == trail[AM_cpTR + 1]
       IN  mem' = [mem EXCEPT ![item.addr] = Undo(item)]
    /\ trail' = SubSeq(trail, 1, AM_cpTR) \o SubSeq(trail, AM_cpTR + 2, Len(trail))
    /\ UNCHANGED <<regs, mode, saved>>

\* Fault: the loop stops one item early.
Unwind_StopsEarly ==
    /\ mode = "unwind"
    /\ Len(trail) > AM_cpTR + 1
    /\ LET item == trail[Len(trail)]
       IN  mem' = [mem EXCEPT ![item.addr] = Undo(item)]
    /\ trail' = SubSeq(trail, 1, Len(trail) - 1)
    /\ UNCHANGED <<regs, mode, saved>>

\* One turn of the loop of TR_unwindTrail(AM_cpTR()).
Unwind == /\ mode = "unwind"
          /\ Len(trail) > AM_cpTR
          /\ LET item == trail[Len(trail)]
             IN  mem' = [mem EXCEPT ![item.addr] = Undo(item)]
          /\ trail' = SubSeq(trail, 1, Len(trail) - 1)
          /\ UNCHANGED <<regs, mode, saved>>

Unwound == mode = "unwind" /\ Len(trail) = AM_cpTR

\* retry, retry_me_else, retry_else: the choice point stays.
Retry == /\ Unwound
         /\ mode' = "run"
         /\ hreg' = AM_cpH(cps)
         /\ hbreg' = hreg'
         /\ tos' = breg
         /\ UNCHANGED <<mem, cps, trail, saved>>

Front(s) == SubSeq(s, 1, Len(s) - 1)

\* trust, trust_me, and trust_ext with a next clause: the last alternative.
Trust == /\ Unwound
         /\ mode' = "run"
         /\ hreg' = AM_cpH(cps)
         /\ tos' = breg
         /\ cps' = Front(cps)
         /\ hbreg' = AM_cpH(cps')
         /\ saved' = Front(saved)
         /\ UNCHANGED <<mem, trail>>

\* trust_ext without a next clause: B alone is reset and EM_FAIL raised again.
TrustExtFail == /\ Unwound
                /\ cps' = Front(cps)
                /\ saved' = Front(saved)
                /\ mode' = Backtrack(cps')
                /\ UNCHANGED <<mem, hreg, tos, hbreg, trail>>

\* The stack after a cut: where the environment that cuts ends is not known
\* here, but it does not go below the choice point cut to.
CutStack(k, t) ==
    /\ mode = "run"
    /\ cps' = SubSeq(cps, 1, k)
    /\ saved' = SubSeq(saved, 1, k)
    /\ t <= tos /\ t > StackBeg /\ t >= cps[k].addr
    /\ tos' = t
    /\ UNCHANGED <<mem, hreg, trail, mode>>

\* neck_cut and cut.
Cut(k, t) == CutStack(k, t) /\ hbreg' = AM_cpH(cps')

\* The cut goal of an interpreted goal (BI_solve): B alone is reset.
CutGoal(k) == CutStack(k, tos) /\ UNCHANGED hbreg

\* SINIT_reInitSimState: the next query starts over.  HB is left as it is,
\* and the trail is emptied without being unwound.
Restart == /\ mode \in {"run", "failed"}
           /\ mode' = "run"
           /\ trail' = <<>>
           /\ cps' = SubSeq(cps, 1, 1)
           /\ saved' = SubSeq(saved, 1, 1)
           /\ hreg' = AM_cpH(cps')
           /\ tos' = StackBeg + 1
           /\ UNCHANGED <<mem, hbreg>>

-----------------------------------------------------------------------------

Next == \/ \E c \in Content : HeapAlloc(c) \/ StackAlloc(c)
        \/ \E t \in StackBeg .. StackEnd : StackFree(t)
        \/ \E a \in Addr, c \in Terms :
              BindTerm(a, c) \/ BindHTerm(a, c) \/ BindETerm(a, c)
        \/ \E a \in Addr, c \in Types : BindType(a, c)
        \/ \E a \in Addr, c \in Counts : SetImport(a, c)
        \/ Try \/ Fail \/ Unwind \/ Retry \/ Trust \/ TrustExtFail
        \/ \E k \in 1 .. Len(cps), t \in StackBeg .. StackEnd : Cut(k, t)
        \/ \E k \in 1 .. Len(cps) : CutGoal(k)
        \/ Restart

Spec == Init /\ [][Next]_vars

\* A failed attempt is always carried through to its next alternative.
FairSpec == Spec /\ WF_vars(Unwind) /\ WF_vars(Retry \/ Trust \/ TrustExtFail)

-----------------------------------------------------------------------------
\* The contents of the cells of some part of the memory.
Stores == UNION {[D -> Content] : D \in SUBSET Addr}

\* Type invariant of the store, the registers and the trail: no pointer
\* leaves its data area.
TypeOK == /\ mem \in [Addr -> Content]
          /\ hreg \in 0 .. StackBeg
          /\ tos \in StackBeg + 1 .. StackEnd
          /\ hbreg \in 0 .. StackBeg
          /\ cps \in Seq(ChoicePoint)
          /\ trail \in Seq(Item) /\ Len(trail) <= TrailMax
          /\ mode \in {"run", "unwind", "failed", "toplevel"}
          /\ Len(cps) \in Nat \ {0}
          /\ saved \in Seq(Stores)
          /\ Len(saved) = Len(cps)

\* What choice point c keeps alive: the heap below its heap point and the
\* stack below its own address.
Preserved(c) == Live(c.h, c.addr)

\* Choice points are ordered as they were made: a newer one preserves what
\* an older one does, and starts further up the trail.  AM_fstCP is below all.
CPsOrdered ==
    /\ cps[1] = [addr |-> StackBeg, h |-> 0, tr |-> 0]
    /\ \A i \in 2 .. Len(cps) : cps[i].addr > StackBeg
    /\ \A i, j \in 1 .. Len(cps) : i <= j =>
          /\ cps[i].h <= cps[j].h
          /\ cps[i].addr <= cps[j].addr
          /\ cps[i].tr <= cps[j].tr
    /\ Top(cps).tr <= Len(trail)

\* The registers that the tests for trailing read never understate what the
\* newest choice point preserves: HB may lag above its heap point (a cut in an
\* interpreted goal and the start of a query leave it alone), never below, and
\* both stacks end above the choice point, and AM_fstCP, which has no code to
\* continue with, is never backtracked to.
BacktrackPointSound ==
    /\ mode = "unwind" => Len(cps) > 1
    /\ hbreg >= AM_cpH(cps)
    /\ hreg >= AM_cpH(cps)
    /\ tos >= breg

\* The items that the unwinding to choice point k puts back into address a.
Entries(k, a) == {i \in cps[k].tr + 1 .. Len(trail) : trail[i].addr = a}

\* For each choice point still on the stack, not only the newest, and each
\* cell it preserves: unwinding the trail to it brings back what the cell held
\* when the choice point was made.  The cell is untouched since, or its first
\* entry past the trail point has the old content.
Restorable ==
    \A k \in 1 .. Len(cps) :
       /\ saved[k] \in [Preserved(cps[k]) -> Content]
       /\ \A a \in Preserved(cps[k]) :
             \/ Entries(k, a) = {} /\ mem[a] = saved[k][a]
             \/ \E i \in Entries(k, a) :
                   /\ \A j \in Entries(k, a) : i <= j
                   /\ Undo(trail[i]) = saved[k][a]

\* While the trail is being unwound the store of Backtracking is already the
\* snapshot it will be.
AbsStore == IF mode \in {"unwind", "failed"} THEN Top(saved) ELSE Store

Abs == INSTANCE Backtracking WITH store <- AbsStore

\* The registers and the trail implement a store with snapshots: a step of the
\* machine is a step of that store or leaves it alone.
ImplementsBacktracking == Abs!ASpec

\* An attempt that failed is carried through: the unwinding of the trail ends
\* and the next alternative runs, or the search fails.
FailureHandled == (mode = "unwind") ~> (mode \in {"run", "failed"})

=============================================================================
