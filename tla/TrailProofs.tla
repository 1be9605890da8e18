---------------------------- MODULE TrailProofs -----------------------------
(***************************************************************************)
(* Proofs about Trail.tla for every size of the data areas and every set   *)
(* of contents: the inductive invariant IInv, from which follow the safety *)
(* invariants and that the trail implements the store with snapshots of    *)
(* Backtracking.tla.                                                       *)
(***************************************************************************)
EXTENDS Trail, TLAPS

\* The inductive invariant: each conjunct needs the others.  Restorable is kept
\* by an untrailed binding only because BacktrackPointSound and CPsOrdered put
\* its cell outside of what every choice point preserves.
IInv == TypeOK /\ CPsOrdered /\ BacktrackPointSound /\ Restorable

\* What a prefix of a sequence is.
LEMMA Prefix ==
    ASSUME NEW S, NEW s \in Seq(S), NEW m \in Nat, m <= Len(s)
    PROVE  /\ SubSeq(s, 1, m) \in Seq(S)
           /\ Len(SubSeq(s, 1, m)) = m
           /\ \A i \in 1 .. m : SubSeq(s, 1, m)[i] = s[i]
           /\ m = Len(s) => SubSeq(s, 1, m) = s
  OBVIOUS

\* What any choice point preserves is below the registers: a cell that the
\* tests for trailing leave out belongs to no choice point.
LEMMA PreservedBound ==
    ASSUME TypeOK, CPsOrdered, BacktrackPointSound,
           NEW k \in 1 .. Len(cps), NEW a \in Preserved(cps[k])
    PROVE  /\ a \in Addr
           /\ a \in Live(hreg, tos)
           /\ a < StackBeg => a < hbreg /\ a < hreg
           /\ a >= StackBeg => a < breg
  <1>1. cps[k] \in ChoicePoint /\ cps[Len(cps)] \in ChoicePoint
    BY DEF TypeOK
  <1>2. /\ cps[k].h <= cps[Len(cps)].h
        /\ cps[k].addr <= cps[Len(cps)].addr
    <2>1. k <= Len(cps) /\ Len(cps) \in 1 .. Len(cps)
      BY DEF TypeOK
    <2> QED
      BY <2>1 DEF CPsOrdered
  <1>3. /\ hbreg >= cps[Len(cps)].h /\ hreg >= cps[Len(cps)].h
        /\ breg = cps[Len(cps)].addr /\ tos >= breg
    BY DEF BacktrackPointSound, AM_cpH, Top, breg
  <1>4. /\ StackBeg \in Nat /\ StackEnd \in Nat
        /\ hreg \in 0 .. StackBeg /\ hbreg \in 0 .. StackBeg
        /\ tos \in StackBeg + 1 .. StackEnd
        /\ cps[k].h \in 0 .. StackBeg /\ cps[k].addr \in StackBeg .. StackEnd
        /\ cps[Len(cps)].h \in 0 .. StackBeg
        /\ cps[Len(cps)].addr \in StackBeg .. StackEnd
    BY <1>1, SizeAssumption DEF TypeOK, ChoicePoint
  <1>5. a \in (0 .. cps[k].h - 1) \cup (StackBeg + 1 .. cps[k].addr - 1)
    BY DEF Preserved, Live
  <1>6. a \in Addr
    BY ONLY <1>4, <1>5 DEF Addr
  <1>7. a \in Live(hreg, tos)
    <2>1. a \in 0 .. cps[k].h - 1 => a \in 0 .. hreg - 1
      BY ONLY <1>2, <1>3, <1>4
    <2>2. a \in StackBeg + 1 .. cps[k].addr - 1 => a \in StackBeg + 1 .. tos - 1
      BY ONLY <1>2, <1>3, <1>4
    <2> QED
      BY ONLY <1>5, <2>1, <2>2 DEF Live
  <1>8. (a < StackBeg => a < hbreg /\ a < hreg) /\ (a >= StackBeg => a < breg)
    <2>1. a < StackBeg => a < hbreg /\ a < hreg
      BY ONLY <1>2, <1>3, <1>4, <1>5
    <2>2. a >= StackBeg => a < breg
      BY ONLY <1>2, <1>3, <1>4, <1>5
    <2> QED
      BY <2>1, <2>2
  <1> QED
    BY <1>6, <1>7, <1>8

\* Every live cell has an address.
LEMMA LiveAddr ==
    ASSUME TypeOK
    PROVE  Live(hreg, tos) \subseteq Addr
  BY SizeAssumption DEF TypeOK, Live, Addr

\* The initial state satisfies the invariant.
LEMMA InitIInv == Init => IInv
  <1> SUFFICES ASSUME Init PROVE IInv
    OBVIOUS
  <1> USE DEF Init
  <1>1. TypeOK
    <2>1. FreeType \in Content /\ [a \in {} |-> FreeType] \in Stores
      <3>1. FreeType \in Content
        BY ContentAssumption DEF Content
      <3>2. [a \in {} |-> FreeType] \in [{} -> Content] /\ {} \in SUBSET Addr
        OBVIOUS
      <3> QED
        BY <3>1, <3>2 DEF Stores
    <2> QED
      BY <2>1, SizeAssumption DEF TypeOK, ChoicePoint
  <1>2. CPsOrdered
    BY SizeAssumption DEF CPsOrdered, Top
  <1>3. BacktrackPointSound
    BY SizeAssumption DEF BacktrackPointSound, AM_cpH, Top, breg
  <1>4. Restorable
    <2>1. Len(cps) = 1 /\ cps[1].h = 0 /\ cps[1].addr = StackBeg
      OBVIOUS
    <2>2. Preserved(cps[1]) = {}
      BY <2>1, SizeAssumption DEF Preserved, Live
    <2>3. saved[1] \in [{} -> Content]
      BY ContentAssumption DEF Content
    <2>4. ASSUME NEW k \in 1 .. Len(cps) PROVE k = 1
      BY <2>1
    <2>5. saved[1] \in [Preserved(cps[1]) -> Content]
      BY <2>2, <2>3
    <2> HIDE DEF Init
    <2> QED
      BY <2>2, <2>4, <2>5 DEF Restorable
  <1> QED
    BY <1>1, <1>2, <1>3, <1>4 DEF IInv

-----------------------------------------------------------------------------
\* Popping choice points (or none) leaves the others restorable.
LEMMA PopChoicePoints ==
    ASSUME IInv, NEW k \in 1 .. Len(cps),
           cps' = SubSeq(cps, 1, k), saved' = SubSeq(saved, 1, k),
           UNCHANGED <<mem, trail>>
    PROVE  /\ Len(cps') = k /\ Len(saved') = k
           /\ \A i \in 1 .. k : cps'[i] = cps[i] /\ saved'[i] = saved[i]
           /\ cps' \in Seq(ChoicePoint) /\ saved' \in Seq(Stores)
           /\ CPsOrdered' /\ Restorable'
           /\ cps[k].h <= AM_cpH(cps) /\ cps[k].addr <= breg
           /\ Top(cps') = cps[k]
  <1>1. /\ cps \in Seq(ChoicePoint) /\ saved \in Seq(Stores)
        /\ Len(cps) \in Nat \ {0} /\ Len(saved) = Len(cps)
        /\ trail \in Seq(Item)
    BY DEF IInv, TypeOK
  <1>2. /\ Len(cps') = k /\ Len(saved') = k
        /\ \A i \in 1 .. k : cps'[i] = cps[i] /\ saved'[i] = saved[i]
        /\ cps' \in Seq(ChoicePoint) /\ saved' \in Seq(Stores)
    BY <1>1
  <1>3. /\ cps[k].h <= AM_cpH(cps) /\ cps[k].addr <= breg
        /\ cps[k].tr <= Len(trail)
    <2>1. k <= Len(cps) /\ Len(cps) \in 1 .. Len(cps)
      BY <1>1
    <2>2. /\ cps[k].h <= cps[Len(cps)].h /\ cps[k].addr <= cps[Len(cps)].addr
          /\ cps[k].tr <= cps[Len(cps)].tr /\ cps[Len(cps)].tr <= Len(trail)
      BY <2>1 DEF IInv, CPsOrdered, Top
    <2>3. cps[k] \in ChoicePoint /\ cps[Len(cps)] \in ChoicePoint
      BY <1>1, <2>1
    <2>4. /\ cps[k].tr \in Nat /\ cps[Len(cps)].tr \in Nat
      BY <2>3 DEF ChoicePoint
    <2> QED
      BY <1>1, <2>2, <2>4 DEF AM_cpH, Top, breg
  <1>4. CPsOrdered'
    <2>1. cps'[1] = [addr |-> StackBeg, h |-> 0, tr |-> 0]
      BY <1>1, <1>2 DEF IInv, CPsOrdered
    <2>2. ASSUME NEW i \in 1 .. k, NEW j \in 1 .. k, i <= j
          PROVE  /\ cps'[i].h <= cps'[j].h
                 /\ cps'[i].addr <= cps'[j].addr
                 /\ cps'[i].tr <= cps'[j].tr
      BY <1>1, <1>2, <2>2 DEF IInv, CPsOrdered
    <2>3. Top(cps').tr <= Len(trail')
      BY <1>2, <1>3 DEF Top
    <2>4. \A i \in 2 .. k : cps'[i].addr > StackBeg
      BY <1>1, <1>2 DEF IInv, CPsOrdered
    <2> QED
      BY <1>2, <2>1, <2>2, <2>3, <2>4 DEF CPsOrdered
  <1>5. Restorable'
    <2> SUFFICES ASSUME NEW i \in 1 .. k
                 PROVE  /\ saved[i] \in [Preserved(cps[i]) -> Content]
                        /\ \A a \in Preserved(cps[i]) :
                             \/ Entries(i, a) = {} /\ mem[a] = saved[i][a]
                             \/ \E n \in Entries(i, a) :
                                   /\ \A j \in Entries(i, a) : n <= j
                                   /\ Undo(trail[n]) = saved[i][a]
      BY <1>2 DEF Restorable, Entries, Preserved
    <2> QED
      BY <1>1 DEF IInv, Restorable
  <1> QED
    BY <1>2, <1>3, <1>4, <1>5 DEF Top

\* Writing a cell that no choice point preserves needs no trail entry.
LEMMA UntrailedWrite ==
    ASSUME IInv, NEW a \in Addr, NEW c \in Content,
           \A k \in 1 .. Len(cps) : a \notin Preserved(cps[k]),
           mem' = [mem EXCEPT ![a] = c],
           UNCHANGED <<cps, trail, saved>>
    PROVE  mem' \in [Addr -> Content] /\ CPsOrdered' /\ Restorable'
  <1>1. mem \in [Addr -> Content]
    BY DEF IInv, TypeOK
  <1>2. mem' \in [Addr -> Content]
    BY <1>1
  <1>3. CPsOrdered'
    BY DEF IInv, CPsOrdered, Top
  <1>4. Restorable'
    <2> SUFFICES ASSUME NEW k \in 1 .. Len(cps)
                 PROVE  /\ saved[k] \in [Preserved(cps[k]) -> Content]
                        /\ \A b \in Preserved(cps[k]) :
                             \/ Entries(k, b) = {} /\ mem'[b] = saved[k][b]
                             \/ \E i \in Entries(k, b) :
                                   /\ \A j \in Entries(k, b) : i <= j
                                   /\ Undo(trail[i]) = saved[k][b]
      BY DEF Restorable, Entries, Preserved
    <2>1. /\ saved[k] \in [Preserved(cps[k]) -> Content]
          /\ \A b \in Preserved(cps[k]) :
               \/ Entries(k, b) = {} /\ mem[b] = saved[k][b]
               \/ \E i \in Entries(k, b) :
                     /\ \A j \in Entries(k, b) : i <= j
                     /\ Undo(trail[i]) = saved[k][b]
      BY DEF IInv, Restorable
    <2>2. \A b \in Preserved(cps[k]) : mem'[b] = mem[b]
      <3> SUFFICES ASSUME NEW b \in Preserved(cps[k]) PROVE mem'[b] = mem[b]
        OBVIOUS
      <3>1. b \in Addr
        BY PreservedBound DEF IInv
      <3> QED
        BY <1>1, <3>1
    <2> QED
      BY <2>1, <2>2
  <1> QED
    BY <1>2, <1>3, <1>4

\* Writing any cell after trailing it keeps every choice point restorable: its
\* entry is the first one of the cell for the choice points that have none yet.
LEMMA TrailedWrite ==
    ASSUME IInv, NEW a \in Addr, NEW c \in Content, NEW tag \in Tags,
           tag = "TYPE" => mem[a] = FreeType,
           Len(trail) + 1 <= TrailMax,
           mem' = [mem EXCEPT ![a] = c],
           trail' = Append(trail, [tag |-> tag, addr |-> a, old |-> mem[a]]),
           UNCHANGED <<cps, saved>>
    PROVE  /\ mem' \in [Addr -> Content]
           /\ trail' \in Seq(Item) /\ Len(trail') <= TrailMax
           /\ CPsOrdered' /\ Restorable'
  <1> DEFINE new == [tag |-> tag, addr |-> a, old |-> mem[a]]
             n   == Len(trail)
  <1>1. /\ mem \in [Addr -> Content] /\ trail \in Seq(Item) /\ n \in Nat
        /\ cps \in Seq(ChoicePoint) /\ Len(cps) \in Nat \ {0}
    BY DEF IInv, TypeOK
  <1>2. new \in Item /\ Undo(new) = mem[a]
    BY <1>1 DEF Item, Undo
  <1> HIDE DEF new
  <1>3. /\ trail' \in Seq(Item) /\ Len(trail') = n + 1
        /\ trail'[n + 1] = new
        /\ \A i \in 1 .. n : trail'[i] = trail[i]
    <2>1. trail' = Append(trail, new)
      BY DEF new
    <2> QED
      BY <1>1, <1>2, <2>1
  <1>4. CPsOrdered'
    <2>1. Top(cps).tr \in Nat
      <3>1. Top(cps) \in ChoicePoint
        BY <1>1 DEF Top
      <3> QED
        BY <3>1 DEF ChoicePoint
    <2> QED
      BY <1>1, <1>3, <2>1 DEF IInv, CPsOrdered, Top
  <1>5. Restorable'
    <2>0. \A k \in 1 .. Len(cps) : saved[k] \in [Preserved(cps[k]) -> Content]
      BY DEF IInv, Restorable
    <2> SUFFICES ASSUME NEW k \in 1 .. Len(cps), NEW b \in Preserved(cps[k])
                 PROVE  ( \/ Entries(k, b) = {} /\ mem[b] = saved[k][b]
                          \/ \E i \in Entries(k, b) :
                                /\ \A j \in Entries(k, b) : i <= j
                                /\ Undo(trail[i]) = saved[k][b] )'
      BY <2>0 DEF Restorable, Preserved, Live
    <2>1. \/ Entries(k, b) = {} /\ mem[b] = saved[k][b]
          \/ \E i \in Entries(k, b) :
                /\ \A j \in Entries(k, b) : i <= j
                /\ Undo(trail[i]) = saved[k][b]
      BY DEF IInv, Restorable
    <2>2. cps[k].tr \in Nat /\ cps[k].tr <= n
      <3>1. cps[k].tr <= Top(cps).tr /\ Top(cps).tr <= n
        BY <1>1 DEF IInv, CPsOrdered, Top
      <3>2. cps[k] \in ChoicePoint /\ Top(cps) \in ChoicePoint
        BY <1>1 DEF Top
      <3>3. cps[k].tr \in Nat /\ Top(cps).tr \in Nat
        BY <3>2 DEF ChoicePoint
      <3> QED
        BY <1>1, <3>1, <3>3
    <2>3. Entries(k, b) \subseteq 1 .. n
      BY <1>1, <2>2 DEF Entries
    <2>4. Entries(k, b)' = Entries(k, b) \cup (IF b = a THEN {n + 1} ELSE {})
      <3>1. new.addr = a
        BY DEF new
      <3> QED
        BY <1>1, <1>3, <2>2, <3>1 DEF Entries
    <2>5. CASE Entries(k, b) = {} /\ b = a
      BY <1>1, <1>2, <1>3, <2>1, <2>4, <2>5 DEF Undo
    <2>6. CASE Entries(k, b) = {} /\ b # a
      <3>1. b \in Addr
        BY PreservedBound DEF IInv
      <3> QED
        BY <1>1, <2>1, <2>4, <2>6, <3>1
    <2>7. CASE Entries(k, b) # {}
      <3>1. PICK i \in Entries(k, b) :
              /\ \A j \in Entries(k, b) : i <= j
              /\ Undo(trail[i]) = saved[k][b]
        BY <2>1, <2>7
      <3>2. i \in 1 .. n /\ i <= n + 1 /\ trail'[i] = trail[i]
        BY <1>1, <1>3, <2>3
      <3> QED
        BY <2>4, <3>1, <3>2 DEF Undo
    <2> QED
      BY <2>5, <2>6, <2>7
  <1> QED
    BY <1>1, <1>3, <1>4, <1>5

\* Undoing the last trail item keeps every choice point restorable, the one
\* being returned to and those below.
LEMMA UnwindStep ==
    ASSUME IInv, Unwind
    PROVE  /\ mem' \in [Addr -> Content]
           /\ trail' \in Seq(Item) /\ Len(trail') <= TrailMax
           /\ CPsOrdered' /\ Restorable'
  <1> DEFINE n == Len(trail)
  <1>1. /\ mem \in [Addr -> Content] /\ trail \in Seq(Item) /\ n \in Nat
        /\ n <= TrailMax /\ TrailMax \in Nat
        /\ cps \in Seq(ChoicePoint) /\ Len(cps) \in Nat \ {0}
    BY SizeAssumption DEF IInv, TypeOK
  <1>2. /\ n > Top(cps).tr
        /\ mem' = [mem EXCEPT ![trail[n].addr] = Undo(trail[n])]
        /\ trail' = SubSeq(trail, 1, n - 1)
        /\ UNCHANGED <<cps, saved>>
    BY DEF Unwind, AM_cpTR, regs
  <1>3. Top(cps).tr \in Nat
    <2>1. Top(cps) \in ChoicePoint
      BY <1>1 DEF Top
    <2> QED
      BY <2>1 DEF ChoicePoint
  <1>4. /\ n - 1 \in Nat /\ Len(trail') = n - 1 /\ trail' \in Seq(Item)
        /\ \A i \in 1 .. n - 1 : trail'[i] = trail[i]
    <2>1. n - 1 \in Nat /\ n - 1 <= Len(trail)
      BY <1>1, <1>2, <1>3
    <2> HIDE DEF n
    <2> QED
      BY <1>1, <1>2, <2>1, Prefix
  <1>5. trail[n] \in Item
    BY <1>1, <1>2, <1>3
  <1>6. trail[n].addr \in Addr /\ Undo(trail[n]) \in Content
    BY <1>5, ContentAssumption DEF Item, Undo, Content
  <1>7. CPsOrdered'
    BY <1>1, <1>2, <1>3, <1>4 DEF IInv, CPsOrdered, Top
  <1>8. Restorable'
    <2>1. \A k \in 1 .. Len(cps) : saved[k] \in [Preserved(cps[k]) -> Content]
      BY DEF IInv, Restorable
    <2> SUFFICES ASSUME NEW k \in 1 .. Len(cps), NEW b \in Preserved(cps[k])
                 PROVE  ( \/ Entries(k, b) = {} /\ mem[b] = saved[k][b]
                          \/ \E i \in Entries(k, b) :
                                /\ \A j \in Entries(k, b) : i <= j
                                /\ Undo(trail[i]) = saved[k][b] )'
      BY <1>2, <2>1 DEF Restorable, Preserved, Live
    <2>2. \/ Entries(k, b) = {} /\ mem[b] = saved[k][b]
          \/ \E i \in Entries(k, b) :
                /\ \A j \in Entries(k, b) : i <= j
                /\ Undo(trail[i]) = saved[k][b]
      BY DEF IInv, Restorable
    <2>3. cps[k].tr \in Nat /\ cps[k].tr < n
      <3>1. cps[k].tr <= Top(cps).tr
        BY <1>1 DEF IInv, CPsOrdered, Top
      <3>2. cps[k] \in ChoicePoint
        BY <1>1
      <3>3. cps[k].tr \in Nat
        BY <3>2 DEF ChoicePoint
      <3> QED
        BY <1>1, <1>2, <1>3, <3>1, <3>3
    <2>4. Entries(k, b) \subseteq 1 .. n
      BY <1>1, <2>3 DEF Entries
    <2>5. Entries(k, b)' = Entries(k, b) \ {n}
      BY <1>1, <1>2, <1>4, <2>3 DEF Entries
    <2>6. n \in Entries(k, b) <=> trail[n].addr = b
      BY <1>1, <2>3 DEF Entries
    <2>7. b \in Addr
      BY PreservedBound DEF IInv
    <2>8. CASE Entries(k, b) = {}
      BY <1>1, <1>2, <1>6, <2>2, <2>5, <2>6, <2>7, <2>8
    <2>9. CASE Entries(k, b) = {n}
      BY <1>1, <1>2, <1>6, <2>2, <2>5, <2>6, <2>7, <2>9
    <2>10. CASE Entries(k, b) # {} /\ Entries(k, b) # {n}
      <3>1. PICK i \in Entries(k, b) :
              /\ \A j \in Entries(k, b) : i <= j
              /\ Undo(trail[i]) = saved[k][b]
        BY <2>2, <2>10
      <3>2. PICK m \in Entries(k, b) : m # n
        BY <2>10
      <3>3. i <= m /\ m \in 1 .. n /\ i \in 1 .. n
        BY <2>4, <3>1, <3>2
      <3>4. i \in Entries(k, b)' /\ trail'[i] = trail[i]
        BY <1>1, <1>4, <2>5, <3>2, <3>3
      <3> QED
        BY <1>2, <2>5, <3>1, <3>4 DEF Undo
    <2> QED
      BY <2>8, <2>9, <2>10
  <1> QED
    BY <1>1, <1>4, <1>2, <1>6, <1>7, <1>8

\* Failing, or aborting, changes nothing but the mode.
LEMMA OnlyModeChanges ==
    ASSUME IInv, UNCHANGED <<mem, hreg, tos, hbreg, cps, trail, saved>>,
           mode' \in {"run", "unwind", "failed", "toplevel"},
           mode' = "unwind" => Len(cps) > 1
    PROVE  IInv'
  <1>1. TypeOK' /\ BacktrackPointSound'
    BY DEF IInv, TypeOK, BacktrackPointSound, AM_cpH, Top, breg
  <1>2. /\ Len(cps) \in 1 .. Len(cps)
        /\ cps' = SubSeq(cps, 1, Len(cps)) /\ saved' = SubSeq(saved, 1, Len(cps))
    BY Prefix DEF IInv, TypeOK
  <1> QED
    BY <1>1, <1>2, PopChoicePoints DEF IInv

\* A cell is overwritten under one of the tests for trailing.
LEMMA TrailAndSetStep ==
    ASSUME IInv, mode = "run", NEW a \in Live(hreg, tos), NEW c \in Content,
           NEW tag \in Tags, tag = "TYPE" => mem[a] = FreeType,
           NEW must \in BOOLEAN,
           ~must => (a >= StackBeg => a >= breg) /\ (a < StackBeg => a >= hbreg),
           TrailAndSet(a, tag, must, c)
    PROVE  IInv'
  <1>1. a \in Addr
    BY LiveAddr DEF IInv
  <1>2. CASE Overflow
    BY <1>2, OnlyModeChanges DEF Overflow
  <1>3. CASE UNCHANGED <<regs, mode, saved>>
    <2> SUFFICES /\ mem' \in [Addr -> Content]
                 /\ trail' \in Seq(Item) /\ Len(trail') <= TrailMax
                 /\ CPsOrdered' /\ Restorable'
      BY <1>3 DEF regs, IInv, TypeOK, BacktrackPointSound, AM_cpH, Top, breg
    <2>1. CASE must
      <3>1. Len(trail) + 1 <= TrailMax
        BY <1>3, <2>1, SizeAssumption
        DEF TrailAndSet, Overflow, IInv, TypeOK
      <3> QED
        BY <1>1, <1>3, <2>1, <3>1, TrailedWrite DEF TrailAndSet, Overflow, regs
    <2>2. CASE ~must
      <3>1. \A k \in 1 .. Len(cps) : a \notin Preserved(cps[k])
        <4> SUFFICES ASSUME NEW k \in 1 .. Len(cps), a \in Preserved(cps[k])
                     PROVE  FALSE
          OBVIOUS
        <4>1. /\ a < StackBeg => a < hbreg
              /\ a >= StackBeg => a < breg
          BY PreservedBound DEF IInv
        <4>2. a \in Nat /\ StackBeg \in Nat /\ hbreg \in Nat /\ breg \in Nat
          <5>1. cps[Len(cps)] \in ChoicePoint
            BY DEF IInv, TypeOK
          <5>2. breg \in Nat
            BY <5>1, SizeAssumption DEF breg, Top, ChoicePoint
          <5>3. hbreg \in Nat
            BY SizeAssumption DEF IInv, TypeOK
          <5> QED
            BY <1>1, <5>2, <5>3, SizeAssumption DEF Addr
        <4> QED
          BY <2>2, <4>1, <4>2
      <3>2. mem' = [mem EXCEPT ![a] = c] /\ UNCHANGED <<cps, trail, saved>>
        BY <1>3, <2>2 DEF TrailAndSet, Overflow, regs
      <3>3. mem' \in [Addr -> Content] /\ CPsOrdered' /\ Restorable'
        BY <1>1, <3>1, <3>2, UntrailedWrite
      <3> QED
        BY <3>2, <3>3 DEF IInv, TypeOK
    <2> QED
      BY <2>1, <2>2
  <1> QED
    BY <1>2, <1>3 DEF TrailAndSet

-----------------------------------------------------------------------------
\* Every step of the machine preserves the invariant.
LEMMA NextIInv == IInv /\ [Next]_vars => IInv'
  <1> SUFFICES ASSUME IInv, [Next]_vars PROVE IInv'
    OBVIOUS
  <1> DEFINE n == Len(cps)
  <1>1. /\ cps \in Seq(ChoicePoint) /\ saved \in Seq(Stores)
        /\ n \in Nat \ {0} /\ Len(saved) = n /\ n \in 1 .. n
        /\ trail \in Seq(Item) /\ Len(trail) \in Nat
        /\ mem \in [Addr -> Content]
        /\ StackBeg \in Nat /\ StackEnd \in Nat /\ StackBeg < StackEnd
        /\ hreg \in 0 .. StackBeg /\ hbreg \in 0 .. StackBeg
        /\ tos \in StackBeg + 1 .. StackEnd
    BY SizeAssumption DEF IInv, TypeOK
  <1>2. /\ Top(cps) \in ChoicePoint
        /\ Top(cps).h \in 0 .. StackBeg /\ Top(cps).addr \in StackBeg .. StackEnd
        /\ Top(cps).tr \in Nat /\ Top(cps).tr <= Len(trail)
        /\ hreg >= Top(cps).h /\ hbreg >= Top(cps).h
        /\ breg = Top(cps).addr /\ tos >= breg
    <2>1. Top(cps) \in ChoicePoint
      BY <1>1 DEF Top
    <2>2. /\ Top(cps).h \in 0 .. StackBeg /\ Top(cps).tr \in Nat
          /\ Top(cps).addr \in StackBeg .. StackEnd
      BY <2>1 DEF ChoicePoint
    <2> QED
      BY <2>1, <2>2 DEF IInv, CPsOrdered, BacktrackPointSound, AM_cpH, breg
  <1>3. ASSUME Overflow PROVE IInv'
    BY <1>3, OnlyModeChanges DEF Overflow
  <1>4. ASSUME NEW c \in Content, HeapAlloc(c) PROVE IInv'
    <2>1. CASE hreg + 1 > StackBeg
      BY <1>3, <1>4, <2>1 DEF HeapAlloc
    <2>2. CASE ~(hreg + 1 > StackBeg)
      <3>1. hreg \in Addr /\ hreg < StackBeg
        BY <1>1, <2>2 DEF Addr
      <3>2. \A k \in 1 .. Len(cps) : hreg \notin Preserved(cps[k])
        BY <1>1, <3>1, PreservedBound DEF IInv
      <3>3. mem' \in [Addr -> Content] /\ CPsOrdered' /\ Restorable'
        BY <1>4, <2>2, <3>1, <3>2, UntrailedWrite DEF HeapAlloc
      <3>4. TypeOK' /\ BacktrackPointSound'
        BY <1>1, <1>2, <1>4, <2>2, <3>3
        DEF HeapAlloc, IInv, TypeOK, BacktrackPointSound, AM_cpH, breg
      <3> QED
        BY <3>3, <3>4 DEF IInv
    <2> QED
      BY <2>1, <2>2
  <1>5. ASSUME NEW c \in Content, StackAlloc(c) PROVE IInv'
    <2>1. CASE tos + 1 > StackEnd
      BY <1>3, <1>5, <2>1 DEF StackAlloc
    <2>2. CASE ~(tos + 1 > StackEnd)
      <3>1. tos \in Addr /\ tos >= StackBeg
        BY <1>1, <2>2 DEF Addr
      <3>2. \A k \in 1 .. Len(cps) : tos \notin Preserved(cps[k])
        <4> SUFFICES ASSUME NEW k \in 1 .. Len(cps), tos \in Preserved(cps[k])
                     PROVE  FALSE
          OBVIOUS
        <4>1. tos < breg
          BY <3>1, PreservedBound DEF IInv
        <4> QED
          BY <1>1, <1>2, <4>1
      <3>3. mem' \in [Addr -> Content] /\ CPsOrdered' /\ Restorable'
        BY <1>5, <2>2, <3>1, <3>2, UntrailedWrite DEF StackAlloc
      <3>4. TypeOK' /\ BacktrackPointSound'
        BY <1>1, <1>2, <1>5, <2>2, <3>3
        DEF StackAlloc, IInv, TypeOK, BacktrackPointSound, AM_cpH, breg
      <3> QED
        BY <3>3, <3>4 DEF IInv
    <2> QED
      BY <2>1, <2>2
  <1>6. ASSUME NEW t \in StackBeg .. StackEnd, StackFree(t) PROVE IInv'
    <2>1. /\ cps' = SubSeq(cps, 1, n) /\ saved' = SubSeq(saved, 1, n)
          /\ UNCHANGED <<mem, trail>>
      BY <1>1, <1>6, Prefix DEF StackFree
    <2>2. CPsOrdered' /\ Restorable'
      BY <1>1, <2>1, PopChoicePoints
    <2>3. TypeOK' /\ BacktrackPointSound'
      BY <1>1, <1>2, <1>6
      DEF StackFree, IInv, TypeOK, BacktrackPointSound, AM_cpH, breg
    <2> QED
      BY <2>2, <2>3 DEF IInv
  <1>7. ASSUME NEW a \in Addr, NEW c \in Terms,
               BindTerm(a, c) \/ BindHTerm(a, c) \/ BindETerm(a, c)
        PROVE  IInv'
    <2>1. c \in Content /\ "TERM" \in Tags /\ "TERM" # "TYPE" /\ a \in Nat
      BY <1>1 DEF Content, Tags, Addr
    <2>2. CASE BindTerm(a, c)
      <3>1. ~MustTrailTerm(a) => /\ a >= StackBeg => a >= breg
                                 /\ a < StackBeg => a >= hbreg
        BY <1>1, <1>2, <2>1, <2>2 DEF MustTrailTerm, BindTerm, Live
      <3> QED
        BY <2>1, <2>2, <3>1, TrailAndSetStep DEF BindTerm, MustTrailTerm
    <2>3. CASE BindHTerm(a, c)
      <3>1. a \in Live(hreg, tos) /\ a < StackBeg
        BY <1>1, <2>1, <2>3 DEF BindHTerm, Live
      <3>2. ~MustTrailHTerm(a) => /\ a >= StackBeg => a >= breg
                                  /\ a < StackBeg => a >= hbreg
        BY <1>1, <3>1 DEF MustTrailHTerm
      <3>3. MustTrailHTerm(a) \in BOOLEAN
        BY DEF MustTrailHTerm
      <3> QED
        BY <2>1, <2>3, <3>1, <3>2, <3>3, TrailAndSetStep DEF BindHTerm
    <2>4. CASE BindETerm(a, c)
      <3>1. a \in Live(hreg, tos) /\ a >= StackBeg
        BY <1>1, <2>1, <2>4 DEF BindETerm, Live
      <3>2. ~MustTrailETerm(a) => /\ a >= StackBeg => a >= breg
                                  /\ a < StackBeg => a >= hbreg
        BY <1>1, <1>2, <2>1, <3>1 DEF MustTrailETerm
      <3>3. MustTrailETerm(a) \in BOOLEAN
        BY DEF MustTrailETerm
      <3> QED
        BY <2>1, <2>4, <3>1, <3>2, <3>3, TrailAndSetStep DEF BindETerm
    <2> QED
      BY <1>7, <2>2, <2>3, <2>4
  <1>8. ASSUME NEW a \in Addr, NEW c \in Types, BindType(a, c) PROVE IInv'
    <2>1. c \in Content /\ "TYPE" \in Tags /\ a \in Nat
      BY <1>1 DEF Content, Tags, Addr
    <2>2. ~MustTrailType(a) => /\ a >= StackBeg => a >= breg
                               /\ a < StackBeg => a >= hbreg
      BY <1>1, <1>2, <1>8, <2>1 DEF MustTrailType, BindType, Live
    <2> QED
      BY <1>8, <2>1, <2>2, TrailAndSetStep DEF BindType, MustTrailType
  <1>9. ASSUME NEW a \in Addr, NEW c \in Counts, SetImport(a, c) PROVE IInv'
    <2>1. c \in Content /\ "MOD" \in Tags /\ "MOD" # "TYPE"
      BY DEF Content, Tags
    <2>2. a \in Live(hreg, tos)
      BY <1>1, <1>9 DEF SetImport, Live
    <2> QED
      BY <1>9, <2>1, <2>2, TrailAndSetStep DEF SetImport
  <1>10. ASSUME Try PROVE IInv'
    <2>1. /\ Len(cps') = n + 1 /\ Len(saved') = n + 1
          /\ cps'[n + 1] = [addr |-> tos, h |-> hreg, tr |-> Len(trail)]
          /\ saved'[n + 1] = Store
          /\ \A k \in 1 .. n : cps'[k] = cps[k] /\ saved'[k] = saved[k]
          /\ UNCHANGED <<mem, trail, hreg, tos>> /\ hbreg' = hreg
      BY <1>1, <1>10 DEF Try
    <2>2. cps'[n + 1] \in ChoicePoint /\ saved'[n + 1] \in Stores
      <3>1. Store \in [Live(hreg, tos) -> Content]
        BY <1>1, LiveAddr DEF Store, IInv
      <3> QED
        BY <1>1, <2>1, <3>1, LiveAddr DEF ChoicePoint, Stores, IInv
    <2>3. TypeOK'
      <3>1. cps' \in Seq(ChoicePoint) /\ saved' \in Seq(Stores)
        BY <1>1, <1>10, <2>1, <2>2 DEF Try
      <3> QED
        BY <1>1, <1>10, <2>1, <3>1 DEF Try, IInv, TypeOK
    <2>4. CPsOrdered'
      <3>1. ASSUME NEW k \in 1 .. n
            PROVE  cps[k].h <= hreg /\ cps[k].addr <= tos
                   /\ cps[k].tr <= Len(trail)
        <4>1. /\ cps[k].h <= Top(cps).h /\ cps[k].addr <= Top(cps).addr
              /\ cps[k].tr <= Top(cps).tr
          <5>1. k \in 1 .. Len(cps) /\ n \in 1 .. Len(cps) /\ k <= n
            BY <1>1
          <5> QED
            BY <5>1 DEF IInv, CPsOrdered, Top
        <4>2. cps[k] \in ChoicePoint
          BY <1>1
        <4>3. /\ cps[k].h \in 0 .. StackBeg /\ cps[k].tr \in Nat
              /\ cps[k].addr \in StackBeg .. StackEnd
          BY <4>2 DEF ChoicePoint
        <4>4. /\ Top(cps).h \in Int /\ Top(cps).h <= hreg
              /\ Top(cps).addr \in Int /\ Top(cps).addr <= tos
              /\ Top(cps).tr \in Int /\ Top(cps).tr <= Len(trail)
          BY <1>1, <1>2
        <4>5. /\ StackBeg \in Int /\ StackEnd \in Int /\ Len(trail) \in Int
              /\ hreg \in Int /\ tos \in Int
          BY <1>1
        <4>6. cps[k].h \in Int /\ cps[k].addr \in Int /\ cps[k].tr \in Int
          BY <4>3, <4>5
        <4>7. cps[k].h <= hreg
          BY <4>1, <4>4, <4>5, <4>6
        <4>8. cps[k].addr <= tos
          BY <4>1, <4>4, <4>5, <4>6
        <4>9. cps[k].tr <= Len(trail)
          BY <4>1, <4>4, <4>5, <4>6
        <4> QED
          BY <4>7, <4>8, <4>9
      <3>2. ASSUME NEW i \in 1 .. n + 1, NEW j \in 1 .. n + 1, i <= j
            PROVE  /\ cps'[i].h <= cps'[j].h
                   /\ cps'[i].addr <= cps'[j].addr
                   /\ cps'[i].tr <= cps'[j].tr
        <4>1. CASE j <= n
          <5>1. i \in 1 .. n /\ j \in 1 .. n
            BY <1>1, <3>2, <4>1
          <5> QED
            BY <2>1, <3>2, <5>1 DEF IInv, CPsOrdered
        <4>2. CASE i <= n /\ j = n + 1
          BY <1>1, <2>1, <3>1, <4>2
        <4>3. CASE i = n + 1 /\ j = n + 1
          BY <1>1, <2>1, <4>3
        <4> QED
          BY <1>1, <3>2, <4>1, <4>2, <4>3
      <3>3. cps'[1] = [addr |-> StackBeg, h |-> 0, tr |-> 0]
        BY <1>1, <2>1 DEF IInv, CPsOrdered
      <3>4. Top(cps').tr <= Len(trail')
        BY <1>1, <2>1 DEF Top
      <3>5. ASSUME NEW i \in 2 .. n + 1 PROVE cps'[i].addr > StackBeg
        <4>1. CASE i \in 2 .. n
          <5>1. i \in 1 .. n
            BY <1>1, <4>1
          <5>2. cps[i].addr > StackBeg
            BY <4>1 DEF IInv, CPsOrdered
          <5> QED
            BY <2>1, <5>1, <5>2
        <4>2. CASE i = n + 1
          BY <1>1, <2>1, <4>2
        <4>3. i \in 2 .. n \/ i = n + 1
          BY <1>1
        <4> QED
          BY <4>1, <4>2, <4>3
      <3> QED
        BY <2>1, <3>2, <3>3, <3>4, <3>5 DEF CPsOrdered
    <2>5. BacktrackPointSound'
      BY <1>1, <2>1 DEF BacktrackPointSound, AM_cpH, breg, Top
    <2>6. Restorable'
      <3>1. ASSUME NEW k \in 1 .. n
            PROVE  /\ saved'[k] \in [Preserved(cps'[k]) -> Content]
                   /\ \A a \in Preserved(cps'[k]) :
                       ( \/ Entries(k, a) = {} /\ mem[a] = saved[k][a]
                         \/ \E i \in Entries(k, a) :
                               /\ \A j \in Entries(k, a) : i <= j
                               /\ Undo(trail[i]) = saved[k][a] )'
        BY <2>1 DEF IInv, Restorable, Entries, Preserved, Undo
      <3>2. ASSUME NEW k \in {n + 1}
            PROVE  /\ saved'[k] \in [Preserved(cps'[k]) -> Content]
                   /\ \A a \in Preserved(cps'[k]) :
                       ( Entries(k, a) = {} /\ mem[a] = saved[k][a] )'
        <4>1. Preserved(cps'[k]) = Live(hreg, tos)
          BY <2>1 DEF Preserved
        <4>2. \A a \in Live(hreg, tos) : mem[a] \in Content
          BY <1>1, LiveAddr DEF IInv
        <4>3. saved'[k] = [a \in Live(hreg, tos) |-> mem'[a]]
          BY <2>1 DEF Store
        <4>4. cps'[k].tr = Len(trail) /\ trail' = trail /\ mem' = mem
          BY <2>1
        <4>5. \A a \in Addr : Entries(k, a)' = {}
          BY <1>1, <4>4 DEF Entries
        <4> QED
          BY <4>1, <4>2, <4>3, <4>4, <4>5, LiveAddr DEF IInv
      <3>4. ASSUME NEW k \in 1 .. n + 1
            PROVE  /\ saved'[k] \in [Preserved(cps'[k]) -> Content]
                   /\ \A a \in Preserved(cps'[k]) :
                       ( \/ Entries(k, a) = {} /\ mem[a] = saved[k][a]
                         \/ \E i \in Entries(k, a) :
                               /\ \A j \in Entries(k, a) : i <= j
                               /\ Undo(trail[i]) = saved[k][a] )'
        <4>1. CASE k \in 1 .. n
          BY <3>1, <4>1
        <4>2. CASE k = n + 1
          BY <3>2, <4>2
        <4> QED
          BY <1>1, <4>1, <4>2
      <3> QED
        BY <2>1, <3>4 DEF Restorable, Preserved, Live
    <2> QED
      BY <2>3, <2>4, <2>5, <2>6 DEF IInv
  <1>11. ASSUME Fail PROVE IInv'
    BY <1>1, <1>11, OnlyModeChanges DEF Fail, Backtrack, regs
  <1>12. ASSUME Unwind PROVE IInv'
    BY <1>12, UnwindStep
    DEF Unwind, regs, IInv, TypeOK, BacktrackPointSound, AM_cpH, breg, Top
  <1>13. ASSUME NEW k \in 1 .. n, cps' = SubSeq(cps, 1, k),
                saved' = SubSeq(saved, 1, k), UNCHANGED <<mem, trail>>,
                hreg' \in 0 .. StackBeg, hbreg' \in 0 .. StackBeg,
                tos' \in StackBeg + 1 .. StackEnd,
                mode' \in {"run", "unwind", "failed", "toplevel"},
                mode' = "unwind" => k > 1,
                hreg' >= cps[k].h, hbreg' >= cps[k].h, tos' >= cps[k].addr
         PROVE  IInv'
    <2>1. /\ Len(cps') = k /\ Len(saved') = k
          /\ cps' \in Seq(ChoicePoint) /\ saved' \in Seq(Stores)
          /\ CPsOrdered' /\ Restorable' /\ Top(cps') = cps[k]
      BY <1>13, PopChoicePoints
    <2>2. TypeOK' /\ BacktrackPointSound'
      BY <1>13, <2>1 DEF IInv, TypeOK, BacktrackPointSound, AM_cpH, breg
    <2> QED
      BY <2>1, <2>2 DEF IInv
  <1>14. ASSUME NEW k \in 1 .. n
         PROVE  /\ cps[k].h \in 0 .. StackBeg
                /\ cps[k].h <= Top(cps).h /\ cps[k].addr <= Top(cps).addr
                /\ cps[k].addr \in StackBeg .. StackEnd
    <2>1. cps[k] \in ChoicePoint
      BY <1>1
    <2>2. k <= n /\ n \in 1 .. n
      BY <1>1
    <2> QED
      BY <2>1, <2>2 DEF ChoicePoint, IInv, CPsOrdered, Top
  <1>15. n > 1 => /\ n - 1 \in 1 .. n /\ Front(cps) = SubSeq(cps, 1, n - 1)
                  /\ Front(saved) = SubSeq(saved, 1, n - 1)
                  /\ Top(Front(cps)) = cps[n - 1]
    <2> SUFFICES ASSUME n > 1
                 PROVE  /\ n - 1 \in 1 .. n
                        /\ Top(Front(cps)) = cps[n - 1]
      BY <1>1 DEF Front
    <2>1. n - 1 \in Nat /\ n - 1 <= Len(cps) /\ n - 1 \in 1 .. n - 1
      BY <1>1
    <2> QED
      BY <1>1, <2>1, Prefix DEF Front, Top
  <1>16. ASSUME Retry PROVE IInv'
    <2>1. cps' = SubSeq(cps, 1, n) /\ saved' = SubSeq(saved, 1, n)
      BY <1>1, <1>16, Prefix DEF Retry
    <2>2. breg > StackBeg
      <3>1. n > 1
        BY <1>16 DEF Retry, Unwound, IInv, BacktrackPointSound
      <3> QED
        BY <1>1, <3>1 DEF IInv, CPsOrdered, breg, Top
    <2> QED
      BY <1>1, <1>2, <1>13, <1>14, <1>16, <2>1, <2>2
      DEF Retry, AM_cpH, Top, breg
  <1>17. ASSUME Trust PROVE IInv'
    <2>1. n > 1
      BY <1>17 DEF Trust, Unwound, IInv, BacktrackPointSound
    <2>2. breg > StackBeg
      BY <1>1, <2>1 DEF IInv, CPsOrdered, breg, Top
    <2>3. /\ cps' = SubSeq(cps, 1, n - 1) /\ saved' = SubSeq(saved, 1, n - 1)
          /\ n - 1 \in 1 .. n /\ Top(cps') = cps[n - 1]
          /\ hreg' = Top(cps).h /\ hbreg' = cps[n - 1].h /\ tos' = Top(cps).addr
          /\ mode' = "run" /\ UNCHANGED <<mem, trail>>
      BY <1>15, <1>17, <2>1 DEF Trust, AM_cpH, breg
    <2>4. /\ Top(cps).h >= cps[n - 1].h /\ Top(cps).addr >= cps[n - 1].addr
          /\ cps[n - 1].h \in 0 .. StackBeg
          /\ cps[n - 1].addr \in StackBeg .. StackEnd
      BY <1>2, <1>14, <2>3
    <2>5. Top(cps).addr \in StackBeg + 1 .. StackEnd
      BY <1>1, <1>2, <2>2
    <2> HIDE DEF n
    <2>6. PICK k : k = n - 1
      OBVIOUS
    <2>7. /\ k \in 1 .. n /\ cps' = SubSeq(cps, 1, k) /\ saved' = SubSeq(saved, 1, k)
          /\ UNCHANGED <<mem, trail>> /\ mode' = "run"
      BY <2>3, <2>6
    <2>8. /\ hreg' = Top(cps).h /\ hbreg' = cps[k].h /\ tos' = Top(cps).addr
          /\ Top(cps).h >= cps[k].h /\ Top(cps).addr >= cps[k].addr
          /\ cps[k].h \in 0 .. StackBeg /\ cps[k].addr \in StackBeg .. StackEnd
      BY <2>3, <2>4, <2>6
    <2>9. Top(cps).h \in 0 .. StackBeg /\ hbreg' >= cps[k].h
      BY <1>1, <1>2, <2>8
    <2> QED
      BY <1>13, <2>5, <2>7, <2>8, <2>9
  <1>18. ASSUME TrustExtFail PROVE IInv'
    <2>1. n > 1
      BY <1>18 DEF TrustExtFail, Unwound, IInv, BacktrackPointSound
    <2>2. /\ cps' = SubSeq(cps, 1, n - 1) /\ saved' = SubSeq(saved, 1, n - 1)
          /\ n - 1 \in 1 .. n /\ Top(cps') = cps[n - 1] /\ Len(cps') = n - 1
          /\ mode' = Backtrack(cps') /\ UNCHANGED <<mem, trail, hreg, tos, hbreg>>
      BY <1>1, <1>15, <1>18, <2>1, Prefix DEF TrustExtFail
    <2>3. /\ mode' \in {"run", "unwind", "failed", "toplevel"}
          /\ mode' = "unwind" => n - 1 > 1
      BY <1>1, <2>1, <2>2 DEF Backtrack
    <2>4. /\ Top(cps).h >= cps[n - 1].h /\ Top(cps).addr >= cps[n - 1].addr
          /\ cps[n - 1].h \in 0 .. StackBeg
          /\ cps[n - 1].addr \in StackBeg .. StackEnd
      BY <1>2, <1>14, <2>2
    <2>5. hreg >= cps[n - 1].h /\ hbreg >= cps[n - 1].h /\ tos >= cps[n - 1].addr
      <3>1. /\ hreg \in Int /\ hbreg \in Int /\ tos \in Int
            /\ Top(cps).h \in Int /\ Top(cps).addr \in Int
            /\ StackBeg \in Int /\ StackEnd \in Int
            /\ hreg >= Top(cps).h /\ hbreg >= Top(cps).h /\ tos >= Top(cps).addr
        BY <1>1, <1>2
      <3> HIDE DEF n
      <3> QED
        BY <2>4, <3>1
    <2> HIDE DEF n
    <2> QED
      BY <1>1, <1>13, <2>2, <2>3, <2>5
  <1>19. ASSUME NEW k \in 1 .. n, NEW t \in StackBeg .. StackEnd,
                CutStack(k, t), hbreg' = AM_cpH(cps') \/ UNCHANGED hbreg
         PROVE  IInv'
    <2>1. Top(cps') = cps[k]
      BY <1>1, <1>19, PopChoicePoints DEF CutStack
    <2>2. cps[k].h <= Top(cps).h /\ cps[k].h \in 0 .. StackBeg
      BY <1>14
    <2>3. hbreg' \in 0 .. StackBeg /\ hbreg' >= cps[k].h
      BY <1>1, <1>2, <1>19, <2>1, <2>2 DEF AM_cpH
    <2>4. hreg' >= cps[k].h /\ hreg' \in 0 .. StackBeg
      BY <1>1, <1>2, <1>19, <2>2 DEF CutStack
    <2>5. tos' \in StackBeg + 1 .. StackEnd /\ tos' >= cps[k].addr
      BY <1>1, <1>19 DEF CutStack
    <2> QED
      BY <1>13, <1>19, <2>3, <2>4, <2>5 DEF CutStack
  <1>20. ASSUME Restart PROVE IInv'
    <2>1. 1 \in 1 .. n
      BY <1>1
    <2>2. cps' = SubSeq(cps, 1, 1) /\ saved' = SubSeq(saved, 1, 1)
      BY <1>20 DEF Restart
    <2>3. /\ Len(cps') = 1 /\ Len(saved') = 1
          /\ cps' \in Seq(ChoicePoint) /\ saved' \in Seq(Stores)
          /\ cps'[1] = cps[1] /\ saved'[1] = saved[1]
      BY <1>1, <2>1, <2>2, Prefix
    <2>4. cps[1] = [addr |-> StackBeg, h |-> 0, tr |-> 0]
      BY DEF IInv, CPsOrdered
    <2>5. CPsOrdered'
      BY <1>20, <2>3, <2>4, SizeAssumption DEF CPsOrdered, Top, Restart
    <2>6. Restorable'
      <3>1. saved[1] \in [Preserved(cps[1]) -> Content]
        BY <2>1 DEF IInv, Restorable
      <3>2. Preserved(cps[1]) = {}
        <4>1. cps[1].h = 0 /\ cps[1].addr = StackBeg
          BY <2>4
        <4> QED
          BY <1>1, <4>1 DEF Preserved, Live
      <3>3. ASSUME NEW k \in 1 .. Len(cps') PROVE k = 1
        BY <2>3
      <3>4. Preserved(cps'[1]) = {} /\ saved'[1] \in [Preserved(cps'[1]) -> Content]
        BY <2>3, <3>1, <3>2
      <3> QED
        BY <3>3, <3>4 DEF Restorable, Preserved, Live
    <2>7. /\ AM_cpH(cps') = 0 /\ breg' = StackBeg /\ hreg' = 0
          /\ tos' = StackBeg + 1 /\ mode' = "run" /\ trail' = <<>>
          /\ UNCHANGED <<mem, hbreg>>
      BY <1>20, <2>3, <2>4 DEF Restart, AM_cpH, breg, Top
    <2>8. BacktrackPointSound'
      BY <1>1, <2>7 DEF BacktrackPointSound, AM_cpH, Top
    <2>9. TypeOK'
      BY <1>1, <2>3, <2>7, SizeAssumption DEF IInv, TypeOK
    <2> QED
      BY <2>5, <2>6, <2>8, <2>9 DEF IInv
  <1>21. CASE UNCHANGED vars
    BY <1>1, <1>21, OnlyModeChanges DEF vars, IInv, TypeOK, BacktrackPointSound
  <1>22. CASE \E k \in 1 .. Len(cps), t \in StackBeg .. StackEnd : Cut(k, t)
    BY <1>19, <1>22 DEF Cut
  <1>23. CASE \E k \in 1 .. Len(cps) : CutGoal(k)
    <2>1. tos \in StackBeg .. StackEnd
      BY <1>1
    <2> QED
      BY <1>19, <1>23, <2>1 DEF CutGoal
  <1> QED
    BY <1>4, <1>5, <1>6, <1>7, <1>8, <1>9, <1>10, <1>11, <1>12, <1>16, <1>17,
       <1>18, <1>20, <1>21, <1>22, <1>23
    DEF Next

-----------------------------------------------------------------------------
\* In every reachable state the registers, the choice points and the trail fit
\* together.
THEOREM Invariance == Spec => []IInv
  <1>1. Init => IInv
    BY InitIInv
  <1>2. IInv /\ [Next]_vars => IInv'
    BY NextIInv
  <1> QED
    BY <1>1, <1>2, PTL DEF Spec

\* Type correctness: no register or trail item leaves its data area.
THEOREM TypeCorrect == Spec => []TypeOK
  <1>1. IInv => TypeOK
    BY DEF IInv
  <1> QED
    BY <1>1, Invariance, PTL

\* The choice points always lie in the order they were made in: each preserves
\* all that the older ones do (AM_fstCP below all), whatever was cut, retried or
\* trusted in between.
THEOREM ChoicePointsStayOrdered == Spec => []CPsOrdered
  <1>1. IInv => CPsOrdered
    BY DEF IInv
  <1> QED
    BY <1>1, Invariance, PTL

\* What the tests for trailing let go untrailed belongs to no choice point,
\* whether the newest or an older one.
TestsCover ==
    \A k \in 1 .. Len(cps) : \A a \in Preserved(cps[k]) :
       /\ a < StackBeg => a < hbreg /\ a < hreg
       /\ a >= StackBeg => a < breg

\* The registers that the trailing tests read bound what the choice points
\* preserve.  HB is not below the heap point of the newest choice point, but may
\* be above it (a cut in an interpreted goal and the start of a query leave it
\* as it was); the heap and the stack end above that choice point; AM_fstCP is
\* never unwound to; and every cell that any choice point preserves is below the
\* register that its binding is tested against, so that it is trailed.
THEOREM RegistersStaySound == Spec => [](BacktrackPointSound /\ TestsCover)
  <1>1. IInv => BacktrackPointSound /\ TestsCover
    BY PreservedBound DEF IInv, TestsCover
  <1> QED
    BY <1>1, Invariance, PTL

\* Conditional trailing loses nothing: for every choice point, unwinding the
\* trail to it would restore every cell it preserves.
THEOREM TrailingIsSufficient == Spec => []Restorable
  <1>1. IInv => Restorable
    BY DEF IInv
  <1> QED
    BY <1>1, Invariance, PTL

-----------------------------------------------------------------------------
\* Unwinding down to its trail point leaves what the newest choice point saved.
LEMMA UnwoundStore ==
    ASSUME IInv, Unwound
    PROVE  [a \in Live(Top(cps).h, Top(cps).addr) |-> mem[a]] = Top(saved)
  <1> DEFINE n == Len(cps)
  <1>1. n \in 1 .. Len(cps) /\ Len(saved) = n /\ Len(trail) \in Nat
    BY DEF IInv, TypeOK
  <1>2. /\ saved[n] \in [Preserved(cps[n]) -> Content]
        /\ \A a \in Preserved(cps[n]) :
             \/ Entries(n, a) = {} /\ mem[a] = saved[n][a]
             \/ \E i \in Entries(n, a) :
                   /\ \A j \in Entries(n, a) : i <= j
                   /\ Undo(trail[i]) = saved[n][a]
    BY <1>1 DEF IInv, Restorable
  <1>3. \A a \in Preserved(cps[n]) : Entries(n, a) = {}
    BY <1>1 DEF Unwound, AM_cpTR, Top, Entries
  <1> QED
    BY <1>1, <1>2, <1>3 DEF Top, Preserved

\* Overwriting a live cell, trailed or not, is an update of the store.
LEMMA UpdateSimulation ==
    ASSUME IInv, mode = "run", NEW a \in Live(hreg, tos), NEW c \in Content,
           NEW tag, NEW must, TrailAndSet(a, tag, must, c)
    PROVE  Abs!AUpdate \/ UNCHANGED <<AbsStore, saved>>
  <1>1. CASE Overflow
    BY <1>1 DEF Overflow, AbsStore, Store, Live
  <1>2. CASE mem' = [mem EXCEPT ![a] = c] /\ UNCHANGED <<regs, mode, saved>>
    <2>1. mem \in [Addr -> Content] /\ Live(hreg, tos) \subseteq Addr
      BY LiveAddr DEF IInv, TypeOK
    <2>2. AbsStore = Store /\ AbsStore' = Store'
      BY <1>2 DEF AbsStore
    <2>3. a \in DOMAIN Store /\ Store' = [Store EXCEPT ![a] = c]
      BY <1>2, <2>1 DEF Store, Live, regs
    <2> QED
      BY <1>2, <2>2, <2>3 DEF Abs!AUpdate
  <1> QED
    BY <1>1, <1>2 DEF TrailAndSet

\* The initial states correspond.
LEMMA InitSimulation == Init => Abs!AInit
  <1> SUFFICES ASSUME Init PROVE Abs!AInit
    OBVIOUS
  <1>1. Live(hreg, tos) = {}
    BY SizeAssumption DEF Init, Live
  <1>2. Store = [a \in {} |-> FreeType]
    BY <1>1 DEF Store, Init
  <1>3. [a \in {} |-> FreeType] = [a \in {} |-> CHOOSE c \in Content : TRUE]
    OBVIOUS
  <1> QED
    BY <1>2, <1>3 DEF Init, AbsStore, Abs!AInit, Abs!EmptyStore

\* A step of the machine is a step of the store with snapshots, or none.
LEMMA StepSimulation ==
    ASSUME IInv, IInv', [Next]_vars
    PROVE  [Abs!ANext]_(Abs!avars)
  <1> DEFINE n == Len(cps)
  <1> SUFFICES Abs!ANext \/ UNCHANGED <<AbsStore, saved>>
    BY DEF Abs!avars
  <1>1. /\ cps \in Seq(ChoicePoint) /\ n \in 1 .. n /\ n \in Nat /\ Len(saved) = n
        /\ mem \in [Addr -> Content] /\ Live(hreg, tos) \subseteq Addr
        /\ StackBeg \in Nat /\ StackEnd \in Nat /\ StackBeg < StackEnd
        /\ hreg \in 0 .. StackBeg /\ tos \in StackBeg + 1 .. StackEnd
    BY LiveAddr, SizeAssumption DEF IInv, TypeOK
  <1>2. saved[n] \in [Preserved(cps[n]) -> Content]
    BY <1>1 DEF IInv, Restorable
  <1>3. ASSUME Overflow, mode = "run" PROVE UNCHANGED <<AbsStore, saved>>
    BY <1>3 DEF Overflow, AbsStore, Store, Live
  <1>4. ASSUME NEW a \in Addr, a \notin Live(hreg, tos), NEW c \in Content,
               mode = "run", mode' = "run", mem' = [mem EXCEPT ![a] = c],
               Live(hreg, tos)' = Live(hreg, tos) \cup {a}, UNCHANGED saved
        PROVE  Abs!AExtend
    <2>1. AbsStore = Store /\ AbsStore' = Store'
      BY <1>4 DEF AbsStore
    <2>2. Store' = [b \in DOMAIN Store \cup {a} |-> IF b = a THEN c ELSE Store[b]]
      BY <1>1, <1>4 DEF Store
    <2>3. a \in Addr \ DOMAIN Store
      BY <1>4 DEF Store
    <2> QED
      BY <1>4, <2>1, <2>2, <2>3 DEF Abs!AExtend
  <1>5. ASSUME NEW c \in Content, HeapAlloc(c)
        PROVE  Abs!AExtend \/ UNCHANGED <<AbsStore, saved>>
    <2>1. CASE hreg + 1 > StackBeg
      BY <1>3, <1>5, <2>1 DEF HeapAlloc
    <2>2. CASE ~(hreg + 1 > StackBeg)
      <3>1. hreg \in Addr /\ hreg \notin Live(hreg, tos)
        BY <1>1, <2>2 DEF Addr, Live
      <3>2. Live(hreg, tos)' = Live(hreg, tos) \cup {hreg}
        BY <1>1, <1>5, <2>2 DEF HeapAlloc, Live
      <3> QED
        BY <1>4, <1>5, <2>2, <3>1, <3>2 DEF HeapAlloc
    <2> QED
      BY <2>1, <2>2
  <1>6. ASSUME NEW c \in Content, StackAlloc(c)
        PROVE  Abs!AExtend \/ UNCHANGED <<AbsStore, saved>>
    <2>1. CASE tos + 1 > StackEnd
      BY <1>3, <1>6, <2>1 DEF StackAlloc
    <2>2. CASE ~(tos + 1 > StackEnd)
      <3>1. tos \in Addr /\ tos \notin Live(hreg, tos)
        BY <1>1, <2>2 DEF Addr, Live
      <3>2. Live(hreg, tos)' = Live(hreg, tos) \cup {tos}
        BY <1>1, <1>6, <2>2 DEF StackAlloc, Live
      <3> QED
        BY <1>4, <1>6, <2>2, <3>1, <3>2 DEF StackAlloc
    <2> QED
      BY <2>1, <2>2
  <1>7. ASSUME IInv', mode = "run", mode' = "run", UNCHANGED <<mem, hreg>>,
               tos' <= tos
        PROVE  /\ DOMAIN Top(saved') \subseteq DOMAIN AbsStore'
               /\ DOMAIN AbsStore' \subseteq DOMAIN AbsStore
               /\ AbsStore' = [a \in DOMAIN AbsStore' |-> AbsStore[a]]
    <2>1. AbsStore = Store /\ AbsStore' = Store'
      BY <1>7 DEF AbsStore
    <2>2. Live(hreg, tos)' \subseteq Live(hreg, tos) /\ tos' \in Nat
      <3>1. tos' \in StackBeg + 1 .. StackEnd
        BY <1>7 DEF IInv, TypeOK
      <3>2. Live(hreg, tos)' = (0 .. hreg - 1) \cup (StackBeg + 1 .. tos' - 1)
        BY <1>7 DEF Live
      <3>3. tos \in Int /\ StackBeg \in Int /\ tos' \in Nat /\ tos' <= tos
        BY <1>1, <1>7, <3>1
      <3> QED
        BY <3>2, <3>3 DEF Live
    <2>3. DOMAIN Top(saved') \subseteq Live(hreg, tos)'
      <3>1. /\ Len(saved') = Len(cps') /\ Len(cps') \in 1 .. Len(cps')
            /\ Top(cps') \in ChoicePoint
        BY <1>7 DEF IInv, TypeOK, Top
      <3>2. DOMAIN Top(saved') = Live(Top(cps').h, Top(cps').addr)
        BY <1>7, <3>1 DEF IInv, Restorable, Preserved, Live, Top
      <3>3. Top(cps').h <= hreg' /\ Top(cps').addr <= tos'
        BY <1>7 DEF IInv, BacktrackPointSound, AM_cpH, breg, Top
      <3>4. /\ Top(cps').h \in Int /\ Top(cps').addr \in Int
            /\ hreg' \in Int /\ tos' \in Int
        BY <1>1, <1>7, <2>2, <3>1 DEF ChoicePoint
      <3> QED
        BY <1>1, <3>2, <3>3, <3>4 DEF Live
    <2> QED
      BY <1>7, <2>1, <2>2, <2>3 DEF Store
  <1>8. ASSUME NEW t \in StackBeg .. StackEnd, StackFree(t) PROVE Abs!AShrink
    <2>1. /\ mode = "run" /\ mode' = "run" /\ UNCHANGED <<mem, hreg, saved>>
          /\ tos' <= tos
      BY <1>1, <1>8 DEF StackFree
    <2>2. /\ DOMAIN Top(saved') \subseteq DOMAIN AbsStore'
          /\ DOMAIN AbsStore' \in SUBSET DOMAIN AbsStore
          /\ AbsStore' = [a \in DOMAIN AbsStore' |-> AbsStore[a]]
      BY <1>7, <2>1
    <2> QED
      BY <2>1, <2>2 DEF Abs!AShrink, Abs!Protected, Abs!OnlyLive, Top
  <1>9. ASSUME NEW k \in 1 .. Len(cps), NEW t \in StackBeg .. StackEnd,
               CutStack(k, t)
        PROVE  Abs!ACut
    <2>1. /\ mode = "run" /\ mode' = "run" /\ UNCHANGED <<mem, hreg>>
          /\ tos' <= tos /\ saved' = SubSeq(saved, 1, k)
      BY <1>1, <1>9 DEF CutStack
    <2>2. /\ DOMAIN Top(saved') \subseteq DOMAIN AbsStore'
          /\ DOMAIN AbsStore' \in SUBSET DOMAIN AbsStore
          /\ AbsStore' = [a \in DOMAIN AbsStore' |-> AbsStore[a]]
      BY <1>7, <2>1
    <2>3. k \in 1 .. Len(saved)
      BY <1>1
    <2> QED
      BY <2>1, <2>2, <2>3 DEF Abs!ACut, Abs!Protected, Abs!OnlyLive, Top
  <1>10. ASSUME NEW a \in Addr, NEW c \in Content,
                BindTerm(a, c) \/ BindHTerm(a, c) \/ BindETerm(a, c)
                \/ BindType(a, c) \/ SetImport(a, c)
         PROVE  Abs!AUpdate \/ UNCHANGED <<AbsStore, saved>>
    <2>1. mode = "run" /\ a \in Live(hreg, tos)
      BY <1>1, <1>10
      DEF BindTerm, BindHTerm, BindETerm, BindType, SetImport, Live, Addr
    <2> QED
      BY <1>10, <2>1, UpdateSimulation
      DEF BindTerm, BindHTerm, BindETerm, BindType, SetImport
  <1>11. ASSUME Try PROVE Abs!ASave
    BY <1>11 DEF Try, Abs!ASave, AbsStore, Store, Live
  <1>12. ASSUME Fail PROVE Abs!ARestore
    <2>1. mode' \in {"unwind", "failed"} /\ UNCHANGED saved
      BY <1>12 DEF Fail, Backtrack
    <2> QED
      BY <2>1 DEF Abs!ARestore, AbsStore, Top
  <1>13. ASSUME Unwind PROVE UNCHANGED <<AbsStore, saved>>
    BY <1>13 DEF Unwind, AbsStore, Top
  <1>14. ASSUME Unwound, mode' = "run", mem' = mem, hreg' = Top(cps).h,
                tos' = Top(cps).addr
         PROVE  AbsStore' = saved[Len(saved)]
    <2>1. AbsStore' = [a \in Live(Top(cps).h, Top(cps).addr) |-> mem[a]]
      BY <1>14 DEF AbsStore, Store, Live
    <2> QED
      BY <1>14, <2>1, UnwoundStore DEF Top
  <1>15. ASSUME Retry PROVE UNCHANGED <<AbsStore, saved>>
    <2>1. AbsStore' = saved[Len(saved)]
      BY <1>14, <1>15 DEF Retry, AM_cpH, breg
    <2> QED
      BY <1>15, <2>1 DEF Retry, Unwound, AbsStore, Top
  <1>16. ASSUME Trust PROVE Abs!AForget
    <2>1. AbsStore' = saved[Len(saved)]
      BY <1>14, <1>16 DEF Trust, AM_cpH, breg
    <2>2. Len(saved) > 1
      BY <1>1, <1>16 DEF Trust, Unwound, IInv, BacktrackPointSound
    <2> QED
      BY <1>16, <2>1, <2>2 DEF Trust, Front, Abs!AForget
  <1>17. ASSUME TrustExtFail PROVE Abs!ASkip
    <2>1. Len(saved) > 1 /\ saved' = SubSeq(saved, 1, Len(saved) - 1)
      BY <1>1, <1>17 DEF TrustExtFail, Unwound, IInv, BacktrackPointSound, Front
    <2>2. mode' \in {"unwind", "failed"}
      BY <1>17 DEF TrustExtFail, Backtrack
    <2>3. Len(saved') = Len(saved) - 1 /\ Top(saved') = saved[Len(saved) - 1]
      <3>1. saved \in Seq(Stores) /\ Len(saved) - 1 \in Nat
        BY <1>1, <2>1 DEF IInv, TypeOK
      <3> QED
        BY <1>1, <2>1, <3>1, Prefix DEF Top
    <2> QED
      BY <2>1, <2>2, <2>3 DEF Abs!ASkip, AbsStore
  <1>18. ASSUME Restart PROVE Abs!ARestart
    <2>1. saved' = SubSeq(saved, 1, 1) /\ mode' = "run"
      BY <1>18 DEF Restart
    <2>2. Live(hreg, tos)' = {}
      <3>1. cps' = SubSeq(cps, 1, 1) /\ 1 \in Nat /\ 1 <= Len(cps)
        BY <1>1, <1>18 DEF Restart
      <3>2. Top(cps') = cps[1]
        BY <1>1, <3>1, Prefix DEF Top
      <3>3. hreg' = 0 /\ tos' = StackBeg + 1
        BY <1>18, <3>2 DEF Restart, AM_cpH, IInv, CPsOrdered
      <3> QED
        BY <1>1, <3>3 DEF Live
    <2>3. AbsStore' = saved[1]
      <3>1. saved[1] \in [Preserved(cps[1]) -> Content] /\ Preserved(cps[1]) = {}
        <4>1. 1 \in 1 .. Len(cps) /\ cps[1].h = 0 /\ cps[1].addr = StackBeg
          BY <1>1 DEF IInv, CPsOrdered
        <4>2. Preserved(cps[1]) = {}
          BY <1>1, <4>1 DEF Preserved, Live
        <4> QED
          BY <4>1, <4>2 DEF IInv, Restorable
      <3> QED
        BY <2>1, <2>2, <3>1 DEF AbsStore, Store
    <2> QED
      BY <2>1, <2>3 DEF Abs!ARestart
  <1>19. CASE UNCHANGED vars
    BY <1>19 DEF vars, AbsStore, Store, Live, Top
  <1>20. CASE \E a \in Addr :
                 \/ \E c \in Terms : BindTerm(a, c) \/ BindHTerm(a, c)
                                      \/ BindETerm(a, c)
                 \/ \E c \in Types : BindType(a, c)
                 \/ \E c \in Counts : SetImport(a, c)
    BY <1>10, <1>20 DEF Content, Abs!ANext
  <1>21. CASE \/ \E k \in 1 .. Len(cps), t \in StackBeg .. StackEnd : Cut(k, t)
              \/ \E k \in 1 .. Len(cps) : CutGoal(k)
    <2>1. tos \in StackBeg .. StackEnd
      BY <1>1
    <2> QED
      BY <1>9, <1>21, <2>1 DEF Cut, CutGoal, Abs!ANext
  <1> QED
    BY <1>5, <1>6, <1>8, <1>11, <1>12, <1>13, <1>15, <1>16, <1>17, <1>18,
       <1>19, <1>20, <1>21
    DEF Next, Abs!ANext

\* The trail with its registers implements the store with snapshots, whatever
\* the sizes of the data areas and the contents of the cells.
THEOREM TrailImplementsBacktracking == Spec => ImplementsBacktracking
  <1>1. Init => Abs!AInit
    BY InitSimulation
  <1>2. IInv /\ IInv' /\ [Next]_vars => [Abs!ANext]_(Abs!avars)
    BY StepSimulation
  <1> QED
    BY <1>1, <1>2, Invariance, PTL DEF Spec, ImplementsBacktracking, Abs!ASpec

=============================================================================
