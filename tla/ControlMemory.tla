---------------------------- MODULE ControlMemory ----------------------------
(***************************************************************************)
(* What the choice points know of the stack, and the trail, through the    *)
(* writes, the bindings, the choice points made and dropped, and the       *)
(* return to one.                                                          *)
(***************************************************************************)
EXTENDS ControlViews, FiniteSetTheorems

\* Of the choice points that memory knows, in their order.
LEMMA MemoryStacks ==
    ASSUME NEW m, NEW tr, NEW ps, Memory(m, tr, ps)
    PROVE  /\ Stacked(ps) /\ Len(ps) \in Nat /\ Len(tr) \in Nat
           /\ \A k \in 1 .. Len(ps) : /\ ps[k].b \in Nat /\ ps[k].base \in Nat
                                      /\ ps[k].base + 10 <= ps[k].b /\ ps[k].b <= LastB(ps)
                                      /\ FstCP < ps[k].base /\ ps[k].b \in Addr
<1>1. IsSeq(ps) /\ IsSeq(tr) /\ \A k \in 1 .. Len(ps) : Made(ps, k)
  BY DEF Memory
<1>2. Len(ps) \in Nat /\ Len(tr) \in Nat
  BY <1>1, SeqIs
<1>3. ASSUME NEW k \in 1 .. Len(ps)
      PROVE  /\ ps[k].b \in Nat /\ ps[k].base \in Nat /\ ps[k].b \in Addr
             /\ ps[k].base + 10 <= ps[k].b /\ FstCP < ps[k].base
  <2>1. /\ ps[k].b \in Addr /\ ps[k].base \in Nat
        /\ FstCP < ps[k].base /\ ps[k].base + CPFixSize - 1 <= ps[k].b
    BY <1>1 DEF Made
  <2>2. ps[k].b \in Nat
    BY <2>1 DEF Addr, StackBeg
  <2> QED
    BY <2>1, <2>2 DEF CPFixSize
<1>4. ASSUME NEW k \in 1 .. Len(ps), NEW j \in 1 .. Len(ps), j < k PROVE ps[j].b < ps[k].base
  BY <1>1, <1>4 DEF Made
<1>5. Stacked(ps)
  <2>1. ASSUME NEW k \in 1 .. Len(ps) PROVE ps[k].base <= ps[k].b
    BY <1>3
  <2> QED
    BY <1>1, <1>3, <1>4, <2>1 DEF Stacked
<1>6. ASSUME NEW k \in 1 .. Len(ps) PROVE ps[k].b <= LastB(ps)
  <2>1. Len(ps) \in 1 .. Len(ps) /\ LastB(ps) = ps[Len(ps)].b /\ (k = Len(ps) \/ k < Len(ps))
    BY <1>2, SeqIs, <1>1 DEF LastB
  <2>2. CASE k = Len(ps)
    <3>1. ps[Len(ps)].b <= ps[Len(ps)].b
      BY <2>1, <1>3
    <3> QED
      BY <3>1, <2>1, <2>2
  <2>3. CASE k < Len(ps)
    <3>1. ps[k].b < ps[Len(ps)].base
      BY <2>1, <2>3, <1>4
    <3>2. ps[Len(ps)].base + 10 <= ps[Len(ps)].b /\ ps[Len(ps)].base \in Nat /\ ps[Len(ps)].b \in Nat
      BY <2>1, <1>3
    <3>3. ps[k].b \in Nat
      BY <1>3
    <3> QED
      BY <3>1, <3>2, <3>3, <2>1
  <2> QED
    BY <2>1, <2>2, <2>3
<1> QED
  BY <1>2, <1>3, <1>5, <1>6

\* Words that no choice point knows may be written.
Ignored(ps, a) == \A k \in 1 .. Len(ps) : ps[k].b < a \/ Unknown(ps[k], a)

\* A choice point keeps what it knows through writes to other words.
LEMMA KeepsWrites ==
    ASSUME WellShaped(prog), NEW s, NEW m, NEW z, Keeps(s, m), s.b \in Addr, s.base + 10 <= s.b, s.base \in Nat,
           \A a \in Addr : z[a] = m[a] \/ s.b < a \/ Unknown(s, a)
    PROVE  /\ Keeps(s, z) /\ z[s.b - 1] = m[s.b - 1]
           /\ \A a \in StackBeg .. s.b : s.stk[a].f = "free" => z[a] = m[a]
<1>1. s.b \in Nat /\ StackBeg .. s.b \subseteq Addr
  BY Limits DEF Addr, StackBeg
<1>2. ASSUME NEW a \in StackBeg .. s.b, ~Unknown(s, a) PROVE z[a] = m[a]
  <2>1. a \in Addr /\ ~(s.b < a)
    BY <1>1 DEF StackBeg
  <2> QED
    BY <2>1, <1>2
<1>3. s.b - 1 \in StackBeg .. s.b /\ ~Unknown(s, s.b - 1)
  BY <1>1 DEF StackBeg, Unknown
<1>4. z[s.b - 1] = m[s.b - 1]
  BY <1>2, <1>3
<1>5. Keeps(s, z)
  BY <1>2, <1>4 DEF Keeps
<1>6. \A a \in StackBeg .. s.b : s.stk[a].f = "free" => z[a] = m[a]
  BY <1>2 DEF Unknown
<1> QED
  BY <1>4, <1>5, <1>6

\* So do all of them, through writes to words that none of them knows.
LEMMA MemoryWrites ==
    ASSUME WellShaped(prog), NEW m, NEW tr, NEW ps, Memory(m, tr, ps), NEW z, Tidy(z), Rooted(z),
           \A a \in Addr : z[a] = m[a] \/ Ignored(ps, a)
    PROVE  Memory(z, tr, ps) /\ \A k \in 1 .. Len(ps) : z[ps[k].b - 1] = m[ps[k].b - 1]
<1>1. ASSUME NEW k \in 1 .. Len(ps)
      PROVE  /\ Keeps(ps[k], z) /\ z[ps[k].b - 1] = m[ps[k].b - 1]
             /\ \A a \in StackBeg .. ps[k].b : ps[k].stk[a].f = "free" => z[a] = m[a]
  <2>1. PICK s : s = ps[k]
    OBVIOUS
  <2>2. Keeps(s, m) /\ s.b \in Addr /\ s.base + 10 <= s.b /\ s.base \in Nat
    BY <2>1, MemoryStacks DEF Memory, Kept
  <2>3. \A a \in Addr : z[a] = m[a] \/ s.b < a \/ Unknown(s, a)
    BY <2>1 DEF Ignored
  <2>4. /\ Keeps(s, z) /\ z[s.b - 1] = m[s.b - 1]
        /\ \A a \in StackBeg .. s.b : s.stk[a].f = "free" => z[a] = m[a]
    <3>1. Keeps(s, z)
      BY ONLY WellShaped(prog), <2>2, <2>3, KeepsWrites
    <3>2. z[s.b - 1] = m[s.b - 1]
      BY ONLY WellShaped(prog), <2>2, <2>3, KeepsWrites
    <3>3. \A a \in StackBeg .. s.b : s.stk[a].f = "free" => z[a] = m[a]
      <4>1. s.b \in Nat /\ StackBeg .. s.b \subseteq Addr
        BY <2>2, Limits DEF Addr, StackBeg
      <4> QED
        BY ONLY <2>3, <4>1 DEF Unknown, StackBeg
    <3> QED
      BY <3>1, <3>2, <3>3
  <2> QED
    BY <2>1, <2>4
<1>2. ASSUME NEW k \in 1 .. Len(ps) PROVE Kept(z, tr, ps, k)
  <2>1. Kept(m, tr, ps, k)
    BY DEF Memory
  <2>2. Trailed(ps[k], z, tr, Len(tr))
    BY <2>1, <1>1 DEF Kept, Trailed
  <2> QED
    BY <2>1, <2>2, <1>1 DEF Kept
<1> QED
  BY <1>1, <1>2 DEF Memory

\* Nothing that is written above the choice points is known to them.
LEMMA IgnoredAbove ==
    ASSUME NEW m, NEW tr, NEW ps, Memory(m, tr, ps), NEW a \in Addr, LastB(ps) < a
    PROVE  Ignored(ps, a)
<1>1. ASSUME NEW k \in 1 .. Len(ps) PROVE ps[k].b < a
  <2>1. ps[k].b <= LastB(ps) /\ ps[k].b \in Nat
    BY MemoryStacks
  <2>2. LastB(ps) \in Nat /\ a \in Nat
    <3>1. Len(ps) \in 1 .. Len(ps) /\ LastB(ps) = ps[Len(ps)].b
      <4>1. Len(ps) \in Nat /\ IsSeq(ps)
        BY MemoryStacks DEF Stacked
      <4>2. ps # <<>>
        BY <4>1, SeqIs
      <4> QED
        BY <4>1, <4>2 DEF LastB
    <3> QED
      BY <3>1, MemoryStacks DEF Addr, StackBeg
  <2> QED
    BY <2>1, <2>2
<1> QED
  BY <1>1 DEF Ignored

\* Words that hold no variable may be written anywhere.
LEMMA TidyWrites ==
    ASSUME NEW m, Tidy(m), NEW z, DOMAIN z = Addr,
           \A a \in Addr : z[a] = m[a] \/ z[a] = Junk \/ z[a].f \notin {"free", "bound", "junk"}
    PROVE  Tidy(z)
<1>1. Spaced(z)
  <2>1. ASSUME NEW a \in Addr, z[a].f = "free", a + 1 \in Addr
        PROVE  z[a + 1].f \notin {"free", "bound"}
    <3>1. Junk.f = "junk"
      BY DEF Junk, W
    <3>2. z[a] = m[a]
      BY <2>1, <3>1
    <3>3. m[a + 1].f \notin {"free", "bound"}
      BY <2>1, <3>2 DEF Tidy, Spaced
    <3>4. z[a + 1] = m[a + 1] \/ z[a + 1] = Junk \/ z[a + 1].f \notin {"free", "bound", "junk"}
      BY <2>1
    <3> QED
      BY <3>1, <3>3, <3>4
  <2> QED
    BY <2>1 DEF Spaced
<1>2. ASSUME NEW a \in Addr, z[a].f = "junk" PROVE z[a] = Junk
  BY <1>2 DEF Tidy
<1> QED
  BY <1>1, <1>2 DEF Tidy

-----------------------------------------------------------------------------
\* A free variable is bound, and the binding trailed if it is below the newest
\* choice point.
LEMMA MemoryBinds ==
    ASSUME WellShaped(prog), NEW m, NEW tr, NEW ps, Memory(m, tr, ps),
           NEW x \in Addr, m[x].f = "free", NEW z, z = [m EXCEPT ![x] = W("bound", 0)], Rooted(z),
           NEW t, t = IF x < LastB(ps)
                      THEN Append(tr, [addr |-> x, old |-> <<m[x], m[x + 1]>>]) ELSE tr
    PROVE  Memory(z, t, ps)
<1>1. /\ Tidy(m) /\ IsSeq(tr) /\ Len(tr) \in Nat
      /\ z[x] = W("bound", 0) /\ \A a : a # x => z[a] = m[a]
      /\ z[x].f = "bound" /\ DOMAIN z = Addr
  BY MemoryStacks DEF Memory, Tidy, W
<1> DEFINE item == [addr |-> x, old |-> <<m[x], m[x + 1]>>]
<1>2. /\ IsSeq(t) /\ Len(t) \in Nat /\ Len(tr) <= Len(t)
      /\ \A i \in 1 .. Len(tr) : t[i] = tr[i]
      /\ \A i \in 1 .. Len(t) : i \in 1 .. Len(tr) \/ (t[i] = item /\ x < LastB(ps))
      /\ x < LastB(ps) => Len(tr) + 1 \in 1 .. Len(t) /\ t[Len(tr) + 1] = item
  <2>1. CASE x < LastB(ps)
    <3>1. t = Append(tr, item)
      BY <2>1
    <3>2. /\ IsSeq(t) /\ Len(t) = Len(tr) + 1
          /\ \A i \in 1 .. Len(tr) : t[i] = tr[i]
          /\ t[Len(tr) + 1] = item
      BY <1>1, <3>1, AppendIs
    <3> QED
      BY <1>1, <2>1, <3>2
  <2>2. CASE ~(x < LastB(ps))
    BY <1>1, <2>2
  <2> QED
    BY <2>1, <2>2
<1>3. item.addr = x /\ item.old[1] = m[x] /\ item.old[2] = m[x + 1]
  OBVIOUS
<1> HIDE DEF item
<1>4. Tidy(z)
  <2>1. ASSUME NEW a \in Addr, z[a].f = "free", a + 1 \in Addr
        PROVE  z[a + 1].f \notin {"free", "bound"}
    <3>1. a # x /\ m[a].f = "free"
      BY <1>1, <2>1
    <3>2. m[a + 1].f \notin {"free", "bound"}
      BY <1>1, <2>1, <3>1 DEF Tidy, Spaced
    <3> QED
      BY <1>1, <3>2
  <2>2. ASSUME NEW a \in Addr, z[a].f = "junk" PROVE z[a] = Junk
    BY <1>1, <2>2 DEF Tidy
  <2> QED
    BY <1>1, <2>1, <2>2 DEF Tidy, Spaced
<1>5. x + 1 \in Addr => m[x + 1].f \notin {"free", "bound"}
  BY <1>1 DEF Tidy, Spaced
<1>6. ASSUME NEW k \in 1 .. Len(ps) PROVE Kept(z, t, ps, k) /\ z[ps[k].b - 1] = m[ps[k].b - 1]
  <2> DEFINE s == ps[k]
  <2>1. /\ Kept(m, tr, ps, k) /\ Made(ps, k) /\ s.b \in Nat /\ s.b \in Addr /\ s.base \in Nat
        /\ s.base + 10 <= s.b /\ s.b <= LastB(ps)
    BY MemoryStacks DEF Memory
  <2>2. /\ Mark(s) <= Len(tr) /\ Mark(s) \in Nat
        /\ Keeps(s, m) /\ Trailed(s, m, tr, Len(tr))
        /\ \A i \in Mark(s) + 1 .. Len(tr) : Logged(s, tr[i])
        /\ \A j \in 1 .. k - 1 : Trailed(ps[j], s.stk, tr, Mark(s))
    BY <2>1 DEF Kept, Made
  <2>3. \A d \in 0 .. CPFixSize - 1 : s.stk[s.b - d].f \notin {"junk", "free", "bound"}
    BY <2>1 DEF Made
  <2>4. s.stk[s.b].f # "free" /\ s.stk[s.b - 2].f \notin {"junk", "free", "bound"}
        /\ s.stk[s.b - 2].f # "junk"
    <3>1. 0 \in 0 .. CPFixSize - 1 /\ 2 \in 0 .. CPFixSize - 1 /\ s.b - 0 = s.b
      BY <2>1 DEF CPFixSize
    <3> QED
      BY <2>3, <3>1
  <2>5. x # s.b - 1
    BY <2>2 DEF Keeps
  <2> HIDE DEF s
  <2>6. x # s.b - 2
    <3>1. s.b - 2 \in StackBeg .. s.b /\ s.b - 2 # s.b - 1
      BY <2>1 DEF StackBeg
    <3>2. m[s.b - 2] = s.stk[s.b - 2]
      BY <2>2, <2>4, <3>1 DEF Keeps, Unknown
    <3> QED
      BY <2>4, <3>2
  <2>7. ASSUME x <= s.b PROVE Unknown(s, x) \/ m[x] = s.stk[x]
    <3>1. x \in StackBeg .. s.b
      BY <2>1, <2>7 DEF Addr, StackBeg
    <3> QED
      BY <2>2, <2>5, <3>1 DEF Keeps
  <2>8. ASSUME x + 1 <= s.b PROVE Unknown(s, x + 1) \/ m[x + 1] = s.stk[x + 1]
    <3>1. x + 1 \in StackBeg .. s.b
      BY <2>1, <2>8 DEF Addr, StackBeg
    <3>2. x + 1 \in Addr
      BY <2>1, <3>1, Limits DEF Addr, StackBeg
    <3>3. x + 1 # s.b - 1
      <4>1. x \in Int
        BY DEF Addr
      <4> QED
        BY <4>1, <2>1, <2>6
    <3> QED
      BY <2>2, <3>1, <3>2, <3>3, <1>5 DEF Keeps
  <2>9. Keeps(s, z)
    <3>1. z[s.b - 1] = m[s.b - 1]
      BY <1>1, <2>5
    <3>2. ASSUME NEW a \in StackBeg .. s.b, a # s.b - 1, ~Unknown(s, a)
          PROVE  z[a] = s.stk[a] \/ (s.stk[a].f = "free" /\ z[a].f = "bound")
      <4>1. CASE a = x
        <5>1. m[x] = s.stk[x]
          BY <2>7, <3>2, <4>1
        <5> QED
          BY <5>1, <4>1, <1>1
      <4>2. CASE a # x
        BY <4>2, <1>1, <2>2, <3>2 DEF Keeps
      <4> QED
        BY <4>1, <4>2
    <3> QED
      BY <3>1, <3>2, <2>2 DEF Keeps
  <2>10. Trailed(s, z, t, Len(t))
    <3>1. ASSUME NEW a \in StackBeg .. s.b, s.stk[a].f = "free", z[a].f = "bound"
          PROVE  \E i \in Mark(s) + 1 .. Len(t) : t[i].addr = a
      <4>1. CASE a = x
        <5>1. x # s.b
          BY <2>4, <3>1, <4>1
        <5>2. x < LastB(ps)
          <6>1. LastB(ps) \in Nat
            <7>1. Len(ps) \in 1 .. Len(ps) /\ LastB(ps) = ps[Len(ps)].b
              <8>1. Len(ps) \in Nat /\ IsSeq(ps)
                BY MemoryStacks DEF Stacked
              <8>2. ps # <<>>
                BY <8>1, SeqIs
              <8> QED
                BY <8>1, <8>2 DEF LastB
            <7> QED
              BY <7>1, MemoryStacks
          <6>2. x \in 0 .. s.b
            BY <3>1, <4>1 DEF StackBeg
          <6> QED
            BY <6>1, <6>2, <5>1, <2>1
        <5>3. Len(tr) + 1 \in Mark(s) + 1 .. Len(t) /\ t[Len(tr) + 1].addr = x
          BY <1>1, <1>2, <1>3, <2>2, <5>2
        <5> QED
          BY <5>3, <4>1
      <4>2. CASE a # x
        <5>1. \E i \in Mark(s) + 1 .. Len(tr) : tr[i].addr = a
          BY <4>2, <3>1, <1>1, <2>2 DEF Trailed
        <5>2. \A i \in Mark(s) + 1 .. Len(tr) : /\ i \in Mark(s) + 1 .. Len(t)
                                                /\ t[i] = tr[i]
          BY <1>1, <1>2, <2>2
        <5> QED
          BY <5>1, <5>2
      <4> QED
        BY <4>1, <4>2
    <3> QED
      BY <3>1 DEF Trailed
  <2>11. ASSUME NEW i \in Mark(s) + 1 .. Len(t) PROVE Logged(s, t[i])
    <3>1. CASE i \in 1 .. Len(tr)
      <4>1. i \in Mark(s) + 1 .. Len(tr) /\ t[i] = tr[i]
        BY <3>1, <1>2, <2>2
      <4> QED
        BY <4>1, <2>2
    <3>2. CASE t[i] = item
      <4>1. ASSUME NEW w \in 0 .. 1, x + w <= s.b
            PROVE  Unknown(s, x + w) \/ item.old[w + 1] = s.stk[x + w]
        <5>1. CASE w = 0
          <6>1. x + w = x /\ w + 1 = 1 /\ x <= s.b
            BY <5>1, <4>1 DEF Addr, StackBeg
          <6> QED
            BY <6>1, <2>7, <1>3
        <5>2. CASE w = 1
          <6>1. w + 1 = 2 /\ x + w = x + 1
            BY <5>2
          <6> QED
            BY <6>1, <4>1, <5>2, <2>8, <1>3
        <5> QED
          BY <5>1, <5>2
      <4> QED
        BY <3>2, <4>1, <2>5, <2>6, <1>3 DEF Logged
    <3>3. i \in 1 .. Len(t)
      BY <1>2, <2>2
    <3> QED
      BY <3>1, <3>2, <3>3, <1>2
  <2>12. ASSUME NEW j \in 1 .. k - 1 PROVE Trailed(ps[j], s.stk, t, Mark(s))
    <3>1. Trailed(ps[j], s.stk, tr, Mark(s))
      BY <2>2
    <3>2. j \in 1 .. Len(ps) /\ Mark(ps[j]) \in Nat
      <4>1. j \in 1 .. Len(ps)
        BY MemoryStacks
      <4> QED
        BY <4>1 DEF Memory, Made
    <3>3. \A i \in Mark(ps[j]) + 1 .. Mark(s) : t[i] = tr[i]
      BY <1>2, <2>2, <3>2
    <3> QED
      BY <3>1, <3>3 DEF Trailed
  <2>13. Mark(s) <= Len(t)
    BY <1>2, <2>2
  <2>14. z[s.b - 1] = m[s.b - 1]
    BY <2>5, <1>1
  <2> QED
    BY <2>9, <2>10, <2>11, <2>12, <2>13, <2>14 DEF Kept, s
<1>7. \A k \in 1 .. Len(t) : t[k].addr \in Addr
  BY <1>2, <1>3 DEF Memory
<1>8. \A k \in 1 .. Len(ps) : Made(ps, k) /\ Waits(ps, k, z[ps[k].b - 1].v)
  BY <1>6 DEF Memory
<1>9. IsSeq(ps)
  BY DEF Memory
<1> QED
  BY <1>2, <1>4, <1>6, <1>7, <1>8, <1>9 DEF Memory

-----------------------------------------------------------------------------
\* The sizes of the environments that the choice points keep are numbers.
LEMMA KeptSizes ==
    ASSUME NEW m, NEW tr, NEW ps, Memory(m, tr, ps)
    PROVE  \A k \in 1 .. Len(ps) : \A g \in KeptFrames(ps[k]) : g.n \in Nat
<1> SUFFICES ASSUME NEW k \in 1 .. Len(ps), NEW g \in KeptFrames(ps[k]) PROVE g.n \in Nat
  OBVIOUS
<1> DEFINE d == ps[k]
<1>1. View(d.stk, SavedRegs(d), SavedLive(d), d.calls, d.ctx, Below(ps, k), ShapeAt(m[d.b - 1].v))
  BY DEF Memory, Waits
<1>2. Layout(d.stk, KeptFrames(d), SavedRegs(d).tos, d.ctx, Below(ps, k))
  BY <1>1 DEF View, KeptFrames
<1> QED
  BY <1>2 DEF Layout, Placed

\* Environments and records that were there, needed no more, or lie above the
\* choice points.
LEMMA HeirMoves ==
    ASSUME NEW m, NEW tr, NEW ps, Memory(m, tr, ps), NEW fs, NEW cx, Heir(fs, cx, ps), NEW gs, NEW cy,
           \A g \in gs : \/ g \in fs
                         \/ \A k \in 1 .. Len(ps) : ~(g.e < ps[k].base)
                         \/ \E f \in fs : g.e = f.e /\ g.n <= f.n /\ g.n \in Nat /\ f.n \in Nat,
           \A i \in 1 .. Len(cy) : \/ \E j \in 1 .. Len(cx) : cy[i] = cx[j]
                                  \/ \A k \in 1 .. Len(ps) : ~(cy[i] < ps[k].base)
    PROVE  Heir(gs, cy, ps)
<1> SUFFICES ASSUME NEW k \in 1 .. Len(ps) PROVE Inherits(gs, cy, ps[k])
  BY DEF Heir
<1>1. Inherits(fs, cx, ps[k])
  BY DEF Heir
<1>2. ASSUME NEW g \in gs, g.e < ps[k].base
      PROVE  \E h \in KeptFrames(ps[k]) : g.e = h.e /\ g.n <= h.n
  <2>1. CASE g \in fs
    BY <2>1, <1>1, <1>2 DEF Inherits
  <2>2. CASE g \notin fs
    <3>1. PICK f \in fs : g.e = f.e /\ g.n <= f.n /\ g.n \in Nat /\ f.n \in Nat
      BY <2>2, <1>2
    <3>2. PICK h \in KeptFrames(ps[k]) : f.e = h.e /\ f.n <= h.n
      BY <3>1, <1>1, <1>2 DEF Inherits
    <3>3. h.n \in Nat
      BY KeptSizes
    <3>4. g.n <= h.n
      BY <3>1, <3>2, <3>3
    <3> QED
      BY <3>1, <3>2, <3>4
  <2> QED
    BY <2>1, <2>2
<1>3. ASSUME NEW i \in 1 .. Len(cy), cy[i] < ps[k].base
      PROVE  \E j \in 1 .. Len(ps[k].ctx) : cy[i] = ps[k].ctx[j]
  BY <1>1, <1>3 DEF Inherits
<1> QED
  BY <1>2, <1>3 DEF Inherits

\* A clause waits for its call with no more of its environment than it had.
LEMMA HeirCalls ==
    ASSUME NEW m, NEW tr, NEW r, NEW n, NEW cs, NEW cx, NEW ps, NEW s,
           View(m, r, n, cs, cx, ps, s), s.own, Memory(m, tr, ps), Heir(Frames(r.e, n, cs), cx, ps),
           NEW d, d.e = r.e, NEW u, ReturnsTo(u, d.ret), u.n \in 0 .. s.n
    PROVE  Heir(Frames(r.e, LiveAt(r.e, d.ret), Append(cs, d)), cx, ps)
<1> DEFINE fs == Frames(r.e, n, cs)
           cz == Append(cs, d)
           gs == Frames(r.e, LiveAt(r.e, d.ret), cz)
<1>1. Calls(m, cs, cx, ps) /\ Running(m, r, n, cs[Len(cs)], cx, ps, s)
  BY DEF View
<1>2. /\ r.e # StackBeg /\ n = s.n /\ Len(cs) \in Nat \ {0}
      /\ [e |-> r.e, n |-> n] \in fs
  BY <1>1, FramesAre
<1>3. n \in Nat /\ u.n \in Nat /\ u.n <= n /\ CallI1(d.ret) = u.n
  <2>1. n \in Nat
    BY <1>1 DEF Running, AtEnv
  <2>2. u.n \in Nat /\ CallI1(d.ret) = u.n
    BY DEF ReturnsTo
  <2> QED
    BY <2>1, <2>2, <1>2
<1>4. /\ Len(cz) = Len(cs) + 1 /\ cz[Len(cz)] = d
      /\ \A i \in 1 .. Len(cs) : cz[i] = cs[i]
  BY <1>1, AppendIs DEF Calls
<1>5. ASSUME NEW g \in gs
      PROVE  g \in fs \/ g = [e |-> r.e, n |-> u.n]
  <2>1. CASE g = [e |-> r.e, n |-> LiveAt(r.e, d.ret)]
    BY <2>1, <1>2, <1>3 DEF LiveAt
  <2>2. ASSUME NEW j \in 2 .. Len(cz), g = [e |-> cz[j].e, n |-> CallI1(cz[j].ret)]
        PROVE  g \in fs \/ g = [e |-> r.e, n |-> u.n]
    <3>1. CASE j \in 2 .. Len(cs)
      <4>1. cz[j] = cs[j]
        BY <3>1, <1>2, <1>4
      <4> QED
        BY <3>1, <4>1, <2>2 DEF Frames
    <3>2. CASE j = Len(cz)
      BY <3>2, <2>2, <1>3, <1>4
    <3>3. j \in 2 .. Len(cs) \/ j = Len(cz)
      BY <1>2, <1>4
    <3> QED
      BY <3>1, <3>2, <3>3
  <2> QED
    BY <2>1, <2>2 DEF Frames
<1>6. ASSUME NEW g \in gs
      PROVE  \/ g \in fs
             \/ \A k \in 1 .. Len(ps) : ~(g.e < ps[k].base)
             \/ \E f \in fs : g.e = f.e /\ g.n <= f.n /\ g.n \in Nat /\ f.n \in Nat
  <2>1. CASE g = [e |-> r.e, n |-> u.n]
    <3> DEFINE f == [e |-> r.e, n |-> n]
    <3>1. f \in fs /\ g.e = f.e /\ g.n <= f.n /\ g.n \in Nat /\ f.n \in Nat
      BY <2>1, <1>2, <1>3
    <3> QED
      BY <3>1
  <2> QED
    BY <2>1, <1>5
<1> HIDE DEF fs, gs, cz
<1>7. Memory(m, tr, ps) /\ Heir(fs, cx, ps)
  BY DEF fs
<1>8. Heir(gs, cx, ps)
  BY ONLY <1>6, <1>7, HeirMoves
<1> QED
  BY <1>8 DEF gs, cz

\* Back in its caller, a clause has the environments of the caller.
LEMMA HeirReturns ==
    ASSUME NEW m, NEW tr, NEW r, NEW n, NEW cs, NEW cx, NEW ps, NEW s,
           View(m, r, n, cs, cx, ps, s), InClause(s), r.e # StackBeg,
           Memory(m, tr, ps), Heir(Frames(r.e, n, cs), cx, ps)
    PROVE  Heir(Frames(r.e, LiveAt(r.e, r.cp), Init1(cs)), cx, ps)
<1> DEFINE c == cs[Len(cs)]
           fs == Frames(r.e, n, cs)
           gs == Frames(r.e, LiveAt(r.e, r.cp), Init1(cs))
<1>1. Calls(m, cs, cx, ps) /\ Running(m, r, n, c, cx, ps, s) /\ Len(cs) \in Nat \ {0}
  BY CallerIs DEF View
<1>2. n = LiveAt(r.e, r.cp) /\ r.e = c.e
  BY <1>1 DEF Running, AtEnv, InClause
<1>3. Len(cs) > 1
  BY <1>1, <1>2 DEF Calls
<1>4. /\ Len(Init1(cs)) = Len(cs) - 1
      /\ \A j \in 1 .. Len(cs) - 1 : Init1(cs)[j] = cs[j]
  BY <1>1, <1>3, CallsDrop
<1>5. \A j \in 2 .. Len(Init1(cs)) : j \in 2 .. Len(cs) /\ Init1(cs)[j] = cs[j]
  BY <1>1, <1>4
<1>6. gs \subseteq fs
  BY <1>2, <1>5 DEF Frames
<1> HIDE DEF fs, gs
<1>7. Heir(fs, cx, ps)
  BY DEF fs
<1>8. Heir(gs, cx, ps)
  BY <1>6, <1>7, HeirMoves
<1> QED
  BY <1>8 DEF gs

\* What lies above the newest choice point lies above them all.
LEMMA AboveBases ==
    ASSUME NEW m, NEW tr, NEW ps, Memory(m, tr, ps), NEW x \in Nat, LastB(ps) < x
    PROVE  \A k \in 1 .. Len(ps) : ~(x < ps[k].base)
<1>1. Stacked(ps)
  BY MemoryStacks
<1> SUFFICES ASSUME NEW k \in 1 .. Len(ps) PROVE ~(x < ps[k].base)
  OBVIOUS
<1>2. /\ ps[k].b \in Points(ps) /\ Points(ps) \subseteq Nat /\ LastB(ps) \in Points(ps)
      /\ \A b \in Points(ps) : b <= LastB(ps)
  BY <1>1, PointsAre DEF Points
<1>3. ps[k].b \in Nat /\ LastB(ps) \in Nat /\ ps[k].b <= LastB(ps)
  BY <1>2
<1>4. ps[k].base \in Nat /\ ps[k].base <= ps[k].b
  BY <1>1 DEF Stacked
<1> QED
  BY <1>3, <1>4

\* An environment above the choice points is no business of theirs.
LEMMA HeirAllocates ==
    ASSUME NEW m, NEW tr, NEW ps, Memory(m, tr, ps), NEW e, NEW n, NEW cs, NEW cx,
           Heir(Frames(e, n, cs), cx, ps), NEW x \in Nat, LastB(ps) < x, NEW l
    PROVE  Heir(Frames(x, l, cs), cx, ps)
<1>1. \A k \in 1 .. Len(ps) : ~(x < ps[k].base)
  BY AboveBases
<1> DEFINE fs == Frames(e, n, cs)
           gs == Frames(x, l, cs)
<1>2. ASSUME NEW g \in gs
      PROVE  g \in fs \/ \A k \in 1 .. Len(ps) : ~(g.e < ps[k].base)
  <2>1. CASE g = [e |-> x, n |-> l]
    BY <2>1, <1>1
  <2>2. CASE g \in fs
    BY <2>2
  <2> QED
    BY <2>1, <2>2 DEF Frames
<1> HIDE DEF fs, gs
<1>3. Heir(fs, cx, ps)
  BY DEF fs
<1>4. Heir(gs, cx, ps)
  BY <1>2, <1>3, HeirMoves
<1> QED
  BY <1>4 DEF gs

\* A clause needs fewer of its variables.
LEMMA HeirTrims ==
    ASSUME NEW m, NEW tr, NEW ps, Memory(m, tr, ps), NEW e, NEW n \in Nat, NEW k \in Nat, k <= n,
           NEW cs, NEW cx, Heir(Frames(e, n, cs), cx, ps)
    PROVE  Heir(Frames(e, k, cs), cx, ps)
<1> DEFINE fs == Frames(e, n, cs)
           gs == Frames(e, k, cs)
           f == [e |-> e, n |-> n]
<1>1. ASSUME NEW g \in gs
      PROVE  \/ g \in fs
             \/ \E h \in fs : g.e = h.e /\ g.n <= h.n /\ g.n \in Nat /\ h.n \in Nat
  <2>1. CASE e # StackBeg /\ g = [e |-> e, n |-> k]
    <3>1. f \in fs /\ g.e = f.e /\ g.n <= f.n /\ g.n \in Nat /\ f.n \in Nat
      BY <2>1 DEF Frames
    <3> QED
      BY <3>1
  <2> QED
    BY <2>1 DEF Frames
<1> HIDE DEF fs, gs, f
<1>2. Heir(fs, cx, ps)
  BY DEF fs
<1>3. Heir(gs, cx, ps)
  BY <1>1, <1>2, HeirMoves
<1> QED
  BY <1>3 DEF gs

\* A record above the choice points is no business of theirs.
LEMMA HeirAddsRecord ==
    ASSUME NEW m, NEW tr, NEW ps, Memory(m, tr, ps), NEW fs, NEW cx \in Seq(Nat), Heir(fs, cx, ps),
           NEW x \in Nat, LastB(ps) < x
    PROVE  Heir(fs, Append(cx, x), ps)
<1> DEFINE cz == Append(cx, x)
<1>1. \A k \in 1 .. Len(ps) : ~(x < ps[k].base)
  BY AboveBases
<1>2. Len(cz) = Len(cx) + 1 /\ cz[Len(cx) + 1] = x /\ \A i \in 1 .. Len(cx) : cz[i] = cx[i]
  OBVIOUS
<1> HIDE DEF cz
<1>3. ASSUME NEW i \in 1 .. Len(cz)
      PROVE  \/ \E j \in 1 .. Len(cx) : cz[i] = cx[j]
             \/ \A k \in 1 .. Len(ps) : ~(cz[i] < ps[k].base)
  <2>1. i \in 1 .. Len(cx) \/ i = Len(cx) + 1
    BY <1>2
  <2> QED
    BY <1>1, <1>2, <2>1
<1>4. \A g \in fs : g \in fs
  OBVIOUS
<1>5. Heir(fs, cz, ps)
  BY <1>3, <1>4, HeirMoves
<1> QED
  BY <1>5 DEF cz

\* The newest record goes.
LEMMA HeirDropsRecord ==
    ASSUME NEW m, NEW tr, NEW ps, Memory(m, tr, ps), NEW fs, NEW cx \in Seq(Nat), cx # <<>>,
           Heir(fs, cx, ps)
    PROVE  Heir(fs, SubSeq(cx, 1, Len(cx) - 1), ps)
<1> DEFINE L == Len(cx) - 1
           cz == SubSeq(cx, 1, L)
<1>1. Len(cx) \in Nat /\ L \in Nat /\ L < Len(cx)
  OBVIOUS
<1> HIDE DEF L
<1>2. Len(cz) = L /\ \A i \in 1 .. L : cz[i] = cx[i]
  BY <1>1
<1>3. \A i \in 1 .. Len(cz) : i \in 1 .. Len(cx) /\ cz[i] = cx[i]
  BY <1>1, <1>2
<1> HIDE DEF cz
<1>4. (\A i \in 1 .. Len(cz) : \E j \in 1 .. Len(cx) : cz[i] = cx[j]) /\ \A g \in fs : g \in fs
  BY <1>3
<1>5. Heir(fs, cz, ps)
  BY <1>4, HeirMoves
<1> QED
  BY <1>5 DEF cz, L

\* The oldest choice points alone.
LEMMA HeirCuts ==
    ASSUME NEW fs, NEW cx, NEW ps, Heir(fs, cx, ps), NEW pz, Len(ps) \in Nat, Len(pz) \in Nat,
           Len(pz) <= Len(ps), \A k \in 1 .. Len(pz) : pz[k] = ps[k]
    PROVE  Heir(fs, cx, pz)
BY DEF Heir

\* A choice point is made of all that there is.
LEMMA HeirPushes ==
    ASSUME NEW fs, NEW cx, NEW ps, Heir(fs, cx, ps), NEW d, d.ctx = cx, fs \subseteq KeptFrames(d),
           \A f \in fs : f.n \in Nat, NEW pz, Len(ps) \in Nat, Len(pz) = Len(ps) + 1,
           pz[Len(ps) + 1] = d, \A k \in 1 .. Len(ps) : pz[k] = ps[k]
    PROVE  Heir(fs, cx, pz)
<1>1. Inherits(fs, cx, d)
  <2>1. ASSUME NEW f \in fs PROVE \E g \in KeptFrames(d) : f.e = g.e /\ f.n <= g.n
    <3>1. f.n \in Nat
      OBVIOUS
    <3>2. f \in KeptFrames(d) /\ f.e = f.e /\ f.n <= f.n
      BY <3>1
    <3> QED
      BY <3>2
  <2> QED
    BY <2>1 DEF Inherits
<1>2. ASSUME NEW k \in 1 .. Len(pz) PROVE Inherits(fs, cx, pz[k])
  <2>1. k \in 1 .. Len(ps) \/ k = Len(ps) + 1
    OBVIOUS
  <2> QED
    BY <2>1, <1>1 DEF Heir
<1> QED
  BY <1>2 DEF Heir

-----------------------------------------------------------------------------
\* A choice point is made: it knows the whole stack as it is.
LEMMA MemoryPushes ==
    ASSUME WellShaped(prog), NEW m, NEW tr, NEW ps, Memory(m, tr, ps),
           NEW d, d.stk = m, d.b \in Addr, d.base \in Nat, LastB(ps) < d.base, FstCP < d.base,
           d.base + CPFixSize - 1 <= d.b, Mark(d) = Len(tr), m[d.b - 1].f = "cpncl",
           \A k \in 0 .. CPFixSize - 1 : m[d.b - k].f \notin {"junk", "free", "bound"},
           {SavedRegs(d).e, SavedRegs(d).b0, SavedRegs(d).i, SavedRegs(d).ci} \subseteq Addr,
           SavedRegs(d).cp \in DOMAIN Code, SavedRegs(d).e < d.base, SavedRegs(d).b = LastB(ps),
           Waits(Append(ps, d), Len(ps) + 1, m[d.b - 1].v), Heir(KeptFrames(d), d.ctx, ps)
    PROVE  Memory(m, tr, Append(ps, d))
<1> DEFINE pz == Append(ps, d)
           L == Len(ps)
<1>1. /\ L \in Nat /\ Len(tr) \in Nat /\ IsSeq(ps) /\ IsSeq(pz) /\ Len(pz) = L + 1
      /\ \A k \in 1 .. L : pz[k] = ps[k]
      /\ pz[L + 1] = d
  BY MemoryStacks, AppendIs DEF Stacked
<1> HIDE DEF pz, L
<1>2. ASSUME NEW k \in 1 .. L + 1 PROVE Below(pz, k) = Below(ps, k)
  <2>1. ps \in Seq({ps[i] : i \in 1 .. Len(ps)} \cup {d})
    <3>1. ps \in Seq({ps[i] : i \in 1 .. Len(ps)})
      BY <1>1 DEF IsSeq
    <3>2. {ps[i] : i \in 1 .. Len(ps)} \subseteq {ps[i] : i \in 1 .. Len(ps)} \cup {d}
      OBVIOUS
    <3> HIDE <1>1
    <3> QED
      BY <3>1, <3>2
  <2> QED
    BY <2>1, <1>1 DEF Below, pz, L
<1>3. ASSUME NEW k \in 1 .. L PROVE Made(pz, k) /\ Waits(pz, k, m[pz[k].b - 1].v) /\ Kept(m, tr, pz, k)
  <2>1. Made(ps, k) /\ Waits(ps, k, m[ps[k].b - 1].v) /\ Kept(m, tr, ps, k)
    BY DEF Memory, L
  <2>2. pz[k] = ps[k] /\ Below(pz, k) = Below(ps, k) /\ \A j \in 1 .. k - 1 : pz[j] = ps[j]
    BY <1>1, <1>2
  <2> QED
    BY <2>1, <2>2 DEF Made, Waits, Kept
<1>4. Below(pz, L + 1) = ps
  BY <1>1, <1>2 DEF Below, IsSeq, L
<1>5. ASSUME NEW j \in 1 .. L
      PROVE  /\ ps[j].b < d.base /\ Mark(ps[j]) <= Mark(d) /\ Keeps(ps[j], d.stk)
             /\ Trailed(ps[j], d.stk, tr, Mark(d))
  <2>1. ps[j].b <= LastB(ps) /\ ps[j].b \in Nat
    BY MemoryStacks DEF L
  <2>2. LastB(ps) \in Nat
    <3>1. Len(ps) \in 1 .. Len(ps) /\ ps # <<>>
      BY <1>1, SeqIs DEF L
    <3> QED
      BY <3>1, MemoryStacks DEF LastB
  <2>3. Kept(m, tr, ps, j)
    BY DEF Memory, L
  <2> QED
    BY <2>1, <2>2, <2>3 DEF Kept
<1>6. Made(pz, L + 1)
  <2>1. \A j \in 1 .. L : /\ pz[j].b < d.base /\ Mark(pz[j]) <= Mark(d)
                          /\ Keeps(pz[j], d.stk) /\ Inherits(KeptFrames(d), d.ctx, pz[j])
    BY <1>1, <1>5 DEF Heir, L
  <2>2. Tidy(d.stk) /\ Mark(d) \in Nat /\ L + 1 - 1 = L
    BY <1>1 DEF Memory
  <2> QED
    BY <1>1, <1>4, <2>1, <2>2 DEF Made
<1>7. Kept(m, tr, pz, L + 1)
  <2>1. Keeps(d, m)
    BY DEF Keeps
  <2>2. Trailed(d, m, tr, Len(tr))
    BY DEF Trailed
  <2>3. Mark(d) + 1 .. Len(tr) = {} /\ Mark(d) <= Len(tr) /\ L + 1 - 1 = L
    BY <1>1
  <2> QED
    BY <1>1, <1>5, <2>1, <2>2, <2>3 DEF Kept
<1>8. Waits(pz, L + 1, m[pz[L + 1].b - 1].v)
  BY <1>1 DEF pz, L
<1>9. \A k \in 1 .. Len(pz) : k \in 1 .. L \/ k = L + 1
  BY <1>1
<1>10. Memory(m, tr, pz)
  BY <1>1, <1>3, <1>6, <1>7, <1>8, <1>9 DEF Memory
<1> QED
  BY <1>10 DEF pz

\* The newest choice point gets another next clause.
LEMMA MemoryRetries ==
    ASSUME WellShaped(prog), NEW m, NEW tr, NEW ps, Memory(m, tr, ps), ps # <<>>,
           NEW l, Waits(ps, Len(ps), l), NEW z, Rooted(z),
           z = [m EXCEPT ![LastB(ps) - 1] = W("cpncl", l)]
    PROVE  Memory(z, tr, ps) /\ LastB(ps) - 1 \in Addr
<1> DEFINE L == Len(ps)
           x == LastB(ps) - 1
<1>1. L \in 1 .. Len(ps) /\ LastB(ps) = ps[L].b /\ L \in Nat /\ IsSeq(ps)
  BY MemoryStacks, SeqIs DEF Stacked, LastB
<1>2. x \in Addr /\ x = ps[L].b - 1 /\ x \in Nat
  <2>1. ps[L].b \in Nat /\ ps[L].b \in Addr /\ ps[L].base + 10 <= ps[L].b /\ ps[L].base \in Nat
    BY <1>1, MemoryStacks
  <2> QED
    BY <2>1, <1>1, Limits DEF Addr, StackBeg
<1>3. z[x] = W("cpncl", l) /\ z[x].f = "cpncl" /\ z[x].v = l /\ \A a : a # x => z[a] = m[a]
  BY <1>2 DEF Memory, Tidy, W
<1> HIDE DEF x, L
<1>4. ASSUME NEW k \in 1 .. Len(ps)
      PROVE  /\ Keeps(ps[k], z) /\ k # L => z[ps[k].b - 1] = m[ps[k].b - 1]
             /\ \A a \in StackBeg .. ps[k].b : ps[k].stk[a].f = "free" => z[a] = m[a]
             /\ Keeps(ps[k], z)
  <2> DEFINE s == ps[k]
  <2>1. /\ Keeps(s, m) /\ s.b \in Nat /\ s.base \in Nat /\ s.base + 10 <= s.b
    BY MemoryStacks DEF Memory, Kept
  <2>2. CASE k = L
    <3>1. s.b - 1 = x
      BY <2>2, <1>2
    <3>2. s.stk[x].f # "free"
      <4>1. Made(ps, k) /\ 1 \in 0 .. CPFixSize - 1
        BY DEF Memory, CPFixSize
      <4> QED
        BY <3>1, <4>1 DEF Made
    <3>3. z[s.b - 1].f = "cpncl"
      BY <3>1, <1>3
    <3> HIDE DEF s
    <3>4. \A a \in StackBeg .. s.b : a # s.b - 1 => z[a] = m[a]
      BY <3>1, <1>3
    <3>5. Keeps(s, z)
      BY <2>1, <3>3, <3>4 DEF Keeps
    <3>6. \A a \in StackBeg .. s.b : s.stk[a].f = "free" => z[a] = m[a]
      BY <3>2, <1>3
    <3> QED
      BY <2>2, <3>5, <3>6 DEF s
  <2>3. CASE k # L
    <3>1. s.b < ps[L].base /\ ps[L].base + 10 <= ps[L].b /\ ps[L].base \in Nat /\ ps[L].b \in Nat
      <4>1. k < L
        BY <2>3, <1>1 DEF L
      <4> QED
        BY <1>1, <4>1, MemoryStacks DEF Stacked
    <3>2. s.b < x
      <4>1. s.b \in Nat /\ x = ps[L].b - 1
        BY <2>1, <1>2
      <4>2. PICK y, w : y = ps[L].b /\ w = ps[L].base
        OBVIOUS
      <4>3. s.b < w /\ w + 10 <= y /\ w \in Nat /\ y \in Nat /\ x = y - 1 /\ s.b \in Nat
        BY ONLY <3>1, <4>1, <4>2
      <4> QED
        BY ONLY <4>3
    <3> HIDE DEF s
    <3>3. \A a \in StackBeg .. s.b : a # x
      BY <2>1, <3>2, <1>2 DEF StackBeg
    <3>4. s.b - 1 \in StackBeg .. s.b
      BY <2>1 DEF StackBeg
    <3>5. z[s.b - 1] = m[s.b - 1] /\ \A a \in StackBeg .. s.b : z[a] = m[a]
      BY <3>3, <3>4, <1>3
    <3>6. Keeps(s, z)
      BY <2>1, <3>5 DEF Keeps
    <3> QED
      BY <3>5, <3>6 DEF s
  <2> QED
    BY <2>2, <2>3
<1>5. ASSUME NEW k \in 1 .. Len(ps) PROVE Kept(z, tr, ps, k)
  <2>1. Kept(m, tr, ps, k)
    BY DEF Memory
  <2>2. Trailed(ps[k], z, tr, Len(tr))
    BY <2>1, <1>4 DEF Kept, Trailed
  <2> QED
    BY <2>1, <2>2, <1>4 DEF Kept
<1>6. ASSUME NEW k \in 1 .. Len(ps) PROVE Waits(ps, k, z[ps[k].b - 1].v)
  <2>1. CASE k = L
    <3>1. z[ps[k].b - 1].v = l
      BY <2>1, <1>2, <1>3
    <3> QED
      BY <2>1, <3>1 DEF L
  <2>2. CASE k # L
    <3>1. z[ps[k].b - 1] = m[ps[k].b - 1] /\ Waits(ps, k, m[ps[k].b - 1].v)
      BY <2>2, <1>4 DEF Memory
    <3> QED
      BY <3>1
  <2> QED
    BY <2>1, <2>2
<1>7. Tidy(z)
  <2>1. Tidy(m) /\ DOMAIN z = Addr
    BY DEF Memory, Tidy
  <2>2. \A a \in Addr : z[a] = m[a] \/ z[a] = Junk \/ z[a].f \notin {"free", "bound", "junk"}
    BY <1>3
  <2> QED
    BY <2>1, <2>2, TidyWrites
<1> QED
  BY <1>2, <1>5, <1>6, <1>7 DEF Memory, x

\* Choice points go: what the others know is not touched.
LEMMA MemoryDrops ==
    ASSUME WellShaped(prog), NEW m, NEW tr, NEW ps, Memory(m, tr, ps), NEW n \in 0 .. Len(ps)
    PROVE  Memory(m, tr, SubSeq(ps, 1, n))
<1> DEFINE pz == SubSeq(ps, 1, n)
<1>1. Len(ps) \in Nat /\ IsSeq(ps) /\ IsSeq(pz) /\ Len(pz) = n /\ \A i \in 1 .. n : pz[i] = ps[i]
  BY MemoryStacks, PrefixIs DEF Stacked
<1>2. ASSUME NEW k \in 1 .. n PROVE Below(pz, k) = Below(ps, k)
  BY <1>1 DEF Below, IsSeq
<1> HIDE DEF pz
<1>3. ASSUME NEW k \in 1 .. n PROVE Made(pz, k) /\ Waits(pz, k, m[pz[k].b - 1].v) /\ Kept(m, tr, pz, k)
  <2>1. Made(ps, k) /\ Waits(ps, k, m[ps[k].b - 1].v) /\ Kept(m, tr, ps, k)
    BY <1>1 DEF Memory
  <2>2. pz[k] = ps[k] /\ Below(pz, k) = Below(ps, k) /\ \A j \in 1 .. k - 1 : pz[j] = ps[j]
    BY <1>1, <1>2
  <2> QED
    BY <2>1, <2>2 DEF Made, Waits, Kept
<1>4. Memory(m, tr, pz)
  BY <1>1, <1>3 DEF Memory
<1> QED
  BY <1>4 DEF pz

\* The choice points up to b are the first ones.
LEMMA PrefixTo ==
    ASSUME NEW m, NEW tr, NEW ps, Memory(m, tr, ps), NEW b \in Points(ps),
           NEW n, n = CHOOSE k \in 0 .. Len(ps) : /\ \A j \in 1 .. k : ps[j].b <= b
                                                  /\ k = Len(ps) \/ ps[k + 1].b > b
    PROVE  /\ n \in 0 .. Len(ps) /\ LastB(SubSeq(ps, 1, n)) = b
           /\ \A a \in Points(ps) : a <= b => a \in Points(SubSeq(ps, 1, n))
<1>1. /\ Len(ps) \in Nat /\ IsSeq(ps)
      /\ \A k \in 1 .. Len(ps) : ps[k].b \in Nat /\ FstCP < ps[k].b
      /\ \A k \in 1 .. Len(ps), j \in 1 .. Len(ps) : j < k => ps[j].b < ps[k].b
  <2>1. \A k \in 1 .. Len(ps) : /\ ps[k].b \in Nat /\ ps[k].base \in Nat
                                /\ ps[k].base <= ps[k].b /\ FstCP < ps[k].base
    BY MemoryStacks DEF Stacked
  <2>2. \A k \in 1 .. Len(ps) : FstCP < ps[k].b
    BY <2>1 DEF FstCP
  <2>3. ASSUME NEW k \in 1 .. Len(ps), NEW j \in 1 .. Len(ps), j < k PROVE ps[j].b < ps[k].b
    <3>1. ps[j].b < ps[k].base
      BY <2>3, MemoryStacks DEF Stacked
    <3> QED
      BY <3>1, <2>1
  <2> QED
    BY <2>1, <2>2, <2>3, MemoryStacks DEF Stacked
<1> DEFINE P(k) == /\ \A j \in 1 .. k : ps[j].b <= b
                   /\ k = Len(ps) \/ ps[k + 1].b > b
<1>2. \E k \in 0 .. Len(ps) : P(k) /\ (k = 0 => b = FstCP) /\ (k # 0 => b = ps[k].b)
  <2>1. CASE b = FstCP
    <3>1. 0 \in 0 .. Len(ps) /\ (0 = Len(ps) \/ ps[0 + 1].b > b)
      <4>1. CASE Len(ps) # 0
        <5>1. 1 \in 1 .. Len(ps)
          BY <4>1, <1>1
        <5> QED
          BY <5>1, <1>1, <2>1 DEF FstCP
      <4> QED
        BY <4>1, <1>1
    <3> QED
      BY <3>1, <2>1
  <2>2. CASE \E k \in 1 .. Len(ps) : b = ps[k].b
    <3>1. PICK k \in 1 .. Len(ps) : b = ps[k].b
      BY <2>2
    <3>2. ASSUME NEW j \in 1 .. k PROVE ps[j].b <= b
      <4>1. j \in 1 .. Len(ps) /\ (j = k \/ j < k)
        BY <1>1
      <4>2. b <= b
        BY <3>1, <1>1
      <4>3. CASE j = k
        BY <4>2, <4>3, <3>1
      <4>4. CASE j < k
        BY <4>1, <4>4, <3>1, <1>1
      <4> QED
        BY <4>1, <4>3, <4>4
    <3>3. k = Len(ps) \/ ps[k + 1].b > b
      <4>1. CASE k # Len(ps)
        <5>1. k + 1 \in 1 .. Len(ps) /\ k < k + 1
          BY <4>1, <1>1
        <5> QED
          BY <5>1, <3>1, <1>1
      <4> QED
        BY <4>1
    <3> QED
      BY <3>1, <3>2, <3>3
  <2> QED
    BY <2>1, <2>2 DEF Points
<1>3. n \in 0 .. Len(ps) /\ P(n)
  BY <1>2
<1>4. (n = 0 => b = FstCP) /\ (n # 0 => b = ps[n].b)
  <2>1. PICK k \in 0 .. Len(ps) : P(k) /\ (k = 0 => b = FstCP) /\ (k # 0 => b = ps[k].b)
    BY <1>2
  <2>2. ~(k < n)
    <3>1. ASSUME k < n PROVE FALSE
      <4>1. k + 1 \in 1 .. n /\ k # Len(ps) /\ k + 1 \in 1 .. Len(ps)
        BY <3>1, <1>1, <1>3
      <4>2. ps[k + 1].b <= b /\ ps[k + 1].b > b /\ ps[k + 1].b \in Nat
        BY <4>1, <1>3, <2>1, <1>1
      <4>3. b \in Nat
        BY <2>1, <1>1 DEF FstCP
      <4> QED
        BY <4>2, <4>3
    <3> QED
      BY <3>1
  <2>3. ~(n < k)
    <3>1. ASSUME n < k PROVE FALSE
      <4>1. n + 1 \in 1 .. k /\ n # Len(ps) /\ n + 1 \in 1 .. Len(ps)
        <5>1. n \in 0 .. Len(ps) /\ k \in 0 .. Len(ps) /\ n < k /\ Len(ps) \in Nat
          BY <3>1, <1>1, <1>3
        <5> QED
          BY ONLY <5>1
      <4>2. ps[n + 1].b <= b /\ ps[n + 1].b > b /\ ps[n + 1].b \in Nat
        BY <4>1, <1>3, <2>1, <1>1
      <4>3. b \in Nat
        BY <2>1, <1>1 DEF FstCP
      <4> QED
        BY <4>2, <4>3
    <3> QED
      BY <3>1
  <2>4. n = k
    BY <2>2, <2>3, <1>3
  <2> QED
    BY <2>1, <2>4
<1> DEFINE pz == SubSeq(ps, 1, n)
<1>5. IsSeq(pz) /\ Len(pz) = n /\ \A i \in 1 .. n : pz[i] = ps[i]
  BY <1>1, <1>3, PrefixIs
<1> HIDE DEF pz, P
<1>6. LastB(pz) = b
  <2>1. CASE n = 0
    <3>1. pz = <<>>
      BY <2>1, <1>5, SeqIs
    <3> QED
      BY <3>1, <2>1, <1>4 DEF LastB
  <2>2. CASE n # 0
    <3>1. pz # <<>> /\ n \in 1 .. n
      BY <2>2, <1>3, <1>5, SeqIs
    <3> QED
      BY <3>1, <2>2, <1>4, <1>5 DEF LastB
  <2> QED
    BY <2>1, <2>2
<1>7. ASSUME NEW a \in Points(ps), a <= b PROVE a \in Points(pz)
  <2>1. CASE a = FstCP
    BY <2>1 DEF Points
  <2>2. CASE \E k \in 1 .. Len(ps) : a = ps[k].b
    <3>1. PICK k \in 1 .. Len(ps) : a = ps[k].b
      BY <2>2
    <3>2. k <= n
      <4>1. ASSUME ~(k <= n) PROVE FALSE
        <5>1. n = 0 \/ (n \in 1 .. Len(ps) /\ n < k)
          BY <4>1, <1>1, <1>3
        <5>2. b < a
          <6>1. CASE n = 0
            BY <6>1, <1>1, <1>4, <3>1 DEF FstCP
          <6>2. CASE n \in 1 .. Len(ps) /\ n < k
            BY <6>2, <1>1, <1>4, <3>1
          <6> QED
            BY <5>1, <6>1, <6>2
        <5>3. a \in Nat /\ b \in Nat
          BY <1>1, <1>3, <1>4, <3>1 DEF FstCP
        <5> QED
          BY <5>2, <5>3, <1>7
      <4> QED
        BY <4>1
    <3>3. k \in 1 .. Len(pz) /\ pz[k] = ps[k]
      BY <1>3, <1>5, <3>2
    <3> QED
      BY <3>1, <3>3 DEF Points
  <2> QED
    BY <2>1, <2>2 DEF Points
<1> QED
  BY <1>3, <1>6, <1>7 DEF pz

-----------------------------------------------------------------------------
\* A set of numbers has a least one.
LEMMA Least ==
    ASSUME NEW S, S \subseteq Nat, S # {}
    PROVE  \E n \in S : \A k \in S : n <= k
<1> DEFINE D(n) == 0 .. n - 1
<1>1. PICK b \in S : TRUE
  OBVIOUS
<1> DEFINE U == {D(n) : n \in {k \in S : k <= b}}
           B == 0 .. b
<1>2. IsFiniteSet(B)
  BY <1>1, FS_Interval
<1>3. IsWellFoundedOn(StrictSubsetOrdering(B), FiniteSubsetsOf(B))
  BY <1>2, FS_StrictSubsetOrderingWellFounded
<1>4. U \subseteq FiniteSubsetsOf(B) /\ U # {}
  <2>1. \A x \in U : x \subseteq B
    BY <1>1
  <2>2. U # {}
    BY <1>1
  <2> QED
    BY <2>1, <2>2, <1>2, FS_Subset DEF FiniteSubsetsOf
<1>5. PICK x \in U : \A y \in U : ~(<<y, x>> \in StrictSubsetOrdering(B))
  <2> HIDE DEF U, B
  <2> QED
    BY <1>3, <1>4, WFMin
<1>6. PICK n \in S : n <= b /\ x = D(n)
  OBVIOUS
<1>7. ASSUME NEW k \in S, k < n PROVE FALSE
  <2>1. D(k) \in U /\ D(k) \subseteq D(n) /\ D(k) # D(n)
    BY <1>6, <1>7, <1>1
  <2>2. D(k) \subseteq B /\ D(n) \subseteq B
    BY <1>6, <1>7, <1>1
  <2> QED
    BY <1>5, <1>6, <2>1, <2>2 DEF StrictSubsetOrdering
<1> QED
  BY <1>6, <1>7

\* Unwinding the trail to the mark of a choice point brings back the words it
\* knows, but for the next clause.
LEMMA Unwinds ==
    ASSUME WellShaped(prog), Memory(stk, trail, snaps), NEW k \in 1 .. Len(snaps),
           NEW s, s = snaps[k], NEW U, U = UnwoundTo(Mark(s))
    PROVE  /\ \A a \in StackBeg .. s.b : a = s.b - 1 \/ Unknown(s, a) \/ U[a] = s.stk[a]
           /\ U[s.b - 1] = stk[s.b - 1]
<1> DEFINE T == Mark(s)
           At(a) == {i \in T + 1 .. Len(trail) : trail[i].addr \in {a - 1, a}}
           Oldest(S) == CHOOSE i \in S : \A j \in S : i <= j
<1>1. /\ Keeps(s, stk) /\ Trailed(s, stk, trail, Len(trail)) /\ T \in Nat /\ T <= Len(trail)
      /\ \A i \in T + 1 .. Len(trail) : Logged(s, trail[i])
      /\ s.b \in Nat /\ s.b \in Addr /\ Len(trail) \in Nat /\ DOMAIN stk = Addr
      /\ \A i \in 1 .. Len(trail) : trail[i].addr \in Addr
  BY MemoryStacks DEF Memory, Kept, Made, Tidy
<1>2. \A a \in DOMAIN stk :
         U[a] = IF At(a) = {} THEN stk[a]
                ELSE trail[Oldest(At(a))].old[a - trail[Oldest(At(a))].addr + 1]
  BY DEF UnwoundTo
<1>3. \A a \in StackBeg .. s.b : a \in DOMAIN stk /\ a \in Nat
  BY <1>1, Limits DEF Addr, StackBeg
<1>4. ASSUME NEW a, At(a) # {} PROVE Oldest(At(a)) \in At(a)
  <2>1. At(a) \subseteq Nat
    BY <1>1
  <2> HIDE DEF At
  <2>2. \E n \in At(a) : \A j \in At(a) : n <= j
    BY <2>1, <1>4, Least
  <2> QED
    BY <2>2
<1>5. ASSUME NEW a \in StackBeg .. s.b, a # s.b - 1, ~Unknown(s, a) PROVE U[a] = s.stk[a]
  <2>1. CASE At(a) = {}
    <3>1. U[a] = stk[a]
      BY <1>2, <1>3, <2>1
    <3>2. stk[a] = s.stk[a] \/ (s.stk[a].f = "free" /\ stk[a].f = "bound")
      BY <1>1, <1>5 DEF Keeps
    <3>3. ~(s.stk[a].f = "free" /\ stk[a].f = "bound")
      <4>1. ASSUME s.stk[a].f = "free", stk[a].f = "bound" PROVE FALSE
        <5>1. \E i \in T + 1 .. Len(trail) : trail[i].addr = a
          BY <4>1, <1>1 DEF Trailed
        <5> QED
          BY <5>1, <2>1
      <4> QED
        BY <4>1
    <3> QED
      BY <3>1, <3>2, <3>3
  <2>2. CASE At(a) # {}
    <3>1. PICK i : i = Oldest(At(a))
      OBVIOUS
    <3>2. i \in T + 1 .. Len(trail) /\ trail[i].addr \in {a - 1, a}
      BY <1>4, <2>2, <3>1
    <3>3. U[a] = trail[i].old[a - trail[i].addr + 1]
      BY <1>2, <1>3, <2>2, <3>1
    <3> HIDE DEF At, Oldest, T
    <3>4. Logged(s, trail[i]) /\ trail[i].addr \in Int /\ a \in Int /\ s.b \in Int
      BY <1>1, <1>3, <3>2 DEF Addr
    <3>5. \A w \in 0 .. 1 : trail[i].addr + w <= s.b =>
             Unknown(s, trail[i].addr + w) \/ trail[i].old[w + 1] = s.stk[trail[i].addr + w]
      BY <3>4 DEF Logged
    <3>6. CASE trail[i].addr = a
      <4>1. trail[i].addr + 0 = a /\ a - trail[i].addr + 1 = 0 + 1 /\ 0 \in 0 .. 1
            /\ trail[i].addr + 0 <= s.b
        BY <3>4, <3>6
      <4> QED
        BY <3>3, <3>5, <4>1, <1>5
    <3>7. CASE trail[i].addr = a - 1
      <4>1. trail[i].addr + 1 = a /\ a - trail[i].addr + 1 = 1 + 1 /\ 1 \in 0 .. 1
            /\ trail[i].addr + 1 <= s.b
        BY <3>4, <3>7
      <4> QED
        BY <3>3, <3>5, <4>1, <1>5
    <3> QED
      BY <3>2, <3>6, <3>7
  <2> QED
    BY <2>1, <2>2
<1>6. U[s.b - 1] = stk[s.b - 1]
  <2>1. s.b - 1 \in DOMAIN stk
    <3>1. s.base + 10 <= s.b /\ s.base \in Nat
      BY MemoryStacks
    <3>2. s.b - 1 \in StackBeg .. s.b
      BY <3>1, <1>1 DEF StackBeg
    <3> QED
      BY <3>2, <1>3
  <2>2. At(s.b - 1) = {}
    <3>1. ASSUME NEW i \in T + 1 .. Len(trail) PROVE trail[i].addr \notin {s.b - 1 - 1, s.b - 1}
      <4>1. trail[i].addr # s.b - 1 /\ trail[i].addr # s.b - 2
        BY <1>1 DEF Logged
      <4>2. s.b - 1 - 1 = s.b - 2
        BY <1>1
      <4> QED
        BY <4>1, <4>2
    <3> QED
      BY <3>1
  <2> HIDE DEF At, Oldest
  <2> QED
    BY <1>2, <2>1, <2>2
<1> QED
  BY <1>5, <1>6

\* The stack that backtracking to the newest choice point leaves, and the trail.
LEMMA Rewinds ==
    ASSUME WellShaped(prog), Memory(stk, trail, snaps), snaps # <<>>,
           NEW s, s = snaps[Len(snaps)], NEW U, U = UnwoundTo(Mark(s)),
           NEW z, DOMAIN z = Addr,
           \A a \in Addr : z[a] = IF a <= s.b /\ ~Unknown(s, a) THEN U[a] ELSE Junk
    PROVE  /\ \A a \in StackBeg .. s.b : /\ a # s.b - 1 /\ ~Unknown(s, a) => z[a] = s.stk[a]
                                         /\ Unknown(s, a) => z[a] = Junk
           /\ z[s.b - 1] = stk[s.b - 1]
           /\ \A a \in Addr : s.b < a => z[a] = Junk
<1>1. Len(snaps) \in 1 .. Len(snaps)
  BY MemoryStacks, SeqIs DEF Stacked
<1>2. s.b \in Nat /\ s.b \in Addr /\ s.base \in Nat /\ s.base + 10 <= s.b
  BY <1>1, MemoryStacks
<1>3. /\ \A a \in StackBeg .. s.b : a = s.b - 1 \/ Unknown(s, a) \/ U[a] = s.stk[a]
      /\ U[s.b - 1] = stk[s.b - 1]
  BY <1>1, Unwinds
<1>4. \A a \in StackBeg .. s.b : a \in Addr /\ a <= s.b
  BY <1>2, Limits DEF Addr, StackBeg
<1>5. s.b - 1 \in StackBeg .. s.b /\ ~Unknown(s, s.b - 1)
  BY <1>2 DEF StackBeg, Unknown
<1>6. \A a \in Addr : s.b < a => ~(a <= s.b)
  BY <1>2 DEF Addr, StackBeg
<1> QED
  BY <1>3, <1>4, <1>5, <1>6

\* The memory that backtracking leaves: words written since are unknown
\* again, and the trail ends where it did.
LEMMA MemoryRewinds ==
    ASSUME WellShaped(prog), NEW m, NEW tr, NEW ps, Memory(m, tr, ps), ps # <<>>,
           NEW s, s = ps[Len(ps)], NEW z, DOMAIN z = Addr,
           \A a \in StackBeg .. s.b : /\ a # s.b - 1 /\ ~Unknown(s, a) => z[a] = s.stk[a]
                                      /\ Unknown(s, a) => z[a] = Junk,
           z[s.b - 1] = m[s.b - 1],
           \A a \in Addr : s.b < a => z[a] = Junk, Rooted(z)
    PROVE  Memory(z, SubSeq(tr, 1, Mark(s)), ps)
<1> DEFINE L == Len(ps)
           t == SubSeq(tr, 1, Mark(s))
<1>1. /\ L \in 1 .. Len(ps) /\ L \in Nat /\ IsSeq(ps) /\ IsSeq(tr) /\ Len(tr) \in Nat
      /\ Stacked(ps)
  <2>1. Stacked(ps) /\ Len(ps) \in Nat /\ Len(tr) \in Nat
    BY MemoryStacks
  <2>2. IsSeq(ps) /\ IsSeq(tr)
    BY DEF Memory
  <2>3. Len(ps) # 0
    BY <2>2, SeqIs
  <2> QED
    BY <2>1, <2>2, <2>3
<1>2. /\ s.b \in Nat /\ s.b \in Addr /\ s.base \in Nat /\ s.base + 10 <= s.b
      /\ Made(ps, L) /\ Kept(m, tr, ps, L) /\ Tidy(s.stk)
  BY <1>1, MemoryStacks DEF Memory, Made
<1>3. /\ Mark(s) \in Nat /\ Mark(s) <= Len(tr)
      /\ Keeps(s, m) /\ \A i \in Mark(s) + 1 .. Len(tr) : Logged(s, tr[i])
      /\ \A j \in 1 .. L - 1 : Trailed(ps[j], s.stk, tr, Mark(s))
      /\ \A j \in 1 .. L - 1 : /\ ps[j].b < s.base /\ Mark(ps[j]) <= Mark(s)
                               /\ Keeps(ps[j], s.stk)
  BY <1>2 DEF Kept, Made
<1>4. IsSeq(t) /\ Len(t) = Mark(s) /\ \A i \in 1 .. Mark(s) : t[i] = tr[i]
  BY <1>1, <1>3, PrefixIs
<1>5. m[s.b - 1].f = "cpncl" /\ z[s.b - 1] = m[s.b - 1]
  BY <1>3 DEF Keeps
<1>6. \A d \in 0 .. CPFixSize - 1 : s.stk[s.b - d].f \notin {"junk", "free", "bound"}
  BY <1>2 DEF Made
<1>7. s.b - 1 \in StackBeg .. s.b /\ s.stk[s.b - 1].f \notin {"junk", "free", "bound"}
  <2>1. 1 \in 0 .. CPFixSize - 1
    BY DEF CPFixSize
  <2> QED
    BY <2>1, <1>2, <1>6 DEF StackBeg
<1>8. Junk.f = "junk"
  BY DEF Junk, W
<1> HIDE DEF t, L
\* Word by word: as the choice point knows it, or the next clause, or unknown.
<1>9. ASSUME NEW a \in Addr
      PROVE  \/ a \in StackBeg .. s.b /\ z[a] = s.stk[a]
             \/ a = s.b - 1 /\ z[a] = m[a]
             \/ z[a] = Junk
  <2>1. a \in Nat /\ (a \in StackBeg .. s.b \/ s.b < a)
    BY <1>2 DEF Addr, StackBeg
  <2> QED
    BY <2>1, <1>5
<1>10. Tidy(z)
  <2>1. ASSUME NEW a \in Addr, z[a].f = "free", a + 1 \in Addr
        PROVE  z[a + 1].f \notin {"free", "bound"}
    <3>1. s.stk[a].f = "free"
      BY <2>1, <1>5, <1>8, <1>9
    <3>2. s.stk[a + 1].f \notin {"free", "bound"}
      BY <2>1, <3>1, <1>2 DEF Tidy, Spaced
    <3> QED
      BY <2>1, <3>2, <1>5, <1>8, <1>9
  <2>2. ASSUME NEW a \in Addr, z[a].f = "junk" PROVE z[a] = Junk
    <3>1. z[a] = s.stk[a] => s.stk[a] = Junk
      BY <2>2, <1>2 DEF Tidy
    <3> QED
      BY <2>2, <3>1, <1>5, <1>9
  <2> QED
    BY <2>1, <2>2 DEF Tidy, Spaced
\* The newest choice point.
<1>11. Keeps(s, z)
  BY <1>5 DEF Keeps
<1>12. Kept(z, t, ps, L)
  <2>1. Trailed(s, z, t, Len(t))
    <3>1. ASSUME NEW a \in StackBeg .. s.b, s.stk[a].f = "free" PROVE z[a].f # "bound"
      <4>1. a # s.b - 1 /\ ~Unknown(s, a)
        BY <3>1, <1>7 DEF Unknown
      <4>2. z[a] = s.stk[a]
        BY <4>1
      <4> QED
        BY <3>1, <4>2
    <3> QED
      BY <3>1 DEF Trailed
  <2>2. Mark(s) + 1 .. Len(t) = {} /\ Mark(s) <= Len(t)
    BY <1>3, <1>4
  <2>3. ASSUME NEW j \in 1 .. L - 1 PROVE Trailed(ps[j], s.stk, t, Mark(s))
    <3>1. Mark(ps[j]) \in Nat
      <4>1. j \in 1 .. Len(ps)
        BY <1>1 DEF L
      <4> QED
        BY <4>1 DEF Memory, Made
    <3>2. \A i \in Mark(ps[j]) + 1 .. Mark(s) : t[i] = tr[i]
      BY <3>1, <1>3, <1>4
    <3> QED
      BY <3>2, <1>3 DEF Trailed
  <2> QED
    BY <2>1, <2>2, <2>3, <1>11 DEF Kept, L
\* The older ones.
<1>13. ASSUME NEW j \in 1 .. L - 1
       PROVE  Kept(z, t, ps, j) /\ z[ps[j].b - 1] = m[ps[j].b - 1]
  <2> DEFINE d == ps[j]
  <2>1. /\ j \in 1 .. Len(ps) /\ d.b < s.base /\ Mark(d) <= Mark(s) /\ Keeps(d, s.stk)
        /\ Trailed(d, s.stk, tr, Mark(s)) /\ Made(ps, j) /\ Kept(m, tr, ps, j)
    BY <1>1, <1>3 DEF Memory, L
  <2>2. /\ d.b \in Nat /\ d.base \in Nat /\ d.base + 10 <= d.b /\ Mark(d) \in Nat
        /\ \A i \in Mark(d) + 1 .. Len(tr) : Logged(d, tr[i])
        /\ \A i \in 1 .. j - 1 : Trailed(ps[i], d.stk, tr, Mark(d))
        /\ Tidy(d.stk)
    BY <2>1, MemoryStacks DEF Kept, Made
  <2>3. \A i \in Mark(d) + 1 .. Mark(s) : t[i] = tr[i] /\ i \in Mark(d) + 1 .. Len(tr)
    BY <2>2, <1>3, <1>4
  <2>a. \A i \in 1 .. j - 1 : Mark(ps[i]) \in Nat
    <3>1. \A i \in 1 .. j - 1 : i \in 1 .. Len(ps)
      BY <2>1, <1>1 DEF L
    <3> QED
      BY <3>1 DEF Memory, Made
  <2>b. \A i \in 1 .. j - 1 : \A h \in Mark(ps[i]) + 1 .. Mark(d) : t[h] = tr[h]
    <3>1. Mark(d) \in Nat /\ Mark(d) <= Mark(s) /\ Mark(s) \in Nat
      BY <2>1, <2>2, <1>3
    <3>2. \A i \in 1 .. Mark(s) : t[i] = tr[i]
      BY <1>4
    <3> QED
      BY ONLY <2>a, <3>1, <3>2
  <2> HIDE DEF d
  <2>4. ASSUME NEW a \in StackBeg .. d.b
        PROVE  /\ a \in StackBeg .. s.b /\ a # s.b - 1 /\ a \in Addr /\ a < s.base
               /\ s.stk[a].f = "junk" => z[a] = Junk
               /\ s.stk[a].f # "junk" => z[a] = s.stk[a]
    <3>1. a \in StackBeg .. s.b /\ a # s.b - 1 /\ a < s.base
      BY <2>1, <2>2, <1>2 DEF StackBeg
    <3>2. a \in Addr
      BY <3>1, <1>2, Limits DEF StackBeg, Addr
    <3> QED
      BY <3>1, <3>2 DEF Unknown
  <2>5. d.b - 1 \in StackBeg .. d.b /\ s.stk[d.b - 1].f = "cpncl"
    BY <2>1, <2>2 DEF Keeps, StackBeg
  <2>6. z[d.b - 1] = s.stk[d.b - 1] /\ z[d.b - 1].f = "cpncl"
    BY <2>4, <2>5
  <2>7. z[d.b - 1] = m[d.b - 1]
    <3>1. m[d.b - 1] = s.stk[d.b - 1]
      BY <2>4, <2>5, <1>3 DEF Keeps, Unknown
    <3> QED
      BY <3>1, <2>6
  <2>8. ASSUME NEW a \in StackBeg .. d.b, a # d.b - 1, ~Unknown(d, a)
        PROVE  z[a] = d.stk[a] \/ (d.stk[a].f = "free" /\ z[a].f = "bound")
    <3>1. s.stk[a] = d.stk[a] \/ (d.stk[a].f = "free" /\ s.stk[a].f = "bound")
      BY <2>1, <2>8 DEF Keeps
    <3>2. CASE s.stk[a].f = "junk"
      <4>1. s.stk[a] = d.stk[a] /\ s.stk[a] = Junk
        BY <3>1, <3>2, <2>4, <1>2 DEF Tidy
      <4> QED
        BY <4>1, <3>2, <2>4
    <3>3. CASE s.stk[a].f # "junk"
      BY <3>1, <3>3, <2>4
    <3> QED
      BY <3>2, <3>3
  <2>9. Keeps(d, z)
    BY <2>6, <2>8 DEF Keeps
  <2>10. Trailed(d, z, t, Len(t))
    <3>1. ASSUME NEW a \in StackBeg .. d.b, d.stk[a].f = "free", z[a].f = "bound"
          PROVE  \E i \in Mark(d) + 1 .. Len(t) : t[i].addr = a
      <4>1. s.stk[a].f = "bound"
        BY <3>1, <2>4, <1>8
      <4>2. \E i \in Mark(d) + 1 .. Mark(s) : tr[i].addr = a
        BY <3>1, <4>1, <2>1 DEF Trailed
      <4> QED
        BY <4>2, <2>3, <1>4
    <3> QED
      BY <3>1 DEF Trailed
  <2>11. \A i \in Mark(d) + 1 .. Len(t) : Logged(d, t[i])
    BY <2>2, <2>3, <1>4
  <2>12. ASSUME NEW i \in 1 .. j - 1 PROVE Trailed(ps[i], d.stk, t, Mark(d))
    <3> DEFINE q == ps[i]
    <3>1. /\ Trailed(q, d.stk, tr, Mark(d))
          /\ \A h \in Mark(q) + 1 .. Mark(d) : t[h] = tr[h]
      BY <2>2, <2>b
    <3> HIDE DEF q, t
    <3>2. Trailed(q, d.stk, t, Mark(d))
      BY <3>1 DEF Trailed
    <3> QED
      BY <3>2 DEF q
  <2>13. Mark(d) <= Len(t)
    BY <2>1, <1>4
  <2> QED
    BY <2>7, <2>9, <2>10, <2>11, <2>12, <2>13 DEF Kept, d
<1>14. \A k \in 1 .. Len(ps) : k = L \/ k \in 1 .. L - 1
  BY <1>1 DEF L
<1>15. ASSUME NEW k \in 1 .. Len(ps)
       PROVE  Made(ps, k) /\ Waits(ps, k, z[ps[k].b - 1].v) /\ Kept(z, t, ps, k)
  <2>1. Made(ps, k) /\ Waits(ps, k, m[ps[k].b - 1].v)
    BY DEF Memory
  <2>2. z[ps[k].b - 1] = m[ps[k].b - 1] /\ Kept(z, t, ps, k)
    <3>1. CASE k = L
      BY <3>1, <1>5, <1>12 DEF L
    <3>2. CASE k \in 1 .. L - 1
      BY <3>2, <1>13
    <3> QED
      BY <3>1, <3>2, <1>14
  <2> QED
    BY <2>1, <2>2
<1>16. \A k \in 1 .. Len(t) : t[k].addr \in Addr
  <2>1. \A k \in 1 .. Len(t) : k \in 1 .. Len(tr) /\ t[k] = tr[k]
    BY <1>1, <1>3, <1>4
  <2> QED
    BY <2>1 DEF Memory
<1>17. Memory(z, t, ps)
  BY <1>1, <1>4, <1>10, <1>15, <1>16 DEF Memory
<1> QED
  BY <1>17 DEF t
=============================================================================
