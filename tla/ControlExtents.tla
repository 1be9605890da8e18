--------------------------- MODULE ControlExtents ---------------------------
(***************************************************************************)
(* The records that the machine and its choice points may still read lie   *)
(* apart from one another, and below the place of the next one: a view     *)
(* lays its own records apart, and what a later view does not share with   *)
(* an earlier choice point lies above it.                                  *)
(***************************************************************************)
EXTENDS ControlSteps

-----------------------------------------------------------------------------
\* What is gathered from i on, along the addresses that go downwards.
Gathers(g, A, P, i) ==
    IF i = StackBeg THEN {} ELSE A[i] \cup (IF P[i] \in StackBeg .. i - 1 THEN g[P[i]] ELSE {})

\* There is such a function.
LEMMA Gathered ==
    ASSUME StackEnd \in Nat, NEW A, NEW P
    PROVE  \E g : g = [i \in StackBeg .. StackEnd |-> Gathers(g, A, P, i)]
<1> DEFINE Good(n) == \E g : \A i \in 0 .. n : g[i] = Gathers(g, A, P, i)
           Bad == {n \in Nat : ~Good(n)}
<1>1. Good(0)
  <2> DEFINE g == [i \in {0} |-> {}]
  <2>1. \A i \in 0 .. 0 : g[i] = Gathers(g, A, P, i)
    BY DEF Gathers, StackBeg
  <2> QED
    BY <2>1
<1>2. ASSUME NEW n \in Nat, Good(n) PROVE Good(n + 1)
  <2>1. PICK g : \A i \in 0 .. n : g[i] = Gathers(g, A, P, i)
    BY <1>2
  <2> DEFINE h == [i \in 0 .. n + 1 |-> IF i = n + 1 THEN Gathers(g, A, P, n + 1) ELSE g[i]]
  <2>2. ASSUME NEW i \in 0 .. n + 1 PROVE Gathers(h, A, P, i) = Gathers(g, A, P, i)
    <3>1. CASE P[i] \in StackBeg .. i - 1
      <4>1. P[i] \in 0 .. n + 1 /\ P[i] # n + 1
        BY <3>1 DEF StackBeg
      <4> QED
        BY <4>1 DEF Gathers
    <3>2. CASE P[i] \notin StackBeg .. i - 1
      BY <3>2 DEF Gathers
    <3> QED
      BY <3>1, <3>2
  <2>3. ASSUME NEW i \in 0 .. n + 1 PROVE h[i] = Gathers(g, A, P, i)
    <3>1. i = n + 1 \/ i \in 0 .. n
      OBVIOUS
    <3> QED
      BY <3>1, <2>1
  <2> QED
    BY <2>2, <2>3
<1>3. \A n \in Nat : Good(n)
  <2>1. CASE Bad # {}
    <3>1. PICK n \in Bad : \A k \in Bad : n <= k
      BY <2>1, Least
    <3>2. n \in Nat \ {0} /\ ~Good(n)
      BY <3>1, <1>1
    <3>3. n - 1 \in Nat /\ n - 1 \notin Bad
      BY <3>1, <3>2
    <3>4. Good(n - 1)
      BY <3>3
    <3>5. Good((n - 1) + 1)
      BY <3>3, <3>4, <1>2
    <3>6. (n - 1) + 1 = n
      BY <3>2
    <3> QED
      BY <3>2, <3>5, <3>6
  <2>2. CASE Bad = {}
    BY <2>2
  <2> QED
    BY <2>1, <2>2
<1>4. PICK g : \A i \in 0 .. StackEnd : g[i] = Gathers(g, A, P, i)
  BY <1>3
<1> DEFINE h == [i \in 0 .. StackEnd |-> g[i]]
<1>5. ASSUME NEW i \in 0 .. StackEnd PROVE h[i] = Gathers(h, A, P, i)
  <2>1. CASE P[i] \in StackBeg .. i - 1
    <3>1. P[i] \in 0 .. StackEnd
      BY <2>1 DEF StackBeg
    <3> QED
      BY <3>1, <1>4 DEF Gathers
  <2>2. CASE P[i] \notin StackBeg .. i - 1
    BY <2>2, <1>4 DEF Gathers
  <2> QED
    BY <2>1, <2>2
<1>6. h = [i \in StackBeg .. StackEnd |-> Gathers(h, A, P, i)]
  BY <1>5 DEF StackBeg
<1> QED
  BY <1>6

Gatherer(g, A, P) == \A i \in StackBeg .. StackEnd : g[i] = Gathers(g, A, P, i)

\* Addresses that lead each to the one before it, the first to the bottom.
Descends(P, xs, L) ==
    \A k \in 1 .. L : /\ xs[k] \in StackBeg .. StackEnd
                      /\ \/ xs[k] = StackBeg \/ P[xs[k]] = StackBeg
                         \/ k > 1 /\ P[xs[k]] = xs[k - 1]

\* Along such addresses nothing is gathered but at them.
LEMMA GathersAlong ==
    ASSUME StackEnd \in Nat, NEW A, NEW P, NEW g, Gatherer(g, A, P), NEW L \in Nat, NEW xs,
           Descends(P, xs, L)
    PROVE  \A k \in 1 .. L : \A z \in g[xs[k]] :
              \E j \in 1 .. k : xs[j] # StackBeg /\ z \in A[xs[j]]
<1> DEFINE Along(k) == \A z \in g[xs[k]] : \E j \in 1 .. k : xs[j] # StackBeg /\ z \in A[xs[j]]
           Bad == {k \in 1 .. L : ~Along(k)}
<1>0. /\ \A i \in StackBeg .. StackEnd : g[i] = Gathers(g, A, P, i)
      /\ \A k \in 1 .. L : /\ xs[k] \in StackBeg .. StackEnd
                           /\ \/ xs[k] = StackBeg \/ P[xs[k]] = StackBeg
                              \/ k > 1 /\ P[xs[k]] = xs[k - 1]
  BY DEF Gatherer, Descends
<1>1. g[StackBeg] = {}
  <2>1. StackBeg \in StackBeg .. StackEnd
    BY DEF StackBeg
  <2> QED
    BY <1>0, <2>1 DEF Gathers
<1>2. ASSUME NEW k \in 1 .. L, k > 1 => Along(k - 1) PROVE Along(k)
  <2> SUFFICES ASSUME NEW z \in g[xs[k]]
               PROVE  \E j \in 1 .. k : xs[j] # StackBeg /\ z \in A[xs[j]]
    OBVIOUS
  <2>1. xs[k] # StackBeg /\ k \in 1 .. k
    BY <1>0, <1>1
  <2>2. z \in A[xs[k]] \/ (P[xs[k]] \in StackBeg .. xs[k] - 1 /\ z \in g[P[xs[k]]])
    BY <1>0, <2>1 DEF Gathers
  <2>3. CASE z \in A[xs[k]]
    BY <2>1, <2>3
  <2>4. CASE z \in g[P[xs[k]]]
    <3>1. k > 1 /\ z \in g[xs[k - 1]]
      BY <1>0, <1>1, <2>1, <2>4
    <3>2. PICK j \in 1 .. k - 1 : xs[j] # StackBeg /\ z \in A[xs[j]]
      BY <1>2, <3>1
    <3>3. j \in 1 .. k
      OBVIOUS
    <3> QED
      BY <3>2, <3>3
  <2> QED
    BY <2>2, <2>3, <2>4
<1>3. CASE Bad # {}
  <2>0. Bad \subseteq Nat
    OBVIOUS
  <2>1. PICK k \in Bad : \A j \in Bad : k <= j
    <3> HIDE DEF Bad
    <3> QED
      BY ONLY <2>0, <1>3, Least
  <2>2. k > 1 => k - 1 \in 1 .. L /\ k - 1 \notin Bad
    BY <2>1
  <2>3. k > 1 => Along(k - 1)
    BY <2>2
  <2> HIDE DEF Along
  <2> QED
    BY <2>1, <2>3, <1>2
<1>4. CASE Bad = {}
  BY <1>4
<1> QED
  BY <1>3, <1>4

\* Addresses that lead each to the one before it, which is a lower one.
Ascends(P, xs, L) ==
    \A k \in 1 .. L : /\ xs[k] \in StackBeg .. StackEnd
                      /\ k > 1 => P[xs[k]] = xs[k - 1] /\ xs[k - 1] < xs[k]

\* Along such addresses all is gathered.
LEMMA GathersAll ==
    ASSUME StackEnd \in Nat, NEW A, NEW P, NEW g, Gatherer(g, A, P), NEW L \in Nat, NEW xs,
           Ascends(P, xs, L), NEW i \in 2 .. L
    PROVE  \A k \in i .. L : A[xs[i]] \subseteq g[xs[k]]
<1> DEFINE All(k) == A[xs[i]] \subseteq g[xs[k]]
           Bad == {k \in i .. L : ~All(k)}
<1>1. ASSUME NEW k \in 2 .. L PROVE A[xs[k]] \subseteq g[xs[k]] /\ g[xs[k - 1]] \subseteq g[xs[k]]
  <2>1. k \in 1 .. L /\ k - 1 \in 1 .. L /\ k > 1
    OBVIOUS
  <2>2. /\ xs[k] \in StackBeg .. StackEnd /\ xs[k - 1] \in StackBeg .. StackEnd
        /\ P[xs[k]] = xs[k - 1] /\ xs[k - 1] < xs[k]
    BY <2>1 DEF Ascends
  <2>3. xs[k] # StackBeg /\ P[xs[k]] \in StackBeg .. xs[k] - 1
    BY <2>2 DEF StackBeg
  <2>4. g[xs[k]] = Gathers(g, A, P, xs[k])
    BY <2>2 DEF Gatherer
  <2> QED
    BY <2>2, <2>3, <2>4 DEF Gathers
<1>2. CASE Bad # {}
  <2>0. Bad \subseteq Nat
    OBVIOUS
  <2>1. PICK k \in Bad : \A j \in Bad : k <= j
    <3> HIDE DEF Bad
    <3> QED
      BY ONLY <2>0, <1>2, Least
  <2>2. k \in 2 .. L /\ ~All(k) /\ k \in Nat
    BY <2>1
  <2>3. CASE k = i
    BY <1>1, <2>2, <2>3
  <2>4. CASE k # i
    <3>1. k - 1 \in i .. L /\ k - 1 \notin Bad
      BY <2>1, <2>2, <2>4
    <3>2. All(k - 1)
      BY <3>1
    <3> QED
      BY <1>1, <2>2, <3>2
  <2> QED
    BY <2>3, <2>4
<1> QED
  BY <1>2

-----------------------------------------------------------------------------
\* The calls cs, from the last one's environment on or from e above it.
Chained(cs) ==
    /\ Len(cs) \in Nat \ {0} /\ cs[1].e = StackBeg
    /\ \A j \in 1 .. Len(cs) : cs[j].e \in Addr
    /\ Linked(cs)

\* The chain of environments is gathered along their CE and CP fields.
Callers == [k \in StackBeg .. StackEnd |-> {[e |-> v(k - 1), n |-> LiveAt(v(k - 1), v(k + 1))]}]
CEs == [k \in StackBeg .. StackEnd |-> v(k - 1)]

\* So the model's function does gather them.
LEMMA ChainGathers ==
    ASSUME StackEnd \in Nat, NEW e, NEW n, NEW cp
    PROVE  \E f : /\ EnvChain(e, n, cp) = {x \in {[e |-> e, n |-> n]} \cup f[e] : x.e # StackBeg}
                  /\ Gatherer(f, Callers, CEs)
<1> DEFINE f == CHOOSE f : f = [k \in StackBeg .. StackEnd |->
                    IF k = StackBeg THEN {}
                    ELSE {[e |-> v(k - 1), n |-> LiveAt(v(k - 1), v(k + 1))]}
                         \cup (IF v(k - 1) \in StackBeg .. k - 1 THEN f[v(k - 1)] ELSE {})]
<1>1. f = [k \in StackBeg .. StackEnd |->
              IF k = StackBeg THEN {}
              ELSE {[e |-> v(k - 1), n |-> LiveAt(v(k - 1), v(k + 1))]}
                   \cup (IF v(k - 1) \in StackBeg .. k - 1 THEN f[v(k - 1)] ELSE {})]
  <2>1. PICK g : g = [i \in StackBeg .. StackEnd |-> Gathers(g, Callers, CEs, i)]
    BY ONLY StackEnd \in Nat, Gathered
  <2>2. \A i \in StackBeg .. StackEnd :
           Gathers(g, Callers, CEs, i) = IF i = StackBeg THEN {}
              ELSE {[e |-> v(i - 1), n |-> LiveAt(v(i - 1), v(i + 1))]}
                   \cup (IF v(i - 1) \in StackBeg .. i - 1 THEN g[v(i - 1)] ELSE {})
    BY DEF Gathers, Callers, CEs
  <2>3. g = [k \in StackBeg .. StackEnd |->
              IF k = StackBeg THEN {}
              ELSE {[e |-> v(k - 1), n |-> LiveAt(v(k - 1), v(k + 1))]}
                   \cup (IF v(k - 1) \in StackBeg .. k - 1 THEN g[v(k - 1)] ELSE {})]
    BY <2>1, <2>2
  <2> QED
    BY <2>3
<1>2. EnvChain(e, n, cp) = {x \in {[e |-> e, n |-> n]} \cup f[e] : x.e # StackBeg}
  BY DEF EnvChain
<1> HIDE DEF f
<1>3. Gatherer(f, Callers, CEs)
  BY <1>1 DEF Gatherer, Gathers, Callers, CEs
<1> QED
  BY <1>2, <1>3

\* The chain of environments is that of the calls: there are no others in it,
LEMMA ChainIn ==
    ASSUME StackEnd \in Nat, NEW cs, Chained(cs), NEW e \in Addr, NEW n, NEW cp,
           \/ e = cs[Len(cs)].e
           \/ /\ stk[e + 1] = W("cp", cs[Len(cs)].ret)
              /\ stk[e - 1] = W("ce", cs[Len(cs)].e)
    PROVE  EnvChain(e, n, cp) \subseteq Frames(e, n, cs)
<1> DEFINE A == Callers
           P == CEs
<1>1. PICK f : /\ EnvChain(e, n, cp) = {x \in {[e |-> e, n |-> n]} \cup f[e] : x.e # StackBeg}
               /\ Gatherer(f, A, P)
  BY ChainGathers
<1>2. EnvChain(e, n, cp) = {x \in {[e |-> e, n |-> n]} \cup f[e] : x.e # StackBeg}
  BY <1>1
<1>3. Gatherer(f, A, P)
  BY <1>1
<1>4. /\ \A i \in StackBeg .. StackEnd : /\ A[i] = {[e |-> v(i - 1), n |-> LiveAt(v(i - 1), v(i + 1))]}
                                         /\ P[i] = v(i - 1)
  BY DEF Callers, CEs
<1> DEFINE L == Len(cs)
           xs == [k \in 1 .. L + 1 |-> IF k = L + 1 THEN e ELSE cs[k].e]
           M == IF e = cs[L].e THEN L ELSE L + 1
<1>5. /\ L \in Nat \ {0} /\ M \in Nat /\ \A k \in 1 .. L : xs[k] = cs[k].e
      /\ xs[L + 1] = e /\ M \in 1 .. L + 1 /\ xs[M] = e
  BY DEF Chained
<1> HIDE DEF A, P, xs
<1>6. ASSUME NEW k \in 1 .. M, k > 1
      PROVE  /\ stk[xs[k] - 1] = W("ce", cs[k - 1].e) /\ stk[xs[k] + 1] = W("cp", cs[k - 1].ret)
             /\ k - 1 \in 1 .. L /\ xs[k - 1] = cs[k - 1].e
  <2>1. CASE k \in 2 .. L
    BY <1>5, <2>1 DEF Chained, Linked
  <2>2. CASE k = L + 1
    BY <1>5, <2>2
  <2>3. k \in 2 .. L \/ k = L + 1
    BY <1>5, <1>6
  <2> QED
    BY <2>1, <2>2, <2>3, <1>5, <1>6
<1>7. \A k \in 1 .. M : xs[k] \in StackBeg .. StackEnd
  <2>1. \A k \in 1 .. M : k \in 1 .. L \/ k = L + 1
    BY <1>5
  <2> QED
    BY <1>5, <2>1 DEF Chained, Addr
<1>8. \A k \in 1 .. M : xs[k] = StackBeg \/ P[xs[k]] = StackBeg \/ (k > 1 /\ P[xs[k]] = xs[k - 1])
  <2> SUFFICES ASSUME NEW k \in 1 .. M PROVE xs[k] = StackBeg \/ (k > 1 /\ P[xs[k]] = xs[k - 1])
    OBVIOUS
  <2>1. CASE k = 1
    <3>1. 1 \in 1 .. L
      BY <1>5
    <3> QED
      BY <1>5, <2>1, <3>1 DEF Chained
  <2>2. CASE k > 1
    <3>1. P[xs[k]] = v(xs[k] - 1)
      BY <1>4, <1>7
    <3>2. stk[xs[k] - 1] = W("ce", cs[k - 1].e) /\ xs[k - 1] = cs[k - 1].e
      BY <1>6, <2>2
    <3> QED
      BY ONLY <2>2, <3>1, <3>2 DEF v, W
  <2> QED
    BY <2>1, <2>2, <1>5
<1>9. \A z \in f[e] : \E j \in 1 .. M : xs[j] # StackBeg /\ z \in A[xs[j]]
  <2>1. \A k \in 1 .. M : \A z \in f[xs[k]] : \E j \in 1 .. k : xs[j] # StackBeg /\ z \in A[xs[j]]
    <3>1. M \in Nat
      BY <1>5
    <3>2. Descends(P, xs, M)
      BY <1>7, <1>8 DEF Descends
    <3> HIDE DEF M
    <3> QED
      BY ONLY StackEnd \in Nat, <1>3, <3>1, <3>2, GathersAlong
  <2>2. M \in 1 .. M
    BY <1>5
  <2> QED
    BY <1>5, <2>1, <2>2
<1>10. ASSUME NEW z \in f[e], z.e # StackBeg PROVE z \in Frames(e, n, cs)
  <2>1. PICK j \in 1 .. M : xs[j] # StackBeg /\ z \in A[xs[j]]
    BY <1>9
  <2>2. z = [e |-> v(xs[j] - 1), n |-> LiveAt(v(xs[j] - 1), v(xs[j] + 1))]
    BY <1>4, <1>7, <2>1
  <2>3. j > 1
    <3>1. 1 \in 1 .. L /\ xs[1] = StackBeg
      BY <1>5 DEF Chained
    <3> QED
      BY <2>1, <3>1, <1>5
  <2>4. z = [e |-> cs[j - 1].e, n |-> LiveAt(cs[j - 1].e, cs[j - 1].ret)] /\ j - 1 \in 1 .. L
    <3>1. /\ stk[xs[j] - 1] = W("ce", cs[j - 1].e) /\ stk[xs[j] + 1] = W("cp", cs[j - 1].ret)
          /\ j - 1 \in 1 .. L
      BY <1>6, <2>3
    <3> QED
      BY ONLY <2>2, <3>1 DEF v, W
  <2>5. z = [e |-> cs[j - 1].e, n |-> CallI1(cs[j - 1].ret)] /\ j - 1 # 1
    BY <1>10, <2>4 DEF LiveAt, Chained
  <2>6. j - 1 \in 2 .. Len(cs)
    BY <2>4, <2>5, <1>5
  <2> QED
    BY <2>5, <2>6 DEF Frames
<1> QED
  BY <1>2, <1>10 DEF Frames

\* and all of them are.
LEMMA ChainHas ==
    ASSUME StackEnd \in Nat, NEW cs, Chained(cs), NEW e \in Addr, NEW n, NEW cp,
           \A j \in 2 .. Len(cs) : cs[j - 1].e < cs[j].e,
           \/ e = cs[Len(cs)].e /\ n = LiveAt(e, cs[Len(cs)].ret)
           \/ /\ stk[e + 1] = W("cp", cs[Len(cs)].ret)
              /\ stk[e - 1] = W("ce", cs[Len(cs)].e)
              /\ cs[Len(cs)].e < e,
           NEW j \in 2 .. Len(cs), cs[j].e # StackBeg
    PROVE  [e |-> cs[j].e, n |-> LiveAt(cs[j].e, cs[j].ret)] \in EnvChain(e, n, cp)
<1> DEFINE L == Len(cs)
           xs == [k \in 1 .. L + 1 |-> IF k = L + 1 THEN e ELSE cs[k].e]
           M == IF e = cs[L].e THEN L ELSE L + 1
           x == [e |-> cs[j].e, n |-> LiveAt(cs[j].e, cs[j].ret)]
<1>1. PICK f : /\ EnvChain(e, n, cp) = {y \in {[e |-> e, n |-> n]} \cup f[e] : y.e # StackBeg}
               /\ Gatherer(f, Callers, CEs)
  BY ChainGathers
<1>2. /\ L \in Nat \ {0} /\ M \in Nat /\ \A k \in 1 .. L : xs[k] = cs[k].e
      /\ xs[L + 1] = e /\ M \in 1 .. L + 1 /\ xs[M] = e
  BY DEF Chained
<1>3. x.e # StackBeg
  OBVIOUS
<1>4. CASE e = cs[L].e /\ j = L
  <2>1. cs[j].e = e /\ (n = LiveAt(e, cs[L].ret) \/ cs[L].e < e)
    BY <1>4
  <2>2. e \in Int
    BY DEF Addr, StackBeg
  <2>3. n = LiveAt(e, cs[L].ret)
    BY <1>4, <2>1, <2>2
  <2> QED
    BY <1>1, <1>3, <1>4, <2>3
<1>5. CASE ~(e = cs[L].e /\ j = L)
  <2>1. j + 1 \in 2 .. M
    BY <1>2, <1>5
  <2> HIDE DEF xs, M, L
  <2>2. ASSUME NEW k \in 2 .. M
        PROVE  /\ xs[k] \in Addr /\ xs[k - 1] = cs[k - 1].e /\ xs[k - 1] < xs[k]
               /\ stk[xs[k] - 1] = W("ce", cs[k - 1].e) /\ stk[xs[k] + 1] = W("cp", cs[k - 1].ret)
    <3>1. k - 1 \in 1 .. L /\ (k \in 2 .. L \/ k = L + 1)
      BY <1>2
    <3>2. CASE k \in 2 .. L
      BY <1>2, <3>1, <3>2 DEF Chained, Linked, L
    <3>3. CASE k = L + 1
      <4>1. M = L + 1 /\ k - 1 = L
        BY <1>2, <3>3
      <4>2. e # cs[L].e
        BY <1>2, <4>1 DEF M
      <4> QED
        BY <1>2, <3>1, <3>3, <4>1, <4>2 DEF L
    <3> QED
      BY <3>1, <3>2, <3>3
  <2>3. Ascends(CEs, xs, M)
    <3> SUFFICES ASSUME NEW k \in 1 .. M
                 PROVE  /\ xs[k] \in StackBeg .. StackEnd
                        /\ k > 1 => CEs[xs[k]] = xs[k - 1] /\ xs[k - 1] < xs[k]
      BY DEF Ascends
    <3>1. CASE k = 1
      <4>1. 1 \in 1 .. L
        BY <1>2
      <4> QED
        BY <1>2, <3>1, <4>1 DEF Chained, Addr, L
    <3>2. CASE k # 1
      <4>1. k \in 2 .. M /\ k > 1
        BY <1>2, <3>2
      <4>2. /\ xs[k] \in StackBeg .. StackEnd /\ xs[k - 1] = cs[k - 1].e /\ xs[k - 1] < xs[k]
            /\ stk[xs[k] - 1] = W("ce", cs[k - 1].e)
        BY <2>2, <4>1 DEF Addr
      <4>3. CEs[xs[k]] = v(xs[k] - 1)
        BY <4>2 DEF CEs
      <4> QED
        BY <4>2, <4>3 DEF v, W
    <3> QED
      BY <3>1, <3>2
  <2>4. Callers[xs[j + 1]] \subseteq f[xs[M]]
    <3>1. \A k \in j + 1 .. M : Callers[xs[j + 1]] \subseteq f[xs[k]]
      <4>1. M \in Nat /\ Gatherer(f, Callers, CEs)
        BY <1>1, <1>2
      <4>2. PICK i \in 2 .. M : i = j + 1
        BY <2>1
      <4>3. \A k \in i .. M : Callers[xs[i]] \subseteq f[xs[k]]
        BY ONLY StackEnd \in Nat, <2>3, <4>1, i \in 2 .. M, GathersAll
      <4> QED
        BY <4>2, <4>3
    <3>2. M \in j + 1 .. M
      BY <1>2, <2>1
    <3> QED
      BY <3>1, <3>2
  <2>5. Callers[xs[j + 1]] = {x}
    <3>1. /\ xs[j + 1] \in Addr /\ stk[xs[j + 1] - 1] = W("ce", cs[j].e)
          /\ stk[xs[j + 1] + 1] = W("cp", cs[j].ret)
      <4>1. (j + 1) - 1 = j
        OBVIOUS
      <4> QED
        BY <2>1, <2>2, <4>1
    <3>2. v(xs[j + 1] - 1) = cs[j].e /\ v(xs[j + 1] + 1) = cs[j].ret
      BY <3>1 DEF v, W
    <3> QED
      BY <3>1, <3>2 DEF Callers, Addr
  <2> QED
    BY <1>1, <1>2, <1>3, <2>4, <2>5
<1> QED
  BY <1>4, <1>5

-----------------------------------------------------------------------------
RecExtent(m, x) == [at |-> x, lo |-> RecStart(m, x), hi |-> x + 5]

\* The records of a context are its own.
LEMMA RecordsIn ==
    ASSUME StackEnd \in Nat, NEW cx \in Seq(Nat), Len(cx) > 0,
           \A k \in 1 .. Len(cx) : /\ cx[k] \in Addr
                                   /\ stk[cx[k] + 4] = W("pip", IF k = 1 THEN StackBeg ELSE cx[k - 1])
    PROVE  ImpExtents(cx[Len(cx)]) \subseteq {RecExtent(stk, cx[k]) : k \in 1 .. Len(cx)}
<1> DEFINE A == [i \in StackBeg .. StackEnd |->
                    {[at |-> i, lo |-> i - VectorSize(v(i + 2)), hi |-> i + 5]}]
           P == [i \in StackBeg .. StackEnd |-> v(i + 4)]
           f == CHOOSE f : f = [i \in StackBeg .. StackEnd |->
                    IF i = StackBeg THEN {}
                    ELSE {[at |-> i, lo |-> i - VectorSize(v(i + 2)), hi |-> i + 5]}
                         \cup (IF v(i + 4) \in StackBeg .. i - 1 THEN f[v(i + 4)] ELSE {})]
           L == Len(cx)
<1>1. f = [i \in StackBeg .. StackEnd |->
              IF i = StackBeg THEN {}
              ELSE {[at |-> i, lo |-> i - VectorSize(v(i + 2)), hi |-> i + 5]}
                   \cup (IF v(i + 4) \in StackBeg .. i - 1 THEN f[v(i + 4)] ELSE {})]
  <2>1. PICK g : g = [i \in StackBeg .. StackEnd |-> Gathers(g, A, P, i)]
    <3> HIDE DEF A, P
    <3> QED
      BY ONLY StackEnd \in Nat, Gathered
  <2>2. \A i \in StackBeg .. StackEnd :
           Gathers(g, A, P, i) = IF i = StackBeg THEN {}
              ELSE {[at |-> i, lo |-> i - VectorSize(v(i + 2)), hi |-> i + 5]}
                   \cup (IF v(i + 4) \in StackBeg .. i - 1 THEN g[v(i + 4)] ELSE {})
    BY DEF Gathers
  <2>3. g = [i \in StackBeg .. StackEnd |->
              IF i = StackBeg THEN {}
              ELSE {[at |-> i, lo |-> i - VectorSize(v(i + 2)), hi |-> i + 5]}
                   \cup (IF v(i + 4) \in StackBeg .. i - 1 THEN g[v(i + 4)] ELSE {})]
    BY <2>1, <2>2
  <2> QED
    BY <2>3
<1>2. ImpExtents(cx[L]) = f[cx[L]]
  BY DEF ImpExtents, Addr
<1> HIDE DEF f
<1>3. Gatherer(f, A, P)
  BY <1>1 DEF Gatherer, Gathers
<1>4. /\ \A i \in StackBeg .. StackEnd :
            /\ A[i] = {[at |-> i, lo |-> i - VectorSize(v(i + 2)), hi |-> i + 5]}
            /\ P[i] = v(i + 4)
  OBVIOUS
<1> HIDE DEF A, P
<1>5. L \in Nat /\ L \in 1 .. L
  OBVIOUS
<1>6. Descends(P, cx, L)
  <2> SUFFICES ASSUME NEW k \in 1 .. L
               PROVE  /\ cx[k] \in StackBeg .. StackEnd
                      /\ P[cx[k]] = StackBeg \/ (k > 1 /\ P[cx[k]] = cx[k - 1])
    BY DEF Descends
  <2>1. cx[k] \in StackBeg .. StackEnd
    BY DEF Addr
  <2>2. P[cx[k]] = IF k = 1 THEN StackBeg ELSE cx[k - 1]
    <3>1. P[cx[k]] = v(cx[k] + 4)
      BY <1>4, <2>1
    <3>2. PICK y : y = IF k = 1 THEN StackBeg ELSE cx[k - 1]
      OBVIOUS
    <3>3. stk[cx[k] + 4] = W("pip", y)
      BY <3>2
    <3> QED
      BY ONLY <3>1, <3>2, <3>3 DEF v, W
  <2> QED
    BY <2>1, <2>2
<1>7. \A k \in 1 .. L : \A z \in f[cx[k]] : \E j \in 1 .. k : cx[j] # StackBeg /\ z \in A[cx[j]]
  <2> HIDE DEF L
  <2> QED
    BY ONLY StackEnd \in Nat, <1>3, <1>5, <1>6, GathersAlong
<1>8. ASSUME NEW z \in f[cx[L]] PROVE z \in {RecExtent(stk, cx[k]) : k \in 1 .. L}
  <2>1. PICK j \in 1 .. L : z \in A[cx[j]]
    BY <1>5, <1>7
  <2>2. z = [at |-> cx[j], lo |-> cx[j] - VectorSize(v(cx[j] + 2)), hi |-> cx[j] + 5]
    BY <1>4, <2>1 DEF Addr
  <2>3. z = RecExtent(stk, cx[j])
    BY <2>2 DEF RecExtent, RecStart, v
  <2> QED
    BY <2>3
<1> QED
  BY <1>2, <1>8

-----------------------------------------------------------------------------
EnvExtent(f) == [at |-> f.e, lo |-> f.e - 2, hi |-> f.e + 1 + 2 * f.n]
CPExtent(d) == [at |-> d.b, lo |-> d.base, hi |-> d.b]

\* The extents of the environments fs and the records cx.
Held(m, fs, cx) == {EnvExtent(f) : f \in fs} \cup {RecExtent(m, cx[k]) : k \in 1 .. Len(cx)}

Apart(x, y) == x.at = y.at \/ x.hi < y.lo \/ y.hi < x.lo

\* They are laid out apart, beside the choice points ps.
Spread(m, fs, tos, cx, ps) ==
    /\ Layout(m, fs, tos, cx, ps) /\ cx \in Seq(Nat)
    /\ \A k \in 1 .. Len(cx) :
          /\ FstCP < RecStart(m, cx[k]) /\ RecStart(m, cx[k]) <= cx[k]
          /\ \A j \in 1 .. Len(cx) : j < k => RecEnd(cx[j]) <= RecStart(m, cx[k])

\* An environment and the place of a record or a choice point.
LEMMA BesideApart ==
    ASSUME NEW f, f.e \in Nat, f.n \in Nat, NEW a \in Nat, NEW z \in Nat, Beside(f, a, z),
           NEW y, y.lo = a, y.hi = z - 1
    PROVE  Apart(EnvExtent(f), y) /\ Apart(y, EnvExtent(f))
<1> DEFINE x == EnvExtent(f)
<1>1. x.lo = f.e - 2 /\ x.hi = f.e + 1 + 2 * f.n
  BY DEF EnvExtent
<1> HIDE DEF x
<1>2. y.hi < x.lo \/ x.hi < y.lo
  BY <1>1 DEF Beside, EnvEnd
<1> QED
  BY <1>2 DEF Apart, x

\* What is spread is apart.
LEMMA HeldApart ==
    ASSUME NEW m, NEW fs, NEW tos, NEW cx, NEW ps, Spread(m, fs, tos, cx, ps)
    PROVE  \A x \in Held(m, fs, cx), y \in Held(m, fs, cx) : Apart(x, y)
<1>1. /\ \A f \in fs : f.e \in Nat /\ f.n \in Nat
      /\ \A k \in 1 .. Len(cx) : /\ cx[k] \in Nat /\ RecStart(m, cx[k]) \in Nat
                                 /\ RecEnd(cx[k]) = cx[k] + 6
  BY DEF Spread, Layout, Placed, RecEnd, ImpFixSize
<1>2. ASSUME NEW f \in fs, NEW g \in fs PROVE Apart(EnvExtent(f), EnvExtent(g))
  <2>1. (f.e = g.e /\ f.n = g.n) \/ Beside(f, g.e - 2, EnvEnd(g))
    BY DEF Spread, Layout
  <2> DEFINE x == EnvExtent(f)
             y == EnvExtent(g)
  <2>2. /\ x.at = f.e /\ x.lo = f.e - 2 /\ x.hi = f.e + 1 + 2 * f.n
        /\ y.at = g.e /\ y.lo = g.e - 2 /\ y.hi = g.e + 1 + 2 * g.n
    BY DEF EnvExtent
  <2> HIDE DEF x, y
  <2>3. /\ f.e \in Nat /\ f.n \in Nat /\ g.e \in Nat /\ g.n \in Nat
        /\ \/ f.e = g.e \/ g.e + 2 + 2 * g.n <= f.e - 2 \/ f.e + 2 + 2 * f.n <= g.e - 2
    BY <1>1, <2>1 DEF Beside, EnvEnd
  <2>4. x.at = y.at \/ x.hi < y.lo \/ y.hi < x.lo
    BY ONLY <2>2, <2>3
  <2> QED
    BY <2>4 DEF Apart, x, y
<1>3. ASSUME NEW f \in fs, NEW k \in 1 .. Len(cx)
      PROVE  /\ Apart(EnvExtent(f), RecExtent(m, cx[k]))
             /\ Apart(RecExtent(m, cx[k]), EnvExtent(f))
  <2>1. Beside(f, RecStart(m, cx[k]), RecEnd(cx[k]))
    BY DEF Spread, Layout, Placed
  <2> DEFINE y == RecExtent(m, cx[k])
             a == RecStart(m, cx[k])
             z == RecEnd(cx[k])
  <2>2. y.lo = a /\ y.hi = z - 1 /\ a \in Nat /\ z \in Nat
    BY <1>1 DEF RecExtent
  <2> HIDE DEF y, a, z
  <2>3. f.e \in Nat /\ f.n \in Nat /\ Beside(f, a, z)
    BY <1>1, <2>1 DEF a, z
  <2>4. Apart(EnvExtent(f), y) /\ Apart(y, EnvExtent(f))
    BY ONLY <2>2, <2>3, BesideApart
  <2> QED
    BY <2>4 DEF y
<1>4. ASSUME NEW j \in 1 .. Len(cx), NEW k \in 1 .. Len(cx)
      PROVE  Apart(RecExtent(m, cx[j]), RecExtent(m, cx[k]))
  <2>1. j < k => RecEnd(cx[j]) <= RecStart(m, cx[k])
    BY DEF Spread
  <2>2. k < j => RecEnd(cx[k]) <= RecStart(m, cx[j])
    BY DEF Spread
  <2> DEFINE x == RecExtent(m, cx[j])
             y == RecExtent(m, cx[k])
  <2>3. /\ x.at = cx[j] /\ x.lo = RecStart(m, cx[j]) /\ x.hi = cx[j] + 5
        /\ y.at = cx[k] /\ y.lo = RecStart(m, cx[k]) /\ y.hi = cx[k] + 5
    BY DEF RecExtent
  <2>4. j = k \/ j < k \/ k < j
    BY DEF Spread
  <2> HIDE DEF x, y
  <2>5. x.at = y.at \/ x.hi < y.lo \/ y.hi < x.lo
    BY <1>1, <2>1, <2>2, <2>3, <2>4
  <2> QED
    BY <2>5 DEF Apart, x, y
<1> QED
  BY <1>2, <1>3, <1>4 DEF Held

\* It lies above AM_fstCP, and below what it all reaches.
LEMMA HeldWithin ==
    ASSUME NEW m, NEW fs, NEW tos, NEW cx, NEW ps, Spread(m, fs, tos, cx, ps),
           NEW F, Reaches(fs, tos, F), tos \in Nat
    PROVE  \A x \in Held(m, fs, cx) : x.lo \in Int /\ x.hi \in Int /\ FstCP < x.lo /\ x.hi < F
<1>1. ASSUME NEW f \in fs
      PROVE  \A x : x = EnvExtent(f) => x.lo \in Int /\ x.hi \in Int /\ FstCP < x.lo /\ x.hi < F
  <2>1. f.e \in Nat /\ f.n \in Nat /\ FstCP < f.e - 2 /\ EnvEnd(f) <= F /\ F \in Nat
    BY DEF Spread, Layout, Placed, Reaches
  <2> SUFFICES ASSUME NEW x, x = EnvExtent(f)
               PROVE  x.lo \in Int /\ x.hi \in Int /\ FstCP < x.lo /\ x.hi < F
    OBVIOUS
  <2>2. x.lo = f.e - 2 /\ x.hi = f.e + 1 + 2 * f.n
    BY DEF EnvExtent
  <2> QED
    BY ONLY <2>1, <2>2 DEF EnvEnd
<1>2. ASSUME NEW k \in 1 .. Len(cx)
      PROVE  \A x : x = RecExtent(m, cx[k]) =>
                x.lo \in Int /\ x.hi \in Int /\ FstCP < x.lo /\ x.hi < F
  <2>1. /\ RecStart(m, cx[k]) \in Nat /\ FstCP < RecStart(m, cx[k]) /\ cx[k] \in Nat
        /\ RecEnd(cx[k]) <= tos /\ RecEnd(cx[k]) = cx[k] + 6 /\ F \in Nat /\ tos <= F
    BY DEF Spread, Layout, Reaches, RecEnd, ImpFixSize
  <2> SUFFICES ASSUME NEW x, x = RecExtent(m, cx[k])
               PROVE  x.lo \in Int /\ x.hi \in Int /\ FstCP < x.lo /\ x.hi < F
    OBVIOUS
  <2>2. x.lo = RecStart(m, cx[k]) /\ x.hi = cx[k] + 5
    BY DEF RecExtent
  <2>3. x.lo \in Int /\ x.hi \in Int /\ FstCP < x.lo
    BY <2>1, <2>2
  <2>4. x.hi < F
    BY <2>1, <2>2
  <2> QED
    BY <2>3, <2>4
<1> QED
  BY <1>1, <1>2 DEF Held

\* What lies below a choice point is part of what it keeps.
LEMMA HeldAbove ==
    ASSUME NEW m, NEW fs, NEW tos, NEW cx, NEW ps, Spread(m, fs, tos, cx, ps),
           NEW k \in 1 .. Len(ps), NEW d, d = ps[k], d.base <= d.b, Inherits(fs, cx, d),
           \A g \in KeptFrames(d) : g.n \in Nat
    PROVE  \A y \in Held(m, fs, cx) :
              \/ d.b < y.lo
              \/ \E z \in Held(m, KeptFrames(d), d.ctx) :
                    z.at = y.at /\ z.lo <= y.lo /\ y.hi <= z.hi
<1>0. d.base \in Nat /\ d.b \in Nat
  BY DEF Spread, Layout
<1>1. ASSUME NEW f \in fs, NEW y, y = EnvExtent(f)
      PROVE  \/ d.b < y.lo
             \/ \E z \in Held(m, KeptFrames(d), d.ctx) :
                   z.at = y.at /\ z.lo <= y.lo /\ y.hi <= z.hi
  <2>1. f.e \in Nat /\ f.n \in Nat /\ Beside(f, d.base, d.b + 1)
    BY DEF Spread, Layout, Placed
  <2>2. y.at = f.e /\ y.lo = f.e - 2 /\ y.hi = f.e + 1 + 2 * f.n
    BY <1>1 DEF EnvExtent
  <2>3. CASE f.e < d.base
    <3>1. PICK g \in KeptFrames(d) : f.e = g.e /\ f.n <= g.n
      BY <2>3 DEF Inherits
    <3> DEFINE z == EnvExtent(g)
    <3>2. z \in Held(m, KeptFrames(d), d.ctx)
      BY DEF Held
    <3>3. z.at = g.e /\ z.lo = g.e - 2 /\ z.hi = g.e + 1 + 2 * g.n /\ g.n \in Nat
      BY DEF EnvExtent
    <3> HIDE DEF z
    <3>4. z.at = y.at /\ z.lo <= y.lo /\ y.hi <= z.hi
      BY ONLY <2>1, <2>2, <3>1, <3>3
    <3> QED
      BY <3>2, <3>4
  <2>4. CASE ~(f.e < d.base)
    BY ONLY <1>0, <2>1, <2>2, <2>4 DEF Beside, EnvEnd
  <2> QED
    BY <2>3, <2>4
<1>2. ASSUME NEW i \in 1 .. Len(cx), NEW y, y = RecExtent(m, cx[i])
      PROVE  \/ d.b < y.lo
             \/ \E z \in Held(m, KeptFrames(d), d.ctx) :
                   z.at = y.at /\ z.lo <= y.lo /\ y.hi <= z.hi
  <2>1. cx[i] \in Nat /\ RecStart(m, cx[i]) \in Nat /\ RecEnd(cx[i]) = cx[i] + 6
    BY DEF Spread, Layout, RecEnd, ImpFixSize
  <2>2. y.lo = RecStart(m, cx[i]) /\ y.hi = cx[i] + 5
    BY <1>2 DEF RecExtent
  <2>3. CASE cx[i] < d.base
    <3>1. PICK j \in 1 .. Len(d.ctx) : cx[i] = d.ctx[j]
      BY <2>3 DEF Inherits
    <3>2. y \in Held(m, KeptFrames(d), d.ctx)
      BY <1>2, <3>1 DEF Held
    <3>3. y.at = y.at /\ y.lo <= y.lo /\ y.hi <= y.hi
      BY <2>1, <2>2
    <3> QED
      BY <3>2, <3>3
  <2>4. CASE ~(cx[i] < d.base)
    <3>1. RecEnd(cx[i]) <= d.base \/ d.b < RecStart(m, cx[i])
      BY DEF Spread, Layout
    <3> QED
      BY <1>0, <2>1, <2>2, <2>4, <3>1
  <2> QED
    BY <2>3, <2>4
<1> QED
  BY <1>1, <1>2 DEF Held

-----------------------------------------------------------------------------
\* A word that a choice point knows, and that is no variable, is as it was.
LEMMA KeepsWord ==
    ASSUME NEW d, NEW m, Keeps(d, m), NEW a \in Nat, a <= d.b, a # d.b - 1,
           d.stk[a].f \notin {"junk", "free"}
    PROVE  m[a] = d.stk[a]
BY DEF Keeps, Unknown, StackBeg

\* What a choice point keeps is spread in the stack as it is now too.
LEMMA KeptSpread ==
    ASSUME WellShaped(prog), IInv, NEW k \in 1 .. Len(snaps), NEW d, d = snaps[k]
    PROVE  /\ Spread(stk, KeptFrames(d), d.base, d.ctx, Below(snaps, k))
           /\ Reaches(KeptFrames(d), d.base, d.base)
           /\ \A g \in KeptFrames(d) : g.n \in Nat
           /\ d.ctx # <<>> /\ \A j \in 1 .. Len(d.ctx) :
                 stk[d.ctx[j] + 4] = W("pip", IF j = 1 THEN StackBeg ELSE d.ctx[j - 1])
<1> DEFINE r == SavedRegs(d)
           cx == d.ctx
           ps == Below(snaps, k)
           fs == KeptFrames(d)
<1>1. /\ View(d.stk, r, SavedLive(d), d.calls, cx, ps, ShapeAt(stk[d.b - 1].v))
      /\ Keeps(d, stk) /\ r.e < d.base
  BY DEF IInv, Memory, Made, Waits, Kept
<1>2. d.b \in Nat /\ d.base \in Nat /\ d.base + 10 <= d.b
  BY MemoryStacks DEF IInv
<1>3. /\ Layout(d.stk, fs, d.base, cx, ps) /\ Records(d.stk, cx)
      /\ Calls(d.stk, d.calls, cx, ps)
      /\ Running(d.stk, r, SavedLive(d), d.calls[Len(d.calls)], cx, ps, ShapeAt(stk[d.b - 1].v))
  BY <1>1 DEF View, KeptFrames, SavedRegs
<1>4. cx \in Seq(Nat) /\ cx # <<>> /\ \A j \in 1 .. Len(cx) : Record(d.stk, cx, j)
  BY <1>3 DEF Records
<1>5. ASSUME NEW j \in 1 .. Len(cx)
      PROVE  /\ stk[cx[j] + 2] = d.stk[cx[j] + 2] /\ stk[cx[j] + 4] = d.stk[cx[j] + 4]
             /\ d.stk[cx[j] + 4] = W("pip", IF j = 1 THEN StackBeg ELSE cx[j - 1])
  <2>1. /\ d.stk[cx[j] + 2].f = "pst"
        /\ d.stk[cx[j] + 4] = W("pip", IF j = 1 THEN StackBeg ELSE cx[j - 1])
    BY <1>4 DEF Record
  <2>2. d.stk[cx[j] + 4].f = "pip"
    BY <2>1 DEF W
  <2>3. cx[j] \in Nat /\ cx[j] + 6 <= d.base
    BY <1>3, <1>4 DEF Layout, RecEnd, ImpFixSize
  <2>4. /\ cx[j] + 2 \in Nat /\ cx[j] + 2 <= d.b /\ cx[j] + 2 # d.b - 1
        /\ cx[j] + 4 \in Nat /\ cx[j] + 4 <= d.b /\ cx[j] + 4 # d.b - 1
    <3>1. PICK x \in Nat, a \in Nat, b \in Nat : x = cx[j] /\ a = d.base /\ b = d.b
      BY <1>2, <2>3
    <3>2. x + 6 <= a /\ a + 10 <= b
      BY <1>2, <2>3, <3>1
    <3>3. /\ x + 2 \in Nat /\ x + 2 <= b /\ x + 2 # b - 1
          /\ x + 4 \in Nat /\ x + 4 <= b /\ x + 4 # b - 1
      BY ONLY <3>2, x \in Nat, a \in Nat, b \in Nat
    <3> QED
      BY <3>1, <3>3
  <2> QED
    BY <1>1, <2>1, <2>2, <2>4, KeepsWord
<1>6. \A j \in 1 .. Len(cx) : RecStart(stk, cx[j]) = RecStart(d.stk, cx[j])
  BY <1>5 DEF RecStart
<1>7. \A f \in fs : f.e \in Nat /\ f.n \in Nat /\ f.e < d.base
  <2>1. \A f \in fs : f.e \in Nat /\ f.n \in Nat
    BY <1>3 DEF Layout, Placed
  <2>2. Topped(r.e, fs) /\ r.e \in Nat
    <3>1. PICK m, cs, n, s : /\ m = d.stk /\ cs = d.calls /\ n = SavedLive(d)
                             /\ s = ShapeAt(stk[d.b - 1].v)
      OBVIOUS
    <3>2. Calls(m, cs, cx, ps) /\ Running(m, r, n, cs[Len(cs)], cx, ps, s)
      BY <1>3, <3>1
    <3> HIDE DEF r, ps, cx, fs
    <3>3. Topped(r.e, Frames(r.e, n, cs)) /\ r.e \in Nat
      BY ONLY <3>2, FramesAre
    <3> QED
      BY <3>1, <3>3 DEF KeptFrames, r, fs
  <2> QED
    BY <1>1, <1>2, <2>1, <2>2 DEF Topped
<1>8. Reaches(fs, d.base, d.base)
  <2>1. ASSUME NEW f \in fs PROVE EnvEnd(f) <= d.base
    <3>1. Beside(f, d.base, d.base)
      BY <1>3 DEF Layout
    <3>2. f.e \in Nat /\ f.e < d.base
      BY <1>7
    <3> QED
      BY <1>2, <3>1, <3>2 DEF Beside
  <2> QED
    BY <1>2, <2>1 DEF Reaches
<1>9. Layout(stk, fs, d.base, cx, ps)
  BY <1>3, <1>6 DEF Layout, Placed
<1>10. ASSUME NEW j \in 1 .. Len(cx)
       PROVE  /\ FstCP < RecStart(stk, cx[j]) /\ RecStart(stk, cx[j]) <= cx[j]
              /\ \A i \in 1 .. Len(cx) : i < j => RecEnd(cx[i]) <= RecStart(stk, cx[j])
  BY <1>3, <1>6, RecordsOrder
<1>11. Spread(stk, fs, d.base, cx, ps)
  BY <1>4, <1>9, <1>10 DEF Spread
<1> QED
  BY <1>4, <1>5, <1>7, <1>8, <1>11

\* What a choice point was made over is as it was, in its own stack and in the
\* machine's: the calls that backtracking to it will return from are linked.
LEMMA LinksKept ==
    ASSUME WellShaped(prog), IInv, NEW k \in 1 .. Len(snaps)
    PROVE  Linked(snaps[k].calls)
<1> DEFINE s == snaps[k]
           r == SavedRegs(s)
           cs == s.calls
<1>1. /\ View(s.stk, r, SavedLive(s), cs, s.ctx, Below(snaps, k), ShapeAt(stk[s.b - 1].v))
      /\ Keeps(s, stk) /\ r.e < s.base /\ s.base \in Nat
  BY DEF IInv, Memory, Made, Waits, Kept
<1>2. s.b \in Nat /\ s.base + 10 <= s.b
  BY MemoryStacks DEF IInv
<1> HIDE DEF s, r, cs
<1>3. Joined(s.stk, cs)
  BY <1>1, ViewJoined
<1>4. /\ r.e \in Nat /\ Len(cs) \in Nat
      /\ \A j \in 1 .. Len(cs) : cs[j].e \in Nat /\ cs[j].e <= r.e
      /\ \A j \in 2 .. Len(cs) : cs[j].e # StackBeg
  <2> DEFINE m == s.stk  n == SavedLive(s)  cx == s.ctx  ps == Below(snaps, k)
             here == ShapeAt(stk[s.b - 1].v)
  <2>1. Calls(m, cs, cx, ps) /\ Running(m, r, n, cs[Len(cs)], cx, ps, here)
    BY <1>1 DEF View
  <2> HIDE DEF m, n, cx, ps, here
  <2>2. r.e \in Nat
    BY <2>1, FramesAre
  <2>3. Len(cs) \in Nat
    BY <2>1, FramesAre
  <2>4. \A j \in 1 .. Len(cs) : cs[j].e \in Nat /\ cs[j].e <= r.e
    BY <2>1, FramesAre
  <2>5. ASSUME NEW j \in 2 .. Len(cs)
        PROVE  cs[j].e # StackBeg
    <3>1. /\ 1 \in 1 .. Len(cs) /\ j \in 1 .. Len(cs) /\ 1 < j
      BY <2>3
    <3>2. cs[1].e = StackBeg /\ cs[1].e < cs[j].e
      BY <2>1, <3>1 DEF Calls
    <3> QED
      BY <2>4, <3>1, <3>2 DEF StackBeg
  <2> QED
    BY ONLY <2>2, <2>3, <2>4, <2>5
<1>6. ASSUME NEW j \in 2 .. Len(cs)
      PROVE  stk[cs[j].e + 1] = s.stk[cs[j].e + 1] /\ stk[cs[j].e - 1] = s.stk[cs[j].e - 1]
  <2>1. cs[j].e \in Nat /\ cs[j].e <= r.e /\ cs[j].e # 0 /\ r.e \in Nat
    BY <1>4 DEF StackBeg
  <2>a. PICK e \in Nat, f \in Nat, d \in Nat, b \in Nat :
          e = cs[j].e /\ f = r.e /\ d = s.base /\ b = s.b
    BY <1>1, <1>2, <2>1
  <2>b. e # 0 /\ e <= f /\ f < d /\ d + 10 <= b
    BY ONLY <1>1, <1>2, <2>1, <2>a
  <2>2. /\ e + 1 \in StackBeg .. b /\ e + 1 # b - 1
        /\ e - 1 \in StackBeg .. b /\ e - 1 # b - 1
    <3>1. e + 1 \in StackBeg .. b /\ e + 1 # b - 1
      BY ONLY <2>b, e \in Nat, f \in Nat, d \in Nat, b \in Nat DEF StackBeg
    <3>2. e - 1 \in StackBeg .. b /\ e - 1 # b - 1
      BY ONLY <2>b, e \in Nat, f \in Nat, d \in Nat, b \in Nat DEF StackBeg
    <3> QED
      BY <3>1, <3>2
  <2>3. s.stk[e + 1].f = "cp" /\ s.stk[e - 1].f = "ce"
    <3>1. s.stk[e + 1] = W("cp", cs[j - 1].ret) /\ s.stk[e - 1] = W("ce", cs[j - 1].e)
      BY ONLY <1>3, <2>a, j \in 2 .. Len(cs) DEF Joined
    <3> QED
      BY ONLY <3>1 DEF W
  <2> QED
    BY <1>1, <2>a, <2>2, <2>3 DEF Keeps, Unknown
<1>7. Linked(cs)
  BY <1>3, <1>6 DEF Joined, Linked
<1> QED
  BY <1>7 DEF s, cs

\* What it may read from there on is that, and the choice point itself.
LEMMA KeptIn ==
    ASSUME WellShaped(prog), IInv, NEW k \in 1 .. Len(snaps), NEW d, d = snaps[k], Linked(d.calls)
    PROVE  CPExtents(d) \subseteq {CPExtent(d)} \cup Held(stk, KeptFrames(d), d.ctx)
<1> DEFINE r == SavedRegs(d)
           cx == d.ctx
           cs == d.calls
           s == ShapeAt(stk[d.b - 1].v)
<1>1. /\ View(d.stk, r, SavedLive(d), cs, cx, Below(snaps, k), s) /\ ~s.own
      /\ Keeps(d, stk) /\ r.e \in Addr
      /\ \A i \in 0 .. CPFixSize - 1 : d.stk[d.b - i].f \notin {"junk", "free", "bound"}
  BY DEF IInv, Memory, Made, Waits, Kept
<1>2. d.b \in Nat /\ d.base \in Nat /\ d.base + 10 <= d.b
  BY MemoryStacks DEF IInv
<1>3. cpCP(d.b) = r.cp /\ cpE(d.b) = r.e /\ v(d.b - 7) = r.i
  <2>1. ASSUME NEW i \in {7, 8, 9} PROVE stk[d.b - i] = d.stk[d.b - i]
    <3>1. i \in 0 .. CPFixSize - 1
      BY DEF CPFixSize
    <3>2. d.b - i \in Nat /\ d.b - i <= d.b /\ d.b - i # d.b - 1
      BY <1>2
    <3> QED
      BY <1>1, <3>1, <3>2, KeepsWord
  <2> QED
    BY <2>1 DEF cpCP, cpE, v, SavedRegs
<1> HIDE DEF r, s
<1>4. /\ Running(d.stk, r, SavedLive(d), cs[Len(cs)], cx, Below(snaps, k), s)
      /\ Calls(d.stk, cs, cx, Below(snaps, k))
  BY <1>1 DEF View
<1>5. r.e = cs[Len(cs)].e /\ r.i = cx[Len(cx)]
  BY <1>1, <1>4 DEF Running, AtEnv, InContext
<1>6. StackEnd \in Nat
  BY Limits
<1>7. Chained(cs)
  <2>1. PICK m, n, ps, u : /\ m = d.stk /\ n = SavedLive(d) /\ ps = Below(snaps, k) /\ u = s
    OBVIOUS
  <2>2. Calls(m, cs, cx, ps) /\ Running(m, r, n, cs[Len(cs)], cx, ps, u)
    BY <1>4, <2>1
  <2> HIDE DEF cs, cx
  <2>3. Len(cs) \in Nat \ {0} /\ \A j \in 1 .. Len(cs) : cs[j].e \in Nat /\ cs[j].e <= r.e
    BY ONLY <2>2, FramesAre
  <2>4. \A j \in 1 .. Len(cs) : cs[j].e \in Addr
    BY <1>1, <1>6, <2>3 DEF Addr, StackBeg
  <2>5. cs[1].e = StackBeg
    BY <2>2 DEF Calls
  <2> QED
    BY <2>3, <2>4, <2>5 DEF Chained, cs
<1>8. EnvChain(r.e, LiveAt(r.e, r.cp), r.cp) \subseteq KeptFrames(d)
  <2>1. EnvChain(r.e, LiveAt(r.e, r.cp), r.cp) \subseteq Frames(r.e, LiveAt(r.e, r.cp), cs)
    <3> HIDE DEF cs
    <3> QED
      BY <1>1, <1>5, <1>6, <1>7, ChainIn
  <2> QED
    BY <2>1 DEF KeptFrames, SavedLive, r
<1>9. EnvExtents(r.e, LiveAt(r.e, r.cp), r.cp) \subseteq Held(stk, KeptFrames(d), cx)
  BY <1>8 DEF EnvExtents, EnvExtent, Held
<1>10. ImpExtents(r.i) \subseteq Held(stk, KeptFrames(d), cx)
  <2>1. /\ cx \in Seq(Nat) /\ cx # <<>> /\ \A j \in 1 .. Len(cx) : RecEnd(cx[j]) <= d.base
        /\ \A j \in 1 .. Len(cx) : stk[cx[j] + 4] = W("pip", IF j = 1 THEN StackBeg ELSE cx[j - 1])
    BY KeptSpread DEF Spread, Layout
  <2>2. \A j \in 1 .. Len(cx) : cx[j] \in Addr
    <3> SUFFICES ASSUME NEW j \in 1 .. Len(cx) PROVE cx[j] \in Addr
      OBVIOUS
    <3>1. d.b \in Addr
      BY MemoryStacks DEF IInv
    <3>2. PICK x \in Nat, a \in Nat, b \in Nat : x = cx[j] /\ a = d.base /\ b = d.b
      BY <1>2, <2>1
    <3>3. x + 6 <= a /\ a + 10 <= b /\ b \in 0 .. StackEnd
      BY <1>2, <2>1, <3>1, <3>2 DEF RecEnd, ImpFixSize, Addr, StackBeg
    <3>4. x \in 0 .. StackEnd
      BY ONLY <1>6, <3>3, x \in Nat, a \in Nat, b \in Nat
    <3> QED
      BY <3>2, <3>4 DEF Addr, StackBeg
  <2>3. ImpExtents(cx[Len(cx)]) \subseteq {RecExtent(stk, cx[j]) : j \in 1 .. Len(cx)}
    <3>1. Len(cx) > 0
      BY <2>1
    <3> HIDE DEF cx
    <3> QED
      BY <1>6, <2>1, <2>2, <3>1, RecordsIn
  <2> QED
    BY <1>5, <2>3 DEF Held
<1> QED
  BY <1>3, <1>9, <1>10 DEF CPExtents, CPExtent

\* So with the machine.
LEMMA UsedIn ==
    ASSUME WellShaped(prog), IInv, NEW t, View(stk, reg, live, calls, ctx, snaps, t)
    PROVE  /\ Spread(stk, Frames(reg.e, live, calls), reg.tos, ctx, snaps)
           /\ EnvExtents(reg.e, live, reg.cp) \cup ImpExtents(reg.i)
                 \subseteq Held(stk, Frames(reg.e, live, calls), ctx)
<1> DEFINE fs == Frames(reg.e, live, calls)
           c == calls[Len(calls)]
<1>1. /\ Layout(stk, fs, reg.tos, ctx, snaps) /\ Records(stk, ctx) /\ Calls(stk, calls, ctx, snaps)
      /\ Running(stk, reg, live, c, ctx, snaps, t) /\ Registers(reg, snaps) /\ StackEnd \in Nat
  BY Limits DEF View, IInv
<1>2. ctx \in Seq(Nat) /\ ctx # <<>> /\ \A k \in 1 .. Len(ctx) : Record(stk, ctx, k)
  BY <1>1 DEF Records
<1>3. ASSUME NEW j \in 1 .. Len(ctx)
      PROVE  /\ FstCP < RecStart(stk, ctx[j]) /\ RecStart(stk, ctx[j]) <= ctx[j]
             /\ \A i \in 1 .. Len(ctx) : i < j => RecEnd(ctx[i]) <= RecStart(stk, ctx[j])
  BY <1>1, RecordsOrder
<1>4. Spread(stk, fs, reg.tos, ctx, snaps)
  BY <1>1, <1>2, <1>3 DEF Spread
<1>5. reg.i = ctx[Len(ctx)] /\ reg.e \in Addr
  BY <1>1 DEF Running, InContext, Registers
<1>6. Chained(calls)
  <2>1. /\ Len(calls) \in Nat \ {0} /\ reg.e \in Nat
        /\ \A j \in 1 .. Len(calls) : calls[j].e \in Nat /\ calls[j].e <= reg.e
    BY <1>1, FramesAre
  <2>2. \A j \in 1 .. Len(calls) : calls[j].e \in Addr
    BY <1>1, <1>5, <2>1 DEF Addr, StackBeg
  <2>3. calls[1].e = StackBeg
    BY <1>1 DEF Calls
  <2>4. Linked(calls)
    BY DEF IInv, Joined, Linked
  <2> QED
    BY <2>1, <2>2, <2>3, <2>4 DEF Chained
<1>7. \/ reg.e = c.e
      \/ stk[reg.e + 1] = W("cp", c.ret) /\ stk[reg.e - 1] = W("ce", c.e)
  BY <1>1 DEF Running, AtEnv, Environment
<1>8. EnvChain(reg.e, live, reg.cp) \subseteq fs
  BY <1>1, <1>5, <1>6, <1>7, ChainIn
<1>9. EnvExtents(reg.e, live, reg.cp) \subseteq Held(stk, fs, ctx)
  BY <1>8 DEF EnvExtents, EnvExtent, Held
<1>10. ImpExtents(reg.i) \subseteq Held(stk, fs, ctx)
  <2>1. \A k \in 1 .. Len(ctx) : /\ ctx[k] \in Addr
                                 /\ stk[ctx[k] + 4] = W("pip", IF k = 1 THEN StackBeg ELSE ctx[k - 1])
    <3> SUFFICES ASSUME NEW k \in 1 .. Len(ctx) PROVE ctx[k] \in Addr
      BY <1>2 DEF Record
    <3>1. ctx[k] \in Nat /\ ctx[k] < RecEnd(ctx[k]) /\ RecEnd(ctx[k]) <= StackEnd
      BY <1>1, RecordsOrder
    <3> QED
      BY <1>1, <3>1 DEF RecEnd, ImpFixSize, Addr, StackBeg
  <2>2. ImpExtents(ctx[Len(ctx)]) \subseteq {RecExtent(stk, ctx[k]) : k \in 1 .. Len(ctx)}
    <3>1. Len(ctx) > 0
      BY <1>2
    <3> QED
      BY ONLY <1>1, <1>2, <2>1, <3>1, RecordsIn
  <2> QED
    BY <1>5, <2>2 DEF Held
<1> QED
  BY <1>4, <1>9, <1>10

-----------------------------------------------------------------------------
\* What a view of the stack holds, and what a choice point below it keeps, lie
\* apart, whichever it is.
LEMMA HeirApart ==
    ASSUME WellShaped(prog), IInv, NEW fs, NEW tos, NEW cx, NEW ps, Spread(stk, fs, tos, cx, ps),
           tos \in Nat, NEW F, Reaches(fs, tos, F), NEW k \in 1 .. Len(snaps), NEW d, d = snaps[k],
           NEW i \in 1 .. Len(ps), d = ps[i], Inherits(fs, cx, d)
    PROVE  \A x \in {CPExtent(d)} \cup Held(stk, KeptFrames(d), d.ctx), y \in Held(stk, fs, cx) :
              Apart(x, y) /\ Apart(y, x)
<1> SUFFICES ASSUME NEW x \in {CPExtent(d)} \cup Held(stk, KeptFrames(d), d.ctx),
                    NEW y \in Held(stk, fs, cx)
             PROVE  Apart(x, y) /\ Apart(y, x)
  OBVIOUS
<1>1. d.b \in Nat /\ d.base \in Nat /\ d.base + 10 <= d.b
  BY MemoryStacks DEF IInv
<1>2. /\ Spread(stk, KeptFrames(d), d.base, d.ctx, Below(snaps, k))
      /\ Reaches(KeptFrames(d), d.base, d.base)
      /\ \A g \in KeptFrames(d) : g.n \in Nat
  BY KeptSpread
<1>3. \A z \in Held(stk, KeptFrames(d), d.ctx) :
         z.lo \in Int /\ z.hi \in Int /\ FstCP < z.lo /\ z.hi < d.base
  BY ONLY <1>1, <1>2, HeldWithin
<1>4. y.lo \in Int /\ y.hi \in Int
  BY HeldWithin
<1>5. x.lo \in Int /\ x.hi \in Int /\ x.hi <= d.b
  <2>1. CASE x = CPExtent(d)
    <3>1. x.lo = d.base /\ x.hi = d.b
      BY <2>1 DEF CPExtent
    <3> QED
      BY <1>1, <3>1
  <2>2. CASE x \in Held(stk, KeptFrames(d), d.ctx)
    <3>1. x.lo \in Int /\ x.hi \in Int /\ x.hi < d.base
      BY <1>3, <2>2
    <3> QED
      BY <1>1, <3>1
  <2> QED
    BY <2>1, <2>2
<1>6. CASE d.b < y.lo
  <2>1. x.hi < y.lo
    BY <1>1, <1>4, <1>5, <1>6
  <2> QED
    BY <2>1 DEF Apart
<1>7. ASSUME NEW z \in Held(stk, KeptFrames(d), d.ctx), z.at = y.at, z.lo <= y.lo, y.hi <= z.hi
      PROVE  Apart(x, y) /\ Apart(y, x)
  <2>0. z.lo \in Int /\ z.hi \in Int /\ z.hi < d.base
    BY <1>3
  <2>1. CASE x = CPExtent(d)
    <3>1. x.lo = d.base
      BY <2>1 DEF CPExtent
    <3>2. y.hi < x.lo
      BY <1>1, <1>4, <1>7, <2>0, <3>1
    <3> QED
      BY <3>2 DEF Apart
  <2>2. CASE x \in Held(stk, KeptFrames(d), d.ctx)
    <3>1. Apart(x, z)
      BY <1>2, <2>2, HeldApart
    <3>2. x.at = y.at \/ x.hi < y.lo \/ y.hi < x.lo
      BY <1>4, <1>5, <1>7, <2>0, <3>1 DEF Apart
    <3> QED
      BY <3>2 DEF Apart
  <2> QED
    BY <2>1, <2>2
<1>8. \/ d.b < y.lo
      \/ \E z \in Held(stk, KeptFrames(d), d.ctx) :
            z.at = y.at /\ z.lo <= y.lo /\ y.hi <= z.hi
  <2>1. d.base <= d.b
    BY <1>1
  <2> QED
    BY <1>2, <2>1, HeldAbove
<1> QED
  BY <1>6, <1>7, <1>8

\* What two choice points keep.
LEMMA KeptApart ==
    ASSUME WellShaped(prog), IInv, NEW k \in 1 .. Len(snaps), NEW i \in 1 .. Len(snaps),
           NEW x \in {CPExtent(snaps[i])} \cup Held(stk, KeptFrames(snaps[i]), snaps[i].ctx),
           NEW y \in {CPExtent(snaps[k])} \cup Held(stk, KeptFrames(snaps[k]), snaps[k].ctx),
           i <= k
    PROVE  Apart(x, y) /\ Apart(y, x)
<1> DEFINE d == snaps[i]
           q == snaps[k]
<1>1. /\ d.b \in Nat /\ d.base \in Nat /\ d.base + 10 <= d.b
      /\ q.b \in Nat /\ q.base \in Nat /\ q.base + 10 <= q.b
      /\ Len(snaps) \in Nat /\ IsSeq(snaps)
  BY MemoryStacks DEF IInv, Memory
<1>2. /\ Spread(stk, KeptFrames(q), q.base, q.ctx, Below(snaps, k))
      /\ Reaches(KeptFrames(q), q.base, q.base)
      /\ Spread(stk, KeptFrames(d), d.base, d.ctx, Below(snaps, i))
      /\ Reaches(KeptFrames(d), d.base, d.base)
  BY KeptSpread
<1>3. /\ \A z \in Held(stk, KeptFrames(q), q.ctx) : z.lo \in Int /\ z.hi \in Int /\ z.hi < q.base
      /\ \A z \in Held(stk, KeptFrames(d), d.ctx) : z.lo \in Int /\ z.hi \in Int /\ z.hi < d.base
  BY ONLY <1>1, <1>2, HeldWithin
<1>4. x.lo \in Int /\ x.hi \in Int /\ x.hi <= d.b
  <2>1. CASE x = CPExtent(d)
    <3>1. x.lo = d.base /\ x.hi = d.b
      BY <2>1 DEF CPExtent
    <3> QED
      BY <1>1, <3>1
  <2>2. CASE x \in Held(stk, KeptFrames(d), d.ctx)
    <3>1. x.lo \in Int /\ x.hi \in Int /\ x.hi < d.base
      BY <1>3, <2>2
    <3> QED
      BY <1>1, <3>1
  <2> QED
    BY <2>1, <2>2
<1>5. CASE i = k
  <2>1. CASE x = CPExtent(d) /\ y = CPExtent(d)
    BY <2>1 DEF Apart
  <2>2. CASE x = CPExtent(d) /\ y \in Held(stk, KeptFrames(d), d.ctx)
    <3>1. x.lo = d.base
      BY <2>2 DEF CPExtent
    <3>2. y.hi < x.lo
      BY <1>3, <2>2, <3>1
    <3> QED
      BY <3>2 DEF Apart
  <2>3. CASE y = CPExtent(d) /\ x \in Held(stk, KeptFrames(d), d.ctx)
    <3>1. y.lo = d.base
      BY <2>3 DEF CPExtent
    <3>2. x.hi < y.lo
      BY <1>3, <2>3, <3>1
    <3> QED
      BY <3>2 DEF Apart
  <2>4. CASE x \in Held(stk, KeptFrames(d), d.ctx) /\ y \in Held(stk, KeptFrames(d), d.ctx)
    BY <1>2, <2>4, HeldApart
  <2> QED
    BY <1>5, <2>1, <2>2, <2>3, <2>4
<1>6. CASE i < k
  <2>1. CASE y = CPExtent(q)
    <3>1. d.b < q.base
      BY <1>6, MemoryStacks DEF IInv, Stacked
    <3>2. y.lo = q.base
      BY <2>1 DEF CPExtent
    <3>3. x.hi < y.lo
      BY <1>1, <1>4, <3>1, <3>2
    <3> QED
      BY <3>3 DEF Apart
  <2>2. CASE y \in Held(stk, KeptFrames(q), q.ctx)
    <3>1. Len(Below(snaps, k)) = k - 1 /\ Below(snaps, k)[i] = d /\ i \in 1 .. Len(Below(snaps, k))
      <4>1. k - 1 \in 0 .. Len(snaps) /\ i \in 1 .. k - 1
        BY <1>1, <1>6
      <4> QED
        BY <1>1, <4>1, PrefixIs DEF Below
    <3>2. Inherits(KeptFrames(q), q.ctx, d)
      <4>1. i \in 1 .. k - 1
        BY <1>6
      <4> QED
        BY <4>1 DEF IInv, Memory, Made
    <3>3. PICK ps : ps = Below(snaps, k)
      OBVIOUS
    <3>4. x \in {CPExtent(d)} \cup Held(stk, KeptFrames(d), d.ctx)
      OBVIOUS
    <3> HIDE DEF q
    <3>5. d = snaps[i]
      OBVIOUS
    <3> HIDE DEF d
    <3> QED
      BY <1>1, <1>2, <2>2, <3>1, <3>2, <3>3, <3>4, <3>5, HeirApart
  <2> QED
    BY <2>1, <2>2
<1> QED
  BY <1>5, <1>6

\* The extents that the machine and its choice points may read are apart, and
\* below the next record.
LEMMA ApartHolds ==
    ASSUME WellShaped(prog), IInv
    PROVE  RecordsApart
<1> SUFFICES ASSUME status = "run", I.op \notin Alternatives
             PROVE  /\ \A x, y \in Extents : x.at = y.at \/ x.hi < y.lo \/ y.hi < x.lo
                    /\ \A x \in Extents : /\ FstCP < x.lo
                                          /\ x.hi < findtos(reg, live)
  BY DEF RecordsApart
<1> DEFINE fs == Frames(reg.e, live, calls)
           F == findtos(reg, live)
           L == Len(snaps)
           Kept1(k) == {CPExtent(snaps[k])} \cup Held(stk, KeptFrames(snaps[k]), snaps[k].ctx)
           Used1 == Held(stk, fs, ctx)
<1>1. PICK t : View(stk, reg, live, calls, ctx, snaps, t)
  BY DEF IInv, Using, InUse
<1>2. Heir(fs, ctx, snaps) /\ L \in Nat /\ Stacked(snaps) /\ Registers(reg, snaps)
  BY MemoryStacks DEF IInv, Using, InUse
<1>3. Spread(stk, fs, reg.tos, ctx, snaps)
      /\ EnvExtents(reg.e, live, reg.cp) \cup ImpExtents(reg.i) \subseteq Used1
  BY <1>1, UsedIn
<1>4. /\ Reaches(fs, reg.tos, F) /\ F \in Nat /\ reg.tos \in Nat /\ reg.tos <= F
      /\ FstCP < reg.tos
  BY <1>1, FindsLive, ViewReaches
<1>5. \A x \in Extents : x \in Used1 \/ \E k \in 1 .. L : x \in Kept1(k)
  <2>1. ASSUME NEW k \in 1 .. L PROVE CPExtents(snaps[k]) \subseteq Kept1(k)
    BY LinksKept, KeptIn
  <2> HIDE DEF Used1, Kept1
  <2> SUFFICES ASSUME NEW x \in Extents PROVE x \in Used1 \/ \E k \in 1 .. L : x \in Kept1(k)
    OBVIOUS
  <2>2. CASE x \in EnvExtents(reg.e, live, reg.cp) \cup ImpExtents(reg.i)
    BY <1>3, <2>2
  <2>3. ASSUME NEW k \in 1 .. L, x \in CPExtents(snaps[k]) PROVE x \in Kept1(k)
    BY <2>1, <2>3
  <2>4. \/ x \in EnvExtents(reg.e, live, reg.cp) \cup ImpExtents(reg.i)
        \/ \E k \in 1 .. Len(snaps) : x \in CPExtents(snaps[k])
    BY ONLY x \in Extents DEF Extents
  <2> QED
    BY <2>2, <2>3, <2>4
<1>6. \A x \in Used1 : x.lo \in Int /\ x.hi \in Int /\ FstCP < x.lo /\ x.hi < F
  BY <1>3, <1>4, HeldWithin
<1>7. ASSUME NEW k \in 1 .. L, NEW x \in Kept1(k), NEW y \in Used1
      PROVE  Apart(x, y) /\ Apart(y, x)
  <2>1. Inherits(fs, ctx, snaps[k])
    BY <1>2 DEF Heir
  <2> HIDE DEF fs, F
  <2> QED
    BY <1>3, <1>4, <2>1, HeirApart
<1>8. ASSUME NEW k \in 1 .. L, NEW i \in 1 .. L, NEW x \in Kept1(i), NEW y \in Kept1(k)
      PROVE  Apart(x, y)
  <2>1. i <= k \/ k <= i
    OBVIOUS
  <2> QED
    BY <2>1, KeptApart
<1>9. \A x \in Used1, y \in Used1 : Apart(x, y)
  BY <1>3, HeldApart
<1>10. ASSUME NEW k \in 1 .. L, NEW x \in Kept1(k)
       PROVE  FstCP < x.lo /\ x.hi < F
  <2> DEFINE d == snaps[k]
  <2>1. /\ d.b \in Nat /\ d.base \in Nat /\ d.base + 10 <= d.b /\ FstCP < d.base
    BY MemoryStacks DEF IInv
  <2>2. d.b < F
    <3>1. d.b <= LastB(snaps) /\ LastB(snaps) < reg.tos /\ LastB(snaps) \in Nat
      BY <1>2, MemoryStacks, PointsAre DEF IInv, Registers
    <3> QED
      BY <1>4, <2>1, <3>1
  <2>3. CASE x = CPExtent(d)
    <3>1. x.lo = d.base /\ x.hi = d.b
      BY <2>3 DEF CPExtent
    <3> QED
      BY <2>1, <2>2, <3>1
  <2>4. CASE x \in Held(stk, KeptFrames(d), d.ctx)
    <3>1. /\ Spread(stk, KeptFrames(d), d.base, d.ctx, Below(snaps, k))
          /\ Reaches(KeptFrames(d), d.base, d.base)
      BY KeptSpread
    <3>2. x.hi \in Int /\ FstCP < x.lo /\ x.hi < d.base
      BY <2>1, <2>4, <3>1, HeldWithin
    <3>3. x.hi < F
      BY <1>4, <2>1, <2>2, <3>2
    <3> QED
      BY <3>2, <3>3
  <2> QED
    BY <2>3, <2>4
<1> HIDE DEF Used1, Kept1
<1>11. ASSUME NEW x \in Extents, NEW y \in Extents PROVE Apart(x, y)
  <2>1. CASE x \in Used1 /\ y \in Used1
    BY <2>1, <1>9
  <2>2. ASSUME NEW k \in 1 .. L, x \in Kept1(k), y \in Used1 PROVE Apart(x, y)
    BY <2>2, <1>7
  <2>3. ASSUME NEW k \in 1 .. L, y \in Kept1(k), x \in Used1 PROVE Apart(x, y)
    BY <2>3, <1>7
  <2>4. ASSUME NEW i \in 1 .. L, NEW k \in 1 .. L, x \in Kept1(i), y \in Kept1(k) PROVE Apart(x, y)
    BY <2>4, <1>8
  <2> QED
    BY <1>5, <2>1, <2>2, <2>3, <2>4
<1>12. ASSUME NEW x \in Extents PROVE FstCP < x.lo /\ x.hi < F
  BY <1>5, <1>6, <1>10
<1> QED
  BY <1>11, <1>12 DEF Apart
=============================================================================
