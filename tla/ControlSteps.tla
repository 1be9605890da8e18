---------------------------- MODULE ControlSteps -----------------------------
(***************************************************************************)
(* Steps that keep the inductive invariant: those that only move the       *)
(* registers, the calls and returns, and the goals given to solve that     *)
(* make neither a choice point nor an environment; then cuts, the return   *)
(* to a choice point and the clauses tried from there, the writes of the   *)
(* environment, and how an environment is allocated and deallocated.       *)
(***************************************************************************)
EXTENDS ControlMemory

\* What is known of the program is known in the next state.
LEMMA StaysRecord ==
    ASSUME prog' = prog
    PROVE  /\ \A s, l : Goes(s, l)' <=> Goes(s, l)
           /\ \A q : ShapeAt(q)' = ShapeAt(q)
           /\ Tables' = Tables /\ Addr' = Addr /\ Cutters' = Cutters
           /\ Code' = Code /\ Tables' = Tables /\ Top' = Top /\ StackEnd' = StackEnd /\ UCMax' = UCMax
           /\ ModuleIP' = ModuleIP /\ TopUC' = TopUC
           /\ \A m, x : RecStart(m, x)' = RecStart(m, x)
           /\ \A m, x : Links(m, x)' = Links(m, x)
           /\ \A m, cx, k : Record(m, cx, k)' <=> Record(m, cx, k)
           /\ \A m, cx : Records(m, cx)' <=> Records(m, cx)
           /\ \A p : CallI1(p)' = CallI1(p)
<1>1. Code' = Code /\ Tables' = Tables /\ Top' = Top /\ StackEnd' = StackEnd /\ UCMax' = UCMax /\ Cutters' = Cutters
  BY DEF Code, Tables, Top, StackEnd, UCMax, Cutters
<1>2. CodeShapes' = CodeShapes /\ Addr' = Addr /\ ModuleIP' = ModuleIP /\ TopUC' = TopUC
  BY <1>1 DEF CodeShapes, Addr, ModuleIP, VectorSize, TopUC
<1>3. ASSUME NEW s, NEW l PROVE Goes(s, l)' <=> Goes(s, l)
  BY <1>1, <1>2 DEF Goes
<1>3a. ASSUME NEW q PROVE ShapeAt(q)' = ShapeAt(q)
  BY <1>1, <1>2 DEF ShapeAt
<1>4. ASSUME NEW m, NEW x PROVE  RecStart(m, x)' = RecStart(m, x)
  BY <1>1 DEF RecStart, VectorSize
<1>5. ASSUME NEW m, NEW x PROVE Links(m, x)' = Links(m, x)
  BY <1>1 DEF Links
<1>6. ASSUME NEW m, NEW cx, NEW k, NEW y PROVE NextClause(m, cx, k, y)' <=> NextClause(m, cx, k, y)
  BY <1>1, <1>3, <1>5 DEF NextClause
<1>7. ASSUME NEW m, NEW cx, NEW k PROVE Record(m, cx, k)' <=> Record(m, cx, k)
  BY <1>1, <1>4, <1>5, <1>6 DEF Record
<1>8. ASSUME NEW m, NEW cx PROVE Records(m, cx)' <=> Records(m, cx)
  BY <1>2, <1>7 DEF Records
<1>9. ASSUME NEW p PROVE CallI1(p)' = CallI1(p)
  BY <1>1 DEF CallI1
<1> QED
  BY <1>1, <1>2, <1>3, <1>3a, <1>4, <1>5, <1>7, <1>8, <1>9

\* The places of records and environments in the next state.
LEMMA StaysLayout ==
    ASSUME prog' = prog
    PROVE  /\ \A e, n, cs : Frames(e, n, cs)' = Frames(e, n, cs)
           /\ \A m, fs, tos, cx, ps : Layout(m, fs, tos, cx, ps)' <=> Layout(m, fs, tos, cx, ps)
<1>1. ASSUME NEW m, NEW f, NEW cx, NEW ps PROVE Placed(m, f, cx, ps)' <=> Placed(m, f, cx, ps)
  BY StaysRecord DEF Placed
<1>2. ASSUME NEW e, NEW n, NEW cs PROVE Frames(e, n, cs)' = Frames(e, n, cs)
  BY StaysRecord DEF Frames
<1>3. ASSUME NEW m, NEW fs, NEW tos, NEW cx, NEW ps
      PROVE  Layout(m, fs, tos, cx, ps)' <=> Layout(m, fs, tos, cx, ps)
  BY StaysRecord, <1>1 DEF Layout
<1> QED
  BY <1>2, <1>3

\* Environments and calls in the next state.
LEMMA StaysCalls ==
    ASSUME prog' = prog
    PROVE  /\ \A m, cs, cx, ps : Calls(m, cs, cx, ps)' <=> Calls(m, cs, cx, ps)
           /\ \A m, a, kind : Slot(m, a, kind)' <=> Slot(m, a, kind)
           /\ \A m, c, e, s : Environment(m, c, e, s)' <=> Environment(m, c, e, s)
           /\ \A ps, c, g, b : CutPoint(ps, c, g, b)' <=> CutPoint(ps, c, g, b)
           /\ \A m, c, e, s, ps : Levels(m, c, e, s, ps)' <=> Levels(m, c, e, s, ps)
<1>0. \A q : (q \in DOMAIN prog.goals)' <=> (q \in DOMAIN prog.goals)
  OBVIOUS
<1>1. ASSUME NEW m, NEW a, NEW kind PROVE Slot(m, a, kind)' <=> Slot(m, a, kind)
  BY StaysRecord, <1>0 DEF Slot
<1>2. ASSUME NEW m, NEW c, NEW e, NEW s PROVE Environment(m, c, e, s)' <=> Environment(m, c, e, s)
  BY StaysRecord, <1>1 DEF Environment
<1>3. ASSUME NEW ps, NEW c, NEW g, NEW b PROVE CutPoint(ps, c, g, b)' <=> CutPoint(ps, c, g, b)
  BY StaysRecord DEF CutPoint
<1>4. ASSUME NEW m, NEW c, NEW e, NEW s, NEW ps PROVE Levels(m, c, e, s, ps)' <=> Levels(m, c, e, s, ps)
  BY <1>3 DEF Levels
<1>5. ASSUME NEW m, NEW c, NEW d, NEW s PROVE Spared(m, c, d, s)' <=> Spared(m, c, d, s)
  BY StaysRecord DEF Spared
<1>6. ASSUME NEW s, NEW q PROVE ReturnsTo(s, q)' <=> ReturnsTo(s, q)
  BY StaysRecord DEF ReturnsTo
<1>7. ASSUME NEW m, NEW c, NEW d, NEW ps PROVE Suspended(m, c, d, ps)' <=> Suspended(m, c, d, ps)
  BY StaysRecord, <1>2, <1>4, <1>5, <1>6 DEF Suspended
<1>8. ASSUME NEW c, NEW cx, NEW ps PROVE Called(c, cx, ps)' <=> Called(c, cx, ps)
  BY StaysRecord DEF Called
<1>9. ASSUME NEW m, NEW cs, NEW cx, NEW ps PROVE Calls(m, cs, cx, ps)' <=> Calls(m, cs, cx, ps)
  BY <1>7, <1>8 DEF Calls
<1> QED
  BY <1>1, <1>2, <1>3, <1>4, <1>9

\* A view is what it was in a state with the same program.
LEMMA StaysView ==
    ASSUME prog' = prog
    PROVE  /\ \A m, r, n, cs, cx, ps, s : View(m, r, n, cs, cx, ps, s)' <=> View(m, r, n, cs, cx, ps, s)
           /\ \A e, p : LiveAt(e, p)' = LiveAt(e, p)
<1>1. ASSUME NEW e, NEW p PROVE LiveAt(e, p)' = LiveAt(e, p)
  BY StaysRecord DEF LiveAt
<1>2. ASSUME NEW m, NEW r, NEW n, NEW c, NEW ps, NEW s PROVE AtEnv(m, r, n, c, ps, s)' <=> AtEnv(m, r, n, c, ps, s)
  BY <1>1, StaysCalls DEF AtEnv
<1>3. ASSUME NEW r, NEW c, NEW cx, NEW s PROVE InContext(r, c, cx, s)' <=> InContext(r, c, cx, s)
  BY StaysRecord DEF InContext
<1>4. ASSUME NEW m, NEW r, NEW c, NEW cx, NEW s PROVE FromRecord(m, r, c, cx, s)' <=> FromRecord(m, r, c, cx, s)
  BY StaysRecord DEF FromRecord
<1>5. ASSUME NEW m, NEW r, NEW c, NEW ps, NEW s PROVE CutKnown(m, r, c, ps, s)' <=> CutKnown(m, r, c, ps, s)
  BY StaysCalls DEF CutKnown
<1>6. ASSUME NEW m, NEW r, NEW s PROVE GoalKnown(m, r, s)' <=> GoalKnown(m, r, s)
  BY DEF GoalKnown
<1>7. ASSUME NEW m, NEW r, NEW n, NEW c, NEW cx, NEW ps, NEW s
      PROVE  Running(m, r, n, c, cx, ps, s)' <=> Running(m, r, n, c, cx, ps, s)
  BY <1>2, <1>3, <1>4, <1>5, <1>6 DEF Running
<1>8. ASSUME NEW m, NEW r, NEW n, NEW cs, NEW cx, NEW ps, NEW s
      PROVE  View(m, r, n, cs, cx, ps, s)' <=> View(m, r, n, cs, cx, ps, s)
  <2>1. Frames(r.e, n, cs)' = Frames(r.e, n, cs)
    BY StaysLayout
  <2> QED
    BY <1>7, <2>1, StaysRecord, StaysLayout, StaysCalls DEF View
<1> QED
  BY <1>1, <1>8

\* What choice points know is what they knew in a state with the same program.
LEMMA StaysMemory ==
    ASSUME prog' = prog
    PROVE  /\ \A m, tr, ps : Memory(m, tr, ps)' <=> Memory(m, tr, ps)
           /\ \A s : SavedLive(s)' = SavedLive(s)
           /\ \A fs, cx, ps : Heir(fs, cx, ps)' <=> Heir(fs, cx, ps)
<1>1. ASSUME NEW m PROVE Tidy(m)' <=> Tidy(m)
  BY StaysRecord DEF Tidy, Spaced
<1>2. ASSUME NEW m PROVE Rooted(m)' <=> Rooted(m)
  <2>1. Record(m, <<ModuleIP>>, 1)' <=> Record(m, <<ModuleIP>>, 1)
    BY StaysRecord
  <2> QED
    BY <2>1, StaysRecord DEF Rooted
<1>4. ASSUME NEW s PROVE SavedLive(s)' = SavedLive(s)
  BY StaysView DEF SavedLive
<1>4a. ASSUME NEW s PROVE KeptFrames(s)' = KeptFrames(s)
  BY <1>4, StaysLayout DEF KeptFrames
<1>4b. ASSUME NEW fs, NEW cx, NEW d PROVE Inherits(fs, cx, d)' <=> Inherits(fs, cx, d)
  BY <1>4a DEF Inherits
<1>4c. ASSUME NEW fs, NEW cx, NEW ps PROVE Heir(fs, cx, ps)' <=> Heir(fs, cx, ps)
  BY <1>4b DEF Heir
<1>3. ASSUME NEW ps, NEW k PROVE Made(ps, k)' <=> Made(ps, k)
  BY <1>1, <1>4a, <1>4b, StaysRecord DEF Made
<1>5. ASSUME NEW ps, NEW k, NEW q PROVE Waits(ps, k, q)' <=> Waits(ps, k, q)
  BY <1>4, StaysRecord, StaysView DEF Waits
<1>6. ASSUME NEW m, NEW tr, NEW ps PROVE Memory(m, tr, ps)' <=> Memory(m, tr, ps)
  BY <1>1, <1>2, <1>3, <1>5, StaysRecord DEF Memory
<1> QED
  BY <1>4, <1>4c, <1>6

\* The registers are within the same bounds in a state with the same program.
LEMMA StaysRegisters ==
    ASSUME prog' = prog
    PROVE  \A r, ps : Registers(r, ps)' <=> Registers(r, ps)
BY StaysRecord DEF Registers
-----------------------------------------------------------------------------
\* In a view, each environment returns to the call before.
LEMMA ViewJoined ==
    ASSUME NEW m, NEW r, NEW n, NEW cs, NEW cx, NEW ps, NEW s, View(m, r, n, cs, cx, ps, s)
    PROVE  Joined(m, cs)
BY DEF View, Calls, Suspended, Environment, Joined

\* The machine goes on at an address where it finds what it needs.
LEMMA LiveStep ==
    ASSUME WellShaped(prog), Loaded, prog' = prog, status' = "run", live' \in Nat,
           Memory(stk', trail', snaps'), Registers(reg', snaps'),
           NEW t, View(stk', reg', live', calls', ctx', snaps', t), Goes(t, reg'.p),
           Heir(Frames(reg'.e, live', calls'), ctx', snaps')
    PROVE  IInv'
<1>0. Code' = Code
  BY StaysRecord
<1>1. /\ reg'.p \in DOMAIN Code /\ Code[reg'.p].op \notin Alternatives
      /\ reg'.p = FailCode \/ Fits(t, ShapeAt(reg'.p))
  BY DEF Goes, LeadsTo, ShapeAt
<1>2. ASSUME IsLive' PROVE View(stk', reg', live', calls', ctx', snaps', ShapeAt(reg'.p))
  <2>1. reg'.p # FailCode
    <3>1. Code[FailCode].op = "fail"
      <4>1. 1 \in 1 .. Len(Boot) /\ Boot[1].op = "fail"
        BY DEF Boot, Op
      <4>2. Code[1] = Boot[1]
        BY ONLY <4>1, WellShaped(prog), Limits
      <4> QED
        BY <4>1, <4>2 DEF FailCode
    <3> QED
      BY <3>1, <1>0, <1>2 DEF IsLive, I, Halting
  <2> QED
    BY ONLY WellShaped(prog), <2>1, <1>1, ViewFits, View(stk', reg', live', calls', ctx', snaps', t)
<1>3. Joined(stk', calls')
  BY ViewJoined
<1>4. Loaded'
  BY DEF Loaded
<1>5. /\ Memory(stk, trail, snaps)' /\ Registers(reg, snaps)'
      /\ Joined(stk, calls)'
  BY <1>3, StaysMemory, StaysRegisters DEF Joined
<1>6. IsLive' => View(stk, reg, live, calls, ctx, snaps, ShapeAt(reg.p))'
  BY <1>2, StaysView, StaysRecord
<1>7. ~(I.op \in Alternatives)'
  BY <1>0, <1>1 DEF I, Alternatives
<1>8. InUse'
  BY StaysView, StaysLayout, StaysMemory DEF InUse
<1> QED
  BY <1>4, <1>5, <1>6, <1>7, <1>8 DEF IInv, Statuses

\* The machine fails, stops, or answers.
LEMMA StillStep ==
    ASSUME IInv, UNCHANGED <<reg, stk, trail, prog, hist>>,
           status' \in Statuses, status' # "run", status' # "idle", status' = "result" => InUse
    PROVE  IInv'
<1>1. UNCHANGED <<reg, stk, trail, prog, calls, snaps, live, ctx>>
  BY DEF hist
<1>2. Loaded' /\ live' \in Nat
  BY <1>1 DEF IInv, Loaded
<1>3. /\ Memory(stk, trail, snaps)' /\ Registers(reg, snaps)'
      /\ Joined(stk, calls)'
  BY <1>1, StaysMemory, StaysRegisters DEF IInv, Joined
<1>4. InUse => InUse'
  BY <1>1, StaysView, StaysLayout, StaysMemory DEF InUse
<1> QED
  BY <1>2, <1>3, <1>4 DEF IInv, Statuses, IsLive, Using

\* What the machine finds at an instruction.
Here(s) ==
    /\ View(stk, reg, live, calls, ctx, snaps, s)
    /\ Finds(prog, CodeShapes, reg.p, s, I)
    /\ IsShape(s)
    /\ Memory(stk, trail, snaps) /\ Registers(reg, snaps) /\ Stacked(snaps)
    /\ Loaded /\ live \in Nat /\ WellShaped(prog)
    /\ Heir(Frames(reg.e, live, calls), ctx, snaps)

\* What an instruction can rely upon: the shape of its address.
LEMMA ComesHere ==
    ASSUME WellShaped(prog), IInv, status = "run", I.op \notin Alternatives \cup Halting
    PROVE  Here(ShapeAt(reg.p))
<1> DEFINE s == ShapeAt(reg.p)
<1>1. View(stk, reg, live, calls, ctx, snaps, s)
  BY DEF IInv, IsLive
<1>2. Memory(stk, trail, snaps) /\ Registers(reg, snaps) /\ Stacked(snaps)
  BY MemoryStacks DEF IInv
<1>3. s # Dead
  <2>1. s.ext \in Nat
    BY <1>1 DEF View, Running, FromRecord
  <2>2. Dead.ext = -1
    BY DEF Dead, Returned, Shape
  <2> QED
    BY <2>1, <2>2
<1>4. reg.p \in DOMAIN Code
  BY <1>2 DEF Registers
<1>5. Finds(prog, CodeShapes, reg.p, s, I)
  BY <1>3, <1>4 DEF WellShaped, CodeShapes, ShapeAt, I, Code
<1>6. IsShape(s)
  BY <1>4, Limits
<1>7. Heir(Frames(reg.e, live, calls), ctx, snaps)
  BY DEF IInv, Using, InUse
<1> QED
  BY <1>1, <1>2, <1>5, <1>6, <1>7 DEF Here, IInv

\* The instruction after a straight one finds what this one leaves.
LEMMA NextGoes ==
    ASSUME NEW s, Here(s), I.op \in Straight
    PROVE  Goes(After(s, I), reg.p + 1)
BY DEF Here, Finds, Goes, Code

-----------------------------------------------------------------------------
\* How FindIP goes outwards, when it goes on as g says.
Outwards(g, c, i) ==
    IF i = StackBeg \/ c \in DOMAIN Tables[v(i + 2)].code THEN i
    ELSE IF v(i + 4) \in StackBeg .. i - 1 THEN g[v(i + 4)] ELSE StackBeg

\* The recursion of AM_findCode along the records is a function.
LEMMA FindsSomewhere ==
    ASSUME WellShaped(prog), NEW c
    PROVE  \E g : g = [i \in StackBeg .. StackEnd |-> Outwards(g, c, i)]
<1> DEFINE Good(n) == \E g : \A i \in 0 .. n : g[i] = Outwards(g, c, i)
           Bad == {n \in Nat : ~Good(n)}
<1>0. StackEnd \in Nat
  BY Limits
<1>1. Good(0)
  <2> DEFINE g == [i \in {0} |-> 0]
  <2>1. \A i \in 0 .. 0 : g[i] = Outwards(g, c, i)
    BY DEF Outwards, StackBeg
  <2> QED
    BY <2>1
<1>2. ASSUME NEW n \in Nat, Good(n) PROVE Good(n + 1)
  <2>1. PICK g : \A i \in 0 .. n : g[i] = Outwards(g, c, i)
    BY <1>2
  <2> DEFINE h == [i \in 0 .. n + 1 |-> IF i = n + 1 THEN Outwards(g, c, n + 1) ELSE g[i]]
  <2>2. ASSUME NEW i \in 0 .. n + 1 PROVE Outwards(h, c, i) = Outwards(g, c, i)
    <3>1. CASE v(i + 4) \in StackBeg .. i - 1
      <4>1. v(i + 4) \in 0 .. n + 1 /\ v(i + 4) # n + 1
        BY <3>1 DEF StackBeg
      <4> QED
        BY <4>1 DEF Outwards
    <3>2. CASE v(i + 4) \notin StackBeg .. i - 1
      BY <3>2 DEF Outwards
    <3> QED
      BY <3>1, <3>2
  <2>3. ASSUME NEW i \in 0 .. n + 1 PROVE h[i] = Outwards(g, c, i)
    <3>1. i = n + 1 \/ i \in 0 .. n
      OBVIOUS
    <3> QED
      BY <3>1, <2>1
  <2> QED
    BY <2>2, <2>3
<1>3. \A n \in Nat : Good(n)
  <2>1. CASE Bad # {}
    <3>1. PICK n \in Bad : \A k \in Bad : n <= k
      BY <2>1, Least
    <3>2. n \in Nat \ {0} /\ ~Good(n)
      BY <3>1, <1>1
    <3>3. n - 1 \in Nat /\ n - 1 \notin Bad
      BY <3>1, <3>2
    <3>4. Good(n - 1)
      BY <3>3
    <3>5. Good((n - 1) + 1)
      BY <3>3, <3>4, <1>2
    <3>6. (n - 1) + 1 = n
      BY <3>2
    <3> QED
      BY <3>2, <3>5, <3>6
  <2>2. CASE Bad = {}
    BY <2>2
  <2> QED
    BY <2>1, <2>2
<1>4. PICK g : \A i \in 0 .. StackEnd : g[i] = Outwards(g, c, i)
  BY <1>0, <1>3
<1> DEFINE h == [i \in 0 .. StackEnd |-> g[i]]
<1>5. ASSUME NEW i \in 0 .. StackEnd PROVE h[i] = Outwards(h, c, i)
  <2>1. CASE v(i + 4) \in StackBeg .. i - 1
    <3>1. v(i + 4) \in 0 .. StackEnd
      BY <2>1, <1>0 DEF StackBeg
    <3> QED
      BY <3>1, <1>4 DEF Outwards
  <2>2. CASE v(i + 4) \notin StackBeg .. i - 1
    BY <2>2, <1>4 DEF Outwards
  <2> QED
    BY <2>1, <2>2
<1>6. h = [i \in StackBeg .. StackEnd |-> Outwards(h, c, i)]
  BY <1>5 DEF StackBeg
<1> QED
  BY <1>6

\* AM_findCode looks in a record, then in the one it extends.
LEMMA FindsOutwards ==
    ASSUME WellShaped(prog), NEW c
    PROVE  \E g : /\ \A i \in StackBeg .. StackEnd : g[i] = Outwards(g, c, i)
                  /\ \A i : FindIP(i, c) = g[i]
<1> DEFINE g == CHOOSE g : g = [i \in StackBeg .. StackEnd |->
            IF i = StackBeg \/ c \in DOMAIN Tables[v(i + 2)].code THEN i
            ELSE IF v(i + 4) \in StackBeg .. i - 1 THEN g[v(i + 4)] ELSE StackBeg]
<1>1. g = [i \in StackBeg .. StackEnd |->
            IF i = StackBeg \/ c \in DOMAIN Tables[v(i + 2)].code THEN i
            ELSE IF v(i + 4) \in StackBeg .. i - 1 THEN g[v(i + 4)] ELSE StackBeg]
  BY FindsSomewhere DEF Outwards
<1>2. \A i : FindIP(i, c) = g[i]
  BY DEF FindIP
<1> HIDE DEF g
<1>3. \A i \in StackBeg .. StackEnd : g[i] = Outwards(g, c, i)
  BY <1>1 DEF Outwards
<1> QED
  BY <1>2, <1>3

\* What is found is a record of the context with code for c, or nothing.
LEMMA FindsRecord ==
    ASSUME WellShaped(prog), NEW cx, Records(stk, cx), NEW c, NEW n \in 1 .. Len(cx)
    PROVE  \/ FindIP(cx[n], c) = StackBeg
           \/ \E k \in 1 .. n : /\ FindIP(cx[n], c) = cx[k]
                                /\ c \in DOMAIN Tables[stk[cx[k] + 2].v].code
<1>1. PICK g : /\ \A i \in StackBeg .. StackEnd : g[i] = Outwards(g, c, i)
               /\ \A i : FindIP(i, c) = g[i]
  BY FindsOutwards
<1> DEFINE Found(k) == \/ g[cx[k]] = StackBeg
                       \/ \E j \in 1 .. k : /\ g[cx[k]] = cx[j]
                                            /\ c \in DOMAIN Tables[stk[cx[j] + 2].v].code
           Bad == {k \in 1 .. Len(cx) : ~Found(k)}
<1>2. Len(cx) \in Nat
  BY DEF Records
<1>3. ASSUME NEW k \in 1 .. Len(cx), \A j \in 1 .. k - 1 : Found(j)
      PROVE  Found(k)
  <2>1. cx[k] \in StackBeg .. StackEnd /\ Record(stk, cx, k)
    <3>1. cx[k] \in Nat /\ cx[k] < RecEnd(cx[k]) /\ RecEnd(cx[k]) <= StackEnd /\ StackEnd \in Nat
      BY RecordsOrder, Limits DEF Records
    <3> QED
      BY <3>1 DEF RecEnd, ImpFixSize, StackBeg, Records
  <2>2. g[cx[k]] = Outwards(g, c, cx[k])
    BY <1>1, <2>1
  <2>3. CASE c \in DOMAIN Tables[v(cx[k] + 2)].code
    BY <2>2, <2>3, <1>2 DEF Outwards, v
  <2>4. CASE v(cx[k] + 4) \notin StackBeg .. cx[k] - 1 /\ c \notin DOMAIN Tables[v(cx[k] + 2)].code
    BY <2>2, <2>4 DEF Outwards
  <2>5. CASE v(cx[k] + 4) \in StackBeg .. cx[k] - 1 /\ c \notin DOMAIN Tables[v(cx[k] + 2)].code
    <3>1. g[cx[k]] = StackBeg \/ g[cx[k]] = g[v(cx[k] + 4)]
      BY <2>2, <2>5 DEF Outwards
    <3>2. v(cx[k] + 4) = IF k = 1 THEN StackBeg ELSE cx[k - 1]
      BY <2>1 DEF Record, v, W
    <3>3. CASE k = 1
      <4>1. g[StackBeg] = StackBeg
        BY <1>1, Limits DEF StackBeg, Outwards
      <4> QED
        BY <3>1, <3>2, <3>3, <4>1
    <3>4. CASE k # 1
      <4>1. k - 1 \in 1 .. k - 1 /\ k - 1 \in 1 .. k
        BY <3>4, <1>2
      <4>2. Found(k - 1) /\ g[cx[k]] \in {StackBeg, g[cx[k - 1]]}
        BY <4>1, <1>3, <3>1, <3>2, <3>4
      <4>3. \A j \in 1 .. k - 1 : j \in 1 .. k
        BY <1>2
      <4> QED
        BY <4>2, <4>3
    <3> QED
      BY <3>3, <3>4
  <2> QED
    BY <2>3, <2>4, <2>5
<1>4. CASE Bad # {}
  <2>0. Bad \subseteq Nat
    BY <1>2
  <2>1. PICK k \in Bad : \A j \in Bad : k <= j
    <3> HIDE DEF Bad
    <3> QED
      BY ONLY <2>0, <1>4, Least
  <2>2. \A j \in 1 .. k - 1 : j \in 1 .. Len(cx) /\ j \notin Bad
    BY <2>1, <1>2
  <2> HIDE DEF Found
  <2> QED
    BY <2>1, <2>2, <1>3
<1>5. CASE Bad = {}
  BY <1>1, <1>5
<1> QED
  BY <1>4, <1>5
-----------------------------------------------------------------------------
\* Registers of the running clause change.
LEMMA ViewRegs ==
    ASSUME NEW m, NEW r, NEW n, NEW cs, NEW cx, NEW ps, NEW s, View(m, r, n, cs, cx, ps, s),
           NEW q, q.e = r.e, q.cp = r.cp, q.tos = r.tos,
           NEW t, t.own <=> s.own, t.own => t.n = s.n /\ t.slot = s.slot,
           \A c : c = cs[Len(cs)] =>
              InContext(q, c, cx, t) /\ FromRecord(m, q, c, cx, t) /\ CutKnown(m, q, c, ps, t),
           GoalKnown(m, q, t)
    PROVE  View(m, q, n, cs, cx, ps, t)
<1> DEFINE c == cs[Len(cs)]
<1>1. Running(m, r, n, c, cx, ps, s)
  BY DEF View
<1>2. AtEnv(m, q, n, c, ps, t)
  <2>1. AtEnv(m, r, n, c, ps, s)
    BY <1>1 DEF Running
  <2> QED
    BY <2>1 DEF AtEnv, Environment, Levels
<1>3. Running(m, q, n, c, cx, ps, t)
  BY <1>2 DEF Running
<1> QED
  BY <1>3 DEF View
-----------------------------------------------------------------------------
\* A step that only moves the registers.
LEMMA RegsStep ==
    ASSUME NEW s, Here(s), status = "run", NEW r, Regs(r), Registers(r, snaps), r.e = reg.e,
           NEW t, View(stk, r, live, calls, ctx, snaps, t), Goes(t, r.p)
    PROVE  IInv'
<1>1. /\ reg' = r /\ UNCHANGED <<stk, trail, prog, status, calls, snaps, live, ctx>>
  BY DEF Regs, hist
<1>2. WellShaped(prog) /\ Loaded /\ Memory(stk, trail, snaps) /\ live \in Nat
  BY DEF Here
<1>3. View(stk', reg', live', calls', ctx', snaps', t) /\ Goes(t, reg'.p)
  BY <1>1
<1>4. Memory(stk', trail', snaps') /\ Registers(reg', snaps') /\ live' \in Nat /\ status' = "run"
  BY <1>1, <1>2
<1>5. Heir(Frames(reg'.e, live', calls'), ctx', snaps')
  BY <1>1 DEF Here
<1> QED
  BY ONLY <1>1, <1>2, <1>3, <1>4, <1>5, LiveStep

\* Where an instruction goes is an address of the code.
LEMMA GoesToCode ==
    ASSUME NEW t, NEW l, Goes(t, l)
    PROVE  l \in DOMAIN Code
BY DEF Goes, LeadsTo

\* All registers but these are the same.
SameBut(r, q, fields) ==
    DOMAIN q = DOMAIN r /\ \A x \in DOMAIN r : x \in fields \/ q[x] = r[x]

\* A register that is not among the fields given is as it was.
LEMMA SameFields ==
    ASSUME NEW r, NEW q, NEW fields, SameBut(r, q, fields), NEW ps, Registers(r, ps)
    PROVE  /\ "tos" \in fields \/ q.tos = r.tos
           /\ "e" \in fields \/ q.e = r.e
           /\ "b" \in fields \/ q.b = r.b
           /\ "b0" \in fields \/ q.b0 = r.b0
           /\ "i" \in fields \/ q.i = r.i
           /\ "ci" \in fields \/ q.ci = r.ci
           /\ "uc" \in fields \/ q.uc = r.uc
           /\ "p" \in fields \/ q.p = r.p
           /\ "cp" \in fields \/ q.cp = r.cp
           /\ "a1" \in fields \/ q.a1 = r.a1
           /\ DOMAIN q = {"tos", "e", "b", "b0", "i", "ci", "ce", "uc", "p", "cp", "a1"}
BY DEF SameBut, Registers

\* A straight instruction that moves registers of the clause alone.
LEMMA StraightStep ==
    ASSUME NEW s, Here(s), status = "run", I.op \in Straight, NEW r, Regs(r),
           SameBut(reg, r, {"p", "uc", "b0", "a1"}), r.p = reg.p + 1,
           r.b0 \in Addr, r.uc \in 0 .. UCMax,
           NEW t, t = After(s, I), t.own = s.own, t.n = s.n, t.slot = s.slot,
           t.pushed = s.pushed, t.ext = s.ext, t.univ \in Nat, r.uc - t.univ = reg.uc - s.univ,
           \A c : c = calls[Len(calls)] => CutKnown(stk, r, c, snaps, t),
           GoalKnown(stk, r, t)
    PROVE  IInv'
<1>1. Goes(t, r.p)
  BY NextGoes
<1>2. Registers(reg, snaps) /\ UCMax \in Nat /\ IsShape(s) /\ View(stk, reg, live, calls, ctx, snaps, s)
  BY Limits DEF Here
<1>3. /\ r.e = reg.e /\ r.cp = reg.cp /\ r.tos = reg.tos /\ r.b = reg.b
      /\ r.i = reg.i /\ r.ci = reg.ci
  BY <1>2, SameFields
<1>4. Registers(r, snaps)
  BY <1>1, <1>2, <1>3, GoesToCode DEF Registers, SameBut
<1>5. View(stk, r, live, calls, ctx, snaps, t)
  <2> DEFINE c == calls[Len(calls)]
  <2>1. Running(stk, reg, live, c, ctx, snaps, s) /\ c.uc \in Nat
    BY <1>2, CallerIs DEF Called
  <2>2. CutKnown(stk, r, c, snaps, t)
    OBVIOUS
  <2> HIDE DEF c
  <2>3. s.univ \in Nat /\ reg.uc = c.uc + s.univ
    BY <2>1 DEF Running, InContext
  <2>4. r.uc = c.uc + t.univ
    BY <2>1, <2>3
  <2>5. InContext(r, c, ctx, t)
    BY <2>4, <1>3, <2>1 DEF Running, InContext
  <2>6. FromRecord(stk, r, c, ctx, t)
    BY <1>3, <2>1 DEF Running, FromRecord
  <2> QED
    BY <2>2, <2>5, <2>6, <1>2, <1>3, ViewRegs DEF c
<1> QED
  BY <1>1, <1>3, <1>4, <1>5, RegsStep

\* A universal goal enters a universe.
LEMMA IncrUniverseStep ==
    ASSUME WellShaped(prog), IInv, IncrUniverse
    PROVE  IInv'
<1> DEFINE s == ShapeAt(reg.p)
<1>1. status = "run" /\ I.op = "incr_universe"
  BY DEF IncrUniverse, Is
<1>2. Here(s)
  BY <1>1, ComesHere DEF Alternatives, Halting
<1>3. CASE Overflow
  BY <1>3, StillStep DEF Overflow, Statuses
<1>4. CASE reg.uc # UCMax /\ Regs(Next1([reg EXCEPT !.uc = @ + 1]))
  <2> DEFINE r == Next1([reg EXCEPT !.uc = @ + 1])
             t == After(s, I)
  <2>1. t = [s EXCEPT !.univ = @ + 1]
    BY <1>1 DEF After, ValueOps, CallOps
  <2> HIDE DEF t, s
  <2>2. /\ Registers(reg, snaps) /\ UCMax \in Nat /\ IsShape(s) /\ StackEnd \in Nat
        /\ View(stk, reg, live, calls, ctx, snaps, s)
    BY <1>2, Limits DEF Here
  <2>3. r.uc = reg.uc + 1 /\ r.p = reg.p + 1 /\ SameBut(reg, r, {"p", "uc", "b0", "a1"}) /\ r.b0 = reg.b0 /\ r.a1 = reg.a1 /\ r.e = reg.e
    BY <2>2 DEF Registers, Next1, SameBut
  <2>4. reg.uc + 1 \in 0 .. UCMax /\ reg.uc \in Nat /\ reg.b0 \in Addr
    BY <2>2, <1>4 DEF Registers
  <2>5. /\ t.own = s.own /\ t.n = s.n /\ t.slot = s.slot /\ t.univ = s.univ + 1 /\ t.cut = s.cut
        /\ t.a1 = s.a1 /\ t.ext = s.ext /\ t.pushed = s.pushed
    BY <2>1, <2>2 DEF IsShape
  <2>6. s.univ \in Nat /\ GoalKnown(stk, reg, s) /\ \A c : c = calls[Len(calls)] => CutKnown(stk, reg, c, snaps, s)
    BY <2>2 DEF View, Running, InContext
  <2> HIDE DEF r
  <2>7. GoalKnown(stk, r, t) /\ \A c : c = calls[Len(calls)] => CutKnown(stk, r, c, snaps, t)
    BY <2>3, <2>5, <2>6 DEF GoalKnown, CutKnown
  <2>8. t.univ \in Nat /\ r.uc - t.univ = reg.uc - s.univ
    BY <2>3, <2>4, <2>5, <2>6
  <2> QED
    BY <1>1, <1>2, <1>4, <2>3, <2>4, <2>5, <2>7, <2>8, StraightStep DEF r, t, Straight
<1> QED
  BY <1>3, <1>4 DEF IncrUniverse

\* It leaves the universe again.
LEMMA DecrUniverseStep ==
    ASSUME WellShaped(prog), IInv, DecrUniverse
    PROVE  IInv'
<1> DEFINE s == ShapeAt(reg.p)
           r == Next1([reg EXCEPT !.uc = @ - 1])
           t == After(s, I)
<1>1. status = "run" /\ I.op = "decr_universe" /\ Regs(r)
  BY DEF DecrUniverse, Is
<1>2. Here(s)
  BY <1>1, ComesHere DEF Alternatives, Halting
<1>3. t = [s EXCEPT !.univ = @ - 1]
  BY <1>1 DEF After, ValueOps, CallOps
<1> HIDE DEF t, s
<1>4. /\ Registers(reg, snaps) /\ UCMax \in Nat /\ IsShape(s) /\ StackEnd \in Nat
      /\ View(stk, reg, live, calls, ctx, snaps, s) /\ s.univ > 0
  BY <1>1, <1>2, Limits DEF Here, Finds
<1>5. r.uc = reg.uc - 1 /\ r.p = reg.p + 1 /\ SameBut(reg, r, {"p", "uc", "b0", "a1"}) /\ r.b0 = reg.b0 /\ r.a1 = reg.a1 /\ r.e = reg.e
  BY <1>4 DEF Registers, Next1, SameBut
<1>6. /\ t.own = s.own /\ t.n = s.n /\ t.slot = s.slot /\ t.univ = s.univ - 1 /\ t.cut = s.cut
      /\ t.a1 = s.a1 /\ t.ext = s.ext /\ t.pushed = s.pushed
  BY <1>3, <1>4 DEF IsShape
<1>7. s.univ \in Nat /\ GoalKnown(stk, reg, s) /\ \A c : c = calls[Len(calls)] => CutKnown(stk, reg, c, snaps, s)
  BY <1>4 DEF View, Running, InContext
<1>8. reg.uc \in 0 .. UCMax /\ reg.b0 \in Addr /\ reg.uc >= s.univ
  <2>1. \A c : c = calls[Len(calls)] => c.uc \in Nat /\ reg.uc = c.uc + s.univ
    BY <1>4, CallerIs DEF Called, Running, InContext
  <2> QED
    BY <2>1, <1>4, <1>7 DEF Registers
<1> HIDE DEF r
<1>9. GoalKnown(stk, r, t) /\ \A c : c = calls[Len(calls)] => CutKnown(stk, r, c, snaps, t)
  BY <1>5, <1>6, <1>7 DEF GoalKnown, CutKnown
<1>10. t.univ \in Nat /\ r.uc - t.univ = reg.uc - s.univ /\ r.uc \in 0 .. UCMax
  BY <1>4, <1>5, <1>6, <1>7, <1>8
<1> QED
  BY <1>1, <1>2, <1>4, <1>5, <1>6, <1>8, <1>9, <1>10, StraightStep DEF t, Straight

\* Variables are read into argument registers.
LEMMA ToRegisterStep ==
    ASSUME WellShaped(prog), IInv, ToRegister
    PROVE  IInv'
<1> DEFINE s == ShapeAt(reg.p)
           r == Next1(reg)
           t == After(s, I)
<1>1. status = "run" /\ I.op \in {"put_value", "init_variable_t"} /\ Regs(r)
  BY DEF ToRegister, Is
<1>2. Here(s)
  BY <1>1, ComesHere DEF Alternatives, Halting
<1>3. t = s
  BY <1>1 DEF After, ValueOps, CallOps
<1> HIDE DEF t, s
<1>4. /\ Registers(reg, snaps) /\ UCMax \in Nat /\ IsShape(s) /\ StackEnd \in Nat
      /\ View(stk, reg, live, calls, ctx, snaps, s)
  BY <1>1, <1>2, Limits DEF Here
<1>5. r.uc = reg.uc /\ r.p = reg.p + 1 /\ SameBut(reg, r, {"p", "uc", "b0", "a1"}) /\ r.b0 = reg.b0 /\ r.a1 = reg.a1 /\ r.e = reg.e
  BY <1>4 DEF Registers, Next1, SameBut
<1>7. s.univ \in Nat /\ GoalKnown(stk, reg, s) /\ \A c : c = calls[Len(calls)] => CutKnown(stk, reg, c, snaps, s)
  BY <1>4 DEF View, Running, InContext
<1>8. reg.uc \in 0 .. UCMax /\ reg.b0 \in Addr
  BY <1>4 DEF Registers
<1> HIDE DEF r
<1>9. GoalKnown(stk, r, t) /\ \A c : c = calls[Len(calls)] => CutKnown(stk, r, c, snaps, t)
  BY <1>3, <1>5, <1>7 DEF GoalKnown, CutKnown
<1> QED
  BY <1>1, <1>2, <1>3, <1>4, <1>5, <1>7, <1>8, <1>9, StraightStep DEF t, Straight, SlotOps

\* The cut point of a conjunction is that of its second goal.
LEMMA PutLevelStep ==
    ASSUME WellShaped(prog), IInv, PutLevel
    PROVE  IInv'
<1> DEFINE s == ShapeAt(reg.p)
           r == Next1([reg EXCEPT !.b0 = v(Y(I.y))])
           t == After(s, I)
<1>1. status = "run" /\ I.op = "put_level" /\ Regs(r)
  BY DEF PutLevel, Is
<1>2. Here(s)
  BY <1>1, ComesHere DEF Alternatives, Halting
<1>3. t = [s EXCEPT !.cut = "goal"]
  BY <1>1 DEF After, ValueOps, CallOps
<1> HIDE DEF t, s
<1>4. /\ Registers(reg, snaps) /\ UCMax \in Nat /\ IsShape(s) /\ StackEnd \in Nat
      /\ View(stk, reg, live, calls, ctx, snaps, s)
      /\ I.y = 2 /\ s.n = 2 /\ s.slot = <<"goal", "cut">> /\ s.a1 = "slot" /\ s.own
  BY <1>1, <1>2, Limits DEF Here, Finds, SlotOps
<1>5. /\ r.uc = reg.uc /\ r.p = reg.p + 1 /\ SameBut(reg, r, {"p", "uc", "b0", "a1"})
      /\ r.b0 = stk[reg.e + 4].v /\ r.a1 = reg.a1 /\ r.e = reg.e
  BY <1>4 DEF Registers, Next1, SameBut, v, Y
<1>6. /\ t.own = s.own /\ t.n = s.n /\ t.slot = s.slot /\ t.univ = s.univ /\ t.cut = "goal"
      /\ t.a1 = s.a1 /\ t.ext = s.ext /\ t.pushed = s.pushed
  BY <1>3, <1>4 DEF IsShape
<1>7. s.univ \in Nat /\ GoalKnown(stk, reg, s)
  BY <1>4 DEF View, Running, InContext
<1>8. \A c : c = calls[Len(calls)] =>
          Environment(stk, c, reg.e, s) /\ Levels(stk, c, reg.e, s, snaps)
  BY <1>4 DEF View, Running, AtEnv
<1>9. 2 \in 1 .. s.n /\ s.slot[2] = "cut"
  BY <1>4
<1>10. stk[reg.e + 4].v \in Addr
  BY <1>8, <1>9 DEF Environment, Slot
<1>11. reg.uc \in 0 .. UCMax
  BY <1>4 DEF Registers
<1>12. \A c : c = calls[Len(calls)] => CutPoint(snaps, c, stk[reg.e + 2].v, stk[reg.e + 4].v)
  BY <1>8, <1>9 DEF Levels
<1>13. reg.a1 = stk[reg.e + 2].v
  BY <1>4, <1>7 DEF GoalKnown
<1> HIDE DEF r
<1>14. GoalKnown(stk, r, t) /\ \A c : c = calls[Len(calls)] => CutKnown(stk, r, c, snaps, t)
  BY <1>5, <1>6, <1>7, <1>12, <1>13 DEF GoalKnown, CutKnown
<1> QED
  BY <1>1, <1>2, <1>4, <1>5, <1>6, <1>7, <1>10, <1>11, <1>14, StraightStep DEF t, Straight, SlotOps

\* The second goal of a conjunction comes back from the environment.
LEMMA PutGoalStep ==
    ASSUME WellShaped(prog), IInv, PutGoal
    PROVE  IInv'
<1> DEFINE s == ShapeAt(reg.p)
           r == Next1([reg EXCEPT !.a1 = v(Y(I.y))])
           t == After(s, I)
<1>1. status = "run" /\ I.op = "put_goal" /\ Regs(r)
  BY DEF PutGoal, Is
<1>2. Here(s)
  BY <1>1, ComesHere DEF Alternatives, Halting
<1>3. t = [s EXCEPT !.a1 = "slot"]
  BY <1>1 DEF After, ValueOps, CallOps
<1> HIDE DEF t, s
<1>4. /\ Registers(reg, snaps) /\ UCMax \in Nat /\ IsShape(s) /\ StackEnd \in Nat
      /\ View(stk, reg, live, calls, ctx, snaps, s)
      /\ I.y = 1 /\ s.n = 2 /\ s.slot = <<"goal", "cut">> /\ s.cut = "none" /\ s.own
  BY <1>1, <1>2, Limits DEF Here, Finds, SlotOps
<1>5. /\ r.uc = reg.uc /\ r.p = reg.p + 1 /\ SameBut(reg, r, {"p", "uc", "b0", "a1"})
      /\ r.b0 = reg.b0 /\ r.a1 = stk[reg.e + 2].v /\ r.e = reg.e
  BY <1>4 DEF Registers, Next1, SameBut, v, Y
<1>6. /\ t.own = s.own /\ t.n = s.n /\ t.slot = s.slot /\ t.univ = s.univ /\ t.cut = s.cut
      /\ t.a1 = "slot" /\ t.ext = s.ext /\ t.pushed = s.pushed
  BY <1>3, <1>4 DEF IsShape
<1>7. s.univ \in Nat
  BY <1>4 DEF View, Running, InContext
<1>8. \A c : c = calls[Len(calls)] => Environment(stk, c, reg.e, s)
  BY <1>4 DEF View, Running, AtEnv
<1>9. 1 \in 1 .. s.n /\ s.slot[1] = "goal"
  BY <1>4
<1>10. stk[reg.e + 2].v \in DOMAIN prog.goals
  BY <1>8, <1>9 DEF Environment, Slot
<1>11. reg.uc \in 0 .. UCMax /\ reg.b0 \in Addr
  BY <1>4 DEF Registers
<1> HIDE DEF r
<1>12. GoalKnown(stk, r, t) /\ \A c : c = calls[Len(calls)] => CutKnown(stk, r, c, snaps, t)
  BY <1>4, <1>5, <1>6, <1>9, <1>10 DEF GoalKnown, CutKnown
<1> QED
  BY <1>1, <1>2, <1>4, <1>5, <1>6, <1>7, <1>11, <1>12, StraightStep DEF t, Straight, SlotOps

-----------------------------------------------------------------------------
\* Another clause, or the next instruction of a switch.
LEMMA JumpStep ==
    ASSUME NEW s, Here(s), status = "run", NEW l, Goes(s, l), Regs([reg EXCEPT !.p = l])
    PROVE  IInv'
<1> DEFINE r == [reg EXCEPT !.p = l]
<1>1. Registers(reg, snaps) /\ View(stk, reg, live, calls, ctx, snaps, s)
  BY DEF Here
<1>2. SameBut(reg, r, {"p"}) /\ r.p = l
  BY <1>1 DEF Registers, SameBut
<1> HIDE DEF r
<1>3. /\ r.e = reg.e /\ r.cp = reg.cp /\ r.tos = reg.tos /\ r.b = reg.b /\ r.b0 = reg.b0
      /\ r.i = reg.i /\ r.ci = reg.ci /\ r.uc = reg.uc /\ r.a1 = reg.a1
  BY <1>1, <1>2, SameFields
<1>4. Registers(r, snaps)
  BY <1>1, <1>2, <1>3, GoesToCode DEF Registers, SameBut
<1>5. View(stk, r, live, calls, ctx, snaps, s)
  <2>1. \A c : c = calls[Len(calls)] => Running(stk, reg, live, c, ctx, snaps, s)
    BY <1>1 DEF View
  <2>2. \A c : c = calls[Len(calls)] => /\ InContext(r, c, ctx, s) /\ FromRecord(stk, r, c, ctx, s)
                                        /\ CutKnown(stk, r, c, snaps, s)
    BY <1>3, <2>1 DEF Running, InContext, FromRecord, CutKnown
  <2>3. GoalKnown(stk, r, s)
    BY <1>3, <2>1 DEF Running, GoalKnown
  <2> QED
    BY <1>1, <1>3, <2>2, <2>3, ViewRegs
<1> QED
  BY <1>2, <1>3, <1>4, <1>5, RegsStep DEF r

\* switch_on_reg goes on at one of its labels.
LEMMA SwitchOnRegStep ==
    ASSUME WellShaped(prog), IInv, SwitchOnReg
    PROVE  IInv'
<1>1. status = "run" /\ I.op = "switch_on_reg"
  BY DEF SwitchOnReg, Is
<1>2. Here(ShapeAt(reg.p))
  BY <1>1, ComesHere DEF Alternatives, Halting
<1>3. Goes(ShapeAt(reg.p), I.l) /\ Goes(ShapeAt(reg.p), I.k)
  BY <1>1, <1>2 DEF Here, Finds, Goes, Code
<1>4. PICK l \in {I.l, I.k} : Regs([reg EXCEPT !.p = l])
  BY DEF SwitchOnReg
<1> QED
  BY <1>1, <1>2, <1>3, <1>4, JumpStep

\* switch_on_term goes on at one of its labels.
LEMMA SwitchOnTermStep ==
    ASSUME WellShaped(prog), IInv, SwitchOnTerm
    PROVE  IInv'
<1>1. status = "run" /\ I.op = "switch_on_term"
  BY DEF SwitchOnTerm, Is
<1>2. Here(ShapeAt(reg.p))
  BY <1>1, ComesHere DEF Alternatives, Halting
<1>3. \A l \in {I.v, I.c, I.l, I.b} : Goes(ShapeAt(reg.p), l)
  BY <1>1, <1>2 DEF Here, Finds, Goes, Code
<1>4. PICK l \in {I.v, I.c, I.l, I.b} : Regs([reg EXCEPT !.p = l])
  BY DEF SwitchOnTerm
<1> QED
  BY <1>1, <1>2, <1>3, <1>4, JumpStep

\* switch_on_constant goes on at a label of its table, or fails.
LEMMA SwitchOnConstantStep ==
    ASSUME WellShaped(prog), IInv, SwitchOnConstant
    PROVE  IInv'
<1>1. status = "run" /\ I.op = "switch_on_constant"
  BY DEF SwitchOnConstant, Is
<1>2. Here(ShapeAt(reg.p))
  BY <1>1, ComesHere DEF Alternatives, Halting
<1>3. \A c \in DOMAIN I.tab : Goes(ShapeAt(reg.p), I.tab[c])
  BY <1>1, <1>2 DEF Here, Finds, Goes, Code, Switches
<1>4. CASE Fails
  BY <1>4, StillStep DEF Fails, Statuses
<1>5. CASE \E c \in DOMAIN I.tab : Regs([reg EXCEPT !.p = I.tab[c]])
  BY <1>1, <1>2, <1>3, <1>5, JumpStep
<1> QED
  BY <1>4, <1>5 DEF SwitchOnConstant
-----------------------------------------------------------------------------
\* CE is not looked at.
LEMMA WithCEIs ==
    ASSUME NEW r
    PROVE  SameBut(r, WithCE(r), {"ce"})
BY DEF WithCE, SameBut

\* What a call by name comes to: code of a record of the context.
LEMMA NamedGoes ==
    ASSUME WellShaped(prog), NEW cx, Records(stk, cx), NEW c, NEW n \in 1 .. Len(cx),
           NEW x, x = FindIP(cx[n], c), CodeAt(x, c) # 0
    PROVE  \E k \in 1 .. n : /\ x = cx[k] /\ Goes(Extended(Links(stk, cx[k])), CodeAt(x, c))
                             /\ CodeAt(x, c) # FailCode /\ Links(stk, cx[k]) \in Nat
                             /\ x \in Addr
<1>1. x # StackBeg
  BY DEF CodeAt
<1>2. PICK k \in 1 .. n : x = cx[k] /\ c \in DOMAIN Tables[stk[cx[k] + 2].v].code
  BY <1>1, FindsRecord
<1>3. k \in 1 .. Len(cx) /\ stk[cx[k] + 2].v \in DOMAIN Tables
  BY DEF Records, Record
<1>4. x \in Addr
  BY <1>2, <1>3, RecordsOrder, Limits DEF Addr, RecEnd, ImpFixSize, StackBeg
<1>5. CodeAt(x, c) = Tables[stk[cx[k] + 2].v].code[c]
  BY <1>1, <1>2 DEF CodeAt, v
<1> QED
  BY <1>2, <1>3, <1>4, <1>5, Tabled DEF Links

\* The record in CI is one of the context, and extends m predicates at least.
CIKnown(r, m) == m = 0 \/ \E k \in 1 .. Len(ctx) : r.ci = ctx[k] /\ m <= Links(stk, ctx[k])

\* A clause is entered from one that has nothing left to do.
LEMMA ViewEnters ==
    ASSUME NEW q, NEW n, NEW cs, NEW s, View(stk, q, n, cs, ctx, snaps, s), InClause(s),
           Stacked(snaps),
           NEW r, r.e = q.e, r.cp = q.cp, r.tos = q.tos, r.i = q.i, r.uc = q.uc,
           r.b0 = LastB(snaps), NEW m \in Nat, CIKnown(r, m)
    PROVE  View(stk, r, n, cs, ctx, snaps, Extended(m))
<1> DEFINE t == Extended(m)
           c == cs[Len(cs)]
<1>1. /\ ~t.own /\ t.univ = 0 /\ t.pushed = 0 /\ t.cut = "clause" /\ t.a1 = "any" /\ t.ext = m
  BY DEF Extended, Entered, Shape
<1>2. ~s.own /\ s.univ = 0 /\ s.pushed = 0
  BY DEF InClause
<1> HIDE DEF t
<1>3. /\ Running(stk, q, n, c, ctx, snaps, s) /\ c.floor \in Points(snaps)
      /\ Len(c.ctx) \in Nat /\ Len(ctx) \in Nat
  BY CallerIs DEF Called
<1> HIDE DEF c
<1>4. InContext(r, c, ctx, t)
  BY <1>1, <1>2, <1>3 DEF Running, InContext
<1>5. Len(ctx) = Len(c.ctx)
  BY <1>2, <1>3 DEF Running, InContext
<1>6. FromRecord(stk, r, c, ctx, t)
  BY <1>1, <1>5 DEF FromRecord, CIKnown
<1>7. CutKnown(stk, r, c, snaps, t)
  BY <1>1, <1>3, PointsAre DEF CutKnown
<1>8. GoalKnown(stk, r, t)
  BY <1>1 DEF GoalKnown
<1>9. \A d : d = cs[Len(cs)] => /\ InContext(r, d, ctx, t) /\ FromRecord(stk, r, d, ctx, t)
                                /\ CutKnown(stk, r, d, snaps, t)
  BY <1>4, <1>6, <1>7 DEF c
<1>10. View(stk, r, n, cs, ctx, snaps, t)
  BY ONLY View(stk, q, n, cs, ctx, snaps, s), r.e = q.e, r.cp = q.cp, r.tos = q.tos,
          <1>1, <1>2, <1>8, <1>9, ViewRegs
<1> QED
  BY <1>10 DEF t

\* The same, without a call.
LEMMA EnterStep ==
    ASSUME NEW s, Here(s), status = "run", InClause(s), NEW r, Regs(r),
           SameBut(reg, r, {"p", "b0", "ci", "ce"}), r.b0 = reg.b, r.ci \in Addr,
           NEW m \in Nat, CIKnown(r, m), Goes(Extended(m), r.p)
    PROVE  IInv'
<1>1. Registers(reg, snaps) /\ View(stk, reg, live, calls, ctx, snaps, s) /\ Stacked(snaps)
  BY DEF Here
<1>2. /\ r.e = reg.e /\ r.cp = reg.cp /\ r.tos = reg.tos /\ r.b = reg.b
      /\ r.i = reg.i /\ r.uc = reg.uc /\ r.a1 = reg.a1
  BY <1>1, SameFields
<1>3. Registers(r, snaps)
  BY <1>1, <1>2, GoesToCode DEF Registers, SameBut
<1>4. r.b0 = LastB(snaps)
  BY <1>1 DEF Registers
<1>5. View(stk, r, live, calls, ctx, snaps, Extended(m))
  BY <1>1, <1>2, <1>4, ViewEnters
<1> QED
  BY <1>2, <1>3, <1>5, RegsStep

\* The last call of a clause, with its label.
LEMMA ExecuteStep ==
    ASSUME WellShaped(prog), IInv, Execute
    PROVE  IInv'
<1> DEFINE s == ShapeAt(reg.p)
           r == [reg EXCEPT !.b0 = reg.b, !.p = I.l]
<1>1. status = "run" /\ I.op = "execute" /\ Regs(r)
  BY DEF Execute, Is
<1>2. Here(s)
  BY <1>1, ComesHere DEF Alternatives, Halting
<1>3. InClause(s) /\ Goes(Entered, I.l)
  BY <1>1, <1>2 DEF Here, Finds, Goes, Code, Leaving
<1>4. Extended(0) = Entered
  BY DEF Extended, Entered, Shape
<1>5. SameBut(reg, r, {"p", "b0", "ci", "ce"}) /\ r.b0 = reg.b /\ r.ci \in Addr /\ r.p = I.l
  BY <1>2 DEF Here, Registers, SameBut
<1> HIDE DEF r, s
<1>6. CIKnown(r, 0)
  BY DEF CIKnown
<1> QED
  BY <1>1, <1>2, <1>3, <1>4, <1>5, <1>6, EnterStep

\* The registers at the code for c in the context of r.
LEMMA EnterIs ==
    ASSUME NEW r, NEW ps, Registers(r, ps), NEW c, NEW q, q = Enter(r, c)
    PROVE  /\ SameBut(r, q, {"p", "b0", "ci", "ce"}) /\ q.b0 = r.b
           /\ q.ci = FindIP(r.i, c) /\ q.p = CodeAt(FindIP(r.i, c), c)
<1> DEFINE x == [r EXCEPT !.b0 = r.b, !.p = CodeAt(FindIP(r.i, c), c), !.ci = FindIP(r.i, c)]
<1>1. /\ SameBut(r, x, {"p", "b0", "ci", "ce"}) /\ x.b0 = r.b
      /\ x.ci = FindIP(r.i, c) /\ x.p = CodeAt(FindIP(r.i, c), c)
      /\ DOMAIN x = {"tos", "e", "b", "b0", "i", "ci", "ce", "uc", "p", "cp", "a1"}
  BY DEF Registers, SameBut
<1>2. q = WithCE(x)
  BY DEF Enter
<1> HIDE DEF x
<1>3. SameBut(x, q, {"ce"})
  BY <1>2, WithCEIs
<1> QED
  BY <1>1, <1>3 DEF SameBut

\* The last call of a clause, with the predicate's name.
LEMMA ExecuteNameStep ==
    ASSUME WellShaped(prog), IInv, ExecuteName
    PROVE  IInv'
<1> DEFINE s == ShapeAt(reg.p)
           r == Enter(reg, I.c)
           x == FindIP(reg.i, I.c)
<1>1. status = "run" /\ I.op = "execute_name"
  BY DEF ExecuteName, Is
<1>2. Here(s)
  BY <1>1, ComesHere DEF Alternatives, Halting
<1>3. InClause(s)
  BY <1>1, <1>2 DEF Here, Finds, Leaving
<1>4. CASE Fails
  BY <1>4, StillStep DEF Fails, Statuses
<1>5. CASE HasCode(I.c) /\ Regs(r)
  <2>1. SameBut(reg, r, {"p", "b0", "ci", "ce"}) /\ r.b0 = reg.b /\ r.ci = x /\ r.p = CodeAt(x, I.c)
    BY <1>2, EnterIs DEF Here
  <2>2. Records(stk, ctx) /\ reg.i = ctx[Len(ctx)] /\ Len(ctx) \in 1 .. Len(ctx)
    <3>1. View(stk, reg, live, calls, ctx, snaps, s)
      BY <1>2 DEF Here
    <3>2. Len(ctx) \in Nat /\ 1 <= Len(ctx)
      BY <3>1, CallerIs
    <3> QED
      BY <3>1, <3>2 DEF View, Running, InContext
  <2>3. CodeAt(x, I.c) # 0
    BY <1>5 DEF HasCode
  <2>4. PICK k \in 1 .. Len(ctx) :
           /\ x = ctx[k] /\ Goes(Extended(Links(stk, ctx[k])), CodeAt(x, I.c))
           /\ Links(stk, ctx[k]) \in Nat /\ x \in Addr
    BY <2>2, <2>3, NamedGoes
  <2> DEFINE m == Links(stk, ctx[k])
  <2>5. m \in Nat /\ m <= Links(stk, ctx[k]) /\ Goes(Extended(m), r.p) /\ r.ci = ctx[k] /\ r.ci \in Addr
    BY <2>1, <2>4
  <2>a. CIKnown(r, m)
    BY <2>5 DEF CIKnown
  <2> HIDE DEF m, r, s
  <2> QED
    BY <1>1, <1>2, <1>3, <1>5, <2>1, <2>5, <2>a, EnterStep
<1> QED
  BY <1>4, <1>5 DEF ExecuteName

-----------------------------------------------------------------------------
\* What the instruction after a call may rely upon.
LEMMA ReturnShape ==
    ASSUME NEW s, Here(s), I.op \in CallOps, NEW u, u = ShapeAt(reg.p + 1)
    PROVE  /\ reg.p + 1 \in DOMAIN Code /\ ReturnsTo(u, reg.p + 1) /\ s.own
           /\ u.n \in 0 .. s.n /\ \A y \in 1 .. u.n : u.slot[y] = s.slot[y]
           /\ u.univ = s.univ /\ u.pushed = s.pushed
<1>1. Goes(After(s, I), reg.p + 1)
  BY NextGoes DEF Straight
<1>2. s.own /\ I.n \in 0 .. s.n
  BY DEF Here, Finds
<1> DEFINE t == After(s, I)
<1>3. t = [Trimmed(s, I.n) EXCEPT !.cut = "none", !.a1 = "any", !.ext = 0]
  BY DEF After, ValueOps, CallOps
<1>4. IsShape(s) /\ Registers(reg, snaps)
  BY DEF Here
<1>5. /\ t.own = s.own /\ t.n = I.n /\ t.slot = [y \in 1 .. I.n |-> s.slot[y]] /\ t.cut = "none"
      /\ t.a1 = "any" /\ t.ext = 0 /\ t.univ = s.univ /\ t.pushed = s.pushed
  BY <1>3, <1>4 DEF IsShape, Trimmed
<1>6. reg.p \in 1 .. Len(Code) /\ Len(Code) \in Nat
  BY <1>4, Limits DEF Registers, Here
<1>7. reg.p + 1 # FailCode
  BY <1>6 DEF FailCode
<1> HIDE DEF t
<1>8. Fits(t, u) /\ reg.p + 1 \in DOMAIN Code /\ Code[reg.p + 1].op \notin Alternatives
  BY <1>1, <1>7 DEF Goes, LeadsTo, ShapeAt, t
<1>9. u.own = s.own /\ u.n = I.n /\ u.slot = t.slot /\ u.univ = s.univ /\ u.pushed = s.pushed
  BY <1>5, <1>8 DEF Fits
<1>10. u.cut = "none" /\ u.a1 = "any"
  BY <1>5, <1>8 DEF Fits
<1>11. u.ext = 0
  <2>1. u.ext \in 0 .. 0
    BY <1>5, <1>8 DEF Fits
  <2> QED
    BY <2>1
<1>12. CallI1(reg.p + 1) = I.n
  <2>1. (reg.p + 1) - 1 = reg.p
    BY <1>6
  <2> QED
    BY <2>1 DEF CallI1, I
<1>13. I.n \in Nat
  BY <1>2, <1>4 DEF IsShape
<1>14. ReturnsTo(u, reg.p + 1)
  BY <1>2, <1>8, <1>9, <1>10, <1>11, <1>12, <1>13 DEF ReturnsTo
<1>15. \A y \in 1 .. u.n : u.slot[y] = s.slot[y]
  BY ONLY <1>5, <1>9
<1> QED
  BY <1>2, <1>8, <1>9, <1>14, <1>15

\* A call by label or by name.
LEMMA CallStep ==
    ASSUME NEW s, Here(s), status = "run", I.op \in {"call", "call_name"},
           NEW r, SameBut(reg, r, {"p", "b0", "ci", "ce", "cp"}), r.b0 = reg.b, r.ci \in Addr,
           r.cp = reg.p + 1, NEW m \in Nat, CIKnown(r, m), Goes(Extended(m), r.p),
           reg' = r, Calling(r)
    PROVE  IInv'
<1> DEFINE c == calls[Len(calls)]
           d == Caller(r)
           u == ShapeAt(reg.p + 1)
           t == Extended(m)
<1>1. /\ Registers(reg, snaps) /\ View(stk, reg, live, calls, ctx, snaps, s) /\ Stacked(snaps)
      /\ Memory(stk, trail, snaps) /\ Loaded /\ WellShaped(prog)
  BY DEF Here
<1>2. /\ r.e = reg.e /\ r.tos = reg.tos /\ r.b = reg.b
      /\ r.i = reg.i /\ r.uc = reg.uc /\ r.a1 = reg.a1
  BY <1>1, SameFields
<1>3. /\ reg.p + 1 \in DOMAIN Code /\ ReturnsTo(u, reg.p + 1) /\ s.own
      /\ u.n \in 0 .. s.n /\ (\A y \in 1 .. u.n : u.slot[y] = s.slot[y])
      /\ u.univ = s.univ /\ u.pushed = s.pushed
  BY ReturnShape DEF CallOps
<1>4. /\ Running(stk, reg, live, c, ctx, snaps, s) /\ Called(c, ctx, snaps) /\ c.floor \in Nat
      /\ Len(c.ctx) \in Nat /\ Len(ctx) \in Nat
  BY <1>1, CallerIs
<1>5. /\ d.ret = reg.p + 1 /\ d.e = reg.e /\ d.i = reg.i /\ d.uc = reg.uc /\ d.ctx = ctx
      /\ d.floor = LastB(snaps)
  <2>1. r.b0 \in ChoicePoints
    BY <1>1, PointsAre DEF Registers, ChoicePoints, Points
  <2> QED
    BY <1>1, <1>2, <2>1 DEF Caller, Floor, Registers
<1>6. /\ ~t.own /\ t.univ = 0 /\ t.pushed = 0 /\ t.cut = "clause" /\ t.a1 = "any" /\ t.ext = m
  BY DEF Extended, Entered, Shape
<1> HIDE DEF c, d, u, t
<1>7. d.floor \in Points(snaps) /\ d.floor \in Nat /\ c.floor <= d.floor
  BY <1>1, <1>4, <1>5, PointsAre DEF Called
<1>8. Spared(stk, c, d, u)
  <2> SUFFICES ASSUME NEW y \in 1 .. u.n, NEW b, b = stk[d.e + 2 * y].v
               PROVE  /\ u.slot[y] = "level" => b <= d.floor
                      /\ u.slot[y] = "cut" =>
                            b <= d.floor \/ (stk[d.e + 2].v \notin Cutters /\ c.floor = FstCP)
    BY DEF Spared
  <2>1. y \in 1 .. s.n /\ s.slot[y] = u.slot[y]
    <3>1. IsShape(s)
      BY DEF Here
    <3>2. s.n \in Nat /\ u.n \in Nat /\ u.n <= s.n
      BY <3>1, <1>3 DEF IsShape
    <3> QED
      BY <3>2, <1>3
  <2>2. Levels(stk, c, reg.e, s, snaps)
    BY <1>3, <1>4 DEF Running, AtEnv
  <2>3. s.slot[y] = "level" => b \in Points(snaps)
    BY <2>1, <2>2, <1>5 DEF Levels
  <2>4. s.slot[y] = "cut" => CutPoint(snaps, c, stk[reg.e + 2].v, b)
    BY <2>1, <2>2, <1>5 DEF Levels
  <2>5. b \in Points(snaps) => b <= d.floor
    BY <1>1, <1>5, PointsAre
  <2> QED
    BY <2>1, <2>3, <2>4, <2>5, <1>5 DEF CutPoint
<1>9. FromRecord(stk, r, d, ctx, t) /\ CutKnown(stk, r, d, snaps, t) /\ GoalKnown(stk, r, t)
  <2>1. FromRecord(stk, r, d, ctx, t)
    BY <1>5, <1>6 DEF FromRecord, CIKnown
  <2>2. r.b0 = d.floor
    BY <1>1, <1>5 DEF Registers
  <2>3. CutKnown(stk, r, d, snaps, t)
    BY <1>6, <1>7, <2>2 DEF CutKnown
  <2> QED
    BY <2>1, <2>3, <1>6 DEF GoalKnown
<1>10. View(stk, r, LiveAt(r.e, r.cp), Append(calls, d), ctx, snaps, t)
  <2>1. \A e : e = calls[Len(calls)] => e = c
    BY DEF c
  <2>2. c = calls[Len(calls)] /\ u = ShapeAt(d.ret)
    BY <1>5 DEF c, u
  <2> QED
    BY ONLY <1>1, <1>2, <1>3, <1>5, <1>6, <1>7, <1>8, <1>9, <2>2, r.cp = reg.p + 1, ViewCalls
<1>11. Registers(r, snaps)
  BY <1>1, <1>2, <1>3, <1>6, GoesToCode DEF Registers, SameBut
<1>12. /\ stk' = stk /\ trail' = trail /\ prog' = prog /\ status' = "run" /\ snaps' = snaps /\ ctx' = ctx
       /\ calls' = Append(calls, d) /\ live' = LiveAt(r.e, r.cp)
  BY DEF Calling, d
<1>13. live' \in Nat
  BY <1>10, <1>12 DEF View, Running, AtEnv
<1>14. Memory(stk', trail', snaps') /\ Registers(reg', snaps') /\ View(stk', reg', live', calls', ctx', snaps', t)
  BY <1>1, <1>10, <1>11, <1>12
<1>15. Goes(t, reg'.p)
  BY DEF t
<1>16. Heir(Frames(reg'.e, live', calls'), ctx', snaps')
  <2>1. Heir(Frames(reg.e, LiveAt(reg.e, d.ret), Append(calls, d)), ctx, snaps)
    <3>1. Heir(Frames(reg.e, live, calls), ctx, snaps)
      BY DEF Here
    <3> QED
      BY <3>1, <1>1, <1>3, <1>5, HeirCalls
  <2> QED
    BY <2>1, <1>2, <1>5, <1>12
<1> QED
  BY ONLY <1>1, <1>12, <1>13, <1>14, <1>15, <1>16, LiveStep

\* A call with the label of the predicate's code.
LEMMA CallLabelStep ==
    ASSUME WellShaped(prog), IInv, CallLabel
    PROVE  IInv'
<1> DEFINE s == ShapeAt(reg.p)
           r == [reg EXCEPT !.cp = reg.p + 1, !.ce = reg.e, !.b0 = reg.b, !.p = I.l]
<1>1. status = "run" /\ I.op = "call" /\ reg' = r /\ Calling(r)
  BY DEF CallLabel, Is
<1>2. Here(s)
  BY <1>1, ComesHere DEF Alternatives, Halting
<1>3. Goes(Entered, I.l)
  BY <1>1, <1>2 DEF Here, Finds, Goes, Code
<1>4. Extended(0) = Entered
  BY DEF Extended, Entered, Shape
<1>5. /\ SameBut(reg, r, {"p", "b0", "ci", "ce", "cp"}) /\ r.b0 = reg.b /\ r.ci \in Addr
      /\ r.p = I.l /\ r.cp = reg.p + 1
  BY <1>2 DEF Here, Registers, SameBut
<1> HIDE DEF r, s
<1>6. CIKnown(r, 0)
  BY DEF CIKnown
<1> QED
  BY <1>1, <1>2, <1>3, <1>4, <1>5, <1>6, CallStep

\* A call with the predicate's name.
LEMMA CallNameStep ==
    ASSUME WellShaped(prog), IInv, CallName
    PROVE  IInv'
<1> DEFINE s == ShapeAt(reg.p)
           q == [reg EXCEPT !.cp = reg.p + 1]
           r == Enter(q, I.c)
           x == FindIP(reg.i, I.c)
<1>1. status = "run" /\ I.op = "call_name"
  BY DEF CallName, Is
<1>2. Here(s)
  BY <1>1, ComesHere DEF Alternatives, Halting
<1>3. CASE Fails
  BY <1>3, StillStep DEF Fails, Statuses
<1>4. CASE HasCode(I.c) /\ reg' = r /\ Calling(r)
  <2>0. Registers(reg, snaps) /\ reg.p + 1 \in DOMAIN Code
    BY <1>1, <1>2, ReturnShape DEF Here, CallOps
  <2>1. SameBut(reg, q, {"cp"}) /\ q.cp = reg.p + 1 /\ Registers(q, snaps) /\ q.i = reg.i /\ q.b = reg.b
    BY <2>0 DEF Registers, SameBut
  <2> HIDE DEF q
  <2>2. SameBut(q, r, {"p", "b0", "ci", "ce"}) /\ r.b0 = reg.b /\ r.ci = x /\ r.p = CodeAt(x, I.c)
    BY <2>1, EnterIs
  <2> HIDE DEF r
  <2>3. SameBut(reg, r, {"p", "b0", "ci", "ce", "cp"}) /\ r.cp = reg.p + 1
    BY <2>0, <2>1, <2>2, SameFields DEF SameBut
  <2>4. Records(stk, ctx) /\ reg.i = ctx[Len(ctx)] /\ Len(ctx) \in 1 .. Len(ctx)
    <3>1. View(stk, reg, live, calls, ctx, snaps, s)
      BY <1>2 DEF Here
    <3>2. Len(ctx) \in Nat /\ 1 <= Len(ctx)
      BY <3>1, CallerIs
    <3> QED
      BY <3>1, <3>2 DEF View, Running, InContext
  <2>5. CodeAt(x, I.c) # 0
    BY <1>4 DEF HasCode
  <2>6. PICK k \in 1 .. Len(ctx) :
           /\ x = ctx[k] /\ Goes(Extended(Links(stk, ctx[k])), CodeAt(x, I.c))
           /\ Links(stk, ctx[k]) \in Nat /\ x \in Addr
    BY <2>4, <2>5, NamedGoes
  <2> DEFINE m == Links(stk, ctx[k])
  <2>7. m \in Nat /\ m <= Links(stk, ctx[k]) /\ Goes(Extended(m), r.p) /\ r.ci = ctx[k] /\ r.ci \in Addr
    BY <2>2, <2>6
  <2>8. CIKnown(r, m)
    BY <2>7 DEF CIKnown
  <2> HIDE DEF m, s
  <2> QED
    BY <1>1, <1>2, <1>4, <2>2, <2>3, <2>7, <2>8, CallStep
<1> QED
  BY <1>3, <1>4 DEF CallName

-----------------------------------------------------------------------------
\* The machine may go on at an address in a view of the shape there.
LEMMA GoesAsIs ==
    ASSUME NEW l \in DOMAIN Code, Code[l].op \notin Alternatives, ShapeAt(l).ext \in Nat
    PROVE  Goes(ShapeAt(l), l)
BY DEF Goes, LeadsTo, Fits, ShapeAt

\* The record of the clause that an environment belongs to.
LEMMA CallerRecord ==
    ASSUME NEW m, NEW r, NEW n, NEW cs, NEW cx, NEW ps, NEW s, View(m, r, n, cs, cx, ps, s),
           ~s.own, r.e # StackBeg
    PROVE  m[r.e - 2].v \in Addr
<1>1. /\ Calls(m, cs, cx, ps) /\ Running(m, r, n, cs[Len(cs)], cx, ps, s)
      /\ Len(cs) \in Nat \ {0}
  BY CallerIs DEF View
<1>2. r.e = cs[Len(cs)].e
  BY <1>1 DEF Running, AtEnv
<1>3. Len(cs) # 1
  BY <1>1, <1>2 DEF Calls
<1>4. Len(cs) \in 2 .. Len(cs)
  BY <1>1, <1>3, AtLeastTwo
<1> QED
  BY <1>1, <1>2, <1>4 DEF Calls, Suspended, Environment

\* A clause that is a success returns, or the query has a result.
LEMMA ProceedStep ==
    ASSUME WellShaped(prog), IInv, Proceed
    PROVE  IInv'
<1> DEFINE s == ShapeAt(reg.p)
           q == [reg EXCEPT !.ci = envCI]
           r == WithCE(Return(q))
           t == ShapeAt(reg.cp)
<1>1. status = "run" /\ I.op = "proceed"
  BY DEF Proceed, Is
<1>2. Here(s)
  BY <1>1, ComesHere DEF Alternatives, Halting
<1>3. InClause(s)
  BY <1>1, <1>2 DEF Here, Finds, Leaving
<1>4. CASE noEnv
  <2>1. status' = "result" /\ UNCHANGED <<reg, stk, trail, prog, hist>>
    BY <1>4 DEF Proceed
  <2>2. InUse
    BY <1>2 DEF Here, InUse
  <2> QED
    BY <2>1, <2>2, StillStep DEF Statuses
<1>5. CASE ~noEnv
  <2>1. reg' = r /\ Returning /\ status' = "run"
    BY <1>1, <1>5 DEF Proceed
  <2>2. reg.e # StackBeg
    BY <1>5 DEF noEnv
  <2> HIDE DEF s
  <2>3. /\ Registers(reg, snaps) /\ View(stk, reg, live, calls, ctx, snaps, s) /\ Stacked(snaps)
        /\ Memory(stk, trail, snaps) /\ Loaded
    BY <1>2 DEF Here
  <2>4. stk[reg.e - 2].v \in Addr
    BY <1>3, <2>2, <2>3, CallerRecord DEF InClause
  <2>5. SameBut(reg, Return(q), {"ci", "p"}) /\ Return(q).ci = stk[reg.e - 2].v /\ Return(q).p = reg.cp
    BY <2>3 DEF Registers, SameBut, Return, envCI, v
  <2>6. SameBut(Return(q), r, {"ce"})
    BY WithCEIs
  <2>7. SameBut(reg, r, {"ci", "p", "ce"}) /\ r.ci = stk[reg.e - 2].v /\ r.p = reg.cp
    BY <2>3, <2>5, <2>6 DEF Registers, SameBut
  <2> HIDE DEF r, q
  <2>8. /\ r.e = reg.e /\ r.cp = reg.cp /\ r.tos = reg.tos /\ r.b = reg.b /\ r.b0 = reg.b0
        /\ r.i = reg.i /\ r.uc = reg.uc /\ r.a1 = reg.a1
    BY <2>3, <2>7, SameFields
  <2>9. /\ Len(calls) > 1 /\ Len(calls) \in Nat
        /\ reg.cp \in DOMAIN Code /\ Code[reg.cp].op \notin Alternatives
        /\ View(stk, r, LiveAt(reg.e, reg.cp), Init1(calls), ctx, snaps, t)
    BY ONLY WellShaped(prog), <1>3, <2>2, <2>3, <2>8, ViewReturns
  <2> HIDE DEF t
  <2>10. Registers(r, snaps)
    BY <2>3, <2>4, <2>7, <2>8, <2>9 DEF Registers, SameBut
  <2>11. Goes(t, r.p)
    <3>1. t.ext \in Nat
      BY <2>9 DEF View, Running, FromRecord
    <3> QED
      BY <3>1, <2>7, <2>9, GoesAsIs DEF t
  <2>12. /\ stk' = stk /\ trail' = trail /\ prog' = prog /\ snaps' = snaps /\ ctx' = ctx
         /\ calls' = Init1(calls) /\ live' = LiveAt(reg.e, reg.cp)
    BY <2>1, <2>9 DEF Returning, Popped
  <2>13. live' \in Nat
    BY <2>9, <2>12 DEF View, Running, AtEnv
  <2>14. Memory(stk', trail', snaps') /\ Registers(reg', snaps') /\ View(stk', reg', live', calls', ctx', snaps', t)
    BY <2>1, <2>3, <2>9, <2>10, <2>12
  <2>15. Goes(t, reg'.p)
    BY <2>1, <2>11
  <2>16. Heir(Frames(reg'.e, live', calls'), ctx', snaps')
    <3>1. Heir(Frames(reg.e, live, calls), ctx, snaps)
      BY <1>2 DEF Here
    <3>2. Heir(Frames(reg.e, LiveAt(reg.e, reg.cp), Init1(calls)), ctx, snaps)
      BY <1>3, <2>2, <2>3, <3>1, HeirReturns
    <3> QED
      BY <3>2, <2>1, <2>8, <2>12
  <2> QED
    BY ONLY WellShaped(prog), <2>1, <2>3, <2>12, <2>13, <2>14, <2>15, <2>16, LiveStep
<1> QED
  BY <1>4, <1>5
-----------------------------------------------------------------------------
\* The fixed code is as it is written.
LEMMA FixedGoes ==
    ASSUME WellShaped(prog), NEW q \in 1 .. Len(Boot), IsFixed(q), Boot[q].op \notin Alternatives,
           BootShape(q).ext \in Nat
    PROVE  Goes(BootShape(q), q)
<1>1. q \in DOMAIN Code /\ Code[q] = Boot[q] /\ ShapeAt(q) = BootShape(q)
  BY Limits
<1> QED
  BY <1>1, GoesAsIs

\* The fixed code segments and their shapes.
LEMMA FixedCode ==
    ASSUME WellShaped(prog)
    PROVE  /\ Goes(Solving, SolveCode) /\ Goes(Returned, StopCode) /\ Goes(Returned, ProceedCode)
           /\ Goes(BootShape(NotCode1), NotCode1)
           /\ {AndCode, AllCode, OrCode, NotCode2, SolveCode, StopCode, ProceedCode, NotCode1} \subseteq DOMAIN Code
           /\ ShapeAt(AndCode) = Shape(TRUE, <<"goal", "cut">>, 0, "none", "any")
           /\ ShapeAt(AllCode) = Shape(TRUE, <<>>, 1, "none", "any")
           /\ ShapeAt(OrCode) = Solving /\ ShapeAt(NotCode2) = Returned
           /\ Code[AndCode].op \notin Alternatives /\ Code[AllCode].op \notin Alternatives
           /\ Code[OrCode].op \in Alternatives /\ Code[NotCode2].op \in Alternatives
           /\ CallI1(AndCode) = 2 /\ CallI1(AllCode) = 0
<1>1. Len(Boot) = 22
  BY DEF Boot
<1>2. /\ Boot[2] = OpN("call", 2) /\ Boot[3] = OpY("put_goal", 1) /\ Boot[6] = Op("solve")
      /\ Boot[7] = Op("proceed") /\ Boot[8] = OpN("trust_me", 1) /\ Boot[10] = OpN("call", 0)
      /\ Boot[11] = Op("decr_universe") /\ Boot[14] = Op("stop") /\ Boot[15] = OpN("trust_me", 0)
      /\ Boot[17] = OpN("allocate", 2)
  BY DEF Boot
<1>3. \A q \in {2, 3, 6, 7, 8, 10, 11, 14, 15, 17} :
         q \in DOMAIN Code /\ Code[q] = Boot[q] /\ (IsFixed(q) => ShapeAt(q) = BootShape(q))
  <2>1. \A q \in 1 .. Len(Boot) :
           q \in DOMAIN Code /\ Code[q] = Boot[q] /\ (IsFixed(q) => ShapeAt(q) = BootShape(q))
    BY Limits
  <2> HIDE DEF Boot
  <2>2. \A q \in {2, 3, 6, 7, 8, 10, 11, 14, 15, 17} : q \in 1 .. Len(Boot)
    BY <1>1
  <2> QED
    BY ONLY <2>1, <2>2
<1>4. \A q \in {3, 6, 7, 8, 11, 14, 15, 17} : IsFixed(q)
  BY DEF IsFixed, AndCode, SolveCode, ProceedCode, OrCode, AllCode, StopCode, NotCode2, NotCode1
<1>5. /\ BootShape(3) = Shape(TRUE, <<"goal", "cut">>, 0, "none", "any")
      /\ BootShape(6) = Solving /\ BootShape(7) = Returned /\ BootShape(8) = Solving
      /\ BootShape(11) = Shape(TRUE, <<>>, 1, "none", "any")
      /\ BootShape(14) = Returned /\ BootShape(15) = Returned
      /\ BootShape(17) = Shape(FALSE, <<>>, 0, "clause", "goal")
  BY DEF BootShape, AndCode, SolveCode, ProceedCode, OrCode, AllCode, StopCode, NotCode2, NotCode1
<1>6. Solving.ext = 0 /\ Returned.ext = 0 /\ BootShape(17).ext = 0
  BY <1>5 DEF Solving, Returned, Shape
<1>7. Goes(Solving, 6) /\ Goes(Returned, 14) /\ Goes(Returned, 7) /\ Goes(BootShape(17), 17)
  <2>1. \A q \in {6, 7, 14, 17} : q \in 1 .. Len(Boot) /\ IsFixed(q) /\ BootShape(q).ext \in Nat
    BY <1>1, <1>4, <1>5, <1>6
  <2>2. \A q \in {6, 7, 14, 17} : Boot[q].op \notin Alternatives
    BY <1>2 DEF Op, OpN, Alternatives
  <2>3. \A q \in {6, 7, 14, 17} : Goes(BootShape(q), q)
    BY ONLY WellShaped(prog), <2>1, <2>2, FixedGoes
  <2> QED
    BY <2>3, <1>5
<1>8. /\ Code[3].op \notin Alternatives /\ Code[11].op \notin Alternatives
      /\ Code[8].op \in Alternatives /\ Code[15].op \in Alternatives
  BY <1>2, <1>3 DEF Op, OpN, OpY, Alternatives
<1>9. CallI1(3) = 2 /\ CallI1(11) = 0
  BY <1>2, <1>3 DEF CallI1, OpN
<1> QED
  BY <1>3, <1>4, <1>5, <1>7, <1>8, <1>9
     DEF AndCode, SolveCode, ProceedCode, OrCode, AllCode, StopCode, NotCode2, NotCode1

-----------------------------------------------------------------------------
\* A goal is solved for the clause that calls solve, or for that clause's
\* caller.
LEMMA SolvesFor ==
    ASSUME NEW s, Here(s), I.op = "solve", NEW r, r = SolveReg
    PROVE  /\ View(stk, r, LiveAt(r.e, r.cp), SolveCalls, ctx, snaps, Solving)
           /\ SameBut(reg, r, {"p", "cp", "ci", "ce"}) /\ r.ci \in Addr /\ r.cp \in DOMAIN Code
           /\ Heir(Frames(r.e, LiveAt(r.e, r.cp), SolveCalls), ctx, snaps)
<1> DEFINE c == calls[Len(calls)]
           t == Solving
<1>1. /\ Registers(reg, snaps) /\ View(stk, reg, live, calls, ctx, snaps, s)
  BY DEF Here
<1>2. InClause(s) /\ s.cut = "goal" /\ s.a1 = "goal"
  BY DEF Here, Finds, Leaving
<1>3. ~s.own /\ s.univ = 0 /\ s.pushed = 0
  BY <1>2 DEF InClause
<1>4. SameBut(reg, r, {"p", "ci", "ce"}) /\ r.ci \in Addr
  <2>1. CASE noEnv
    <3>1. r = Next1(reg)
      BY <2>1 DEF SolveReg
    <3> QED
      BY <3>1, <1>1 DEF Registers, SameBut, Next1
  <2>2. CASE ~noEnv
    <3> DEFINE q == [Next1(reg) EXCEPT !.ci = envCI]
    <3>1. r = WithCE(q)
      BY <2>2 DEF SolveReg
    <3>2. SameBut(reg, q, {"p", "ci"}) /\ q.ci = stk[reg.e - 2].v
      BY <1>1 DEF Registers, SameBut, Next1, envCI, v
    <3>3. stk[reg.e - 2].v \in Addr
      BY <1>1, <1>3, <2>2, CallerRecord DEF noEnv
    <3> HIDE DEF q
    <3>4. SameBut(q, r, {"ce"})
      BY <3>1, WithCEIs
    <3> QED
      BY <1>1, <3>2, <3>3, <3>4 DEF Registers, SameBut
  <2> QED
    BY <2>1, <2>2
<1>5. /\ r.e = reg.e /\ r.cp = reg.cp /\ r.tos = reg.tos /\ r.b = reg.b /\ r.b0 = reg.b0
      /\ r.i = reg.i /\ r.uc = reg.uc /\ r.a1 = reg.a1
  BY <1>1, <1>4, SameFields
<1>6. SolveCalls = calls
  BY DEF SolveCalls
<1>7. /\ ~t.own /\ t.univ = 0 /\ t.pushed = 0 /\ t.cut = "goal" /\ t.a1 = "goal" /\ t.ext = 0
  BY DEF Solving, Shape
<1> HIDE DEF t
<1>8. Running(stk, reg, live, c, ctx, snaps, s)
  BY <1>1 DEF View
<1>9. live = LiveAt(r.e, r.cp)
  BY <1>3, <1>5, <1>8 DEF Running, AtEnv
<1> HIDE DEF c
<1>10. InContext(r, c, ctx, t) /\ FromRecord(stk, r, c, ctx, t)
  BY <1>3, <1>5, <1>7, <1>8 DEF Running, InContext, FromRecord
<1>11. CutKnown(stk, r, c, snaps, t) /\ GoalKnown(stk, r, t)
  BY <1>2, <1>5, <1>7, <1>8 DEF Running, CutKnown, GoalKnown
<1>12. \A d : d = calls[Len(calls)] => /\ InContext(r, d, ctx, t) /\ FromRecord(stk, r, d, ctx, t)
                                       /\ CutKnown(stk, r, d, snaps, t)
  BY <1>10, <1>11 DEF c
<1>13. View(stk, r, live, calls, ctx, snaps, t)
  BY ONLY <1>1, <1>3, <1>5, <1>7, <1>11, <1>12, ViewRegs
<1>14. SameBut(reg, r, {"p", "cp", "ci", "ce"}) /\ r.cp \in DOMAIN Code
  BY <1>1, <1>4, <1>5 DEF SameBut, Registers
<1>15. Heir(Frames(r.e, LiveAt(r.e, r.cp), SolveCalls), ctx, snaps)
  BY <1>5, <1>6, <1>9 DEF Here
<1> QED
  BY <1>4, <1>6, <1>9, <1>13, <1>14, <1>15 DEF t

\* call_solve leaves solve with a call of its own.
LEMMA SolveCalled ==
    ASSUME NEW s, Here(s), I.op = "call_solve", NEW r, r = SolveReg
    PROVE  /\ View(stk, r, LiveAt(r.e, r.cp), SolveCalls, ctx, snaps, Solving)
           /\ SameBut(reg, r, {"p", "cp", "ci", "ce"}) /\ r.ci \in Addr /\ r.cp \in DOMAIN Code
           /\ Heir(Frames(r.e, LiveAt(r.e, r.cp), SolveCalls), ctx, snaps)
<1> DEFINE c == calls[Len(calls)]
           d == Caller(r)
           u == ShapeAt(reg.p + 1)
           t == Solving
<1>1. /\ Registers(reg, snaps) /\ View(stk, reg, live, calls, ctx, snaps, s) /\ Stacked(snaps)
      /\ WellShaped(prog) /\ IsShape(s)
  BY DEF Here
<1>2. /\ s.cut = "clause" /\ s.a1 = "goal"
      /\ \A y \in 1 .. s.n : s.slot[y] # "cut"
  BY DEF Here, Finds, CallOps
<1>3. /\ reg.p + 1 \in DOMAIN Code /\ ReturnsTo(u, reg.p + 1) /\ s.own
      /\ u.n \in 0 .. s.n /\ (\A y \in 1 .. u.n : u.slot[y] = s.slot[y])
      /\ u.univ = s.univ /\ u.pushed = s.pushed
  BY ReturnShape DEF CallOps
<1>4. SameBut(reg, r, {"p", "cp"}) /\ r.cp = reg.p + 1
  <2>1. r = [Next1(reg) EXCEPT !.cp = reg.p + 1]
    BY DEF SolveReg
  <2> QED
    BY <2>1, <1>1 DEF Registers, SameBut, Next1
<1>5. /\ r.e = reg.e /\ r.tos = reg.tos /\ r.b = reg.b /\ r.b0 = reg.b0
      /\ r.i = reg.i /\ r.ci = reg.ci /\ r.uc = reg.uc /\ r.a1 = reg.a1
  BY <1>1, <1>4, SameFields
<1>6. SolveCalls = Append(calls, d)
  BY DEF SolveCalls
<1>7. /\ ~t.own /\ t.univ = 0 /\ t.pushed = 0 /\ t.cut = "goal" /\ t.a1 = "goal" /\ t.ext = 0
  BY DEF Solving, Shape
<1> HIDE DEF t
<1>8. /\ Running(stk, reg, live, c, ctx, snaps, s) /\ Called(c, ctx, snaps) /\ c.floor \in Nat
  BY <1>1, CallerIs
<1>9. /\ reg.b0 \in Points(snaps) /\ c.floor <= reg.b0 /\ reg.b0 \in Nat
      /\ \A y \in 1 .. s.n : s.slot[y] = "level" => stk[reg.e + 2 * y].v = reg.b0
  BY <1>1, <1>2, <1>3, <1>8, PointsAre DEF Running, CutKnown
<1>10. /\ d.ret = reg.p + 1 /\ d.e = reg.e /\ d.i = reg.i /\ d.uc = reg.uc /\ d.ctx = ctx
       /\ d.floor = reg.b0
  BY <1>4, <1>5, <1>9 DEF Caller, Floor, ChoicePoints, Points
<1> HIDE DEF c, d, u
<1>11. Spared(stk, c, d, u)
  <2> SUFFICES ASSUME NEW y \in 1 .. u.n, NEW b, b = stk[d.e + 2 * y].v
               PROVE  u.slot[y] # "cut" /\ (u.slot[y] = "level" => b <= d.floor)
    BY DEF Spared
  <2>1. y \in 1 .. s.n /\ s.slot[y] = u.slot[y]
    <3>1. s.n \in Nat /\ u.n \in Nat /\ u.n <= s.n
      BY <1>1, <1>3 DEF IsShape
    <3> QED
      BY <3>1, <1>3
  <2> QED
    BY <2>1, <1>2, <1>9, <1>10
<1>12. FromRecord(stk, r, d, ctx, t) /\ CutKnown(stk, r, d, snaps, t) /\ GoalKnown(stk, r, t)
  <2>1. reg.a1 \in DOMAIN prog.goals
    BY <1>2, <1>8 DEF Running, GoalKnown
  <2>2. CutPoint(snaps, d, r.a1, r.b0)
    BY <1>5, <1>9, <1>10 DEF CutPoint
  <2> QED
    BY <2>1, <2>2, <1>5, <1>7 DEF FromRecord, CutKnown, GoalKnown
<1>13. View(stk, r, LiveAt(r.e, r.cp), Append(calls, d), ctx, snaps, t)
  <2>1. c = calls[Len(calls)] /\ u = ShapeAt(d.ret)
    BY <1>10 DEF c, u
  <2>2. d.floor \in Points(snaps) /\ d.floor \in Nat /\ c.floor <= d.floor
    BY <1>9, <1>10
  <2> QED
    BY ONLY <1>1, <1>3, <1>4, <1>5, <1>7, <1>10, <1>11, <1>12, <2>1, <2>2, ViewCalls
<1>14. SameBut(reg, r, {"p", "cp", "ci", "ce"}) /\ r.ci \in Addr /\ r.cp \in DOMAIN Code
  BY <1>1, <1>3, <1>4, <1>5 DEF SameBut, Registers
<1>15. Heir(Frames(r.e, LiveAt(r.e, r.cp), SolveCalls), ctx, snaps)
  <2>1. Memory(stk, trail, snaps) /\ Heir(Frames(reg.e, live, calls), ctx, snaps)
    BY DEF Here
  <2>2. Heir(Frames(reg.e, LiveAt(reg.e, d.ret), Append(calls, d)), ctx, snaps)
    BY <2>1, <1>1, <1>3, <1>10, HeirCalls
  <2> QED
    BY <2>2, <1>4, <1>5, <1>6, <1>10
<1> QED
  BY <1>6, <1>13, <1>14, <1>15 DEF t

\* Whichever way solve is come to.
SolvesAt(r) ==
    /\ View(stk, r, LiveAt(r.e, r.cp), SolveCalls, ctx, snaps, Solving)
    /\ Heir(Frames(r.e, LiveAt(r.e, r.cp), SolveCalls), ctx, snaps)
    /\ Registers([r EXCEPT !.p = SolveCode], snaps)
    /\ r.b0 = reg.b0 /\ r.a1 = reg.a1 /\ r.b = reg.b /\ r.tos = reg.tos /\ r.i = reg.i
    /\ r.uc = reg.uc /\ r.e = reg.e
    /\ reg.a1 \in DOMAIN prog.goals /\ GoalShaped(prog.goals, reg.a1)
    /\ WellShaped(prog) /\ Memory(stk, trail, snaps) /\ Stacked(snaps) /\ Loaded
    /\ Registers(reg, snaps) /\ status = "run"

\* Whichever way solve is come to, its goal is in a1.
LEMMA ComesToSolve ==
    ASSUME WellShaped(prog), IInv, NEW kind, Solves(kind)
    PROVE  SolvesAt(SolveReg) /\ Goal.kind = kind
<1> DEFINE s == ShapeAt(reg.p)
           r == SolveReg
<1>1. status = "run" /\ I.op \in {"solve", "call_solve"} /\ Goal.kind = kind
  BY DEF Solves, Is
<1>2. Here(s)
  BY <1>1, ComesHere DEF Alternatives, Halting
<1>3. /\ View(stk, r, LiveAt(r.e, r.cp), SolveCalls, ctx, snaps, Solving)
      /\ SameBut(reg, r, {"p", "cp", "ci", "ce"}) /\ r.ci \in Addr /\ r.cp \in DOMAIN Code
      /\ Heir(Frames(r.e, LiveAt(r.e, r.cp), SolveCalls), ctx, snaps)
  BY <1>1, <1>2, SolvesFor, SolveCalled
<1>4. /\ Registers(reg, snaps) /\ Stacked(snaps) /\ Memory(stk, trail, snaps) /\ Loaded
  BY <1>2 DEF Here
<1> HIDE DEF r, s
<1>5. /\ r.e = reg.e /\ r.tos = reg.tos /\ r.b = reg.b /\ r.b0 = reg.b0
      /\ r.i = reg.i /\ r.uc = reg.uc /\ r.a1 = reg.a1
  BY <1>3, <1>4, SameFields
<1>6. Registers([r EXCEPT !.p = SolveCode], snaps)
  BY <1>3, <1>4, <1>5, FixedCode DEF Registers, SameBut
<1>7. reg.a1 \in DOMAIN prog.goals
  <2>1. GoalKnown(stk, r, Solving)
    BY <1>3 DEF View, Running
  <2> QED
    BY <2>1, <1>5 DEF GoalKnown, Solving, Shape
<1>8. GoalShaped(prog.goals, reg.a1)
  BY <1>7 DEF WellShaped
<1> QED
  BY <1>1, <1>3, <1>4, <1>5, <1>6, <1>7, <1>8 DEF SolvesAt, r

\* A goal that is dealt with in the registers and the calls alone.
LEMMA SolveRuns ==
    ASSUME NEW q, SolvesAt(q), NEW r, NEW cs, SolveStep(r, cs), NEW ps, snaps' = ps,
           Memory(stk, trail, ps), Registers(r, ps),
           NEW t, View(stk, r, LiveAt(r.e, r.cp), cs, ctx, ps, t), Goes(t, r.p),
           Heir(Frames(r.e, LiveAt(r.e, r.cp), cs), ctx, ps)
    PROVE  IInv'
<1>1. /\ reg' = r /\ calls' = cs /\ live' = LiveAt(r.e, r.cp) /\ stk' = stk /\ trail' = trail
      /\ prog' = prog /\ status' = "run" /\ ctx' = ctx /\ snaps' = ps
  BY DEF SolveStep, SolvesAt
<1>2. WellShaped(prog) /\ Loaded
  BY DEF SolvesAt
<1>3. live' \in Nat
  BY <1>1 DEF View, Running, AtEnv
<1>4. Memory(stk', trail', snaps') /\ Registers(reg', snaps') /\ View(stk', reg', live', calls', ctx', snaps', t)
  BY <1>1
<1>5. Goes(t, reg'.p) /\ Heir(Frames(reg'.e, live', calls'), ctx', snaps')
  BY <1>1
<1> QED
  BY ONLY <1>1, <1>2, <1>3, <1>4, <1>5, LiveStep

\* Which goals have a cut, no query has.
LEMMA CuttersAre ==
    ASSUME WellShaped(prog)
    PROVE  Cutting(prog.goals, Cutters) /\ Cutters \cap prog.queries = {}
<1>1. \E K \in SUBSET DOMAIN prog.goals : Cutting(prog.goals, K) /\ K \cap prog.queries = {}
  BY DEF WellShaped
<1> QED
  BY <1>1 DEF Cutters, CutGoalsOf

\* A part of the goal may cut back to where the goal may.
LEMMA CutPointOfPart ==
    ASSUME WellShaped(prog), NEW g \in DOMAIN prog.goals, NEW h,
           \/ prog.goals[g].kind = "and" /\ h \in {prog.goals[g].l, prog.goals[g].r}
           \/ prog.goals[g].kind = "or" /\ h = prog.goals[g].r
           \/ prog.goals[g].kind \in {"some", "all"} /\ h = prog.goals[g].l,
           NEW ps, NEW c, NEW b, CutPoint(ps, c, g, b)
    PROVE  CutPoint(ps, c, h, b)
<1>1. h \in Cutters => g \in Cutters
  BY CuttersAre DEF Cutting
<1> QED
  BY <1>1 DEF CutPoint

\* The goal becomes another one.
LEMMA ViewSolves ==
    ASSUME NEW m, NEW q, NEW n, NEW cs, NEW cx, NEW ps, View(m, q, n, cs, cx, ps, Solving),
           NEW r, r.e = q.e, r.cp = q.cp, r.tos = q.tos, r.i = q.i, r.uc = q.uc,
           r.a1 \in DOMAIN prog.goals,
           \A c : c = cs[Len(cs)] => CutPoint(ps, c, r.a1, r.b0)
    PROVE  View(m, r, n, cs, cx, ps, Solving)
<1> DEFINE t == Solving
<1>1. /\ ~t.own /\ t.univ = 0 /\ t.pushed = 0 /\ t.cut = "goal" /\ t.a1 = "goal" /\ t.ext = 0
  BY DEF Solving, Shape
<1> HIDE DEF t
<1>2. \A c : c = cs[Len(cs)] => Running(m, q, n, c, cx, ps, t)
  BY DEF View, t
<1>3. \A c : c = cs[Len(cs)] => /\ InContext(r, c, cx, t) /\ FromRecord(m, r, c, cx, t)
                                /\ CutKnown(m, r, c, ps, t)
  BY <1>1, <1>2 DEF Running, InContext, FromRecord, CutKnown
<1>4. GoalKnown(m, r, t)
  BY <1>1 DEF GoalKnown
<1>5. View(m, q, n, cs, cx, ps, t)
  BY DEF t
<1>6. View(m, r, n, cs, cx, ps, t)
  BY ONLY <1>1, <1>3, <1>4, <1>5, r.e = q.e, r.cp = q.cp, r.tos = q.tos, ViewRegs
<1> QED
  BY <1>6 DEF t

\* The cut point of the goal that is solved.
LEMMA SolvedCut ==
    ASSUME NEW m, NEW q, NEW n, NEW cs, NEW cx, NEW ps, View(m, q, n, cs, cx, ps, Solving)
    PROVE  \A c : c = cs[Len(cs)] => CutPoint(ps, c, q.a1, q.b0)
BY DEF View, Running, CutKnown, Solving, Shape

\* An existential goal: solve goes on with its body.
LEMMA SolveSomeStep ==
    ASSUME WellShaped(prog), IInv, SolveSome
    PROVE  IInv'
<1> DEFINE q == SolveReg
           r == [SolveReg EXCEPT !.a1 = Goal.l, !.p = SolveCode]
<1>1. Solves("some") /\ SolveStep(r, SolveCalls) /\ snaps' = snaps
  BY DEF SolveSome
<1>2. SolvesAt(q) /\ Goal.kind = "some"
  BY <1>1, ComesToSolve
<1>3. /\ r.e = q.e /\ r.cp = q.cp /\ r.tos = q.tos /\ r.i = q.i /\ r.uc = q.uc /\ r.b0 = q.b0
      /\ r.a1 = Goal.l /\ r.p = SolveCode /\ Registers(r, snaps)
  BY <1>2 DEF SolvesAt, Registers
<1> HIDE DEF r, q
<1>4. Goal.l \in DOMAIN prog.goals
  BY <1>2 DEF SolvesAt, GoalShaped, Goal
<1>5. \A c : c = SolveCalls[Len(SolveCalls)] => CutPoint(snaps, c, r.a1, r.b0)
  <2>1. \A c : c = SolveCalls[Len(SolveCalls)] => CutPoint(snaps, c, q.a1, q.b0)
    BY <1>2, SolvedCut DEF SolvesAt
  <2>2. q.a1 = reg.a1 /\ reg.a1 \in DOMAIN prog.goals
    BY <1>2 DEF SolvesAt
  <2> QED
    BY <2>1, <2>2, <1>2, <1>3, CutPointOfPart DEF Goal
<1>6. View(stk, r, LiveAt(q.e, q.cp), SolveCalls, ctx, snaps, Solving)
  BY <1>2, <1>3, <1>4, <1>5, ViewSolves DEF SolvesAt
<1>7. Goes(Solving, r.p)
  BY <1>3, FixedCode
<1>8. Memory(stk, trail, snaps) /\ LiveAt(q.e, q.cp) = LiveAt(r.e, r.cp)
  BY <1>2, <1>3 DEF SolvesAt
<1>9. Heir(Frames(r.e, LiveAt(r.e, r.cp), SolveCalls), ctx, snaps)
  BY <1>2, <1>3 DEF SolvesAt
<1> QED
  BY <1>1, <1>2, <1>3, <1>6, <1>7, <1>8, <1>9, SolveRuns

\* The goal stop: on to the fixed code for it.
LEMMA SolveStopStep ==
    ASSUME WellShaped(prog), IInv, SolveStop
    PROVE  IInv'
<1> DEFINE q == SolveReg
           r == [SolveReg EXCEPT !.p = StopCode]
<1>1. Solves("stop") /\ SolveStep(r, SolveCalls) /\ snaps' = snaps
  BY DEF SolveStop
<1>2. SolvesAt(q)
  BY <1>1, ComesToSolve
<1>3. /\ r.e = q.e /\ r.cp = q.cp /\ r.tos = q.tos /\ r.i = q.i /\ r.uc = q.uc /\ r.b0 = q.b0
      /\ r.a1 = reg.a1 /\ r.p = StopCode /\ Registers(r, snaps)
  BY <1>2, FixedCode DEF SolvesAt, Registers
<1> HIDE DEF r, q
<1>4. \A c : c = SolveCalls[Len(SolveCalls)] => CutPoint(snaps, c, r.a1, r.b0)
  BY <1>2, <1>3, SolvedCut DEF SolvesAt
<1>5. View(stk, r, LiveAt(q.e, q.cp), SolveCalls, ctx, snaps, Solving)
  BY <1>2, <1>3, <1>4, ViewSolves DEF SolvesAt
<1>6. Fits(Solving, Returned)
  BY DEF Fits, Solving, Returned, Shape
<1>7. View(stk, r, LiveAt(q.e, q.cp), SolveCalls, ctx, snaps, Returned)
  BY ONLY WellShaped(prog), <1>5, <1>6, ViewFits
<1>8. Memory(stk, trail, snaps) /\ LiveAt(q.e, q.cp) = LiveAt(r.e, r.cp) /\ Goes(Returned, r.p)
  BY <1>2, <1>3, FixedCode DEF SolvesAt
<1>9. Heir(Frames(r.e, LiveAt(r.e, r.cp), SolveCalls), ctx, snaps)
  BY <1>2, <1>3 DEF SolvesAt
<1> QED
  BY <1>1, <1>2, <1>3, <1>7, <1>8, <1>9, SolveRuns

\* An atomic goal: its predicate is entered, or it fails.
LEMMA SolveAtomStep ==
    ASSUME WellShaped(prog), IInv, SolveAtom
    PROVE  IInv'
<1> DEFINE q == SolveReg
           r == Enter(SolveReg, Goal.c)
           x == FindIP(reg.i, Goal.c)
<1>1. Solves("atom")
  BY DEF SolveAtom
<1>2. SolvesAt(q)
  BY <1>1, ComesToSolve
<1>3. CASE Fails
  BY <1>3, StillStep DEF Fails, Statuses
<1>4. CASE HasCode(Goal.c) /\ SolveStep(r, SolveCalls) /\ snaps' = snaps
  <2> DEFINE q0 == [q EXCEPT !.p = SolveCode]
  <2>1. /\ Registers(q0, snaps) /\ q.i = reg.i
        /\ View(stk, q, LiveAt(q.e, q.cp), SolveCalls, ctx, snaps, Solving)
        /\ Stacked(snaps) /\ Memory(stk, trail, snaps) /\ q.b = reg.b /\ Registers(reg, snaps)
    BY <1>2 DEF SolvesAt
  <2>2. DOMAIN q = {"tos", "e", "b", "b0", "i", "ci", "ce", "uc", "p", "cp", "a1"}
    BY <2>1 DEF Registers
  <2>3. /\ SameBut(q, r, {"p", "b0", "ci", "ce"}) /\ r.b0 = q.b
        /\ r.ci = x /\ r.p = CodeAt(x, Goal.c)
    <3> DEFINE y == [q EXCEPT !.b0 = q.b, !.p = CodeAt(FindIP(q.i, Goal.c), Goal.c),
                              !.ci = FindIP(q.i, Goal.c)]
    <3>1. /\ SameBut(q, y, {"p", "b0", "ci", "ce"}) /\ y.b0 = q.b
          /\ y.ci = FindIP(q.i, Goal.c) /\ y.p = CodeAt(FindIP(q.i, Goal.c), Goal.c)
          /\ DOMAIN y = {"tos", "e", "b", "b0", "i", "ci", "ce", "uc", "p", "cp", "a1"}
      BY <2>2 DEF SameBut
    <3>2. r = WithCE(y)
      BY DEF Enter
    <3> HIDE DEF y, q, r
    <3>3. SameBut(y, r, {"ce"})
      BY <3>2, WithCEIs
    <3> QED
      BY <2>1, <3>1, <3>3 DEF SameBut
  <2>4. SameBut(q0, r, {"p", "b0", "ci", "ce"})
    BY <2>2, <2>3 DEF SameBut
  <2>5. q0.e = q.e /\ q0.cp = q.cp /\ q0.tos = q.tos /\ q0.i = q.i /\ q0.uc = q.uc /\ q0.a1 = q.a1 /\ q0.b = q.b
    BY <2>2
  <2> HIDE DEF r, q, q0
  <2>6. r.e = q.e /\ r.cp = q.cp /\ r.tos = q.tos /\ r.i = q.i /\ r.uc = q.uc /\ r.a1 = q.a1 /\ r.b = q.b
    BY <2>1, <2>4, <2>5, SameFields
  <2>7. Records(stk, ctx) /\ reg.i = ctx[Len(ctx)] /\ Len(ctx) \in 1 .. Len(ctx)
    <3>1. Len(ctx) \in Nat /\ 1 <= Len(ctx)
      BY <2>1, CallerIs
    <3> QED
      BY <2>1, <3>1 DEF View, Running, InContext
  <2>8. CodeAt(x, Goal.c) # 0
    BY <1>4 DEF HasCode
  <2>9. PICK k \in 1 .. Len(ctx) :
           /\ x = ctx[k] /\ Goes(Extended(Links(stk, ctx[k])), CodeAt(x, Goal.c))
           /\ Links(stk, ctx[k]) \in Nat /\ x \in Addr
    BY <2>7, <2>8, NamedGoes
  <2> DEFINE m == Links(stk, ctx[k])
  <2>10. m \in Nat /\ m <= Links(stk, ctx[k]) /\ Goes(Extended(m), r.p) /\ r.ci = ctx[k] /\ r.ci \in Addr
    BY <2>3, <2>9
  <2>11. CIKnown(r, m)
    BY <2>10 DEF CIKnown
  <2> HIDE DEF m
  <2>12. r.b0 = LastB(snaps)
    BY <2>1, <2>3 DEF Registers
  <2>13. InClause(Solving)
    BY DEF InClause, Solving, Shape
  <2>14. View(stk, r, LiveAt(q.e, q.cp), SolveCalls, ctx, snaps, Extended(m))
    BY <2>1, <2>6, <2>10, <2>11, <2>12, <2>13, ViewEnters
  <2>15. Registers(r, snaps)
    BY <2>1, <2>3, <2>4, <2>5, <2>6, <2>10, GoesToCode DEF Registers, SameBut
  <2>16. LiveAt(q.e, q.cp) = LiveAt(r.e, r.cp)
    BY <2>6
  <2>17. Heir(Frames(r.e, LiveAt(r.e, r.cp), SolveCalls), ctx, snaps)
    BY <1>2, <2>6 DEF SolvesAt
  <2> QED
    BY <1>2, <1>4, <2>1, <2>10, <2>14, <2>15, <2>16, <2>17, SolveRuns
<1> QED
  BY <1>3, <1>4 DEF SolveAtom

\* A goal that is done returns to the caller, if there is one to return to.
LEMMA ViewIsDone ==
    ASSUME WellShaped(prog), NEW m, NEW q, NEW cs, NEW cx, NEW ps,
           View(m, q, LiveAt(q.e, q.cp), cs, cx, ps, Returned),
           NEW r, r.e = q.e, r.cp = q.cp, r.tos = q.tos, r.i = q.i, r.uc = q.uc,
           NEW ds, ds = IF Len(cs) > 1 THEN Init1(cs) ELSE cs
    PROVE  \E t : View(m, r, LiveAt(q.e, q.cp), ds, cx, ps, t) /\ Goes(t, q.cp)
<1> DEFINE t == Returned
<1>1. ~t.own /\ t.univ = 0 /\ t.pushed = 0 /\ t.cut = "none" /\ t.a1 = "any" /\ t.ext = 0
  BY DEF Returned, Shape
<1>2. InClause(t) /\ View(m, q, LiveAt(q.e, q.cp), cs, cx, ps, t)
  BY <1>1 DEF InClause
<1> HIDE DEF t
<1>3. CASE q.e # StackBeg
  <2>1. /\ Len(cs) > 1
        /\ q.cp \in DOMAIN Code /\ Code[q.cp].op \notin Alternatives
        /\ View(m, r, LiveAt(q.e, q.cp), Init1(cs), cx, ps, ShapeAt(q.cp))
    BY ONLY WellShaped(prog), <1>2, <1>3, r.e = q.e, r.tos = q.tos, r.i = q.i, r.uc = q.uc, ViewReturns
  <2>2. ShapeAt(q.cp).ext \in Nat
    BY <2>1 DEF View, Running, FromRecord
  <2>3. Goes(ShapeAt(q.cp), q.cp)
    BY <2>1, <2>2, GoesAsIs
  <2> QED
    BY <2>1, <2>3
<1>4. CASE q.e = StackBeg
  <2>1. Calls(m, cs, cx, ps) /\ \A c : c = cs[Len(cs)] => Running(m, q, LiveAt(q.e, q.cp), c, cx, ps, t)
    BY <1>2 DEF View
  <2>2. Len(cs) = 1
    <3>1. PICK n : n = LiveAt(q.e, q.cp)
      OBVIOUS
    <3>2. Running(m, q, n, cs[Len(cs)], cx, ps, t)
      BY <2>1, <3>1
    <3> QED
      BY ONLY <1>4, <2>1, <3>2, OutermostCall
  <2>3. q.cp = ProceedCode
    BY <1>1, <2>1, <2>2 DEF Calls, Running, AtEnv
  <2>4. \A c : c = cs[Len(cs)] => /\ InContext(r, c, cx, t) /\ FromRecord(m, r, c, cx, t)
                                  /\ CutKnown(m, r, c, ps, t)
    BY <1>1, <2>1 DEF Running, InContext, FromRecord, CutKnown
  <2>5. GoalKnown(m, r, t)
    BY <1>1 DEF GoalKnown
  <2>6. View(m, r, LiveAt(q.e, q.cp), cs, cx, ps, t)
    BY ONLY <1>1, <1>2, <2>4, <2>5, r.e = q.e, r.cp = q.cp, r.tos = q.tos, ViewRegs
  <2>7. Goes(t, q.cp)
    BY <2>3, FixedCode DEF t
  <2> QED
    BY <2>2, <2>6, <2>7
<1> QED
  BY <1>3, <1>4

\* Then it has the environments of the caller.
LEMMA HeirIsDone ==
    ASSUME NEW m, NEW tr, NEW q, NEW cs, NEW cx, NEW ps,
           View(m, q, LiveAt(q.e, q.cp), cs, cx, ps, Returned), Memory(m, tr, ps),
           Heir(Frames(q.e, LiveAt(q.e, q.cp), cs), cx, ps),
           NEW ds, ds = IF Len(cs) > 1 THEN Init1(cs) ELSE cs
    PROVE  Heir(Frames(q.e, LiveAt(q.e, q.cp), ds), cx, ps)
<1>1. CASE q.e = StackBeg
  <2>1. Len(cs) = 1
    <3>1. PICK n : n = LiveAt(q.e, q.cp)
      OBVIOUS
    <3>2. Calls(m, cs, cx, ps) /\ Running(m, q, n, cs[Len(cs)], cx, ps, Returned)
      BY <3>1 DEF View
    <3> QED
      BY ONLY <1>1, <3>2, OutermostCall
  <2> QED
    BY <2>1
<1>2. CASE q.e # StackBeg /\ Len(cs) > 1
  <2>1. InClause(Returned)
    BY DEF InClause, Returned, Shape
  <2> QED
    BY <1>2, <2>1, HeirReturns
<1>3. CASE ~(Len(cs) > 1)
  BY <1>3
<1> QED
  BY <1>1, <1>2, <1>3

\* The goal true returns.
LEMMA SolveTrueStep ==
    ASSUME WellShaped(prog), IInv, SolveTrue
    PROVE  IInv'
<1> DEFINE q == SolveReg
           r == Return(SolveReg)
<1>1. Solves("true") /\ SolveStep(r, SolvePops) /\ snaps' = snaps
  BY DEF SolveTrue
<1>2. SolvesAt(q)
  BY <1>1, ComesToSolve
<1>3. /\ r.e = q.e /\ r.cp = q.cp /\ r.tos = q.tos /\ r.i = q.i /\ r.uc = q.uc /\ r.b0 = q.b0
      /\ r.p = q.cp /\ Registers(r, snaps)
  BY <1>2 DEF SolvesAt, Registers, Return
<1> HIDE DEF r, q
<1>4. Fits(Solving, Returned)
  BY DEF Fits, Solving, Returned, Shape
<1>5. View(stk, q, LiveAt(q.e, q.cp), SolveCalls, ctx, snaps, Solving)
  BY <1>2 DEF SolvesAt
<1>6. View(stk, q, LiveAt(q.e, q.cp), SolveCalls, ctx, snaps, Returned)
  BY ONLY WellShaped(prog), <1>4, <1>5, ViewFits
<1>7. SolvePops = IF Len(SolveCalls) > 1 THEN Init1(SolveCalls) ELSE SolveCalls
  BY DEF SolvePops
<1>8. PICK t : View(stk, r, LiveAt(q.e, q.cp), SolvePops, ctx, snaps, t) /\ Goes(t, q.cp)
  BY ONLY WellShaped(prog), <1>3, <1>6, <1>7, ViewIsDone
<1>9. Memory(stk, trail, snaps) /\ LiveAt(q.e, q.cp) = LiveAt(r.e, r.cp)
  BY <1>2, <1>3 DEF SolvesAt
<1>10. Heir(Frames(q.e, LiveAt(q.e, q.cp), SolvePops), ctx, snaps)
  <2>1. Heir(Frames(q.e, LiveAt(q.e, q.cp), SolveCalls), ctx, snaps)
    BY <1>2 DEF SolvesAt
  <2> QED
    BY ONLY <1>6, <1>7, <1>9, <2>1, HeirIsDone
<1>11. Heir(Frames(r.e, LiveAt(r.e, r.cp), SolvePops), ctx, snaps)
  BY <1>3, <1>10
<1> QED
  BY <1>1, <1>2, <1>3, <1>8, <1>9, <1>11, SolveRuns

\* The goal fail, or one that is nothing solve knows.
LEMMA SolveFailStep ==
    ASSUME WellShaped(prog), IInv, SolveFail
    PROVE  IInv'
BY StillStep DEF SolveFail, Fails, Statuses
-----------------------------------------------------------------------------
\* What a cut to b leaves of the choice points.
LEMMA CutsTo ==
    ASSUME Memory(stk, trail, snaps), NEW b \in Points(snaps), NEW ps, ps = UpTo(b)
    PROVE  /\ \E n \in 0 .. Len(snaps) : ps = SubSeq(snaps, 1, n) /\ Len(ps) = n
                                         /\ \A k \in 1 .. n : ps[k] = snaps[k]
           /\ LastB(ps) = b /\ IsSeq(ps) /\ Len(ps) \in Nat
           /\ \A a \in Points(snaps) : a <= b => a \in Points(ps)
<1> DEFINE n == CHOOSE k \in 0 .. Len(snaps) : /\ \A j \in 1 .. k : snaps[j].b <= b
                                               /\ k = Len(snaps) \/ snaps[k + 1].b > b
<1>1. ps = SubSeq(snaps, 1, n)
  BY DEF UpTo
<1>2. /\ n \in 0 .. Len(snaps) /\ LastB(SubSeq(snaps, 1, n)) = b
      /\ \A a \in Points(snaps) : a <= b => a \in Points(SubSeq(snaps, 1, n))
  BY PrefixTo
<1> HIDE DEF n
<1>3. IsSeq(snaps)
  BY DEF Memory
<1>4. IsSeq(ps) /\ Len(ps) = n /\ \A i \in 1 .. n : ps[i] = snaps[i]
  BY <1>1, <1>2, <1>3, PrefixIs
<1>5. Len(ps) \in Nat
  BY <1>2, <1>3, <1>4, SeqIs
<1> QED
  BY <1>1, <1>2, <1>4, <1>5

\* The goal cut drops the choice points above its cut point, and returns.
LEMMA SolveCutStep ==
    ASSUME WellShaped(prog), IInv, SolveCut
    PROVE  IInv'
<1> DEFINE q == SolveReg
           r == [Return(SolveReg) EXCEPT !.b = reg.b0]
           ps == UpTo(reg.b0)
           b == reg.b0
           n == LiveAt(q.e, q.cp)
           t == Returned
           c == SolveCalls[Len(SolveCalls)]
<1>1. Solves("cut") /\ SolveStep(r, SolvePops) /\ snaps' = ps
  BY DEF SolveCut
<1>2. SolvesAt(q) /\ Goal.kind = "cut"
  BY <1>1, ComesToSolve
<1>3. /\ View(stk, q, n, SolveCalls, ctx, snaps, Solving) /\ Memory(stk, trail, snaps)
      /\ Stacked(snaps) /\ q.b0 = b /\ q.a1 = reg.a1 /\ reg.a1 \in DOMAIN prog.goals
      /\ Registers([q EXCEPT !.p = SolveCode], snaps) /\ Registers(reg, snaps) /\ Loaded
  BY <1>2 DEF SolvesAt
<1>4. /\ r.e = q.e /\ r.cp = q.cp /\ r.tos = q.tos /\ r.i = q.i /\ r.uc = q.uc /\ r.b0 = q.b0
      /\ r.p = q.cp /\ r.b = b /\ r.a1 = q.a1 /\ r.ci = q.ci
      /\ DOMAIN r = {"tos", "e", "b", "b0", "i", "ci", "ce", "uc", "p", "cp", "a1"}
  BY <1>3 DEF Registers, Return
<1> HIDE DEF r, q
<1>5. reg.a1 \in Cutters
  BY <1>2, <1>3, CuttersAre DEF Cutting, Goal
<1>6. b \in Points(snaps) /\ c.floor <= b
  BY <1>3, <1>5, SolvedCut DEF CutPoint
<1>7. /\ LastB(ps) = b /\ IsSeq(ps) /\ Len(ps) \in Nat
      /\ \A a \in Points(snaps) : a <= b => a \in Points(ps)
  BY <1>3, <1>6, CutsTo
<1>8. PICK k \in 0 .. Len(snaps) : /\ ps = SubSeq(snaps, 1, k) /\ Len(ps) = k
                                   /\ \A j \in 1 .. k : ps[j] = snaps[j]
  BY <1>3, <1>6, CutsTo
<1> HIDE DEF ps, n
<1>9. Memory(stk, trail, ps)
  BY <1>3, <1>8, MemoryDrops
<1>10. /\ ~t.own /\ t.univ = 0 /\ t.pushed = 0 /\ t.cut = "none" /\ t.a1 = "any" /\ t.ext = 0
  BY DEF Returned, Shape
<1>11. View(stk, q, n, SolveCalls, ctx, snaps, t)
  <2>1. Fits(Solving, Returned)
    BY DEF Fits, Solving, Returned, Shape
  <2> QED
    BY ONLY WellShaped(prog), <2>1, <1>3, ViewFits
<1> HIDE DEF t
<1>12. Layout(stk, Frames(r.e, n, SolveCalls), r.tos, ctx, ps)
  <2> DEFINE fs == Frames(r.e, n, SolveCalls)
             tos == r.tos
  <2>1. Layout(stk, fs, tos, ctx, snaps) /\ Len(ctx) \in Nat /\ Len(snaps) \in Nat
    BY <1>3, <1>4, PointsAre, CallerIs DEF View
  <2> HIDE DEF fs, tos
  <2>2. /\ tos \in Addr /\ (\A f \in fs : Beside(f, tos, tos))
        /\ (\A i \in 1 .. Len(ctx) : RecEnd(ctx[i]) <= tos)
        /\ \A j \in 1 .. Len(snaps) : snaps[j].b < tos
    BY <2>1 DEF Layout
  <2>3. Len(ps) \in 0 .. Len(snaps) /\ (\A j \in 1 .. Len(ps) : ps[j] = snaps[j])
        /\ \A j \in 1 .. Len(ps) : ps[j].b < tos
    BY <1>8, <2>1, <2>2
  <2>4. Len(ctx) \in 0 .. Len(ctx) /\ \A j \in 1 .. Len(ctx) : ctx[j] = ctx[j]
    BY <2>1
  <2>5. Layout(stk, fs, tos, ctx, ps)
    BY ONLY <2>1, <2>2, <2>3, <2>4, LayoutPops
  <2> QED
    BY <2>5 DEF fs, tos
<1>13. View(stk, r, n, SolveCalls, ctx, ps, t)
  <2>1. c.floor \in Nat /\ c = SolveCalls[Len(SolveCalls)]
    BY <1>3, CallerIs
  <2> HIDE DEF c
  <2>2. \A a \in Points(snaps) : a <= c.floor => a \in Points(ps)
    <3>1. Points(snaps) \subseteq Nat
      BY <1>3, PointsAre
    <3> QED
      BY <3>1, <2>1, <1>6, <1>7
  <2>3. CutKnown(stk, r, c, ps, t)
    BY <1>10 DEF CutKnown
  <2> QED
    BY ONLY <1>3, <1>4, <1>10, <1>11, <1>12, <2>1, <2>2, <2>3, ViewCuts
<1>14. SolvePops = IF Len(SolveCalls) > 1 THEN Init1(SolveCalls) ELSE SolveCalls
  BY DEF SolvePops
<1>15. View(stk, r, LiveAt(r.e, r.cp), SolveCalls, ctx, ps, Returned)
  BY <1>4, <1>13 DEF n, t
<1>16. PICK u : View(stk, r, LiveAt(r.e, r.cp), SolvePops, ctx, ps, u) /\ Goes(u, r.cp)
  BY ONLY WellShaped(prog), <1>14, <1>15, ViewIsDone
<1>17. Registers(r, ps)
  <2>1. b <= LastB(snaps) /\ LastB(snaps) \in Nat /\ b \in Nat
    BY <1>3, <1>6, PointsAre
  <2>2. LastB(snaps) < q.tos /\ q.tos \in Nat
    BY <1>3, Limits DEF Registers, Addr, StackBeg
  <2> QED
    BY <1>3, <1>4, <1>7, <2>1, <2>2 DEF Registers
<1>18. Goes(u, r.p)
  BY <1>4, <1>16
<1>19. Heir(Frames(r.e, LiveAt(r.e, r.cp), SolvePops), ctx, ps)
  <2>1. Heir(Frames(r.e, LiveAt(r.e, r.cp), SolveCalls), ctx, snaps)
    BY <1>2, <1>4 DEF SolvesAt
  <2>2. Len(snaps) \in Nat /\ Len(ps) \in Nat /\ Len(ps) <= Len(snaps)
    BY <1>3, <1>7, <1>8, PointsAre
  <2>3. Heir(Frames(r.e, LiveAt(r.e, r.cp), SolveCalls), ctx, ps)
    BY <1>8, <2>1, <2>2, HeirCuts
  <2> QED
    BY ONLY <1>9, <1>14, <1>15, <2>3, HeirIsDone
<1> QED
  BY <1>1, <1>2, <1>9, <1>16, <1>17, <1>18, <1>19, SolveRuns

-----------------------------------------------------------------------------
\* A cut by the clause, to its own cut point.
LEMMA CutStep ==
    ASSUME NEW s, Here(s), status = "run", I.op \in {"neck_cut", "cut"},
           NEW b \in Points(snaps), NEW c, c = calls[Len(calls)], c.floor <= b,
           s.own => \A y \in 1 .. s.n : s.slot[y] = "level" => stk[reg.e + 2 * y].v = b,
           \A y \in 1 .. s.n : s.slot[y] # "cut",
           s.cut # "goal", s.cut = "clause" => reg.b0 = b,
           CutTo(b, Next1(settosreg([reg EXCEPT !.b = b])))
    PROVE  IInv'
<1> DEFINE r == Next1(settosreg([reg EXCEPT !.b = b]))
           ps == UpTo(b)
<1>1. /\ View(stk, reg, live, calls, ctx, snaps, s) /\ Memory(stk, trail, snaps)
      /\ Registers(reg, snaps) /\ Stacked(snaps) /\ Loaded /\ WellShaped(prog) /\ live \in Nat
      /\ IsShape(s)
  BY DEF Here
<1>2. /\ SameBut(reg, r, {"p", "b", "tos"}) /\ r.p = reg.p + 1 /\ r.b = b /\ r.tos = TosFor(reg.i, b)
  BY <1>1 DEF Registers, SameBut, Next1, settosreg, TosFor, RecEnd
<1> HIDE DEF r
<1>3. /\ r.e = reg.e /\ r.cp = reg.cp /\ r.b0 = reg.b0
      /\ r.i = reg.i /\ r.ci = reg.ci /\ r.uc = reg.uc /\ r.a1 = reg.a1
  BY <1>1, <1>2, SameFields
<1>4. /\ LastB(ps) = b /\ IsSeq(ps) /\ Len(ps) \in Nat
      /\ \A a \in Points(snaps) : a <= b => a \in Points(ps)
  BY <1>1, CutsTo
<1>5. PICK k \in 0 .. Len(snaps) : /\ ps = SubSeq(snaps, 1, k) /\ Len(ps) = k
                                   /\ \A j \in 1 .. k : ps[j] = snaps[j]
  BY <1>1, CutsTo
<1> HIDE DEF ps
<1>6. Memory(stk, trail, ps)
  BY <1>1, <1>5, MemoryDrops
<1>7. /\ Records(stk, ctx) /\ reg.i = ctx[Len(ctx)] /\ Len(ctx) \in Nat /\ 1 <= Len(ctx)
      /\ Running(stk, reg, live, c, ctx, snaps, s) /\ c.floor \in Nat
      /\ Layout(stk, Frames(reg.e, live, calls), reg.tos, ctx, snaps)
  <2>1. /\ Len(ctx) \in Nat /\ 1 <= Len(ctx) /\ Len(c.ctx) <= Len(ctx) /\ c.floor \in Nat
        /\ Running(stk, reg, live, c, ctx, snaps, s)
    BY ONLY <1>1, c = calls[Len(calls)], CallerIs
  <2>2. Records(stk, ctx) /\ Layout(stk, Frames(reg.e, live, calls), reg.tos, ctx, snaps)
    BY <1>1 DEF View
  <2>3. reg.i = ctx[Len(ctx)]
    BY <2>1 DEF Running, InContext
  <2> QED
    BY <2>1, <2>2, <2>3
<1>8. /\ Layout(stk, Frames(reg.e, live, calls), r.tos, ctx, ps) /\ b < r.tos
      /\ r.tos \in Addr /\ b \in Addr
  <2>1. Len(ctx) \in 1 .. Len(ctx) /\ \A j \in 1 .. Len(ctx) : ctx[j] = ctx[j]
    BY <1>7
  <2>2. /\ Len(ps) \in 0 .. Len(snaps) /\ (\A j \in 1 .. Len(ps) : ps[j] = snaps[j]) /\ IsSeq(ps)
        /\ r.tos = TosFor(ctx[Len(ctx)], LastB(ps)) /\ LastB(ps) = b
    BY <1>2, <1>4, <1>5, <1>7
  <2>3. Layout(stk, Frames(reg.e, live, calls), TosFor(ctx[Len(ctx)], LastB(ps)), ctx, ps)
    BY ONLY <1>1, <1>7, <2>1, <2>2, SetsTos
  <2>4. /\ LastB(ps) < TosFor(ctx[Len(ctx)], LastB(ps))
        /\ TosFor(ctx[Len(ctx)], LastB(ps)) \in Addr /\ LastB(ps) \in Addr
    BY ONLY <1>1, <1>7, <2>1, <2>2, SetsTos
  <2> QED
    BY <2>2, <2>3, <2>4
<1>9. b \in Points(ps)
  <2>1. b \in Nat
    BY <1>1, PointsAre
  <2>2. b <= b
    BY <2>1
  <2> QED
    BY <2>2, <1>4
<1>10. \A a \in Points(snaps) : a <= c.floor => a \in Points(ps)
  <2>1. Points(snaps) \subseteq Nat
    BY <1>1, PointsAre
  <2> QED
    BY <2>1, <1>4, <1>7
<1>11. s.own => Levels(stk, c, reg.e, s, ps)
  BY <1>9 DEF Levels
<1>12. CutKnown(stk, r, c, ps, s)
  BY <1>3, <1>9 DEF CutKnown
<1>13. View(stk, r, live, calls, ctx, ps, s)
  <2>1. Layout(stk, Frames(reg.e, live, calls), r.tos, ctx, ps)
    BY <1>8
  <2> QED
    BY ONLY <1>1, <1>3, <2>1, <1>10, <1>11, <1>12, c = calls[Len(calls)], ViewCuts
<1>14. Goes(s, r.p)
  <2>1. After(s, I) = s
    BY DEF After, ValueOps, CallOps
  <2> QED
    BY <1>2, <2>1, NextGoes DEF Straight, SlotOps
<1>15. Registers(r, ps)
  BY <1>1, <1>2, <1>3, <1>4, <1>8, <1>14, GoesToCode DEF Registers, SameBut
<1>16. /\ reg' = r /\ snaps' = ps /\ stk' = stk /\ trail' = trail /\ prog' = prog
       /\ status' = "run" /\ calls' = calls /\ live' = live /\ ctx' = ctx
  BY DEF CutTo, r, ps
<1>17. /\ Memory(stk', trail', snaps') /\ Registers(reg', snaps')
       /\ View(stk', reg', live', calls', ctx', snaps', s) /\ Goes(s, reg'.p) /\ live' \in Nat
  BY <1>1, <1>6, <1>13, <1>14, <1>15, <1>16
<1>18. Heir(Frames(reg'.e, live', calls'), ctx', snaps')
  <2>1. Heir(Frames(reg.e, live, calls), ctx, snaps)
    BY DEF Here
  <2>2. Len(snaps) \in Nat /\ Len(ps) \in Nat /\ Len(ps) <= Len(snaps)
    BY <1>1, <1>4, <1>5, PointsAre
  <2>3. Heir(Frames(reg.e, live, calls), ctx, ps)
    BY <2>1, <2>2, <1>5, HeirCuts
  <2> QED
    BY <2>3, <1>3, <1>16
<1> QED
  BY ONLY <1>1, <1>16, <1>17, <1>18, LiveStep

\* A cut before the first call goes back to the choice points there were when
\* the clause was entered: neck_cut.
LEMMA NeckCutStep ==
    ASSUME WellShaped(prog), IInv, NeckCut
    PROVE  IInv'
<1> DEFINE s == ShapeAt(reg.p)
           c == calls[Len(calls)]
<1>1. status = "run" /\ I.op = "neck_cut" /\ CutTo(reg.b0, Next1(settosreg([reg EXCEPT !.b = reg.b0])))
  BY DEF NeckCut, Is
<1>2. Here(s)
  BY <1>1, ComesHere DEF Alternatives, Halting
<1>3. s.cut = "clause" /\ \A y \in 1 .. s.n : s.slot[y] # "cut"
  BY <1>1, <1>2 DEF Here, Finds
<1>4. CutKnown(stk, reg, c, snaps, s)
  BY <1>2 DEF Here, View, Running
<1>5. /\ reg.b0 \in Points(snaps) /\ c.floor <= reg.b0
      /\ s.own => \A y \in 1 .. s.n : s.slot[y] = "level" => stk[reg.e + 2 * y].v = reg.b0
  BY <1>3, <1>4 DEF CutKnown
<1> HIDE DEF s
<1> QED
  BY <1>1, <1>2, <1>3, <1>5, CutStep

\* A later cut goes back to the level kept in the environment: cut.
LEMMA CutsStep ==
    ASSUME WellShaped(prog), IInv, Cut
    PROVE  IInv'
<1> DEFINE s == ShapeAt(reg.p)
           c == calls[Len(calls)]
           b == stk[reg.e + 2 * I.y].v
<1>1. status = "run" /\ I.op = "cut" /\ CutTo(b, Next1(settosreg([reg EXCEPT !.b = b])))
  BY DEF Cut, Is, v, Y
<1>2. Here(s)
  BY <1>1, ComesHere DEF Alternatives, Halting
<1>3. /\ s.own /\ I.y \in 1 .. s.n /\ s.slot[I.y] = "level" /\ s.cut # "goal"
      /\ \A y \in 1 .. s.n : s.slot[y] # "cut"
  BY <1>1, <1>2 DEF Here, Finds, SlotOps
<1>4. CutKnown(stk, reg, c, snaps, s) /\ Levels(stk, c, reg.e, s, snaps)
  BY <1>2, <1>3 DEF Here, View, Running, AtEnv
<1>5. /\ b \in Points(snaps) /\ c.floor <= b
      /\ \A y \in 1 .. s.n : s.slot[y] = "level" => stk[reg.e + 2 * y].v = b
  BY <1>3, <1>4 DEF Levels
<1>6. s.cut = "clause" => reg.b0 = b
  BY <1>3, <1>4 DEF CutKnown
<1> HIDE DEF s, b
<1> QED
  BY <1>1, <1>2, <1>3, <1>5, <1>6, CutStep
-----------------------------------------------------------------------------
\* A stack that has all that was known below the choice point has its view.
LEMMA ViewBack ==
    ASSUME WellShaped(prog), NEW m, NEW z, NEW q, NEW n, NEW cs, NEW cx, NEW ps, NEW t,
           View(m, q, n, cs, cx, ps, t), NEW base \in Nat, q.tos = base, q.e < base,
           \A a \in Nat : a < base /\ m[a].f # "junk" => z[a] = m[a],
           \A a \in Nat : a < base /\ m[a].f = "junk" => z[a] = m[a] \/ z[a].f = "junk"
    PROVE  View(z, q, n, cs, cx, ps, t)
<1>1. Untouched(m, z, cx)
  <2> SUFFICES ASSUME NEW k \in 1 .. Len(cx), NEW x \in RecStart(m, cx[k]) .. RecEnd(cx[k]) - 1
               PROVE  Soft(m[x]) \/ z[x] = m[x]
    BY DEF Untouched, Intact
  <2>1. /\ RecStart(m, cx[k]) \in Nat /\ RecEnd(cx[k]) \in Nat /\ RecEnd(cx[k]) <= base
    BY DEF View, Layout
  <2>2. x \in Nat /\ x < base
    BY <2>1
  <2> QED
    BY <2>2 DEF Soft
<1>2. FramesKept(m, z, Frames(q.e, n, cs))
  <2> DEFINE fs == Frames(q.e, n, cs)
  <2>1. Topped(q.e, fs) /\ q.e \in Nat
    BY FramesAre DEF View
  <2>2. Layout(m, fs, base, cx, ps)
    BY DEF View
  <2> HIDE DEF fs
  <2>3. ASSUME NEW f \in fs PROVE EnvKept(m, z, f.e, f.n)
    <3>1. /\ f.e \in Nat /\ f.n \in Nat /\ FstCP < f.e - 2 /\ Beside(f, base, base) /\ f.e <= q.e
      BY <2>1, <2>2 DEF Layout, Placed, Topped
    <3>2. f.e + 2 + 2 * f.n <= base
      BY <3>1, <2>1 DEF Beside, EnvEnd
    <3>3. ASSUME NEW a \in f.e - 2 .. f.e + 1 + 2 * f.n PROVE a \in Nat /\ a < base
      BY <3>1, <3>2 DEF FstCP
    <3> QED
      BY <3>3 DEF EnvKept, Like
  <2> QED
    BY <2>3 DEF FramesKept, fs
<1> QED
  BY ONLY WellShaped(prog), View(m, q, n, cs, cx, ps, t), <1>1, <1>2, ViewAgrees

\* The machine has come back to its newest choice point, where the shape is t.
Back(t) ==
    LET d == Newest
        q == SavedRegs(d)
    IN  /\ View(stk, q, live, calls, ctx, Older, t)
        /\ Heir(Frames(q.e, live, calls), ctx, Older)
        /\ KeptFrames(d) = Frames(q.e, live, calls) /\ d.ctx = ctx
        /\ Finds(prog, CodeShapes, reg.p, t, I) /\ IsShape(t) /\ ~t.own /\ InClause(t)
        /\ Memory(stk, trail, snaps) /\ Registers(reg, snaps) /\ Stacked(snaps)
        /\ Loaded /\ live \in Nat /\ WellShaped(prog) /\ snaps # <<>>
        /\ Waits(snaps, Len(snaps), reg.p) /\ t = ShapeAt(reg.p)
        /\ reg.b = d.b /\ q.b = LastB(Older) /\ q.tos = d.base /\ q.e < d.base
        /\ q.b0 = v(reg.b - 4) /\ q.i = v(reg.b - 7) /\ q.cp = v(reg.b - 8)
        /\ q.e = v(reg.b - 9) /\ q.uc = v(reg.b - 10) /\ q.ci = v(reg.b - 6) /\ q.b = v(reg.b - 5)
        /\ t.cut = "goal" \/ t.a1 # "any" => q.a1 = v(reg.b - 12)
        /\ {q.e, q.b0, q.i, q.ci, q.b} \subseteq Addr /\ q.cp \in DOMAIN Code
        /\ d.base \in Nat /\ d.b \in Nat /\ d.base + 10 <= d.b /\ FstCP < d.base /\ d.b \in Addr

\* An instruction for a later clause is come to with the newest choice point
\* as its handler left it.
LEMMA ComesBack ==
    ASSUME WellShaped(prog), IInv, status = "run", I.op \in Alternatives
    PROVE  Back(ShapeAt(reg.p))
<1> DEFINE d == Newest
           q == SavedRegs(d)
           L == Len(snaps)
           t == ShapeAt(reg.p)
<1>1. /\ Memory(stk, trail, snaps) /\ Registers(reg, snaps) /\ Stacked(snaps) /\ live \in Nat
      /\ Loaded /\ snaps # <<>>
      /\ calls = d.calls /\ ctx = d.ctx /\ reg.p = stk[d.b - 1].v /\ live = SavedLive(d)
      /\ \A a \in StackBeg .. d.b :
            a = d.b - 1 \/ stk[a] = d.stk[a] \/ (Unknown(d, a) /\ stk[a].f = "junk")
  BY MemoryStacks DEF IInv, Resumed
<1>2. IsSeq(snaps) /\ L \in Nat /\ L \in 1 .. L /\ d = snaps[L] /\ L # 0
  <2>1. IsSeq(snaps)
    BY <1>1 DEF Memory
  <2>2. L \in Nat /\ L # 0
    BY <2>1, <1>1, SeqIs
  <2> QED
    BY <2>1, <2>2 DEF Newest
<1> HIDE DEF d, L
<1>3. Made(snaps, L) /\ Waits(snaps, L, reg.p)
  BY <1>1, <1>2 DEF Memory, L
<1>4. /\ d.base \in Nat /\ d.b \in Nat /\ d.base + 10 <= d.b /\ FstCP < d.base /\ d.b \in Addr
      /\ q.e < d.base /\ q.tos = d.base
      /\ {q.e, q.b0, q.i, q.ci} \subseteq Addr /\ q.cp \in DOMAIN Code
      /\ q.b = LastB(Below(snaps, L))
      /\ reg.b = d.b
  <2>1. reg.b = d.b
    BY <1>1, <1>2 DEF Registers, LastB, L
  <2> QED
    BY <2>1, <1>1, <1>2, <1>3, MemoryStacks DEF Made, SavedRegs, L
<1>5. Below(snaps, L) = Older
  BY DEF Below, Older, Init1, L
<1> HIDE DEF q
<1>6. /\ reg.p \in DOMAIN Code /\ ~t.own
      /\ View(d.stk, q, SavedLive(d), d.calls, d.ctx, Older, t)
      /\ t.cut = "goal" \/ t.a1 # "any" => d.base + CPFixSize + 1 <= d.b
  BY <1>2, <1>3, <1>5 DEF Waits, q
<1>7. View(d.stk, q, live, calls, ctx, Older, t)
  BY <1>1, <1>6
<1>8. \A a \in Nat : a < d.base /\ d.stk[a].f # "junk" => stk[a] = d.stk[a]
  BY <1>1, <1>4 DEF StackBeg, Unknown
<1>9. \A a \in Nat : a < d.base /\ d.stk[a].f = "junk" => stk[a] = d.stk[a] \/ stk[a].f = "junk"
  BY <1>1, <1>4 DEF StackBeg
<1>10. q.tos = d.base /\ q.e < d.base /\ d.base \in Nat
  BY <1>4
<1>12. View(stk, q, live, calls, ctx, Older, t)
  BY ONLY WellShaped(prog), <1>7, <1>8, <1>9, <1>10, ViewBack
<1>20. /\ Heir(Frames(q.e, live, calls), ctx, Older)
       /\ KeptFrames(d) = Frames(q.e, live, calls) /\ d.ctx = ctx
  <2>1. KeptFrames(d) = Frames(q.e, live, calls) /\ d.ctx = ctx
    BY <1>1 DEF KeptFrames, q
  <2>2. L - 1 \in 0 .. Len(snaps) /\ L \in Nat
    BY <1>2 DEF L
  <2>3. Len(Older) = L - 1 /\ \A i \in 1 .. L - 1 : Older[i] = snaps[i]
    BY <2>2, <1>2, PrefixIs DEF Older, Init1, L
  <2>4. \A i \in 1 .. L - 1 : Inherits(KeptFrames(d), d.ctx, snaps[i])
    BY <1>2, <1>3 DEF Made
  <2> QED
    BY <2>1, <2>3, <2>4 DEF Heir
<1>13. t # Dead
  <2>1. t.ext \in Nat
    BY <1>12 DEF View, Running, FromRecord
  <2>2. Dead.ext = -1
    BY DEF Dead, Returned, Shape
  <2> QED
    BY <2>1, <2>2
<1>14. Finds(prog, CodeShapes, reg.p, t, I) /\ IsShape(t)
  BY <1>6, <1>13, Limits DEF WellShaped, CodeShapes, ShapeAt, I, Code
<1>15. InClause(t)
  <2>1. I.op \in MeOps \cup ToOps \cup ElseOps \cup {"trust_ext"}
    BY DEF Alternatives, MeOps, ToOps, ElseOps
  <2> QED
    BY <1>14, <2>1 DEF Finds
<1>16. \A x \in {2, 4, 5, 6, 7, 8, 9, 10} : stk[d.b - x] = d.stk[d.b - x]
  <2> SUFFICES ASSUME NEW x \in {2, 4, 5, 6, 7, 8, 9, 10}
               PROVE  stk[d.b - x] = d.stk[d.b - x]
    OBVIOUS
  <2>1. d.b - x \in StackBeg .. d.b /\ d.b - x # d.b - 1 /\ ~(d.b - x < d.base)
    BY <1>4 DEF StackBeg
  <2> QED
    BY <2>1, <1>1 DEF Unknown
<1>17. t.cut = "goal" \/ t.a1 # "any" => stk[d.b - 12] = d.stk[d.b - 12]
  <2> SUFFICES ASSUME d.base + CPFixSize + 1 <= d.b
               PROVE  stk[d.b - 12] = d.stk[d.b - 12]
    BY <1>6
  <2>1. d.b - 12 \in StackBeg .. d.b /\ d.b - 12 # d.b - 1 /\ ~(d.b - 12 < d.base)
    BY <1>4 DEF StackBeg, CPFixSize
  <2> QED
    BY <2>1, <1>1 DEF Unknown
<1>18. /\ q.b0 = v(reg.b - 4) /\ q.i = v(reg.b - 7) /\ q.cp = v(reg.b - 8)
       /\ q.e = v(reg.b - 9) /\ q.uc = v(reg.b - 10) /\ q.ci = v(reg.b - 6) /\ q.b = v(reg.b - 5)
       /\ t.cut = "goal" \/ t.a1 # "any" => q.a1 = v(reg.b - 12)
  BY <1>4, <1>16, <1>17 DEF q, SavedRegs, v
<1>19. q.b \in Addr
  <2>0. L - 1 \in 0 .. Len(snaps)
    BY <1>2 DEF L
  <2>1. IsSeq(Older) /\ Len(Older) = L - 1 /\ \A i \in 1 .. L - 1 : Older[i] = snaps[i]
    BY <2>0, <1>2, PrefixIs DEF Older, Init1, L
  <2>2. CASE Older = <<>>
    <3>1. q.b = FstCP
      BY <1>4, <1>5, <2>2 DEF LastB
    <3>2. StackEnd \in Nat /\ d.b <= StackEnd
      BY <1>4, Limits DEF Addr, StackBeg
    <3>3. FstCP <= StackEnd
      BY <3>2, <1>4 DEF FstCP
    <3> QED
      BY <3>1, <3>2, <3>3 DEF Addr, FstCP, StackBeg
  <2>3. CASE Older # <<>>
    <3>1. Len(Older) # 0
      BY <2>1, <2>3, SeqIs
    <3>2. L - 1 \in 1 .. L - 1 /\ L - 1 \in 1 .. Len(snaps)
      BY <2>1, <3>1, <1>2 DEF L
    <3>3. q.b = snaps[L - 1].b
      BY <1>4, <1>5, <2>1, <2>3, <3>2 DEF LastB
    <3> QED
      BY <3>2, <3>3, <1>1, MemoryStacks
  <2> QED
    BY <2>2, <2>3
<1> QED
  BY <1>1, <1>3, <1>4, <1>5, <1>6, <1>12, <1>14, <1>15, <1>18, <1>19, <1>20 DEF Back, d, q, L

\* A view does not depend on B, P and CE, and on TOS only for the places of
\* what it sees.
LEMMA ViewEnds ==
    ASSUME NEW m, NEW q, NEW n, NEW cs, NEW cx, NEW ps, NEW s, View(m, q, n, cs, cx, ps, s),
           NEW r, r.e = q.e, r.cp = q.cp, r.i = q.i, r.uc = q.uc, r.ci = q.ci, r.a1 = q.a1,
           r.b0 = q.b0, Layout(m, Frames(q.e, n, cs), r.tos, cx, ps)
    PROVE  View(m, r, n, cs, cx, ps, s)
<1>1. Running(m, q, n, cs[Len(cs)], cx, ps, s)
  BY DEF View
<1>2. Running(m, r, n, cs[Len(cs)], cx, ps, s)
  BY <1>1 DEF Running, AtEnv, InContext, FromRecord, CutKnown, GoalKnown
<1> QED
  BY <1>2 DEF View

\* The registers that a choice point keeps are the same in r.
Restores(r, q) ==
    /\ r.e = q.e /\ r.cp = q.cp /\ r.i = q.i /\ r.uc = q.uc /\ r.b0 = q.b0

\* The choice point goes, and the machine goes on with what it kept.
LEMMA TrustStep ==
    ASSUME NEW t, Back(t), status = "run", NEW r, DOMAIN r = DOMAIN reg,
           Restores(r, SavedRegs(Newest)), r.ci \in Addr,
           NEW q, q.tos = Newest.base, Restores(r, q), r.ci = q.ci, r.a1 = q.a1,
           NEW u, View(stk, q, live, calls, ctx, Older, u), Goes(u, r.p), Trusting(r)
    PROVE  IInv'
<1> DEFINE rr == Discard(r)
<1>1. /\ Memory(stk, trail, snaps) /\ Registers(reg, snaps) /\ Stacked(snaps) /\ Loaded
      /\ live \in Nat /\ WellShaped(prog) /\ snaps # <<>>
      /\ SavedRegs(Newest).b = LastB(Older) /\ SavedRegs(Newest).b = v(reg.b - 5)
      /\ SavedRegs(Newest).e \in Addr /\ SavedRegs(Newest).b0 \in Addr
      /\ SavedRegs(Newest).i \in Addr /\ SavedRegs(Newest).cp \in DOMAIN Code
  BY DEF Back
<1>2. /\ SameBut(r, rr, {"b", "tos"}) /\ rr.b = LastB(Older) /\ rr.tos = TosFor(r.i, LastB(Older))
  BY <1>1 DEF Registers, SameBut, settosreg, TosFor, RecEnd, Discard, cpB
<1> HIDE DEF rr
<1>3. /\ rr.e = r.e /\ rr.cp = r.cp /\ rr.b0 = r.b0 /\ rr.p = r.p
      /\ rr.i = r.i /\ rr.ci = r.ci /\ rr.uc = r.uc /\ rr.a1 = r.a1 /\ DOMAIN rr = DOMAIN reg
  BY <1>1, <1>2 DEF SameBut, Registers
<1>4. /\ Len(snaps) \in Nat /\ Len(snaps) - 1 \in 0 .. Len(snaps) /\ IsSeq(snaps)
  <2>1. IsSeq(snaps)
    BY <1>1 DEF Memory
  <2> QED
    BY <2>1, <1>1, SeqIs
<1>5. /\ IsSeq(Older) /\ Len(Older) = Len(snaps) - 1
      /\ \A j \in 1 .. Len(snaps) - 1 : Older[j] = snaps[j]
  BY <1>4, PrefixIs DEF Older, Init1
<1>6. Memory(stk, trail, Older)
  BY <1>1, <1>4, MemoryDrops DEF Older, Init1
<1>7. /\ Records(stk, ctx) /\ Len(ctx) \in Nat /\ 1 <= Len(ctx)
      /\ Running(stk, q, live, calls[Len(calls)], ctx, Older, u)
      /\ Layout(stk, Frames(q.e, live, calls), q.tos, ctx, Older)
  <2>1. Len(ctx) \in Nat /\ \A c : c = calls[Len(calls)] => 1 <= Len(c.ctx) /\ Len(c.ctx) <= Len(ctx)
                                                            /\ Len(c.ctx) \in Nat
    BY CallerIs
  <2> QED
    BY <2>1 DEF View
<1>8. q.i = ctx[Len(ctx)] /\ q.uc \in 0 .. UCMax
  BY <1>7 DEF Running, InContext
<1>9. Stacked(Older)
  BY <1>6, MemoryStacks
<1>10. /\ Layout(stk, Frames(q.e, live, calls), rr.tos, ctx, Older) /\ rr.b < rr.tos
       /\ rr.tos \in Addr /\ rr.b \in Addr
  <2>1. Len(ctx) \in 1 .. Len(ctx) /\ \A j \in 1 .. Len(ctx) : ctx[j] = ctx[j]
    BY <1>7
  <2>2. /\ Len(Older) \in 0 .. Len(Older) /\ (\A j \in 1 .. Len(Older) : Older[j] = Older[j])
        /\ IsSeq(Older)
        /\ rr.tos = TosFor(ctx[Len(ctx)], LastB(Older)) /\ LastB(Older) = rr.b
    BY <1>2, <1>4, <1>5, <1>7, <1>8 DEF Restores
  <2>3. Layout(stk, Frames(q.e, live, calls), TosFor(ctx[Len(ctx)], LastB(Older)), ctx, Older)
    BY ONLY <1>1, <1>7, <1>9, <2>1, <2>2, SetsTos
  <2>4. /\ LastB(Older) < TosFor(ctx[Len(ctx)], LastB(Older))
        /\ TosFor(ctx[Len(ctx)], LastB(Older)) \in Addr /\ LastB(Older) \in Addr
    BY ONLY <1>1, <1>7, <1>9, <2>1, <2>2, SetsTos
  <2> QED
    BY <2>2, <2>3, <2>4
<1>11. View(stk, rr, live, calls, ctx, Older, u)
  <2>1. /\ rr.e = q.e /\ rr.cp = q.cp /\ rr.i = q.i /\ rr.uc = q.uc /\ rr.ci = q.ci /\ rr.a1 = q.a1
        /\ rr.b0 = q.b0 /\ View(stk, q, live, calls, ctx, Older, u)
        /\ Layout(stk, Frames(q.e, live, calls), rr.tos, ctx, Older)
    BY <1>3, <1>10 DEF Restores
  <2> QED
    BY ONLY <2>1, ViewEnds
<1>12. RecEnd(rr.i) <= StackEnd
  <2>1. Len(ctx) \in 1 .. Len(ctx)
    BY <1>7
  <2> QED
    BY <2>1, <1>1, <1>3, <1>7, <1>8, RecordsOrder DEF Restores
<1>13. Registers(rr, Older)
  <2>1. rr.p \in DOMAIN Code
    BY <1>3, GoesToCode
  <2> QED
    BY <1>1, <1>2, <1>3, <1>8, <1>10, <1>12, <2>1 DEF Registers, Restores
<1>14. /\ reg' = rr /\ snaps' = Older /\ stk' = stk /\ trail' = trail /\ prog' = prog
       /\ status' = "run" /\ calls' = calls /\ live' = live /\ ctx' = ctx
  BY DEF Trusting, rr
<1>15. /\ Memory(stk', trail', snaps') /\ Registers(reg', snaps')
       /\ View(stk', reg', live', calls', ctx', snaps', u) /\ Goes(u, reg'.p) /\ live' \in Nat
  BY <1>1, <1>3, <1>6, <1>11, <1>13, <1>14
<1>16. Heir(Frames(reg'.e, live', calls'), ctx', snaps')
  <2>1. Heir(Frames(SavedRegs(Newest).e, live, calls), ctx, Older)
    BY DEF Back
  <2>2. reg'.e = SavedRegs(Newest).e
    BY <1>3, <1>14 DEF Restores
  <2> QED
    BY <2>1, <2>2, <1>14
<1> QED
  BY ONLY <1>1, <1>14, <1>15, <1>16, LiveStep

\* Restoring the registers brings back the view that the choice point kept.
LEMMA RestoresView ==
    ASSUME NEW t, Back(t), NEW r, Restores(r, SavedRegs(Newest)), r.ci = SavedRegs(Newest).ci,
           t.cut = "goal" \/ t.a1 # "any" => r.a1 = SavedRegs(Newest).a1,
           NEW q, q.tos = Newest.base, Restores(r, q), r.ci = q.ci, r.a1 = q.a1
    PROVE  View(stk, q, live, calls, ctx, Older, t)
<1> DEFINE o == SavedRegs(Newest)
<1>1. View(stk, o, live, calls, ctx, Older, t) /\ o.tos = Newest.base /\ ~t.own
  BY DEF Back
<1> HIDE DEF o
<1>2. /\ q.e = o.e /\ q.cp = o.cp /\ q.tos = o.tos /\ q.i = o.i /\ q.uc = o.uc /\ q.ci = o.ci
      /\ q.b0 = o.b0 /\ (t.cut = "goal" \/ t.a1 # "any" => q.a1 = o.a1)
  BY <1>1 DEF Restores, o
<1>3. Running(stk, o, live, calls[Len(calls)], ctx, Older, t)
  BY <1>1 DEF View
<1>4. \A c : c = calls[Len(calls)] =>
         InContext(q, c, ctx, t) /\ FromRecord(stk, q, c, ctx, t) /\ CutKnown(stk, q, c, Older, t)
  BY <1>2, <1>3, <1>1 DEF Running, InContext, FromRecord, CutKnown
<1>5. GoalKnown(stk, q, t)
  BY <1>2, <1>3, <1>1 DEF Running, GoalKnown
<1> QED
  BY <1>1, <1>2, <1>4, <1>5, ViewRegs

\* What AM_restoreRegs leaves in the registers.
LEMMA RestoredRegs ==
    ASSUME NEW t, Back(t), NEW n, n \in Nat, t.cut = "goal" \/ t.a1 # "any" => n > 0
    PROVE  /\ SameBut(RestoreWoCI(n), RestoreRegs(n), {"ci", "ce"})
           /\ SameBut(reg, RestoreWoCI(n), {"b0", "i", "cp", "e", "uc", "a1"})
           /\ Restores(RestoreRegs(n), SavedRegs(Newest)) /\ Restores(RestoreWoCI(n), SavedRegs(Newest))
           /\ RestoreRegs(n).ci = SavedRegs(Newest).ci /\ SavedRegs(Newest).ci \in Addr
           /\ t.cut = "goal" \/ t.a1 # "any" => RestoreRegs(n).a1 = SavedRegs(Newest).a1
<1> DEFINE o == SavedRegs(Newest)
           w == RestoreWoCI(n)
           x == [w EXCEPT !.ci = cpCI(reg.b)]
           r == RestoreRegs(n)
<1>1. /\ o.b0 = v(reg.b - 4) /\ o.i = v(reg.b - 7) /\ o.cp = v(reg.b - 8)
      /\ o.e = v(reg.b - 9) /\ o.uc = v(reg.b - 10) /\ o.ci = v(reg.b - 6)
      /\ t.cut = "goal" \/ t.a1 # "any" => o.a1 = v(reg.b - 12)
      /\ o.ci \in Addr /\ Registers(reg, snaps)
  BY DEF Back
<1>2. DOMAIN reg = {"tos", "e", "b", "b0", "i", "ci", "ce", "uc", "p", "cp", "a1"}
  BY <1>1 DEF Registers
<1> HIDE DEF o
<1>3. /\ SameBut(reg, w, {"b0", "i", "cp", "e", "uc", "a1"}) /\ Restores(w, o)
      /\ t.cut = "goal" \/ t.a1 # "any" => w.a1 = o.a1
  BY <1>1, <1>2 DEF SameBut, RestoreWoCI, Restores
<1> HIDE DEF w
<1>4. SameBut(w, x, {"ci"}) /\ x.ci = o.ci /\ DOMAIN w = DOMAIN reg
  BY <1>1, <1>2, <1>3 DEF SameBut, cpCI
<1> HIDE DEF x
<1>5. r = WithCE(x)
  BY DEF r, RestoreRegs, w, x
<1>6. SameBut(x, r, {"ce"})
  BY <1>5, WithCEIs
<1> HIDE DEF r
<1>7. SameBut(w, r, {"ci", "ce"}) /\ r.ci = o.ci
  BY <1>2, <1>4, <1>6 DEF SameBut
<1>8. Restores(r, o) /\ (t.cut = "goal" \/ t.a1 # "any" => r.a1 = o.a1)
  BY <1>2, <1>3, <1>4, <1>7 DEF SameBut, Restores
<1> QED
  BY <1>1, <1>3, <1>7, <1>8 DEF w, r, o

\* The last alternative, in the same clause or elsewhere.
LEMMA LastStep ==
    ASSUME NEW t, Back(t), status = "run", NEW n, n \in Nat, t.cut = "goal" \/ t.a1 # "any" => n > 0,
           NEW l, Goes(t, l), NEW r, SameBut(RestoreRegs(n), r, {"p"}), r.p = l, Trusting(r)
    PROVE  IInv'
<1> DEFINE x == RestoreRegs(n)
           o == SavedRegs(Newest)
           q == [r EXCEPT !.tos = Newest.base]
<1>1. /\ SameBut(reg, RestoreWoCI(n), {"b0", "i", "cp", "e", "uc", "a1"})
      /\ SameBut(RestoreWoCI(n), x, {"ci", "ce"})
      /\ Restores(x, o) /\ x.ci = o.ci /\ o.ci \in Addr
      /\ t.cut = "goal" \/ t.a1 # "any" => x.a1 = o.a1
  BY RestoredRegs
<1>2. DOMAIN reg = {"tos", "e", "b", "b0", "i", "ci", "ce", "uc", "p", "cp", "a1"}
  BY DEF Back, Registers
<1> HIDE DEF x, o
<1>3. DOMAIN x = DOMAIN reg
  BY <1>1 DEF SameBut
<1>4. /\ DOMAIN r = DOMAIN reg /\ Restores(r, o) /\ r.ci = o.ci /\ r.ci \in Addr
      /\ t.cut = "goal" \/ t.a1 # "any" => r.a1 = o.a1
  BY <1>1, <1>2, <1>3 DEF SameBut, Restores, x
<1>5. q.tos = Newest.base /\ Restores(r, q) /\ r.ci = q.ci /\ r.a1 = q.a1
  BY <1>2, <1>4 DEF Restores
<1> HIDE DEF q
<1>6. View(stk, q, live, calls, ctx, Older, t)
  BY <1>4, <1>5, RestoresView DEF o
<1>7. Goes(t, r.p)
  OBVIOUS
<1> QED
  BY <1>4, <1>5, <1>6, <1>7, TrustStep DEF o

\* The next instruction, after one that deals with a choice point, finds what
\* this one found.
LEMMA BackGoes ==
    ASSUME NEW t, Back(t)
    PROVE  /\ I.op \in MeOps => Goes(t, reg.p + 1)
           /\ I.op \in ToOps => Goes(t, I.l)
           /\ I.op \in ElseOps => Goes(t, I.k)
           /\ I.op \in MeOps \cup ToOps \cup ElseOps => I.n \in Nat
           /\ I.op \in Alternatives /\ (t.cut = "goal" \/ t.a1 # "any") => I.n > 0
<1>1. Finds(prog, CodeShapes, reg.p, t, I)
  BY DEF Back
<1>2. I.op \in MeOps => After(t, I) = t
  BY DEF After, ValueOps, CallOps, MeOps
<1>3. I.op \in MeOps => I.op \in Straight
  BY DEF Straight
<1>4. I.op \in Straight => LeadsTo(prog.code, CodeShapes, After(t, I), reg.p + 1)
  BY <1>1 DEF Finds
<1>5. I.op \in ToOps => LeadsTo(prog.code, CodeShapes, t, I.l)
  BY <1>1 DEF Finds
<1>6. I.op \in ElseOps => LeadsTo(prog.code, CodeShapes, t, I.k)
  BY <1>1 DEF Finds
<1>7. I.op \in MeOps \cup ToOps \cup ElseOps => I.n \in Nat
  BY <1>1 DEF Finds
<1>8. I.op \in Alternatives /\ (t.cut = "goal" \/ t.a1 # "any") => I.n > 0
  BY <1>1 DEF Finds
<1> QED
  BY <1>2, <1>3, <1>4, <1>5, <1>6, <1>7, <1>8 DEF Goes, Code

\* The last clause of a predicate, come to after the one before it.
LEMMA TrustMeStep ==
    ASSUME WellShaped(prog), IInv, TrustMe
    PROVE  IInv'
<1> DEFINE t == ShapeAt(reg.p)
           r == Next1(RestoreRegs(I.n))
<1>1. status = "run" /\ I.op = "trust_me" /\ Trusting(r)
  BY DEF TrustMe, Is
<1>2. Back(t)
  BY <1>1, ComesBack DEF Alternatives
<1> HIDE DEF t
<1>3. /\ Goes(t, reg.p + 1) /\ I.n \in Nat /\ (t.cut = "goal" \/ t.a1 # "any" => I.n > 0)
  BY <1>1, <1>2, BackGoes DEF MeOps, Alternatives
<1>4. /\ SameBut(reg, RestoreWoCI(I.n), {"b0", "i", "cp", "e", "uc", "a1"})
      /\ SameBut(RestoreWoCI(I.n), RestoreRegs(I.n), {"ci", "ce"})
  BY <1>2, <1>3, RestoredRegs
<1>5. DOMAIN reg = {"tos", "e", "b", "b0", "i", "ci", "ce", "uc", "p", "cp", "a1"}
  BY <1>2 DEF Back, Registers
<1>6. SameBut(RestoreRegs(I.n), r, {"p"}) /\ r.p = reg.p + 1
  BY <1>4, <1>5 DEF SameBut, Next1
<1> HIDE DEF r
<1> QED
  BY <1>1, <1>2, <1>3, <1>6, LastStep

\* The last clause of a predicate, elsewhere.
LEMMA TrustToStep ==
    ASSUME WellShaped(prog), IInv, Trust
    PROVE  IInv'
<1> DEFINE t == ShapeAt(reg.p)
           r == [RestoreRegs(I.n) EXCEPT !.p = I.l]
<1>1. status = "run" /\ I.op = "trust" /\ Trusting(r)
  BY DEF Trust, Is
<1>2. Back(t)
  BY <1>1, ComesBack DEF Alternatives
<1> HIDE DEF t
<1>3. /\ Goes(t, I.l) /\ I.n \in Nat /\ (t.cut = "goal" \/ t.a1 # "any" => I.n > 0)
  BY <1>1, <1>2, BackGoes DEF ToOps, Alternatives
<1>4. /\ SameBut(reg, RestoreWoCI(I.n), {"b0", "i", "cp", "e", "uc", "a1"})
      /\ SameBut(RestoreWoCI(I.n), RestoreRegs(I.n), {"ci", "ce"})
  BY <1>2, <1>3, RestoredRegs
<1>5. DOMAIN reg = {"tos", "e", "b", "b0", "i", "ci", "ce", "uc", "p", "cp", "a1"}
  BY <1>2 DEF Back, Registers
<1>6. SameBut(RestoreRegs(I.n), r, {"p"}) /\ r.p = I.l
  BY <1>4, <1>5 DEF SameBut
<1> HIDE DEF r
<1> QED
  BY <1>1, <1>2, <1>3, <1>6, LastStep

\* Failing once the newest choice point has gone.
LEMMA GivesUpStep ==
    ASSUME NEW t, Back(t), reg' = Discard([reg EXCEPT !.p = FailCode]), snaps' = Older,
           status' = "fail", UNCHANGED <<stk, trail, prog, calls, live, ctx>>
    PROVE  IInv'
<1> DEFINE rr == Discard([reg EXCEPT !.p = FailCode])
<1>1. /\ Memory(stk, trail, snaps) /\ Registers(reg, snaps) /\ Stacked(snaps) /\ Loaded
      /\ live \in Nat /\ WellShaped(prog) /\ snaps # <<>>
      /\ SavedRegs(Newest).b = LastB(Older) /\ SavedRegs(Newest).b = v(reg.b - 5)
      /\ SavedRegs(Newest).b \in Addr
      /\ View(stk, SavedRegs(Newest), live, calls, ctx, Older, t)
  BY DEF Back
<1>2. /\ SameBut(reg, rr, {"b", "tos", "p"}) /\ rr.b = LastB(Older)
      /\ rr.tos = TosFor(reg.i, LastB(Older)) /\ rr.p = FailCode
  BY <1>1 DEF Registers, SameBut, settosreg, TosFor, RecEnd, Discard, cpB
<1> HIDE DEF rr
<1>3. /\ rr.e = reg.e /\ rr.cp = reg.cp /\ rr.b0 = reg.b0
      /\ rr.i = reg.i /\ rr.ci = reg.ci /\ rr.uc = reg.uc /\ DOMAIN rr = DOMAIN reg
  BY <1>1, <1>2 DEF SameBut, Registers
<1>4. Memory(stk, trail, Older)
  <2>1. IsSeq(snaps)
    BY <1>1 DEF Memory
  <2>2. Len(snaps) - 1 \in 0 .. Len(snaps)
    BY <2>1, <1>1, SeqIs
  <2> QED
    BY <1>1, <2>2, MemoryDrops DEF Older, Init1
<1>5. FailCode \in DOMAIN Code /\ StackEnd \in Nat
  BY <1>1, Limits DEF FailCode, Boot
<1>6. rr.b \in Addr /\ rr.tos \in Addr /\ rr.b < rr.tos
  <2>1. /\ reg.i \in Addr /\ RecEnd(reg.i) <= StackEnd /\ reg.b \in Addr /\ reg.tos \in Addr
        /\ reg.b < reg.tos /\ LastB(Older) \in Addr
    BY <1>1 DEF Registers
  <2>2. LastB(Older) <= reg.b
    <3>1. IsSeq(snaps) /\ Len(snaps) \in Nat /\ Len(snaps) # 0
      <4>1. IsSeq(snaps)
        BY <1>1 DEF Memory
      <4> QED
        BY <4>1, <1>1, SeqIs
    <3>2. Len(snaps) \in 1 .. Len(snaps) /\ reg.b = snaps[Len(snaps)].b
      BY <3>1, <1>1 DEF Registers, LastB
    <3>3. Stacked(Older) /\ LastB(Older) < Newest.base /\ Newest.base <= Newest.b
      <4>1. \A k \in 1 .. Len(snaps) : Made(snaps, k)
        BY <1>1 DEF Memory
      <4>2. Made(snaps, Len(snaps)) /\ Below(snaps, Len(snaps)) = Older
        BY <3>2, <4>1 DEF Below, Older, Init1
      <4>3. Len(snaps) - 1 \in 0 .. Len(snaps)
        BY <3>1
      <4>4. /\ IsSeq(Older) /\ Len(Older) = Len(snaps) - 1
            /\ \A j \in 1 .. Len(snaps) - 1 : Older[j] = snaps[j]
        BY <4>3, <3>1, PrefixIs DEF Older, Init1
      <4>5. FstCP < Newest.base /\ Newest.base <= Newest.b
        BY <3>2, <1>1 DEF Stacked, Newest
      <4>6. CASE Older = <<>>
        BY <4>5, <4>6, <1>4, MemoryStacks DEF LastB
      <4>7. CASE Older # <<>>
        <5>1. Len(Older) \in 1 .. Len(snaps) /\ Len(Older) < Len(snaps)
          BY <4>4, <4>7, <3>1, SeqIs
        <5>2. Older[Len(Older)] = snaps[Len(Older)]
          BY <5>1, <4>4
        <5>3. snaps[Len(Older)].b < snaps[Len(snaps)].base
          BY <5>1, <3>2, <1>1 DEF Stacked
        <5> QED
          BY <5>2, <5>3, <4>5, <4>7, <1>4, MemoryStacks DEF LastB, Newest
      <4> QED
        BY <4>6, <4>7
    <3>4. LastB(Older) \in Nat /\ Newest.base \in Nat /\ Newest.b \in Nat
      BY <3>2, <3>3, <1>1, PointsAre DEF Stacked, Newest
    <3> QED
      BY <3>2, <3>3, <3>4 DEF Newest
  <2>3. CASE reg.i > LastB(Older)
    <3>1. rr.tos = RecEnd(reg.i)
      BY <1>2, <2>3 DEF TosFor
    <3> QED
      BY <1>2, <1>5, <2>1, <2>3, <3>1 DEF RecEnd, ImpFixSize, Addr, StackBeg
  <2>4. CASE ~(reg.i > LastB(Older))
    <3>1. rr.tos = LastB(Older) + 1
      BY <1>2, <2>4 DEF TosFor
    <3> QED
      BY <1>2, <1>5, <2>1, <2>2, <3>1 DEF Addr, StackBeg
  <2> QED
    BY <2>3, <2>4
<1>7. Registers(rr, Older)
  BY <1>1, <1>2, <1>3, <1>5, <1>6 DEF Registers
<1>8. Joined(stk, calls)
  BY <1>1, ViewJoined
<1>9. /\ reg' = rr /\ snaps' = Older /\ stk' = stk /\ trail' = trail /\ prog' = prog
      /\ status' = "fail" /\ calls' = calls /\ live' = live /\ ctx' = ctx
  BY DEF rr
<1>11. Memory(stk, trail, snaps)' /\ Registers(reg, snaps)'
  <2>1. Memory(stk', trail', snaps') /\ Registers(reg', snaps')
    BY <1>4, <1>7, <1>9
  <2> QED
    BY <2>1, <1>9, StaysMemory, StaysRegisters
<1>12. Joined(stk, calls)'
  BY <1>8, <1>9 DEF Joined
<1>13. Loaded'
  BY <1>1, <1>9 DEF Loaded
<1>14. ~(status' = "run") /\ ~(status' = "result")
  BY <1>9
<1> QED
  BY <1>1, <1>9, <1>11, <1>12, <1>13, <1>14 DEF IInv, Statuses, IsLive, Using

\* The next clause of a definition that extends one of an outer record.
LEMMA TrustExtStep ==
    ASSUME WellShaped(prog), IInv, TrustExt
    PROVE  IInv'
<1> DEFINE t == ShapeAt(reg.p)
           o == SavedRegs(Newest)
           a == o.ci - 2 * I.m
           w == RestoreWoCI(I.n)
           x == [w EXCEPT !.p = v(a), !.ci = v(a + 1)]
           r == WithCE(x)
           q == [r EXCEPT !.tos = Newest.base]
           c == calls[Len(calls)]
<1>1. status = "run" /\ I.op = "trust_ext"
  BY DEF TrustExt, Is
<1>2. Back(t)
  BY <1>1, ComesBack DEF Alternatives
<1> HIDE DEF t
<1>3. /\ Finds(prog, CodeShapes, reg.p, t, I) /\ o.ci = v(reg.b - 6) /\ Registers(reg, snaps)
      /\ View(stk, o, live, calls, ctx, Older, t) /\ o.tos = Newest.base /\ ~t.own /\ InClause(t)
      /\ t.ext \in Nat
  <2>1. View(stk, o, live, calls, ctx, Older, t)
    BY <1>2 DEF Back
  <2> QED
    BY <2>1, <1>2 DEF Back, View, Running, FromRecord
<1>4. I.n \in Nat /\ t.cut = "clause" /\ I.m \in 1 .. t.ext
  BY <1>1, <1>3 DEF Finds
<1>5. IF isFailInstr(v(a))
      THEN /\ reg' = Discard([reg EXCEPT !.p = v(a)])
           /\ snaps' = Older
           /\ status' = "fail"
           /\ UNCHANGED <<stk, trail, prog, calls, live, ctx>>
      ELSE Trusting(r)
  BY <1>3 DEF TrustExt, cpCI
<1>6. /\ SameBut(reg, w, {"b0", "i", "cp", "e", "uc", "a1"}) /\ Restores(w, o)
  <2>1. DOMAIN reg = {"tos", "e", "b", "b0", "i", "ci", "ce", "uc", "p", "cp", "a1"}
    BY <1>3 DEF Registers
  <2>2. /\ o.b0 = v(reg.b - 4) /\ o.i = v(reg.b - 7) /\ o.cp = v(reg.b - 8)
        /\ o.e = v(reg.b - 9) /\ o.uc = v(reg.b - 10)
    BY <1>2 DEF Back
  <2> HIDE DEF o
  <2> QED
    BY <2>1, <2>2 DEF SameBut, RestoreWoCI, Restores
<1> HIDE DEF o, w, a, q
<1>7. /\ Running(stk, o, live, c, ctx, Older, t) /\ Records(stk, ctx)
      /\ Len(ctx) \in Nat /\ Len(c.ctx) \in Nat /\ Len(c.ctx) <= Len(ctx) /\ 1 <= Len(c.ctx)
  <2>1. /\ Len(ctx) \in Nat /\ Len(c.ctx) \in Nat /\ Len(c.ctx) <= Len(ctx) /\ 1 <= Len(c.ctx)
        /\ Running(stk, o, live, c, ctx, Older, t)
    BY <1>3, CallerIs
  <2> QED
    BY <2>1, <1>3 DEF View
<1>8. PICK k \in 1 .. Len(c.ctx) : o.ci = ctx[k] /\ t.ext <= Links(stk, ctx[k])
  BY <1>3, <1>4, <1>7 DEF Running, FromRecord
<1>9. k \in 1 .. Len(ctx) /\ Record(stk, ctx, k) /\ Links(stk, ctx[k]) \in Nat
  <2>1. k \in 1 .. Len(ctx)
    BY <1>7
  <2>2. Record(stk, ctx, k)
    BY <2>1, <1>7 DEF Records
  <2>3. stk[ctx[k] + 2].v \in DOMAIN Tables
    BY <2>2 DEF Record
  <2>4. WellShaped(prog)
    OBVIOUS
  <2> QED
    BY <2>1, <2>2, <2>3, <2>4, Tabled DEF Links
<1>10. NextClause(stk, ctx, k, I.m)
  BY <1>3, <1>4, <1>8, <1>9 DEF Record
<1>11. \/ v(a) = FailCode
       \/ \E j \in 1 .. k - 1 : v(a + 1) = ctx[j] /\ Goes(Extended(Links(stk, ctx[j])), v(a))
  BY <1>8, <1>10 DEF NextClause, a, v
<1>12. CASE v(a) = FailCode
  <2>1. isFailInstr(v(a))
    BY <1>12 DEF isFailInstr
  <2> QED
    BY <2>1, <1>2, <1>5, <1>12, GivesUpStep
<1>13. CASE v(a) # FailCode
  <2>1. PICK j \in 1 .. k - 1 : v(a + 1) = ctx[j] /\ Goes(Extended(Links(stk, ctx[j])), v(a))
    BY <1>11, <1>13
  <2>2. Trusting(r)
    BY <1>5, <1>13 DEF isFailInstr
  <2>3. j \in 1 .. Len(ctx) /\ j \in 1 .. Len(c.ctx)
    BY <1>7, <1>8
  <2>4. /\ ctx[j] \in Addr /\ Links(stk, ctx[j]) \in Nat
    <3>1. Record(stk, ctx, j)
      BY <2>3, <1>7 DEF Records
    <3>2. stk[ctx[j] + 2].v \in DOMAIN Tables
      BY <3>1 DEF Record
    <3>3. ctx[j] \in Nat /\ ctx[j] < RecEnd(ctx[j]) /\ RecEnd(ctx[j]) <= StackEnd /\ RecEnd(ctx[j]) \in Nat
      BY <2>3, <1>7, RecordsOrder
    <3>4. StackEnd \in Nat
      BY Limits
    <3> QED
      BY <3>2, <3>3, <3>4, Tabled DEF Links, Addr, StackBeg
  <2>5. DOMAIN reg = {"tos", "e", "b", "b0", "i", "ci", "ce", "uc", "p", "cp", "a1"}
    BY <1>3 DEF Registers
  <2>6. DOMAIN w = DOMAIN reg
    BY <1>6 DEF SameBut
  <2>7. SameBut(w, x, {"p", "ci"}) /\ x.p = v(a) /\ x.ci = ctx[j]
    BY <2>1, <2>5, <2>6 DEF SameBut
  <2> HIDE DEF x
  <2>8. SameBut(x, r, {"ce"})
    BY WithCEIs
  <2> HIDE DEF r
  <2>9. /\ DOMAIN r = DOMAIN reg /\ r.p = v(a) /\ r.ci = ctx[j] /\ Restores(r, o)
    BY <1>6, <2>5, <2>6, <2>7, <2>8 DEF SameBut, Restores
  <2>10. q.tos = Newest.base /\ Restores(r, q) /\ r.ci = q.ci /\ r.a1 = q.a1
    BY <2>5, <2>9 DEF Restores, q
  <2> DEFINE u == Extended(Links(stk, ctx[j]))
  <2>11. /\ ~u.own /\ u.univ = 0 /\ u.pushed = 0 /\ u.cut = "clause" /\ u.a1 = "any"
         /\ u.ext = Links(stk, ctx[j])
    BY DEF Extended, Entered, Shape
  <2> HIDE DEF u
  <2>12. \A d : d = c => /\ InContext(q, d, ctx, u) /\ FromRecord(stk, q, d, ctx, u)
                         /\ CutKnown(stk, q, d, Older, u)
    <3>1. Running(stk, o, live, c, ctx, Older, t) /\ t.univ = 0 /\ t.pushed = 0
      BY <1>3, <1>7 DEF InClause
    <3>2. InContext(q, c, ctx, u)
      BY <3>1, <2>9, <2>10, <2>11 DEF Running, InContext, Restores
    <3>3. CutKnown(stk, q, c, Older, u)
      BY <3>1, <1>4, <2>9, <2>10, <2>11 DEF Running, CutKnown, Restores
    <3>4. u.ext <= Links(stk, ctx[j]) /\ u.ext \in Nat /\ q.ci = ctx[j]
      <4>1. \A y \in Nat : y <= y
        OBVIOUS
      <4>2. q.ci = ctx[j]
        BY <2>9, <2>10
      <4>3. u.ext = Links(stk, ctx[j]) /\ u.ext \in Nat
        BY <2>4, <2>11
      <4>4. u.ext <= Links(stk, ctx[j])
        BY ONLY <4>1, <4>3
      <4> QED
        BY <4>2, <4>3, <4>4
    <3>5. FromRecord(stk, q, c, ctx, u)
      BY <3>4, <2>3 DEF FromRecord
    <3> QED
      BY <3>2, <3>3, <3>5
  <2>13. GoalKnown(stk, q, u)
    BY <2>11 DEF GoalKnown
  <2>14. View(stk, q, live, calls, ctx, Older, u)
    <3>1. /\ q.e = o.e /\ q.cp = o.cp /\ q.tos = o.tos
      BY <1>3, <2>9, <2>10 DEF Restores
    <3>2. (u.own <=> t.own) /\ (u.own => u.n = t.n /\ u.slot = t.slot)
      BY <1>3, <2>11
    <3> QED
      BY ONLY <3>1, <3>2, <2>12, <2>13, <1>3, c = calls[Len(calls)], ViewRegs
  <2>15. Goes(u, r.p)
    BY <2>1, <2>9 DEF u
  <2> QED
    BY <1>1, <1>2, <2>2, <2>4, <2>9, <2>10, <2>14, <2>15, TrustStep DEF o
<1> QED
  BY <1>12, <1>13

-----------------------------------------------------------------------------
\* The record of the module stays the first one.
LEMMA RootedStays ==
    ASSUME NEW m, NEW z, NEW cx, Rooted(m), Records(z, cx), z[ModuleIP + 2] = m[ModuleIP + 2]
    PROVE  Rooted(z)
<1>1. cx \in Seq(Nat) /\ cx # <<>> /\ cx[1] = ModuleIP /\ \A k \in 1 .. Len(cx) : Record(z, cx, k)
  BY DEF Records
<1>2. 1 \in 1 .. Len(cx)
  BY <1>1
<1>3. Record(z, cx, 1) /\ 1 \in Nat
  BY <1>1, <1>2
<1>4. \A j \in 1 .. 1 : <<ModuleIP>>[j] = cx[j]
  BY <1>1
<1>5. Record(z, <<ModuleIP>>, 1)
  BY <1>3, <1>4, RecordPrefix
<1> QED
  BY <1>5 DEF Rooted

\* It lies below the frontier of every view.
LEMMA RootedBelow ==
    ASSUME WellShaped(prog), NEW m, NEW r, NEW n, NEW cs, NEW cx, NEW ps, NEW s,
           View(m, r, n, cs, cx, ps, s), NEW F, F = Frontier(r.e, n, r.tos), Rooted(m),
           NEW z, \A a \in 0 .. F - 1 : z[a] = m[a]
    PROVE  Rooted(z)
<1>1. View(z, r, n, cs, cx, ps, s)
  BY ViewBelow
<1>2. Records(z, cx) /\ Layout(z, Frames(r.e, n, cs), r.tos, cx, ps) /\ cx \in Seq(Nat) /\ cx # <<>>
      /\ cx[1] = ModuleIP
  BY <1>1 DEF View, Records
<1>3. F \in Nat /\ r.tos \in Nat /\ r.tos <= F
  BY ViewReaches
<1>4. 1 \in 1 .. Len(cx)
  BY <1>2
<1>5. cx[1] \in Nat /\ RecEnd(cx[1]) <= r.tos /\ RecEnd(cx[1]) = cx[1] + 6
  BY <1>2, <1>4, RecordsOrder DEF Layout, RecEnd, ImpFixSize
<1>6. ModuleIP \in Nat /\ ModuleIP + 6 <= r.tos
  BY <1>2, <1>5
<1>7. ModuleIP + 2 \in 0 .. F - 1
  BY <1>3, <1>6
<1>8. z[ModuleIP + 2] = m[ModuleIP + 2]
  BY <1>7
<1> QED
  BY ONLY <1>2, <1>8, Rooted(m), RootedStays

\* A sequence is what comes before its last element, and that.
LEMMA LastAppended ==
    ASSUME NEW s, IsSeq(s), s # <<>>
    PROVE  Append(Init1(s), s[Len(s)]) = s
<1> DEFINE a == Init1(s)
           z == Append(a, s[Len(s)])
<1>1. Len(s) \in Nat /\ Len(s) # 0 /\ Len(s) - 1 \in 0 .. Len(s)
  BY SeqIs
<1>2. IsSeq(a) /\ Len(a) = Len(s) - 1 /\ \A i \in 1 .. Len(s) - 1 : a[i] = s[i]
  BY <1>1, PrefixIs DEF Init1
<1> HIDE DEF a
<1>3. /\ IsSeq(z) /\ Len(z) = Len(a) + 1 /\ z[Len(a) + 1] = s[Len(s)]
      /\ \A i \in 1 .. Len(a) : z[i] = a[i]
  BY <1>2, AppendIs
<1> HIDE DEF z
<1>4. Len(z) = Len(s) /\ \A i \in 1 .. Len(s) : z[i] = s[i]
  BY <1>1, <1>2, <1>3
<1>5. z = [i \in 1 .. Len(z) |-> z[i]] /\ s = [i \in 1 .. Len(s) |-> s[i]]
  BY <1>3 DEF IsSeq
<1> QED
  BY <1>4, <1>5 DEF z, a

\* The choice point stays, and the machine goes on with what it kept.
LEMMA RetryStep ==
    ASSUME NEW t, Back(t), status = "run", NEW n, n \in Nat, t.cut = "goal" \/ t.a1 # "any" => n > 0,
           NEW l, Goes(t, l), NEW ncl, MayResume(prog.code, CodeShapes, t, ncl),
           NEW r, SameBut(RestoreRegs(n), r, {"p"}), r.p = l, Retrying(r, ncl)
    PROVE  IInv'
<1> DEFINE x == RestoreRegs(n)
           o == SavedRegs(Newest)
           d == Newest
           q == [r EXCEPT !.tos = Newest.base]
           y == [r EXCEPT !.tos = Newest.b + 1]
           z == [stk EXCEPT ![reg.b - 1] = W("cpncl", ncl)]
           c == calls[Len(calls)]
<1>1. /\ SameBut(reg, RestoreWoCI(n), {"b0", "i", "cp", "e", "uc", "a1"})
      /\ SameBut(RestoreWoCI(n), x, {"ci", "ce"})
      /\ Restores(x, o) /\ x.ci = o.ci /\ o.ci \in Addr
      /\ t.cut = "goal" \/ t.a1 # "any" => x.a1 = o.a1
  BY RestoredRegs
<1>2. /\ DOMAIN reg = {"tos", "e", "b", "b0", "i", "ci", "ce", "uc", "p", "cp", "a1"}
      /\ Memory(stk, trail, snaps) /\ Registers(reg, snaps) /\ Stacked(snaps) /\ Loaded
      /\ live \in Nat /\ WellShaped(prog) /\ snaps # <<>> /\ Waits(snaps, Len(snaps), reg.p)
      /\ t = ShapeAt(reg.p) /\ reg.b = d.b /\ o.e < d.base
      /\ {o.e, o.b0, o.i, o.ci, o.b} \subseteq Addr /\ o.cp \in DOMAIN Code
      /\ d.base \in Nat /\ d.b \in Nat /\ d.base + 10 <= d.b /\ FstCP < d.base /\ d.b \in Addr
      /\ ~t.own
  BY DEF Back, Registers
<1> HIDE DEF x, o, d
<1>3. DOMAIN x = DOMAIN reg /\ x.tos = reg.tos /\ x.b = reg.b
  BY <1>1, <1>2 DEF SameBut
<1>4. /\ DOMAIN r = DOMAIN reg /\ Restores(r, o) /\ r.ci = o.ci /\ r.ci \in Addr
      /\ r.tos = reg.tos /\ r.b = reg.b
      /\ t.cut = "goal" \/ t.a1 # "any" => r.a1 = o.a1
  BY <1>1, <1>2, <1>3 DEF SameBut, Restores, x
<1>5. q.tos = d.base /\ Restores(r, q) /\ r.ci = q.ci /\ r.a1 = q.a1
  BY <1>2, <1>4 DEF Restores, d
<1>6. y.tos = d.b + 1 /\ Restores(r, y) /\ r.ci = y.ci /\ r.a1 = y.a1
  BY <1>2, <1>4 DEF Restores, d
<1> HIDE DEF q, y
<1>7. View(stk, q, live, calls, ctx, Older, t)
  BY <1>4, <1>5, RestoresView DEF o, d
<1>8. q.e \in Nat /\ q.e < d.base /\ q.tos = d.base
  <2>1. q.e = o.e
    BY <1>4, <1>5 DEF Restores
  <2>2. o.e \in Nat
    BY <1>2 DEF Addr, StackBeg
  <2> QED
    BY <2>1, <2>2, <1>2, <1>5
<1>9. d.base = Frontier(q.e, live, q.tos)
  BY <1>2, <1>8 DEF Frontier
<1>10. /\ reg.tos \in Nat /\ reg.tos \in Addr /\ d.b + 1 <= reg.tos /\ d.b + 1 \in Addr
       /\ StackEnd \in Nat
  <2>1. reg.tos \in Addr /\ reg.b < reg.tos
    BY <1>2 DEF Registers
  <2>2. StackEnd \in Nat
    BY <1>2, Limits
  <2>3. d.b + 1 <= reg.tos /\ d.b \in Nat
    BY <2>1, <2>2, <1>2 DEF Addr, StackBeg
  <2> QED
    BY ONLY <2>1, <2>2, <2>3 DEF Addr, StackBeg
<1>11. \A a \in 0 .. d.base - 1 : z[a] = stk[a]
  BY <1>2
<1>12. DOMAIN stk = Addr
  BY <1>2 DEF Memory, Tidy
<1> HIDE DEF z
<1>13. /\ Stacked(Older) /\ snaps = Append(Older, d) /\ IsSeq(Older)
  <2>1. IsSeq(snaps)
    BY <1>2 DEF Memory
  <2>2. Len(snaps) - 1 \in 0 .. Len(snaps)
    BY <2>1, <1>2, SeqIs
  <2>3. Memory(stk, trail, Older)
    BY <1>2, <2>2, MemoryDrops DEF Older, Init1
  <2>4. Stacked(Older)
    BY <2>3, MemoryStacks
  <2>5. Append(Init1(snaps), snaps[Len(snaps)]) = snaps
    BY <2>1, <1>2, LastAppended
  <2> QED
    BY <2>4, <2>5 DEF Older, d, Newest, Stacked
<1>14. Running(stk, q, live, c, ctx, Older, t) /\ t.univ \in Nat /\ t.ext \in Nat
  BY <1>7 DEF View, Running, InContext, FromRecord
<1>15. \A f : f = c => CutKnown(z, y, f, Append(Older, d), t)
  <2>1. CutKnown(stk, q, c, Older, t)
    BY <1>14 DEF Running
  <2>2. Points(Append(Older, d)) = Points(Older) \cup {d.b}
    BY <1>13, PointsGrow
  <2>3. y.b0 = q.b0 /\ y.a1 = q.a1
    BY <1>5, <1>6 DEF Restores
  <2> QED
    BY <2>1, <2>2, <2>3, <1>2 DEF CutKnown, CutPoint
<1>16. GoalKnown(z, y, t)
  <2>1. GoalKnown(stk, q, t) /\ y.a1 = q.a1
    BY <1>14, <1>5, <1>6 DEF Running
  <2> QED
    BY <2>1, <1>2 DEF GoalKnown
<1>17. View(z, y, live, calls, ctx, Append(Older, d), t)
  <2>1. /\ y.e = q.e /\ y.cp = q.cp /\ y.i = q.i /\ y.uc = q.uc /\ y.ci = q.ci /\ y.tos = d.b + 1
    BY <1>5, <1>6 DEF Restores
  <2>2. d.base <= d.b /\ d.b + 1 \in Addr /\ d.b \in Nat
    BY <1>2, <1>10
  <2>3. t.ext \in 0 .. t.ext
    BY <1>14
  <2>4. t.univ = t.univ /\ t.pushed = t.pushed /\ WellShaped(prog)
    BY <1>2
  <2>5. \A f : f = calls[Len(calls)] => CutKnown(z, y, f, Append(Older, d), t)
    BY <1>15
  <2>6. \A a \in 0 .. d.base - 1 : z[a] = stk[a]
    BY <1>11
  <2>7. ~t.own
    BY <1>2
  <2> QED
    BY ONLY <2>1, <2>2, <2>3, <2>4, <2>5, <2>6, <2>7, <1>7, <1>9, <1>13, <1>16, ViewAddsChoice
<1>18. View(z, r, live, calls, ctx, snaps, t)
  <2>1. /\ r.e = y.e /\ r.cp = y.cp /\ r.i = y.i /\ r.uc = y.uc /\ r.ci = y.ci /\ r.a1 = y.a1
        /\ r.b0 = y.b0
    BY <1>6 DEF Restores
  <2>2. View(z, y, live, calls, ctx, snaps, t)
    BY <1>13, <1>17
  <2>3. Layout(z, Frames(y.e, live, calls), y.tos, ctx, snaps)
    BY <2>2 DEF View
  <2>4. y.e = q.e
    BY <1>5, <1>6 DEF Restores
  <2>5. Reaches(Frames(q.e, live, calls), q.tos, d.base)
    BY <1>2, <1>7, <1>9, ViewReaches
  <2>6. Reaches(Frames(y.e, live, calls), y.tos, reg.tos)
    <3>1. \A f \in Frames(y.e, live, calls) : EnvEnd(f) <= d.base
      BY <2>4, <2>5 DEF Reaches
    <3>2. \A f \in Frames(y.e, live, calls) : f.e \in Nat /\ f.n \in Nat
      BY <2>3 DEF Layout, Placed
    <3>3. \A f \in Frames(y.e, live, calls) : EnvEnd(f) <= reg.tos
      <4>1. reg.tos \in Nat /\ d.base \in Nat /\ d.base <= reg.tos
        BY <1>2, <1>10
      <4> QED
        BY ONLY <3>1, <3>2, <4>1 DEF EnvEnd
    <3> QED
      BY <3>3, <1>6, <1>10 DEF Reaches
  <2>7. Layout(z, Frames(y.e, live, calls), r.tos, ctx, snaps)
    <3>1. reg.tos \in Addr /\ WellShaped(prog)
      BY <1>2, <1>10
    <3>2. Layout(z, Frames(y.e, live, calls), reg.tos, ctx, snaps)
      BY ONLY <2>3, <2>6, <3>1, LayoutEndsAt
    <3> QED
      BY <3>2, <1>4
  <2> QED
    BY ONLY <2>1, <2>2, <2>7, ViewEnds
<1>19. Waits(snaps, Len(snaps), ncl)
  <2>1. /\ ncl \in DOMAIN Code /\ Code[ncl].op \in Alternatives
        /\ ShapeAt(ncl).a1 = "any" /\ ShapeAt(ncl).cut # "goal" /\ ~ShapeAt(ncl).own
        /\ Fits(t, ShapeAt(ncl))
    BY DEF MayResume, ShapeAt, Code
  <2>2. View(snaps[Len(snaps)].stk, SavedRegs(snaps[Len(snaps)]), SavedLive(snaps[Len(snaps)]),
             snaps[Len(snaps)].calls, snaps[Len(snaps)].ctx, Below(snaps, Len(snaps)), t)
    BY <1>2 DEF Waits
  <2>3. View(snaps[Len(snaps)].stk, SavedRegs(snaps[Len(snaps)]), SavedLive(snaps[Len(snaps)]),
             snaps[Len(snaps)].calls, snaps[Len(snaps)].ctx, Below(snaps, Len(snaps)), ShapeAt(ncl))
    BY <1>2, <2>1, <2>2, ViewFits
  <2> QED
    BY <2>1, <2>3 DEF Waits
<1>20. Rooted(z)
  BY <1>2, <1>7, <1>9, <1>11, RootedBelow DEF Memory
<1>21. Memory(z, trail, snaps)
  <2>1. LastB(snaps) = reg.b
    BY <1>2 DEF Registers
  <2>2. z = [stk EXCEPT ![LastB(snaps) - 1] = W("cpncl", ncl)]
    BY <2>1 DEF z
  <2> QED
    BY <1>2, <1>19, <1>20, <2>2, MemoryRetries
<1>22. Registers(r, snaps)
  <2>1. r.p \in DOMAIN Code
    BY GoesToCode
  <2>2. q.i = ctx[Len(ctx)] /\ q.uc \in 0 .. UCMax
    BY <1>14 DEF Running, InContext
  <2>3. RecEnd(q.i) <= StackEnd
    <3>1. Len(ctx) \in Nat /\ 1 <= Len(ctx)
      BY <1>7, CallerIs
    <3>2. Records(stk, ctx) /\ Len(ctx) \in 1 .. Len(ctx)
      BY <1>7, <3>1 DEF View
    <3> QED
      BY <1>2, <2>2, <3>2, RecordsOrder
  <2>4. r.i = q.i /\ r.uc = q.uc /\ r.e = o.e /\ r.b0 = o.b0 /\ r.i = o.i /\ r.cp = o.cp
    BY <1>4, <1>5 DEF Restores
  <2> QED
    BY <1>2, <1>4, <2>1, <2>2, <2>3, <2>4 DEF Registers
<1>23. /\ reg' = r /\ snaps' = snaps /\ stk' = z /\ trail' = trail /\ prog' = prog
       /\ status' = "run" /\ calls' = calls /\ live' = live /\ ctx' = ctx
  BY DEF Retrying, hist, z
<1>24. /\ Memory(stk', trail', snaps') /\ Registers(reg', snaps')
       /\ View(stk', reg', live', calls', ctx', snaps', t) /\ Goes(t, reg'.p) /\ live' \in Nat
  BY <1>2, <1>18, <1>21, <1>22, <1>23
<1>25. Heir(Frames(reg'.e, live', calls'), ctx', snaps')
  <2> DEFINE fs == Frames(o.e, live, calls)
  <2>1. Heir(fs, ctx, Older) /\ KeptFrames(d) = fs /\ d.ctx = ctx
    BY DEF Back, o, d
  <2>2. \A f \in fs : f.n \in Nat
    <3>1. Layout(stk, Frames(q.e, live, calls), q.tos, ctx, Older) /\ q.e = o.e
      BY <1>4, <1>5, <1>7 DEF View, Restores
    <3> QED
      BY <3>1 DEF Layout, Placed
  <2> HIDE DEF fs
  <2>3. /\ Len(Older) \in Nat /\ Len(snaps) = Len(Older) + 1 /\ snaps[Len(Older) + 1] = d
        /\ \A k \in 1 .. Len(Older) : snaps[k] = Older[k]
    <3>1. Len(Older) \in Nat
      BY <1>13, SeqIs
    <3>2. /\ Len(Append(Older, d)) = Len(Older) + 1 /\ Append(Older, d)[Len(Append(Older, d))] = d
          /\ \A i \in 1 .. Len(Older) : Append(Older, d)[i] = Older[i]
      BY <1>13, AppendIs
    <3> QED
      BY <3>1, <3>2, <1>13
  <2>4. Heir(fs, ctx, snaps)
    BY <2>1, <2>2, <2>3, HeirPushes
  <2>5. reg'.e = o.e
    BY <1>4, <1>23 DEF Restores
  <2> QED
    BY <2>4, <2>5, <1>23 DEF fs
<1> QED
  BY ONLY <1>2, <1>23, <1>24, <1>25, LiveStep

\* What the choice point may resume with, after this instruction.
LEMMA ResumesWith ==
    ASSUME NEW t, Back(t)
    PROVE  /\ I.op \in {"retry_me_else"} \cup ElseOps => MayResume(prog.code, CodeShapes, t, I.l)
           /\ I.op = "retry" => MayResume(prog.code, CodeShapes, t, reg.p + 1)
<1>1. Finds(prog, CodeShapes, reg.p, t, I)
  BY DEF Back
<1> QED
  BY <1>1 DEF Finds

\* The next clause, this one having another after it.
LEMMA RetryMeElseStep ==
    ASSUME WellShaped(prog), IInv, RetryMeElse
    PROVE  IInv'
<1> DEFINE t == ShapeAt(reg.p)
           r == Next1(RestoreRegs(I.n))
<1>1. status = "run" /\ I.op = "retry_me_else" /\ Retrying(r, I.l)
  BY DEF RetryMeElse, Is
<1>2. Back(t)
  BY <1>1, ComesBack DEF Alternatives
<1> HIDE DEF t
<1>3. /\ Goes(t, reg.p + 1) /\ I.n \in Nat /\ (t.cut = "goal" \/ t.a1 # "any" => I.n > 0)
  BY <1>1, <1>2, BackGoes DEF MeOps, Alternatives
<1>4. /\ SameBut(reg, RestoreWoCI(I.n), {"b0", "i", "cp", "e", "uc", "a1"})
      /\ SameBut(RestoreWoCI(I.n), RestoreRegs(I.n), {"ci", "ce"})
  BY <1>2, <1>3, RestoredRegs
<1>5. DOMAIN reg = {"tos", "e", "b", "b0", "i", "ci", "ce", "uc", "p", "cp", "a1"}
  BY <1>2 DEF Back, Registers
<1>6. SameBut(RestoreRegs(I.n), r, {"p"}) /\ r.p = reg.p + 1
  BY <1>4, <1>5 DEF SameBut, Next1
<1>7. MayResume(prog.code, CodeShapes, t, I.l)
  BY <1>1, <1>2, ResumesWith
<1> HIDE DEF r
<1> QED
  BY <1>1, <1>2, <1>3, <1>6, <1>7, RetryStep

\* The next clause, elsewhere, and the one to try after it.
LEMMA RetryElseStep ==
    ASSUME WellShaped(prog), IInv, RetryElse
    PROVE  IInv'
<1> DEFINE t == ShapeAt(reg.p)
           r == [RestoreRegs(I.n) EXCEPT !.p = I.k]
<1>1. status = "run" /\ I.op = "retry_else" /\ Retrying(r, I.l)
  BY DEF RetryElse, Is
<1>2. Back(t)
  BY <1>1, ComesBack DEF Alternatives
<1> HIDE DEF t
<1>3. /\ Goes(t, I.k) /\ I.n \in Nat /\ (t.cut = "goal" \/ t.a1 # "any" => I.n > 0)
  BY <1>1, <1>2, BackGoes DEF ElseOps, Alternatives
<1>4. /\ SameBut(reg, RestoreWoCI(I.n), {"b0", "i", "cp", "e", "uc", "a1"})
      /\ SameBut(RestoreWoCI(I.n), RestoreRegs(I.n), {"ci", "ce"})
  BY <1>2, <1>3, RestoredRegs
<1>5. DOMAIN reg = {"tos", "e", "b", "b0", "i", "ci", "ce", "uc", "p", "cp", "a1"}
  BY <1>2 DEF Back, Registers
<1>6. SameBut(RestoreRegs(I.n), r, {"p"}) /\ r.p = I.k
  BY <1>4, <1>5 DEF SameBut
<1>7. MayResume(prog.code, CodeShapes, t, I.l)
  BY <1>1, <1>2, ResumesWith DEF ElseOps
<1> HIDE DEF r
<1> QED
  BY <1>1, <1>2, <1>3, <1>6, <1>7, RetryStep

\* The next clause of a list of clauses.
LEMMA RetryToStep ==
    ASSUME WellShaped(prog), IInv, Retry
    PROVE  IInv'
<1> DEFINE t == ShapeAt(reg.p)
           r == [RestoreRegs(I.n) EXCEPT !.p = I.l]
<1>1. status = "run" /\ I.op = "retry" /\ Retrying(r, reg.p + 1)
  BY DEF Retry, Is
<1>2. Back(t)
  BY <1>1, ComesBack DEF Alternatives
<1> HIDE DEF t
<1>3. /\ Goes(t, I.l) /\ I.n \in Nat /\ (t.cut = "goal" \/ t.a1 # "any" => I.n > 0)
  BY <1>1, <1>2, BackGoes DEF ToOps, Alternatives
<1>4. /\ SameBut(reg, RestoreWoCI(I.n), {"b0", "i", "cp", "e", "uc", "a1"})
      /\ SameBut(RestoreWoCI(I.n), RestoreRegs(I.n), {"ci", "ce"})
  BY <1>2, <1>3, RestoredRegs
<1>5. DOMAIN reg = {"tos", "e", "b", "b0", "i", "ci", "ce", "uc", "p", "cp", "a1"}
  BY <1>2 DEF Back, Registers
<1>6. SameBut(RestoreRegs(I.n), r, {"p"}) /\ r.p = I.l
  BY <1>4, <1>5 DEF SameBut
<1>7. MayResume(prog.code, CodeShapes, t, reg.p + 1)
  BY <1>1, <1>2, ResumesWith
<1> HIDE DEF r
<1> QED
  BY <1>1, <1>2, <1>3, <1>6, <1>7, RetryStep

-----------------------------------------------------------------------------
\* Failing and stopping.
LEMMA FailStep ==
    ASSUME IInv, Fail \/ Stop
    PROVE  IInv'
<1>1. UNCHANGED <<reg, stk, trail, prog, hist>> /\ status' \in {"fail", "stopped"}
  BY DEF Fail, Fails, Stop
<1>2. status' \in Statuses /\ status' # "run" /\ status' # "idle"
  BY <1>1 DEF Statuses
<1> QED
  BY <1>1, <1>2, StillStep

\* Asked for more answers, the machine goes on by failing.
LEMMA MoreAnswersStep ==
    ASSUME WellShaped(prog), IInv, MoreAnswers
    PROVE  IInv'
<1>1. /\ status = "result" /\ status' = "run" /\ reg' = [reg EXCEPT !.p = FailCode]
      /\ stk' = stk /\ trail' = trail /\ prog' = prog /\ calls' = calls /\ snaps' = snaps
      /\ live' = live /\ ctx' = ctx
  BY DEF MoreAnswers, hist
<1>2. /\ Memory(stk, trail, snaps) /\ Registers(reg, snaps) /\ Joined(stk, calls) /\ Loaded /\ live \in Nat
  BY DEF IInv
<1>3. FailCode \in DOMAIN Code /\ Code[FailCode].op = "fail"
  BY Limits DEF FailCode, Boot, Op
<1>4. /\ Memory(stk, trail, snaps)' /\ Joined(stk, calls)' /\ Loaded' /\ live' \in Nat
  <2>1. Memory(stk', trail', snaps')
    BY <1>1, <1>2
  <2> QED
    BY <1>1, <1>2, <2>1, StaysMemory DEF Joined, Loaded
<1>5. Registers(reg, snaps)'
  <2> DEFINE r == [reg EXCEPT !.p = FailCode]
  <2>1. Registers(r, snaps)
    BY <1>2, <1>3 DEF Registers
  <2> HIDE DEF r
  <2>2. Registers(reg', snaps')
    BY <1>1, <2>1 DEF r
  <2> QED
    BY <1>1, <2>2, StaysRegisters
<1>6. I'.op = "fail"
  <2>1. reg'.p = FailCode
    BY <1>1, <1>2 DEF Registers
  <2>2. Code' = Code
    BY <1>1 DEF Code
  <2> QED
    BY <2>1, <2>2, <1>3 DEF I
<1>7. ~IsLive' /\ I'.op \notin Alternatives
  BY <1>6 DEF IsLive, Halting, Alternatives
<1>8. status' \in Statuses
  BY <1>1 DEF Statuses
<1>9. InUse'
  <2> DEFINE r == [reg EXCEPT !.p = FailCode]
  <2>1. InUse
    BY <1>1 DEF IInv, Using
  <2>2. PICK t : View(stk, reg, live, calls, ctx, snaps, t)
    BY <2>1 DEF InUse
  <2>3. /\ r.e = reg.e /\ r.cp = reg.cp /\ r.i = reg.i /\ r.uc = reg.uc /\ r.ci = reg.ci
        /\ r.a1 = reg.a1 /\ r.b0 = reg.b0 /\ r.tos = reg.tos
    BY <1>2 DEF Registers
  <2> HIDE DEF r
  <2>4. Layout(stk, Frames(reg.e, live, calls), r.tos, ctx, snaps)
    BY <2>2, <2>3 DEF View
  <2>5. View(stk, r, live, calls, ctx, snaps, t)
    BY ONLY <2>2, <2>3, <2>4, ViewEnds
  <2>6. View(stk', reg', live', calls', ctx', snaps', t)
    BY <1>1, <2>5 DEF r
  <2>7. Heir(Frames(reg'.e, live', calls'), ctx', snaps')
    BY <1>1, <2>1, <2>3 DEF InUse, r
  <2> QED
    BY <1>1, <2>6, <2>7, StaysView, StaysLayout, StaysMemory DEF InUse
<1> QED
  BY <1>1, <1>4, <1>5, <1>7, <1>8, <1>9 DEF IInv, Alternatives

\* A failure goes back to the newest choice point: what backtracking leaves.
LEMMA Backtracks ==
    ASSUME WellShaped(prog), IInv, Backtrack, ~botCP(reg.b), NEW s, s = Newest,
           NEW L, L = Len(snaps)
    PROVE  /\ snaps # <<>> /\ IsSeq(snaps) /\ L \in Nat /\ L # 0 /\ L \in 1 .. L
           /\ s = snaps[L] /\ reg.b = s.b
           /\ status' = "run" /\ prog' = prog /\ snaps' = snaps
           /\ trail' = SubSeq(trail, 1, Mark(s)) /\ reg' = [reg EXCEPT !.p = stk[s.b - 1].v]
           /\ calls' = s.calls /\ ctx' = s.ctx /\ live' = SavedLive(s)
           /\ s.b \in Nat /\ s.b \in Addr /\ s.base \in Nat /\ FstCP < s.base /\ s.base + 10 <= s.b
           /\ StackEnd \in Nat /\ DOMAIN stk' = Addr
           /\ \A a \in StackBeg .. s.b : /\ a # s.b - 1 /\ ~Unknown(s, a) => stk'[a] = s.stk[a]
                                         /\ Unknown(s, a) => stk'[a] = Junk
           /\ stk'[s.b - 1] = stk[s.b - 1]
           /\ \A a \in Addr : s.b < a => stk'[a] = Junk
<1> DEFINE U == UnwoundTo(Mark(s))
           z == stk'
<1>a. /\ Memory(stk, trail, snaps) /\ Registers(reg, snaps) /\ Stacked(snaps)
  BY MemoryStacks DEF IInv
<1>1. /\ status' = "run" /\ prog' = prog /\ snaps' = snaps
      /\ trail' = SubSeq(trail, 1, cpTR(reg.b)) /\ reg' = [reg EXCEPT !.p = cpNCL(reg.b)]
      /\ calls' = Newest.calls /\ ctx' = Newest.ctx /\ live' = LiveAt(cpE(reg.b), cpCP(reg.b))
  BY DEF Backtrack
<1>2. stk' = LET W0 == UnwoundTo(cpTR(reg.b))
                 Known(a) == \/ a \in Newest.base .. reg.b
                             \/ /\ a < Newest.base
                                /\ Newest.stk[a].f # "junk"
             IN  [a \in Addr |-> IF Known(a) THEN W0[a] ELSE Junk]
  BY DEF Backtrack
<1>3. snaps # <<>>
  BY <1>a DEF Registers, LastB, botCP
<1>4. IsSeq(snaps) /\ L \in Nat /\ L # 0 /\ L \in 1 .. L
  <2>1. IsSeq(snaps)
    BY <1>a DEF Memory
  <2> QED
    BY <2>1, <1>3, SeqIs
<1>5. s = snaps[L] /\ reg.b = s.b
  BY <1>a, <1>3 DEF Registers, LastB, Newest
<1>6. Made(snaps, L) /\ Waits(snaps, L, stk[s.b - 1].v) /\ Kept(stk, trail, snaps, L)
  BY <1>a, <1>4, <1>5 DEF Memory
<1>7. /\ s.b \in Addr /\ s.base \in Nat /\ FstCP < s.base /\ s.base + 10 <= s.b
      /\ \A d \in 0 .. CPFixSize - 1 : s.stk[s.b - d].f \notin {"junk", "free", "bound"}
      /\ Mark(s) \in Nat
  <2>1. s.b \in Addr /\ s.base \in Nat /\ FstCP < s.base /\ s.base + CPFixSize - 1 <= s.b
    BY <1>5, <1>6 DEF Made
  <2>2. /\ \A d \in 0 .. CPFixSize - 1 : s.stk[s.b - d].f \notin {"junk", "free", "bound"}
        /\ Mark(s) \in Nat
    BY <1>5, <1>6 DEF Made
  <2>3. s.base + 10 <= s.b
    BY <2>1 DEF CPFixSize
  <2> QED
    BY <2>1, <2>2, <2>3
<1>8. s.b \in Nat /\ StackEnd \in Nat
  BY <1>7, Limits DEF Addr, StackBeg
<1>9. \A x \in {2, 8, 9} : stk[s.b - x] = s.stk[s.b - x]
  <2> SUFFICES ASSUME NEW x \in {2, 8, 9}
               PROVE  stk[s.b - x] = s.stk[s.b - x]
    OBVIOUS
  <2>1. /\ s.b - x \in StackBeg .. s.b /\ s.b - x # s.b - 1 /\ ~(s.b - x < s.base)
        /\ x \in 0 .. CPFixSize - 1
    <3>1. PICK b, e : b = s.b /\ e = s.base
      OBVIOUS
    <3>2. b \in Nat /\ e \in Nat /\ e + 10 <= b
      BY <1>7, <1>8, <3>1
    <3>3. b - x \in StackBeg .. b /\ b - x # b - 1 /\ ~(b - x < e) /\ x \in 0 .. CPFixSize - 1
      BY ONLY <3>2, x \in {2, 8, 9} DEF StackBeg, CPFixSize
    <3> QED
      BY <3>1, <3>3
  <2>2. s.stk[s.b - x].f \notin {"junk", "free", "bound"}
    BY <1>7, <2>1
  <2>3. Keeps(s, stk)
    BY <1>5, <1>6 DEF Kept
  <2> QED
    BY <2>1, <2>2, <2>3 DEF Keeps, Unknown
<1>10. cpTR(reg.b) = Mark(s) /\ LiveAt(cpE(reg.b), cpCP(reg.b)) = SavedLive(s)
  <2>1. stk[s.b - 2] = s.stk[s.b - 2] /\ stk[s.b - 8] = s.stk[s.b - 8] /\ stk[s.b - 9] = s.stk[s.b - 9]
    BY <1>9
  <2> QED
    BY <1>5, <2>1 DEF cpTR, cpE, cpCP, v, Mark, SavedLive, SavedRegs
<1>11. \A a \in Addr : z[a] = IF a <= s.b /\ ~Unknown(s, a) THEN U[a] ELSE Junk
  <2> DEFINE Known(a) == a \in s.base .. s.b \/ (a < s.base /\ s.stk[a].f # "junk")
  <2>1. stk' = [a \in Addr |-> IF Known(a) THEN UnwoundTo(Mark(s))[a] ELSE Junk]
    BY <1>2, <1>5, <1>10
  <2>2. \A a \in Addr : Known(a) <=> a <= s.b /\ ~Unknown(s, a)
    BY <1>7, <1>8 DEF Unknown, Addr, StackBeg
  <2> HIDE DEF Known
  <2> QED
    BY <2>1, <2>2
<1>12. DOMAIN z = Addr
  BY <1>2
<1> HIDE DEF z
<1>13. /\ \A a \in StackBeg .. s.b : /\ a # s.b - 1 /\ ~Unknown(s, a) => z[a] = s.stk[a]
                                     /\ Unknown(s, a) => z[a] = Junk
       /\ z[s.b - 1] = stk[s.b - 1]
       /\ \A a \in Addr : s.b < a => z[a] = Junk
  BY <1>a, <1>3, <1>5, <1>11, <1>12, Rewinds
<1>14. cpNCL(reg.b) = stk[s.b - 1].v
  BY <1>5 DEF cpNCL, v
<1> QED
  BY <1>1, <1>3, <1>4, <1>5, <1>7, <1>8, <1>10, <1>12, <1>13, <1>14 DEF z

\* So the invariant holds again.
LEMMA BacktrackStep ==
    ASSUME WellShaped(prog), IInv, Backtrack
    PROVE  IInv'
<1> DEFINE s == Newest
           z == stk'
           L == Len(snaps)
<1>1. /\ Memory(stk, trail, snaps) /\ Registers(reg, snaps) /\ Joined(stk, calls) /\ Loaded /\ live \in Nat
      /\ Stacked(snaps)
  BY MemoryStacks DEF IInv
<1>2. status = "fail"
  BY DEF Backtrack
<1>3. CASE botCP(reg.b)
  <2>1. status' = "failed" /\ UNCHANGED <<reg, stk, trail, prog, hist>>
    BY <1>3 DEF Backtrack
  <2>2. status' \in Statuses /\ status' # "run" /\ status' # "idle"
    BY <2>1 DEF Statuses
  <2> QED
    BY <2>1, <2>2, StillStep
<1>4. CASE ~botCP(reg.b)
  <2>1. /\ snaps # <<>> /\ IsSeq(snaps) /\ L \in Nat /\ L # 0 /\ L \in 1 .. L
        /\ s = snaps[L] /\ reg.b = s.b
        /\ status' = "run" /\ prog' = prog /\ snaps' = snaps
        /\ trail' = SubSeq(trail, 1, Mark(s)) /\ reg' = [reg EXCEPT !.p = stk[s.b - 1].v]
        /\ calls' = s.calls /\ ctx' = s.ctx /\ live' = SavedLive(s)
        /\ s.b \in Nat /\ s.b \in Addr /\ s.base \in Nat /\ FstCP < s.base /\ s.base + 10 <= s.b
        /\ StackEnd \in Nat /\ DOMAIN z = Addr
        /\ \A a \in StackBeg .. s.b : /\ a # s.b - 1 /\ ~Unknown(s, a) => z[a] = s.stk[a]
                                      /\ Unknown(s, a) => z[a] = Junk
        /\ z[s.b - 1] = stk[s.b - 1]
        /\ \A a \in Addr : s.b < a => z[a] = Junk
    BY <1>4, Backtracks
  <2>7. Made(snaps, L) /\ Waits(snaps, L, stk[s.b - 1].v) /\ Kept(stk, trail, snaps, L)
    BY <1>1, <2>1 DEF Memory, L
  <2> HIDE DEF L, s, z
  <2> DEFINE t == ShapeAt(stk[s.b - 1].v)
  <2>23. View(z, SavedRegs(s), SavedLive(s), s.calls, s.ctx, Below(snaps, L), t)
    <3>1. View(s.stk, SavedRegs(s), SavedLive(s), s.calls, s.ctx, Below(snaps, L), t)
      BY <2>1, <2>7 DEF Waits
    <3>2. SavedRegs(s).tos = s.base /\ SavedRegs(s).e < s.base /\ s.base \in Nat
      BY <2>1, <2>7 DEF Made, SavedRegs
    <3>3. \A a \in Nat : a < s.base => a \in StackBeg .. s.b /\ a # s.b - 1
      BY <2>1 DEF StackBeg
    <3>4. \A a \in Nat : a < s.base /\ s.stk[a].f # "junk" => z[a] = s.stk[a]
      BY <3>3, <2>1 DEF Unknown
    <3>5. \A a \in Nat : a < s.base /\ s.stk[a].f = "junk" => z[a] = s.stk[a] \/ z[a].f = "junk"
      BY <3>3, <2>1 DEF Unknown, Junk, W
    <3> HIDE DEF t
    <3> QED
      BY ONLY WellShaped(prog), <3>1, <3>2, <3>4, <3>5, ViewBack
  <2> HIDE DEF t
  <2>14. Rooted(z)
    <3>1. View(s.stk, SavedRegs(s), SavedLive(s), s.calls, s.ctx, Below(snaps, L), t)
      BY <2>1, <2>7 DEF Waits, t
    <3>2. Records(s.stk, s.ctx) /\ Records(z, s.ctx)
      BY <3>1, <2>23 DEF View
    <3>3. \A k \in 1 .. Len(s.ctx) : RecEnd(s.ctx[k]) <= s.base
      BY <3>1 DEF View, Layout, SavedRegs
    <3>7. Rooted(stk) /\ Tidy(stk)
      BY <1>1 DEF Memory
    <3>8. 1 \in 1 .. Len(s.ctx) /\ s.ctx[1] = ModuleIP
      BY <3>2 DEF Records
    <3>9. s.stk[ModuleIP + 2] = stk[ModuleIP + 2]
      <4>1. /\ ModuleIP \in Nat /\ ModuleIP + 6 <= s.base
        BY <3>2, <3>3, <3>8, RecordsOrder DEF RecEnd, ImpFixSize
      <4>2. Record(s.stk, s.ctx, 1)
        BY <3>2, <3>8 DEF Records
      <4>3. s.stk[ModuleIP + 2].f = "pst"
        BY <3>8, <4>2 DEF Record
      <4>4. ModuleIP + 2 \in StackBeg .. s.b /\ ModuleIP + 2 # s.b - 1
        BY <4>1, <2>1 DEF StackBeg
      <4>5. Keeps(s, stk)
        BY <2>1, <2>7 DEF Kept
      <4> QED
        BY <4>3, <4>4, <4>5 DEF Keeps, Unknown
    <3>10. z[ModuleIP + 2] = stk[ModuleIP + 2]
      <4>1. /\ ModuleIP \in Nat /\ ModuleIP + 6 <= s.base
        BY <3>2, <3>3, <3>8, RecordsOrder DEF RecEnd, ImpFixSize
      <4>2. Record(s.stk, s.ctx, 1)
        BY <3>2, <3>8 DEF Records
      <4>3. s.stk[ModuleIP + 2].f = "pst"
        BY <3>8, <4>2 DEF Record
      <4>4. ModuleIP + 2 \in StackBeg .. s.b /\ ModuleIP + 2 # s.b - 1
        BY <4>1, <2>1 DEF StackBeg
      <4> QED
        BY <3>9, <4>3, <4>4, <2>1 DEF Unknown
    <3> QED
      BY <3>2, <3>7, <3>10, RootedStays
  <2>15. Memory(z, SubSeq(trail, 1, Mark(s)), snaps)
    BY <1>1, <2>1, <2>14, MemoryRewinds DEF L
  <2>16. /\ reg'.p = stk[s.b - 1].v /\ reg'.p \in DOMAIN Code /\ Code[reg'.p].op \in Alternatives
         /\ SameBut(reg, reg', {"p"})
    <3>1. stk[s.b - 1].v \in DOMAIN Code /\ Code[stk[s.b - 1].v].op \in Alternatives
      BY <2>7 DEF Waits
    <3> QED
      BY <1>1, <2>1, <3>1 DEF Registers, SameBut
  <2>17. Registers(reg', snaps)
    BY <1>1, <2>16 DEF Registers, SameBut
  <2>18. Memory(stk, trail, snaps)' /\ Registers(reg, snaps)'
    <3>1. Memory(stk', trail', snaps') /\ Registers(reg', snaps')
      BY <2>1, <2>15, <2>17 DEF z
    <3> QED
      BY <2>1, <3>1, StaysMemory, StaysRegisters
  <2>19. I'.op \in Alternatives
    <3>1. Code' = Code
      BY <2>1 DEF Code
    <3> QED
      BY <3>1, <2>16 DEF I
  <2>20. Resumed'
    <3>1. Newest' = s
      BY <2>1 DEF Newest, s
    <3>2. \A a \in StackBeg .. s.b :
             a = s.b - 1 \/ z[a] = s.stk[a] \/ (Unknown(s, a) /\ z[a].f = "junk")
      BY <2>1 DEF Junk, W
    <3>3. SavedLive(s)' = SavedLive(s)
      <4>1. \A x : SavedLive(x)' = SavedLive(x)
        BY <2>1, StaysMemory
      <4>2. s' = s
        BY <3>1 DEF s
      <4> QED
        BY <2>1, <3>1 DEF s, Newest, SavedLive, SavedRegs, LiveAt, CallI1, Code
    <3> QED
      BY <2>1, <2>16, <3>1, <3>2, <3>3 DEF Resumed, z, s, Unknown
  <2>21. Joined(stk, calls)'
    <3>1. Joined(z, s.calls)
      BY <2>23, ViewJoined
    <3> QED
      BY <2>1, <3>1 DEF Joined, z, s
  <2>22. Loaded' /\ status' \in Statuses /\ live' \in Nat
    <3>1. SavedLive(s) \in Nat
      BY <2>23 DEF View, Running, AtEnv
    <3> QED
      BY <1>1, <2>1, <3>1 DEF Loaded, Statuses
  <2> QED
    BY <2>1, <2>18, <2>19, <2>20, <2>21, <2>22 DEF IInv, IsLive, Using
<1> QED
  BY <1>3, <1>4

-----------------------------------------------------------------------------
\* Registers after an instruction that only moves on.
LEMMA NextRegs ==
    ASSUME NEW ps, Registers(reg, ps), NEW t, Goes(t, reg.p + 1)
    PROVE  /\ SameBut(reg, Next1(reg), {"p"}) /\ Next1(reg).p = reg.p + 1
           /\ Registers(Next1(reg), ps)
<1>1. SameBut(reg, Next1(reg), {"p"}) /\ Next1(reg).p = reg.p + 1
  BY DEF Registers, SameBut, Next1
<1>2. reg.p + 1 \in DOMAIN Code
  BY GoesToCode
<1> QED
  BY <1>1, <1>2 DEF Registers, SameBut

\* Writing a variable that had nothing in it: nothing else changes.
LEMMA WritesSlot ==
    ASSUME NEW s, Here(s), NEW x \in 1 .. s.n, s.own, s.slot[x] = "none", NEW a, a = reg.e + 2 * x,
           NEW w, w.f # "junk", w.f # "bound", NEW z, z = [stk EXCEPT ![a] = w],
           Records(z, ctx)
    PROVE  Memory(z, trail, snaps)
<1>1. /\ View(stk, reg, live, calls, ctx, snaps, s) /\ Memory(stk, trail, snaps) /\ WellShaped(prog)
      /\ IsShape(s) /\ Stacked(snaps)
  BY DEF Here
<1>2. /\ Running(stk, reg, live, calls[Len(calls)], ctx, snaps, s)
      /\ Layout(stk, Frames(reg.e, live, calls), reg.tos, ctx, snaps)
      /\ reg.e \in Nat /\ reg.e # StackBeg /\ live = s.n /\ s.n \in Nat
      /\ [e |-> reg.e, n |-> live] \in Frames(reg.e, live, calls)
  <2>1. /\ Running(stk, reg, live, calls[Len(calls)], ctx, snaps, s)
        /\ Layout(stk, Frames(reg.e, live, calls), reg.tos, ctx, snaps)
        /\ Calls(stk, calls, ctx, snaps)
    BY <1>1 DEF View
  <2>2. /\ reg.e \in Nat /\ reg.e # StackBeg /\ live = s.n
        /\ reg.e = StackBeg \/ [e |-> reg.e, n |-> live] \in Frames(reg.e, live, calls)
    <3>1. reg.e \in Nat
      BY <2>1, FramesAre
    <3>2. s.own => reg.e # StackBeg
      BY <2>1, FramesAre
    <3>3. s.own => live = s.n
      BY <2>1 DEF Running, AtEnv
    <3>4. reg.e = StackBeg \/ [e |-> reg.e, n |-> live] \in Frames(reg.e, live, calls)
      BY DEF Frames
    <3> QED
      BY <3>1, <3>2, <3>3, <3>4
  <2>3. s.n \in Nat
    BY <1>1 DEF IsShape
  <2> QED
    BY <2>1, <2>2, <2>3
<1>3. /\ Environment(stk, calls[Len(calls)], reg.e, s)
  BY <1>2 DEF Running, AtEnv
<1>4. /\ stk[reg.e + 1] = W("cp", calls[Len(calls)].ret)
      /\ \A y \in 1 .. s.n : Slot(stk, reg.e + 2 * y, s.slot[y])
  BY <1>3 DEF Environment
<1>5. stk[a].f = "junk" /\ stk[a + 1].f = "junk"
  BY <1>4 DEF Slot
<1>6. a - 1 = reg.e + 1 \/ (x - 1 \in 1 .. s.n /\ a - 1 = reg.e + 2 * (x - 1) + 1)
  BY <1>2
<1>7. stk[a - 1].f # "free"
  <2>1. CASE a - 1 = reg.e + 1
    BY <1>4, <2>1 DEF W
  <2>2. CASE x - 1 \in 1 .. s.n /\ a - 1 = reg.e + 2 * (x - 1) + 1
    BY <1>4, <2>2 DEF Slot
  <2> QED
    BY <1>6, <2>1, <2>2
<1>8. Tidy(stk) /\ Rooted(stk)
  BY <1>1 DEF Memory
<1>9. DOMAIN stk = Addr /\ DOMAIN z = Addr /\ a \in Nat
  BY <1>2, <1>8 DEF Tidy
<1>10. Tidy(z)
  <2>1. ASSUME NEW b \in Addr, z[b].f = "free", b + 1 \in Addr
        PROVE  z[b + 1].f \notin {"free", "bound"}
    <3>0. b \in Int
      BY DEF Addr
    <3>1. CASE b = a
      BY <2>1, <3>1, <1>5, <1>9
    <3>2. CASE b = a - 1
      BY <2>1, <3>2, <1>7, <1>9
    <3>3. CASE b # a /\ b + 1 # a
      BY <2>1, <3>3, <1>8, <1>9 DEF Tidy, Spaced
    <3> QED
      BY <3>0, <3>1, <3>2, <3>3, <1>9
  <2>2. \A b \in Addr : z[b].f = "junk" => z[b] = Junk
    BY <1>8, <1>9 DEF Tidy
  <2> QED
    BY <1>9, <2>1, <2>2 DEF Tidy, Spaced
<1>11. Rooted(z)
  <2>1. stk[ModuleIP + 2].f = "pst"
    <3>1. Records(stk, ctx)
      BY <1>1 DEF View
    <3>2. Record(stk, ctx, 1) /\ ctx[1] = ModuleIP
      <4>1. ctx \in Seq(Nat) /\ ctx # <<>> /\ ctx[1] = ModuleIP
        BY <3>1 DEF Records
      <4>2. 1 \in 1 .. Len(ctx)
        BY <4>1
      <4> QED
        BY <3>1, <4>1, <4>2 DEF Records
    <3> QED
      BY <3>2 DEF Record
  <2>2. z[ModuleIP + 2] = stk[ModuleIP + 2]
    BY <2>1, <1>5
  <2> QED
    BY <2>2, <1>8, RootedStays
<1>12. \A b \in Addr : z[b] = stk[b] \/ Ignored(snaps, b)
  <2> SUFFICES ASSUME a \in Addr, NEW k \in 1 .. Len(snaps)
               PROVE  snaps[k].b < a \/ Unknown(snaps[k], a)
    BY <1>9 DEF Ignored
  <2>1. /\ snaps[k].b \in Nat /\ snaps[k].base \in Nat /\ snaps[k].base + 10 <= snaps[k].b
        /\ snaps[k].b \in Addr
    BY <1>1, MemoryStacks
  <2>2. Beside([e |-> reg.e, n |-> live], snaps[k].base, snaps[k].b + 1)
    BY <1>2 DEF Layout, Placed
  <2>3. CASE snaps[k].b + 1 <= reg.e - 2
    <3>1. snaps[k].b < a
      BY <1>2, <2>1, <2>3
    <3> QED
      BY <3>1
  <2>4. CASE reg.e + 2 + 2 * live <= snaps[k].base
    <3>1. a < snaps[k].base /\ a # snaps[k].b - 1 /\ a \in StackBeg .. snaps[k].b
      <4>0. x \in 1 .. live /\ live \in Nat /\ reg.e \in Nat /\ a = reg.e + 2 * x
        BY <1>2
      <4>1. a + 2 <= reg.e + 2 + 2 * live
        BY ONLY <4>0
      <4>2. a < snaps[k].base
        <5>1. reg.e + 2 + 2 * live \in Nat /\ snaps[k].base \in Nat /\ a \in Nat
          <6>1. a \in Nat /\ snaps[k].base \in Nat
            BY <1>9, <2>1
          <6>2. reg.e + 2 + 2 * live \in Nat
            BY ONLY <4>0
          <6> QED
            BY ONLY <6>1, <6>2
        <5> QED
          BY ONLY <5>1, <4>1, <2>4
      <4> QED
        BY <4>2, <2>1, <1>9 DEF StackBeg
    <3>2. Keeps(snaps[k], stk)
      BY <1>1 DEF Memory, Kept
    <3>3. Unknown(snaps[k], a) \/ stk[a] = snaps[k].stk[a]
      BY <3>1, <3>2, <1>5 DEF Keeps
    <3> QED
      BY <3>1, <3>3, <1>5 DEF Unknown
  <2> QED
    BY <2>2, <2>3, <2>4 DEF Beside, EnvEnd
<1> QED
  BY <1>1, <1>10, <1>11, <1>12, MemoryWrites

\* A variable of the environment is set, or the cut point kept in it.
LEMMA SetVarStep ==
    ASSUME NEW s, Here(s), status = "run", I.op \in ValueOps \cup {"get_level"},
           NEW w, NEW kind, After(s, I) = Set(s, I.y, kind),
           \/ kind = "value" /\ w.f \in Values /\ w.f # "bound"
           \/ kind = "level" /\ w.f = "level" /\ w.v = reg.b0 /\ s.cut = "clause",
           reg' = Next1(reg), stk' = [stk EXCEPT ![Y(I.y)] = w],
           UNCHANGED <<trail, prog, status, hist>>
    PROVE  IInv'
<1> DEFINE a == reg.e + 2 * I.y
           z == [stk EXCEPT ![a] = w]
           t == Set(s, I.y, kind)
           r == Next1(reg)
<1>1. /\ View(stk, reg, live, calls, ctx, snaps, s) /\ Memory(stk, trail, snaps) /\ WellShaped(prog)
      /\ IsShape(s) /\ Registers(reg, snaps) /\ Loaded /\ live \in Nat /\ Stacked(snaps)
      /\ Finds(prog, CodeShapes, reg.p, s, I)
  BY DEF Here
<1>2. s.own /\ I.y \in 1 .. s.n /\ s.slot[I.y] = "none"
  <2>1. I.op \in SlotOps
    BY DEF SlotOps
  <2> QED
    BY <1>1, <2>1 DEF Finds
<1>3. Goes(t, reg.p + 1)
  BY NextGoes DEF Straight, SlotOps
<1>4. DOMAIN stk = Addr
  BY <1>1 DEF Memory, Tidy
<1> HIDE DEF t
<1>5. View(z, reg, live, calls, ctx, snaps, t)
  <2>1. \/ kind = "value" /\ w.f \in Values
        \/ kind = "level" /\ w.f = "level" /\ w.v = reg.b0 /\ s.cut = "clause"
    OBVIOUS
  <2>2. z = [stk EXCEPT ![reg.e + 2 * I.y] = w] /\ t = Set(s, I.y, kind)
    BY DEF t
  <2> HIDE DEF z
  <2> QED
    BY <1>1, <1>2, <1>4, <2>1, <2>2, ViewSets
<1>6. w.f # "junk" /\ w.f # "bound"
  BY DEF Values
<1>7. Records(z, ctx) /\ Layout(z, Frames(reg.e, live, calls), reg.tos, ctx, snaps)
  BY <1>5 DEF View
<1>8. z = [stk EXCEPT ![a] = w] /\ a = reg.e + 2 * I.y
  OBVIOUS
<1>9. stk' = z
  BY DEF Y
<1> HIDE DEF z, a
<1>10. Memory(z, trail, snaps)
  BY <1>2, <1>6, <1>7, <1>8, WritesSlot
<1>11. /\ SameBut(reg, r, {"p"}) /\ r.p = reg.p + 1 /\ Registers(r, snaps)
  BY <1>1, <1>3, NextRegs
<1> HIDE DEF r
<1>12. View(z, r, live, calls, ctx, snaps, t)
  <2>1. /\ r.e = reg.e /\ r.cp = reg.cp /\ r.i = reg.i /\ r.uc = reg.uc /\ r.ci = reg.ci
        /\ r.a1 = reg.a1 /\ r.b0 = reg.b0 /\ r.tos = reg.tos
    BY <1>1, <1>11, SameFields
  <2>2. Layout(z, Frames(reg.e, live, calls), r.tos, ctx, snaps)
    BY <1>7, <2>1
  <2> QED
    BY ONLY <1>5, <2>1, <2>2, ViewEnds
<1>13. /\ Memory(stk', trail', snaps') /\ Registers(reg', snaps')
       /\ View(stk', reg', live', calls', ctx', snaps', t) /\ Goes(t, reg'.p) /\ live' \in Nat
       /\ status' = "run" /\ prog' = prog
  BY <1>1, <1>3, <1>9, <1>10, <1>11, <1>12 DEF hist, r
<1>14. Heir(Frames(reg'.e, live', calls'), ctx', snaps')
  <2>1. Heir(Frames(reg.e, live, calls), ctx, snaps)
    BY DEF Here
  <2>2. reg'.e = reg.e
    BY <1>1 DEF Next1, Registers
  <2> QED
    BY <2>1, <2>2 DEF hist
<1> QED
  BY ONLY <1>1, <1>13, <1>14, LiveStep

\* The instructions that write a variable.
LEMMA ValueStep ==
    ASSUME WellShaped(prog), IInv, NEW w, w.f \in Values, w.f # "bound",
           NEW op \in ValueOps, SetVar(op, w)
    PROVE  IInv'
<1> DEFINE s == ShapeAt(reg.p)
<1>1. /\ status = "run" /\ I.op = op /\ reg' = Next1(reg) /\ stk' = [stk EXCEPT ![Y(I.y)] = w]
      /\ UNCHANGED <<trail, prog, status, hist>>
  BY DEF SetVar, Is
<1>2. Here(s)
  BY <1>1, ComesHere DEF Alternatives, Halting, ValueOps
<1> HIDE DEF s
<1>3. After(s, I) = Set(s, I.y, "value")
  BY <1>1 DEF After, ValueOps, CallOps
<1> QED
  BY <1>1, <1>2, <1>3, SetVarStep

\* The instructions that give a variable of the environment its value.
LEMMA WriteVariableStep ==
    ASSUME WellShaped(prog), IInv,
           PutVariable \/ TagVariable \/ TagExists \/ SetUnivTag \/ GetVariable \/ InitVariable
    PROVE  IInv'
<1>1. CASE PutVariable
  BY <1>1, ValueStep DEF PutVariable, Values, ValueOps, W
<1>2. CASE TagVariable
  BY <1>2, ValueStep DEF TagVariable, Values, ValueOps, W
<1>3. CASE TagExists
  BY <1>3, ValueStep DEF TagExists, Values, ValueOps, W
<1>4. CASE SetUnivTag
  BY <1>4, ValueStep DEF SetUnivTag, Values, ValueOps, W
<1>5. CASE GetVariable
  BY <1>5, ValueStep DEF GetVariable, Values, ValueOps, W
<1>6. CASE InitVariable
  BY <1>6, ValueStep DEF InitVariable, Values, ValueOps, W
<1> QED
  BY <1>1, <1>2, <1>3, <1>4, <1>5, <1>6

\* The cut point of the clause is kept in its environment.
LEMMA GetLevelStep ==
    ASSUME WellShaped(prog), IInv, GetLevel
    PROVE  IInv'
<1> DEFINE s == ShapeAt(reg.p)
           w == W("level", reg.b0)
<1>1. /\ status = "run" /\ I.op = "get_level" /\ reg' = Next1(reg)
      /\ stk' = [stk EXCEPT ![Y(I.y)] = w] /\ UNCHANGED <<trail, prog, status, hist>>
  BY DEF GetLevel, SetVar, Is
<1>2. Here(s)
  BY <1>1, ComesHere DEF Alternatives, Halting
<1> HIDE DEF s
<1>3. After(s, I) = Set(s, I.y, "level") /\ s.cut = "clause"
  <2>1. s.cut = "clause"
    BY <1>1, <1>2 DEF Here, Finds
  <2> QED
    BY <1>1, <2>1 DEF After, ValueOps, CallOps
<1>4. w.f = "level" /\ w.v = reg.b0
  BY DEF W
<1> HIDE DEF w
<1> QED
  BY <1>1, <1>2, <1>3, <1>4, SetVarStep

-----------------------------------------------------------------------------
\* What Write does: the words from a on are ws, the others as they were.
LEMMA WriteIs ==
    ASSUME NEW m, NEW a \in Int, NEW ws, NEW n \in Nat, DOMAIN ws = 1 .. n,
           DOMAIN m \subseteq Int, NEW z, z = Write(m, a, ws)
    PROVE  /\ DOMAIN z = DOMAIN m
           /\ \A b \in DOMAIN m : b < a \/ a + n <= b => z[b] = m[b]
           /\ \A k \in 1 .. n : a + k - 1 \in DOMAIN m => z[a + k - 1] = ws[k]
<1>1. z = [b \in DOMAIN m |-> IF b - a + 1 \in 1 .. n THEN ws[b - a + 1] ELSE m[b]]
  BY DEF Write
<1>2. DOMAIN z = DOMAIN m
  BY <1>1
<1>3. ASSUME NEW b \in DOMAIN m, b < a \/ a + n <= b
      PROVE  z[b] = m[b]
  BY <1>1, <1>3
<1>4. ASSUME NEW k \in 1 .. n, a + k - 1 \in DOMAIN m
      PROVE  z[a + k - 1] = ws[k]
  <2>1. (a + k - 1) - a + 1 = k
    OBVIOUS
  <2> QED
    BY <1>1, <1>4, <2>1
<1> QED
  BY <1>2, <1>3, <1>4

\* Two sequences, one after the other.
LEMMA JoinIs ==
    ASSUME NEW s, NEW t, IsSeq(s), IsSeq(t), NEW u, u = s \o t
    PROVE  /\ IsSeq(u) /\ Len(u) = Len(s) + Len(t) /\ DOMAIN u = 1 .. Len(s) + Len(t)
           /\ \A k \in 1 .. Len(s) : u[k] = s[k]
           /\ \A k \in 1 .. Len(t) : u[Len(s) + k] = t[k]
<1> DEFINE S == {s[k] : k \in 1 .. Len(s)} 
           T == {t[k] : k \in 1 .. Len(t)}
           U == {u[k] : k \in 1 .. Len(u)}
<1>1. s \in Seq(S \cup T) /\ t \in Seq(S \cup T)
  BY DEF IsSeq
<1> HIDE DEF S, T
<1>2. u \in Seq(S \cup T) /\ Len(u) = Len(s) + Len(t) /\ Len(s) \in Nat /\ Len(t) \in Nat
  BY <1>1
<1>3. \A k \in 1 .. Len(s) : u[k] = s[k]
  BY <1>1
<1>4. \A k \in 1 .. Len(t) : u[Len(s) + k] = t[k]
  BY <1>1
<1>5. u \in Seq(U) /\ DOMAIN u = 1 .. Len(u)
  BY ONLY <1>2
<1>6. IsSeq(u)
  BY <1>5 DEF IsSeq
<1> QED
  BY <1>2, <1>3, <1>4, <1>5, <1>6

\* So many words of which nothing is known.
LEMMA JunksAre ==
    ASSUME NEW n \in Nat, NEW s, s = [k \in 1 .. n |-> Junk]
    PROVE  IsSeq(s) /\ Len(s) = n
<1>1. s \in Seq({Junk}) /\ Len(s) = n
  OBVIOUS
<1> DEFINE U == {s[k] : k \in 1 .. Len(s)}
<1>2. s \in Seq(U)
  BY <1>1
<1> QED
  BY <1>1, <1>2 DEF IsSeq

\* The words of a new environment.
LEMMA EnvWordsAre ==
    ASSUME NEW r, NEW n \in Nat, NEW uc, NEW ws, ws = EnvWords(r, n, uc)
    PROVE  /\ IsSeq(ws) /\ Len(ws) = 4 + 2 * n /\ DOMAIN ws = 1 .. 4 + 2 * n
           /\ ws[1] = W("ci", r.ci) /\ ws[2] = W("ce", r.e) /\ ws[3] = uc /\ ws[4] = W("cp", r.cp)
           /\ \A k \in 1 .. 2 * n : ws[4 + k] = Junk
<1> DEFINE t == [k \in 1 .. 2 * n |-> Junk]
           h == <<W("ci", r.ci), W("ce", r.e), uc, W("cp", r.cp)>>
<1>1. IsSeq(t) /\ Len(t) = 2 * n /\ \A k \in 1 .. 2 * n : t[k] = Junk
  <2>1. 2 * n \in Nat
    OBVIOUS
  <2> QED
    BY <2>1, JunksAre
<1>2. IsSeq(h) /\ Len(h) = 4 /\ h[1] = W("ci", r.ci) /\ h[2] = W("ce", r.e) /\ h[3] = uc
      /\ h[4] = W("cp", r.cp)
  BY DEF IsSeq
<1>3. ws = h \o t
  BY DEF EnvWords
<1> HIDE DEF h, t
<1>4. /\ IsSeq(ws) /\ Len(ws) = Len(h) + Len(t) /\ DOMAIN ws = 1 .. Len(h) + Len(t)
      /\ \A k \in 1 .. Len(h) : ws[k] = h[k]
      /\ \A k \in 1 .. Len(t) : ws[Len(h) + k] = t[k]
  <2>1. IsSeq(h) /\ IsSeq(t)
    BY <1>1, <1>2
  <2> QED
    <3>1. /\ IsSeq(ws) /\ Len(ws) = Len(h) + Len(t) /\ DOMAIN ws = 1 .. Len(h) + Len(t)
      BY ONLY <1>3, <2>1, JoinIs
    <3>2. /\ \A k \in 1 .. Len(h) : ws[k] = h[k]
      BY ONLY <1>3, <2>1, JoinIs
    <3>3. /\ \A k \in 1 .. Len(t) : ws[Len(h) + k] = t[k]
      BY ONLY <1>3, <2>1, JoinIs
    <3> QED
      BY <3>1, <3>2, <3>3
<1>5. /\ 1 \in 1 .. Len(h) /\ 2 \in 1 .. Len(h) /\ 3 \in 1 .. Len(h) /\ 4 \in 1 .. Len(h)
  BY <1>2
<1> QED
  BY <1>1, <1>2, <1>4, <1>5

\* What is written above the frontier no choice point knows.
LEMMA WritesAbove ==
    ASSUME WellShaped(prog), NEW r, NEW n, NEW cs, NEW s, View(stk, r, n, cs, ctx, snaps, s),
           Memory(stk, trail, snaps), NEW F, F = Frontier(r.e, n, r.tos), LastB(snaps) < r.tos,
           NEW z, DOMAIN z = Addr, \A a \in Addr : a < F => z[a] = stk[a],
           \A a \in Addr : z[a] = stk[a] \/ z[a] = Junk \/ z[a].f \notin {"free", "bound", "junk"}
    PROVE  Memory(z, trail, snaps) /\ \A a \in 0 .. F - 1 : z[a] = stk[a]
<1>1. /\ F \in Nat /\ r.tos \in Nat /\ r.tos <= F /\ F <= StackEnd + 1 /\ StackEnd \in Nat
  BY ViewReaches
<1>2. \A a \in 0 .. F - 1 : z[a] = stk[a]
  <2>1. \A a \in 0 .. F - 1 : a \in Addr /\ a < F
    BY <1>1 DEF Addr, StackBeg
  <2> QED
    BY <2>1
<1>3. Tidy(stk) /\ Rooted(stk) /\ Stacked(snaps)
  BY MemoryStacks DEF Memory
<1>4. Tidy(z)
  BY <1>3, TidyWrites
<1>5. Rooted(z)
  BY <1>2, <1>3, RootedBelow
<1>6. LastB(snaps) \in Nat
  BY <1>3, PointsAre
<1>7. \A a \in Addr : z[a] = stk[a] \/ Ignored(snaps, a)
  <2> SUFFICES ASSUME NEW a \in Addr, F <= a
               PROVE  Ignored(snaps, a)
    BY <1>1 DEF Addr
  <2>1. LastB(snaps) < a
    BY <1>1, <1>6 DEF Addr
  <2> QED
    BY <2>1, IgnoredAbove
<1> QED
  BY <1>2, <1>4, <1>5, <1>7, MemoryWrites

\* The machine stops at the end of the stack.
LEMMA OverflowStep ==
    ASSUME IInv, Overflow
    PROVE  IInv'
<1>1. UNCHANGED <<reg, stk, trail, prog, hist>> /\ status' = "error"
  BY DEF Overflow
<1>2. status' \in Statuses /\ status' # "run" /\ status' # "idle"
  BY <1>1 DEF Statuses
<1> QED
  BY <1>1, <1>2, StillStep

\* A view without an environment of its own ends where findtosEnv says.
LEMMA FrontierIs ==
    ASSUME WellShaped(prog), NEW m, NEW r, NEW n, NEW cs, NEW cx, NEW ps, NEW s,
           View(m, r, n, cs, cx, ps, s), ~s.own
    PROVE  findtosEnv(r) = Frontier(r.e, n, r.tos) /\ n = LiveAt(r.e, r.cp)
<1>1. Running(m, r, n, cs[Len(cs)], cx, ps, s) /\ Calls(m, cs, cx, ps)
  BY DEF View
<1>2. n = LiveAt(r.e, r.cp)
  BY <1>1 DEF Running, AtEnv
<1>3. r.e \in Nat
  BY <1>1, FramesAre
<1>4. r.tos \in Nat /\ FstCP < r.tos
  BY ViewReaches
<1> QED
  BY <1>2, <1>3, <1>4, FindsFrontier DEF FstCP

\* An environment is made for the clause.
LEMMA AllocateStep ==
    ASSUME WellShaped(prog), IInv, Allocate
    PROVE  IInv'
<1> DEFINE s == ShapeAt(reg.p)
           c == calls[Len(calls)]
           F == findtosEnv(reg)
           e == F + 3
           ws == EnvWords(reg, I.n, W("uc", reg.uc))
           z == Write(stk, F + 1, ws)
           r == Next1([reg EXCEPT !.e = e])
           t == After(s, I)
<1>1. status = "run" /\ I.op = "allocate"
  BY DEF Allocate, Is
<1>2. Here(s)
  BY <1>1, ComesHere DEF Alternatives, Halting
<1> HIDE DEF s
<1>3. /\ View(stk, reg, live, calls, ctx, snaps, s) /\ Memory(stk, trail, snaps)
      /\ Registers(reg, snaps) /\ Loaded /\ live \in Nat /\ Stacked(snaps)
      /\ Finds(prog, CodeShapes, reg.p, s, I)
  BY <1>2 DEF Here
<1>4. ~s.own /\ I.n \in Nat \ {0} /\ InClause(s)
  BY <1>1, <1>3 DEF Finds, InClause
<1>5. Goes(t, reg.p + 1)
  BY <1>1, <1>2, NextGoes DEF Straight
<1>6. /\ t.own /\ t.n = I.n - 1 /\ t.slot = [y \in 1 .. I.n - 1 |-> "none"]
      /\ t.univ = s.univ /\ t.pushed = s.pushed /\ t.cut = s.cut /\ t.a1 = s.a1 /\ t.ext = s.ext
  <2>1. DOMAIN s = {"own", "n", "slot", "pushed", "univ", "cut", "a1", "ext"}
    BY <1>2 DEF Here, IsShape
  <2>2. t = [s EXCEPT !.own = TRUE, !.n = I.n - 1, !.slot = [y \in 1 .. I.n - 1 |-> "none"]]
    BY <1>1 DEF After, ValueOps, CallOps
  <2> HIDE DEF t
  <2>3. t.own
    BY <2>1, <2>2
  <2>4. t.n = I.n - 1
    BY <2>1, <2>2
  <2>5. t.slot = [y \in 1 .. I.n - 1 |-> "none"]
    BY <2>1, <2>2
  <2>6. t.univ = s.univ /\ t.pushed = s.pushed /\ t.cut = s.cut /\ t.a1 = s.a1 /\ t.ext = s.ext
    BY <2>1, <2>2
  <2> QED
    BY <2>3, <2>4, <2>5, <2>6
<1> HIDE DEF t
<1>7. F = Frontier(reg.e, live, reg.tos) /\ live = LiveAt(reg.e, reg.cp)
  BY <1>3, <1>4, FrontierIs
<1>8. /\ F \in Nat /\ F <= StackEnd + 1 /\ StackEnd \in Nat /\ reg.tos \in Nat /\ FstCP < F
  BY <1>3, <1>7, ViewReaches
<1>9. CASE stackError(F + 4 + 2 * I.n)
  <2>1. Overflow
    BY <1>9 DEF Allocate, EnvFixSize
  <2> QED
    BY <2>1, OverflowStep
<1>10. CASE ~stackError(F + 4 + 2 * I.n)
  <2>1. /\ reg' = Next1([reg EXCEPT !.e = (F + 4) - 1]) /\ stk' = Write(stk, (F + 4) - 3, ws)
        /\ live' = I.n - 1 /\ UNCHANGED <<trail, prog, status, calls, snaps, ctx>>
    BY <1>10 DEF Allocate, EnvFixSize
  <2>2. (F + 4) - 1 = e /\ (F + 4) - 3 = F + 1 /\ F + 4 + 2 * I.n <= StackEnd
    BY <1>4, <1>8, <1>10 DEF stackError
  <2>3. reg' = r /\ stk' = z
    BY <2>1, <2>2
  <2>4. SameBut(reg, r, {"p", "e"}) /\ r.p = reg.p + 1 /\ r.e = e
    BY <1>3 DEF Registers, SameBut, Next1
  <2> HIDE DEF r
  <2>5. /\ IsSeq(ws) /\ DOMAIN ws = 1 .. 4 + 2 * I.n
        /\ ws[1] = W("ci", reg.ci) /\ ws[2] = W("ce", reg.e) /\ ws[3] = W("uc", reg.uc)
        /\ ws[4] = W("cp", reg.cp) /\ \A k \in 1 .. 2 * I.n : ws[4 + k] = Junk
    BY <1>4, EnvWordsAre
  <2> HIDE DEF ws
  <2>6. DOMAIN stk = Addr /\ Addr \subseteq Int
    BY <1>3 DEF Memory, Tidy, Addr
  <2>7. /\ DOMAIN z = Addr
        /\ \A b \in Addr : b < F + 1 \/ F + 1 + (4 + 2 * I.n) <= b => z[b] = stk[b]
        /\ \A k \in 1 .. 4 + 2 * I.n : F + 1 + k - 1 \in Addr => z[F + 1 + k - 1] = ws[k]
    <3>1. F + 1 \in Int /\ 4 + 2 * I.n \in Nat /\ DOMAIN ws = 1 .. 4 + 2 * I.n /\ DOMAIN stk \subseteq Int
      BY <1>4, <1>8, <2>5, <2>6
    <3>2. z = Write(stk, F + 1, ws)
      OBVIOUS
    <3> HIDE DEF z
    <3>3. DOMAIN z = DOMAIN stk
      BY ONLY <3>1, <3>2, WriteIs
    <3>4. \A b \in DOMAIN stk : b < F + 1 \/ F + 1 + (4 + 2 * I.n) <= b => z[b] = stk[b]
      BY ONLY <3>1, <3>2, WriteIs
    <3>5. \A k \in 1 .. 4 + 2 * I.n : F + 1 + k - 1 \in DOMAIN stk => z[F + 1 + k - 1] = ws[k]
      BY ONLY <3>1, <3>2, WriteIs
    <3> QED
      BY <2>6, <3>3, <3>4, <3>5
  <2> HIDE DEF z
  <2>8. \A k \in 1 .. 4 + 2 * I.n : F + k \in Addr /\ z[F + k] = ws[k]
    <3> SUFFICES ASSUME NEW k \in 1 .. 4 + 2 * I.n
                 PROVE  F + k \in Addr /\ z[F + k] = ws[k]
      OBVIOUS
    <3>1. F + k \in Addr /\ F + 1 + k - 1 = F + k
      BY <1>4, <1>8, <2>2 DEF Addr, StackBeg
    <3> QED
      BY <2>7, <3>1
  <2>9. /\ z[F + 1] = W("ci", reg.ci) /\ z[F + 2] = W("ce", reg.e)
        /\ z[F + 3] = W("uc", reg.uc) /\ z[F + 4] = W("cp", reg.cp)
        /\ F + 3 \in Addr
    <3>1. 1 \in 1 .. 4 + 2 * I.n /\ 2 \in 1 .. 4 + 2 * I.n /\ 3 \in 1 .. 4 + 2 * I.n
          /\ 4 \in 1 .. 4 + 2 * I.n
      BY <1>4
    <3> QED
      BY <2>5, <2>8, <3>1
  <2>10. \A k \in 1 .. 2 * I.n : z[F + 4 + k] = Junk
    <3> SUFFICES ASSUME NEW k \in 1 .. 2 * I.n
                 PROVE  z[F + 4 + k] = Junk
      OBVIOUS
    <3>1. 4 + k \in 1 .. 4 + 2 * I.n /\ F + (4 + k) = F + 4 + k
      BY <1>4, <1>8
    <3> QED
      BY <2>5, <2>8, <3>1
  <2>11. \A a \in Addr : a < F => z[a] = stk[a]
    BY <1>8, <2>6, <2>7
  <2>12. \A a \in Addr : z[a] = stk[a] \/ z[a] = Junk \/ z[a].f \notin {"free", "bound", "junk"}
    <3> SUFFICES ASSUME NEW a \in Addr, ~(a < F + 1), ~(F + 1 + (4 + 2 * I.n) <= a)
                 PROVE  z[a] = Junk \/ z[a].f \notin {"free", "bound", "junk"}
      BY <2>7
    <3>1. a - F \in 1 .. 4 + 2 * I.n /\ F + (a - F) = a
      BY <1>4, <1>8, <2>6
    <3>2. z[a] = ws[a - F]
      BY <2>8, <3>1
    <3>3. a - F \in {1, 2, 3, 4} \/ (a - F - 4 \in 1 .. 2 * I.n /\ 4 + (a - F - 4) = a - F)
      BY <3>1, <1>4
    <3>4. CASE a - F \in {1, 2, 3, 4}
      BY <2>5, <3>2, <3>4 DEF W
    <3>5. CASE a - F - 4 \in 1 .. 2 * I.n /\ 4 + (a - F - 4) = a - F
      BY <2>5, <3>2, <3>5
    <3> QED
      BY <3>3, <3>4, <3>5
  <2>13. Memory(z, trail, snaps) /\ \A a \in 0 .. F - 1 : z[a] = stk[a]
    <3>1. LastB(snaps) < reg.tos
      BY <1>3 DEF Registers
    <3>2. DOMAIN z = Addr
      BY <2>7
    <3> HIDE DEF F
    <3> QED
      BY ONLY WellShaped(prog), <1>3, <1>7, <2>11, <2>12, <3>1, <3>2, WritesAbove
  <2>14. /\ Running(stk, reg, live, c, ctx, snaps, s) /\ r.e = F + 3
         /\ r.tos = reg.tos /\ r.i = reg.i /\ r.uc = reg.uc /\ r.ci = reg.ci /\ r.a1 = reg.a1
         /\ r.b0 = reg.b0 /\ r.cp = reg.cp /\ r.b = reg.b
    BY <1>3, <2>4, SameFields DEF View
  <2>15. c.e = reg.e /\ c.ret = reg.cp
    BY <1>4, <2>14 DEF Running, AtEnv
  <2>16. Environment(z, c, r.e, t)
    <3>1. z[r.e + 1] = W("cp", c.ret) /\ z[r.e - 1] = W("ce", c.e)
      <4>1. r.e + 1 = F + 4 /\ r.e - 1 = F + 2
        BY <1>8, <2>14
      <4> QED
        BY <2>9, <2>15, <4>1
    <3>2. z[r.e - 2].f = "ci" /\ z[r.e - 2].v \in Addr
      <4>1. r.e - 2 = F + 1 /\ reg.ci \in Addr
        BY <1>3, <1>8, <2>14 DEF Registers
      <4> QED
        BY <2>9, <4>1 DEF W
    <3>3. ASSUME NEW y \in 1 .. t.n
          PROVE  Slot(z, r.e + 2 * y, t.slot[y]) /\ t.slot[y] # "cut"
      <4>1. y \in 1 .. I.n - 1 /\ t.slot[y] = "none"
        BY <1>6, <3>3
      <4>2. 2 * y - 1 \in 1 .. 2 * I.n /\ 2 * y \in 1 .. 2 * I.n
        BY <1>4, <4>1
      <4>3. r.e + 2 * y = F + 4 + (2 * y - 1) /\ r.e + 2 * y + 1 = F + 4 + 2 * y
        <5>1. y \in Int
          BY <4>1
        <5>2. r.e = F + 3
          BY <2>14
        <5> QED
          BY ONLY <5>1, <5>2, <1>8
      <4>4. z[r.e + 2 * y] = Junk /\ z[r.e + 2 * y + 1] = Junk
        BY <2>10, <4>2, <4>3
      <4> QED
        BY <4>1, <4>4 DEF Slot, Junk, W
    <3> QED
      BY <3>1, <3>2, <3>3 DEF Environment
  <2>17. \A y \in 1 .. t.n : t.slot[y] = "none"
    BY <1>6
  <2>18. Levels(z, c, r.e, t, snaps)
    BY <2>17 DEF Levels
  <2>19. InContext(r, c, ctx, t) /\ FromRecord(stk, r, c, ctx, t)
    BY <1>6, <2>14 DEF Running, InContext, FromRecord
  <2>20. CutKnown(z, r, c, snaps, t)
    BY <1>6, <2>14, <2>17 DEF Running, CutKnown
  <2>21. GoalKnown(z, r, t)
    BY <1>4, <1>6, <2>14 DEF Running, GoalKnown
  <2>22. View(z, r, t.n, calls, ctx, snaps, t)
    <3>1. t.n \in Nat /\ r.e + 2 + 2 * t.n <= StackEnd + 1 /\ t.own
      <4>1. t.n = I.n - 1 /\ r.e = F + 3 /\ I.n \in Nat \ {0} /\ F \in Nat /\ StackEnd \in Nat
            /\ F + 4 + 2 * I.n <= StackEnd /\ t.own
        BY <1>4, <1>6, <1>8, <2>2, <2>14
      <4> HIDE DEF F
      <4> QED
        BY ONLY <4>1
    <3>2. ~s.own /\ c = calls[Len(calls)] /\ r.e = F + 3 /\ r.tos = reg.tos
      BY <1>4, <2>14
    <3>3. \A a \in 0 .. F - 1 : z[a] = stk[a]
      BY <2>13
    <3> HIDE DEF F, c
    <3> QED
      BY ONLY WellShaped(prog), <1>3, <1>7, <2>16, <2>18, <2>19, <2>20, <2>21, <3>1, <3>2, <3>3,
              ViewAllocates
  <2>23. Registers(r, snaps)
    <3>1. r.p \in DOMAIN Code
      BY <1>5, <2>4, GoesToCode
    <3>2. r.e \in Addr
      BY <2>9, <2>14
    <3> QED
      BY <1>3, <2>4, <2>14, <3>1, <3>2 DEF Registers, SameBut
  <2>24. /\ Memory(stk', trail', snaps') /\ Registers(reg', snaps')
         /\ View(stk', reg', live', calls', ctx', snaps', t) /\ Goes(t, reg'.p) /\ live' \in Nat
         /\ status' = "run" /\ prog' = prog
    BY <1>1, <1>4, <1>5, <1>6, <2>1, <2>3, <2>4, <2>13, <2>22, <2>23
  <2>25. Heir(Frames(reg'.e, live', calls'), ctx', snaps')
    <3>1. Heir(Frames(reg.e, live, calls), ctx, snaps)
      BY <1>2 DEF Here
    <3>2. r.e \in Nat /\ LastB(snaps) < r.e
      <4>1. LastB(snaps) < reg.tos
        BY <1>3 DEF Registers
      <4>2. LastB(snaps) \in Nat
        BY <1>3, PointsAre
      <4>3. reg.tos <= F
        BY <1>3, <1>7, ViewReaches
      <4> HIDE DEF F
      <4> QED
        BY <4>1, <4>2, <4>3, <1>8, <2>14
    <3>3. Heir(Frames(r.e, live', calls), ctx, snaps)
      BY <1>3, <3>1, <3>2, HeirAllocates
    <3> QED
      BY <3>3, <2>1, <2>3
  <2> QED
    BY ONLY WellShaped(prog), <1>3, <2>24, <2>25, LiveStep
<1> QED
  BY <1>9, <1>10

-----------------------------------------------------------------------------
\* The environment is given up.
LEMMA DeallocateStep ==
    ASSUME WellShaped(prog), IInv, Deallocate
    PROVE  IInv'
<1> DEFINE s == ShapeAt(reg.p)
           c == calls[Len(calls)]
           r == Next1([reg EXCEPT !.cp = envCP, !.e = envCE])
           t == After(s, I)
<1>1. /\ status = "run" /\ I.op = "deallocate" /\ reg' = r /\ live' = LiveAt(envCE, envCP)
      /\ UNCHANGED <<stk, trail, prog, status, calls, snaps, ctx>>
  BY DEF Deallocate, Is
<1>2. Here(s)
  BY <1>1, ComesHere DEF Alternatives, Halting
<1> HIDE DEF s
<1>3. /\ View(stk, reg, live, calls, ctx, snaps, s) /\ Memory(stk, trail, snaps)
      /\ Registers(reg, snaps) /\ Loaded /\ live \in Nat /\ Stacked(snaps) /\ s.own
  BY <1>1, <1>2 DEF Here, Finds
<1>4. Goes(t, reg.p + 1)
  BY <1>1, <1>2, NextGoes DEF Straight
<1>5. /\ ~t.own /\ t.pushed = s.pushed /\ t.univ = s.univ /\ t.cut = s.cut
      /\ t.a1 = IF s.a1 = "slot" THEN "goal" ELSE s.a1
      /\ t.ext = s.ext
  <2>1. DOMAIN s = {"own", "n", "slot", "pushed", "univ", "cut", "a1", "ext"}
    BY <1>2 DEF Here, IsShape
  <2>2. t = [s EXCEPT !.own = FALSE, !.n = 0, !.slot = <<>>,
                      !.a1 = IF s.a1 = "slot" THEN "goal" ELSE s.a1]
    BY <1>1 DEF After, ValueOps, CallOps
  <2> HIDE DEF t
  <2>3. ~t.own
    BY <2>1, <2>2
  <2>4. t.a1 = IF s.a1 = "slot" THEN "goal" ELSE s.a1
    BY <2>1, <2>2
  <2>5. t.univ = s.univ /\ t.pushed = s.pushed /\ t.cut = s.cut /\ t.ext = s.ext
    BY <2>1, <2>2
  <2> QED
    BY <2>3, <2>4, <2>5
<1> HIDE DEF t
<1>6. /\ SameBut(reg, r, {"p", "cp", "e"}) /\ r.p = reg.p + 1
      /\ r.e = stk[reg.e - 1].v /\ r.cp = stk[reg.e + 1].v
  BY <1>3 DEF Registers, SameBut, Next1, envCP, envCE, v
<1> HIDE DEF r
<1>7. /\ r.tos = reg.tos /\ r.i = reg.i /\ r.uc = reg.uc /\ r.ci = reg.ci /\ r.a1 = reg.a1
      /\ r.b0 = reg.b0 /\ r.b = reg.b
  BY <1>3, <1>6, SameFields
<1>8. /\ View(stk, r, LiveAt(r.e, r.cp), calls, ctx, snaps, t)
      /\ Frames(r.e, LiveAt(r.e, r.cp), calls) \subseteq Frames(reg.e, live, calls)
  BY ONLY WellShaped(prog), <1>3, <1>5, <1>6, <1>7, ViewDeallocates
<1>9. r.e \in Addr /\ r.cp \in DOMAIN Code /\ LiveAt(r.e, r.cp) \in Nat
  <2>1. Called(c, ctx, snaps) /\ Running(stk, reg, live, c, ctx, snaps, s)
    BY <1>3, CallerIs
  <2>2. Environment(stk, c, reg.e, s) /\ c.e < reg.e /\ c.e \in Nat /\ c.ret \in DOMAIN Code
    BY <1>3, <2>1 DEF Running, AtEnv, Called
  <2>3. r.e = c.e /\ r.cp = c.ret
    BY <1>6, <2>2 DEF Environment, W
  <2>4. reg.e \in Addr /\ StackEnd \in Nat
    BY <1>3, Limits DEF Registers
  <2>5. r.e \in Addr
    BY <2>2, <2>3, <2>4 DEF Addr, StackBeg
  <2>6. LiveAt(r.e, r.cp) \in Nat
    BY <1>8 DEF View, Running, AtEnv
  <2> QED
    BY <2>2, <2>3, <2>5, <2>6
<1>10. Registers(r, snaps)
  <2>1. r.p \in DOMAIN Code
    BY <1>4, <1>6, GoesToCode
  <2> QED
    BY <1>3, <1>6, <1>7, <1>9, <2>1 DEF Registers, SameBut
<1>11. LiveAt(envCE, envCP) = LiveAt(r.e, r.cp)
  BY <1>6 DEF envCE, envCP, v
<1>12. /\ Memory(stk', trail', snaps') /\ Registers(reg', snaps')
       /\ View(stk', reg', live', calls', ctx', snaps', t) /\ Goes(t, reg'.p) /\ live' \in Nat
       /\ status' = "run" /\ prog' = prog
  BY <1>1, <1>3, <1>4, <1>6, <1>8, <1>9, <1>10, <1>11
<1>13. Heir(Frames(reg'.e, live', calls'), ctx', snaps')
  <2> DEFINE fs == Frames(reg.e, live, calls)
             gs == Frames(r.e, LiveAt(r.e, r.cp), calls)
  <2>1. Heir(fs, ctx, snaps) /\ gs \subseteq fs
    BY <1>2, <1>8 DEF Here
  <2>2. gs = Frames(reg'.e, live', calls') /\ ctx' = ctx /\ snaps' = snaps
    BY <1>1, <1>11 DEF r
  <2> HIDE DEF fs, gs
  <2>3. Heir(gs, ctx, snaps)
    BY <2>1, <1>3, HeirMoves
  <2> QED
    BY <2>2, <2>3
<1> QED
  BY ONLY WellShaped(prog), <1>3, <1>12, <1>13, LiveStep
===============================================================================
