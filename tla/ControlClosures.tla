-------------------------- MODULE ControlClosures --------------------------
(***************************************************************************)
(* A clause of an implication finds the variables it shares with the       *)
(* clause around it: each record lends the environment of the clause that  *)
(* pushed it, for as long as that clause has not taken the record away.    *)
(***************************************************************************)
EXTENDS ControlProofs

-----------------------------------------------------------------------------
\* What has been checked of the code at q.
Checked(q) ==
    /\ Lent(prog, CodeHomes, ShapeAt(q), CodePushes[q])
    /\ \A l \in GoesTo(Code[q], q) : CodeHomes[l] \in {NoTable, CodeHomes[q]}
    /\ Code[q].op \in Straight => CodePushes[q + 1] = PushedFrom(CodePushes[q], Code[q])
    /\ Code[q].op \in Switches \cup {"deallocate"} => ShapeAt(q).pushed = 0
    /\ Code[q].op \in {"call", "execute"} => CodeHomes[Code[q].l] = NoTable
    /\ Code[q].op \in {"init_variable", "init_variable_t"} => CodeHomes[q] # NoTable

\* An address whose shape extends a number of predicates is not dead.
LEMMA NotDead ==
    ASSUME NEW s, s.ext \in Nat
    PROVE  s # Dead
<1>1. Dead.ext = -1
  BY DEF Dead, Returned, Shape
<1> QED
  BY <1>1

\* The checks hold wherever the machine may be.
LEMMA ChecksOut ==
    ASSUME ClosuresShaped(prog), NEW q \in DOMAIN Code, ShapeAt(q).ext \in Nat
    PROVE  Checked(q)
<1>1. ShapeAt(q) # Dead
  BY NotDead
<1> QED
  BY <1>1 DEF ClosuresShaped, Checked, CodeShapes, ShapeAt, CodeHomes, CodePushes, Code

\* Nothing is known of where the fixed code is come to from.
LEMMA FixedHomes ==
    ASSUME ClosuresShaped(prog), NEW q \in 1 .. Len(Boot)
    PROVE  CodeHomes[q] = NoTable /\ CodePushes[q] = <<>>
BY DEF ClosuresShaped, CodeHomes, CodePushes, Code

\* Each clause has pushed what lies between the context it was called in and
\* the next one.
Between(cs, cx, q) ==
    /\ Len(cs) \in Nat \ {0} /\ Len(cx) \in Nat
    /\ \A j \in 2 .. Len(cs) :
          /\ Len(cs[j - 1].ctx) \in Nat \ {0} /\ Len(CodePushes[cs[j].ret]) \in Nat
          /\ Len(cs[j].ctx) = Len(cs[j - 1].ctx) + Len(CodePushes[cs[j].ret])
          /\ Len(cs[j].ctx) <= Len(cx)
    /\ Len(cs[Len(cs)].ctx) \in Nat \ {0} /\ Len(CodePushes[q]) \in Nat
    /\ Len(cx) = Len(cs[Len(cs)].ctx) + Len(CodePushes[q])

\* What a call's clause checks out to, at its return address.
LEMMA CallChecksOut ==
    ASSUME ClosuresShaped(prog), NEW m, NEW cs, NEW cx, NEW ps, Calls(m, cs, cx, ps),
           NEW j \in 2 .. Len(cs)
    PROVE  /\ cs[j].ret \in DOMAIN Code /\ Checked(cs[j].ret)
           /\ Suspended(m, cs[j - 1], cs[j], ps)
<1>1. Suspended(m, cs[j - 1], cs[j], ps)
  BY DEF Calls
<1>2. Len(cs) \in Nat
  BY SeqIs DEF Calls
<1>3. Called(cs[j], cx, ps)
  BY <1>2 DEF Calls
<1>4. ShapeAt(cs[j].ret).ext = 0 /\ cs[j].ret \in DOMAIN Code
  BY <1>1, <1>3 DEF Suspended, ReturnsTo, Called
<1> QED
  BY <1>1, <1>4, ChecksOut

\* What a clause has pushed lies between its caller's context and its own.
LEMMA PushedBetween ==
    ASSUME ClosuresShaped(prog), NEW m, NEW r, NEW n, NEW cs, NEW cx, NEW ps,
           NEW q \in DOMAIN Code, View(m, r, n, cs, cx, ps, ShapeAt(q))
    PROVE  Between(cs, cx, q) /\ Checked(q)
<1>1. Calls(m, cs, cx, ps) /\ Running(m, r, n, cs[Len(cs)], cx, ps, ShapeAt(q)) /\ Records(m, cx)
  BY DEF View
<1>2. Len(cs) \in Nat \ {0} /\ Len(cx) \in Nat
  BY <1>1, SeqIs DEF Calls, Records
<1>3. \A j \in 1 .. Len(cs) : Len(cs[j].ctx) \in Nat \ {0} /\ Len(cs[j].ctx) <= Len(cx)
  BY <1>1, <1>2 DEF Calls, Called
<1>4. Checked(q)
  BY <1>1, ChecksOut DEF Running, FromRecord
<1>5. Len(CodePushes[q]) \in Nat /\ Len(CodePushes[q]) = ShapeAt(q).pushed
  BY <1>4 DEF Checked, Lent
<1>6. Len(cx) = Len(cs[Len(cs)].ctx) + ShapeAt(q).pushed
  BY <1>1 DEF Running, InContext
<1>7. ASSUME NEW j \in 2 .. Len(cs)
      PROVE  /\ Len(CodePushes[cs[j].ret]) \in Nat
             /\ Len(cs[j].ctx) = Len(cs[j - 1].ctx) + Len(CodePushes[cs[j].ret])
  <2>1. Checked(cs[j].ret) /\ Suspended(m, cs[j - 1], cs[j], ps)
    BY <1>1, CallChecksOut
  <2>2. Len(CodePushes[cs[j].ret]) = ShapeAt(cs[j].ret).pushed
        /\ Len(CodePushes[cs[j].ret]) \in Nat
    BY <2>1 DEF Checked, Lent
  <2> QED
    BY <2>1, <2>2 DEF Suspended
<1>8. Len(cs) \in 1 .. Len(cs) /\ \A j \in 2 .. Len(cs) : j - 1 \in 1 .. Len(cs) /\ j \in 1 .. Len(cs)
  BY <1>2
<1>9. \A j \in 2 .. Len(cs) : Len(cs[j - 1].ctx) \in Nat \ {0} /\ Len(cs[j].ctx) <= Len(cx)
  BY <1>3, <1>8
<1>10. Len(cs[Len(cs)].ctx) \in Nat \ {0}
  BY <1>3, <1>8
<1>11. Len(cx) = Len(cs[Len(cs)].ctx) + Len(CodePushes[q])
  BY <1>5, <1>6
<1> QED
  BY ONLY <1>2, <1>4, <1>5, <1>7, <1>9, <1>10, <1>11 DEF Between

\* Where the records that a call's clause has pushed are.
LEMMA PushedAre ==
    ASSUME NEW cs, NEW cx, NEW q, Between(cs, cx, q)
    PROVE  /\ \A j \in 2 .. Len(cs) : \A k \in 1 .. Len(CodePushes[cs[j].ret]) :
                 /\ Len(cs[j - 1].ctx) + k \in 2 .. Len(cx)
                 /\ Len(cs[j - 1].ctx) + k <= Len(cs[j].ctx)
           /\ \A k \in 1 .. Len(CodePushes[q]) : Len(cs[Len(cs)].ctx) + k \in 2 .. Len(cx)
           /\ \A j \in 1 .. Len(cs) : Len(cs[j].ctx) \in Nat \ {0} /\ Len(cs[j].ctx) <= Len(cx)
<1>1. ASSUME NEW j \in 2 .. Len(cs), NEW k \in 1 .. Len(CodePushes[cs[j].ret])
      PROVE  /\ Len(cs[j - 1].ctx) + k \in 2 .. Len(cx)
             /\ Len(cs[j - 1].ctx) + k <= Len(cs[j].ctx)
  <2>1. PICK a \in Nat \ {0} : a = Len(cs[j - 1].ctx)
    BY DEF Between
  <2>2. PICK b \in Nat : b = Len(CodePushes[cs[j].ret])
    BY DEF Between
  <2>3. Len(cs[j].ctx) = a + b /\ a + b <= Len(cx) /\ Len(cx) \in Nat
    BY <2>1, <2>2 DEF Between
  <2>4. k \in 1 .. b
    BY <2>2
  <2>5. a + k <= a + b /\ \A l \in Nat : a + b <= l => a + k \in 2 .. l
    BY ONLY <2>4, a \in Nat \ {0}, b \in Nat
  <2> QED
    BY <2>1, <2>3, <2>5
<1>2. ASSUME NEW k \in 1 .. Len(CodePushes[q])
      PROVE  Len(cs[Len(cs)].ctx) + k \in 2 .. Len(cx)
  <2>1. PICK a \in Nat \ {0} : a = Len(cs[Len(cs)].ctx)
    BY DEF Between
  <2>2. PICK b \in Nat : b = Len(CodePushes[q])
    BY DEF Between
  <2>3. Len(cx) = a + b
    BY <2>1, <2>2 DEF Between
  <2>4. k \in 1 .. b
    BY <2>2
  <2>5. a + k \in 2 .. a + b
    BY ONLY <2>4, a \in Nat \ {0}, b \in Nat
  <2> QED
    BY <2>1, <2>3, <2>5
<1>3. ASSUME NEW j \in 1 .. Len(cs)
      PROVE  Len(cs[j].ctx) \in Nat \ {0} /\ Len(cs[j].ctx) <= Len(cx)
  <2>1. CASE j = Len(cs)
    <3>1. PICK a \in Nat \ {0} : a = Len(cs[Len(cs)].ctx)
      BY DEF Between
    <3>2. PICK b \in Nat : b = Len(CodePushes[q])
      BY DEF Between
    <3>3. Len(cx) = a + b
      BY <3>1, <3>2 DEF Between
    <3>4. a <= a + b
      OBVIOUS
    <3> QED
      BY <2>1, <3>1, <3>3, <3>4
  <2>2. CASE j # Len(cs)
    <3>1. j + 1 \in 2 .. Len(cs) /\ (j + 1) - 1 = j
      BY <2>2 DEF Between
    <3>2. PICK a \in Nat \ {0} : a = Len(cs[j].ctx)
      BY <3>1 DEF Between
    <3>3. PICK b \in Nat : b = Len(CodePushes[cs[j + 1].ret])
      BY <3>1 DEF Between
    <3>4. Len(cs[j + 1].ctx) = a + b /\ Len(cs[j + 1].ctx) <= Len(cx) /\ Len(cx) \in Nat
      BY <3>1, <3>2, <3>3 DEF Between
    <3>5. \A l \in Nat : a + b <= l => a <= l
      OBVIOUS
    <3> QED
      BY <3>2, <3>4, <3>5
  <2> QED
    BY <2>1, <2>2
<1> QED
  BY <1>1, <1>2, <1>3

\* The words of records and environments that closures are made of.
SameRecord(m, z, x) ==
    /\ z[x + 2] = m[x + 2]
    /\ \A y \in 1 .. Links(m, x) : /\ z[x - 2 * y] = m[x - 2 * y]
                                   /\ z[x - 2 * y + 1] = m[x - 2 * y + 1]

\* What is not soft, and below F, is the same in z.
Firm(m, z, F) == \A a \in 0 .. F - 1 : Soft(m[a]) \/ z[a] = m[a]

\* A stack that keeps what is firm keeps the records.
LEMMA RecordsFirm ==
    ASSUME WellShaped(prog), NEW m, NEW z, NEW cx, Records(m, cx), NEW F \in Nat,
           \A k \in 1 .. Len(cx) : RecEnd(cx[k]) <= F, Firm(m, z, F), Implications(m, cx)
    PROVE  /\ \A k \in 1 .. Len(cx) : SameRecord(m, z, cx[k]) /\ Links(z, cx[k]) = Links(m, cx[k])
           /\ \A k \in 2 .. Len(cx) : z[cx[k]] = m[cx[k]] /\ z[cx[k] + 1] = m[cx[k] + 1]
<1>0. Len(cx) \in Nat
  BY DEF Records
<1>1. ASSUME NEW k \in 1 .. Len(cx)
      PROVE  SameRecord(m, z, cx[k]) /\ Links(z, cx[k]) = Links(m, cx[k])
  <2>1. /\ cx[k] \in Nat /\ RecStart(m, cx[k]) \in Nat /\ Record(m, cx, k)
        /\ cx[k] + 6 <= F
    BY RecordsOrder DEF Records, RecEnd, ImpFixSize
  <2>2. m[cx[k] + 2].v \in DOMAIN Tables /\ m[cx[k] + 2].f = "pst"
    BY <2>1 DEF Record
  <2>3. Links(m, cx[k]) \in Nat /\ RecStart(m, cx[k]) <= cx[k] - 2 * Links(m, cx[k])
    <3>1. PICK V \in Nat : V = VectorSize(m[cx[k] + 2].v)
      BY <2>2, Tabled
    <3>2. PICK L \in Nat : L = Links(m, cx[k])
      BY <2>2, Tabled DEF Links
    <3>3. 2 * L <= V
      BY <2>2, <3>1, <3>2, Tabled DEF Links
    <3> QED
      BY <2>1, <3>1, <3>2, <3>3 DEF RecStart
  <2>4. z[cx[k] + 2] = m[cx[k] + 2]
    BY <2>1, <2>2 DEF Firm, Soft
  <2>5. ASSUME NEW y \in 1 .. Links(m, cx[k])
        PROVE  z[cx[k] - 2 * y] = m[cx[k] - 2 * y] /\ z[cx[k] - 2 * y + 1] = m[cx[k] - 2 * y + 1]
    <3>1. cx[k] - 2 * y \in 0 .. F - 1 /\ cx[k] - 2 * y + 1 \in 0 .. F - 1
      <4>1. PICK a \in Nat : a = RecStart(m, cx[k])
        BY <2>1
      <4>2. PICK L \in Nat : L = Links(m, cx[k])
        BY <2>3
      <4>3. a <= cx[k] - 2 * L /\ y \in 1 .. L
        BY <2>3, <4>1, <4>2
      <4> QED
        BY <2>1, <4>3
    <3>2. m[cx[k] - 2 * y].f = "ncl" /\ m[cx[k] - 2 * y + 1].f = "nclip"
      BY <2>1 DEF Record, NextClause
    <3> QED
      BY <3>1, <3>2 DEF Firm, Soft
  <2> QED
    BY <2>4, <2>5 DEF SameRecord, Links
<1>2. ASSUME NEW k \in 2 .. Len(cx)
      PROVE  z[cx[k]] = m[cx[k]] /\ z[cx[k] + 1] = m[cx[k] + 1]
  <2>1. cx[k] \in Nat /\ cx[k] + 6 <= F
    BY <1>0, RecordsOrder DEF RecEnd, ImpFixSize
  <2>2. m[cx[k]].f = "ce" /\ m[cx[k] + 1] = W("tag", TagImpl)
    BY DEF Implications
  <2>3. m[cx[k] + 1].f = "tag"
    BY <2>2 DEF W
  <2> QED
    BY <2>1, <2>2, <2>3 DEF Firm, Soft
<1> QED
  BY <1>1, <1>2

\* A view, where the shape is s, and its end F.
Reached(m, r, n, cs, cx, ps, s, F) ==
    /\ WellShaped(prog) /\ ClosuresShaped(prog)
    /\ View(m, r, n, cs, cx, ps, s)
    /\ F = Frontier(r.e, n, r.tos)

\* Where the machine, or a choice point, has its view, F being its end.
Seen(m, r, n, cs, cx, ps, q, F) ==
    /\ WellShaped(prog) /\ ClosuresShaped(prog) /\ q \in DOMAIN Code
    /\ View(m, r, n, cs, cx, ps, ShapeAt(q))
    /\ F = Frontier(r.e, n, r.tos)

\* The environments of a view, and where they keep CI.
LEMMA EnvsStay ==
    ASSUME NEW m, NEW z, NEW r, NEW n, NEW cs, NEW cx, NEW ps, NEW s, NEW F,
           Reached(m, r, n, cs, cx, ps, s, F), Firm(m, z, F)
    PROVE  /\ F \in Nat /\ \A k \in 1 .. Len(cx) : RecEnd(cx[k]) <= F
           /\ \A j \in 2 .. Len(cs) : z[cs[j].e - 2] = m[cs[j].e - 2]
           /\ s.own => z[r.e - 2] = m[r.e - 2]
<1> DEFINE fs == Frames(r.e, n, cs)
<1>1. /\ Layout(m, fs, r.tos, cx, ps) /\ Calls(m, cs, cx, ps)
      /\ Running(m, r, n, cs[Len(cs)], cx, ps, s) /\ Records(m, cx)
  BY DEF View, Reached
<1>2. Reaches(fs, r.tos, F) /\ F \in Nat /\ r.tos \in Nat /\ r.tos <= F
  BY ViewReaches DEF Reached
<1>3. ASSUME NEW k \in 1 .. Len(cx) PROVE RecEnd(cx[k]) <= F
  <2>1. RecEnd(cx[k]) <= r.tos /\ RecEnd(cx[k]) \in Nat
    BY <1>1 DEF Layout
  <2> QED
    BY <1>2, <2>1
<1>4. ASSUME NEW f \in fs PROVE f.e - 2 \in 0 .. F - 1
  <2>1. f.e \in Nat /\ f.n \in Nat /\ FstCP < f.e - 2
    BY <1>1 DEF Layout, Placed
  <2>2. f.e + 2 + 2 * f.n <= F
    BY <1>2 DEF Reaches, EnvEnd
  <2> QED
    BY <1>2, <2>1, <2>2 DEF FstCP
<1>5. ASSUME NEW j \in 2 .. Len(cs) PROVE z[cs[j].e - 2] = m[cs[j].e - 2]
  <2>1. [e |-> cs[j].e, n |-> CallI1(cs[j].ret)] \in fs
    BY DEF Frames
  <2>2. cs[j].e - 2 \in 0 .. F - 1
    BY <1>4, <2>1
  <2>3. m[cs[j].e - 2].f = "ci"
    BY <1>1, CallChecksOut DEF Suspended, Environment, Reached
  <2> QED
    BY <2>2, <2>3 DEF Firm, Soft
<1>6. ASSUME s.own PROVE z[r.e - 2] = m[r.e - 2]
  <2>1. r.e # StackBeg
    BY <1>1, <1>6, FramesAre
  <2>2. [e |-> r.e, n |-> n] \in fs
    BY <2>1 DEF Frames
  <2>3. r.e - 2 \in 0 .. F - 1
    BY <1>4, <2>2
  <2>4. m[r.e - 2].f = "ci"
    BY <1>1, <1>6 DEF Running, AtEnv, Environment
  <2> QED
    BY <2>3, <2>4 DEF Firm, Soft
<1> QED
  BY <1>2, <1>3, <1>5, <1>6

\* So it is where the machine goes on from q.
LEMMA EnvsFirm ==
    ASSUME NEW m, NEW z, NEW r, NEW n, NEW cs, NEW cx, NEW ps, NEW q, NEW F,
           Seen(m, r, n, cs, cx, ps, q, F), Firm(m, z, F)
    PROVE  /\ F \in Nat /\ \A k \in 1 .. Len(cx) : RecEnd(cx[k]) <= F
           /\ \A j \in 2 .. Len(cs) : z[cs[j].e - 2] = m[cs[j].e - 2]
           /\ ShapeAt(q).own => z[r.e - 2] = m[r.e - 2]
<1>1. PICK s : s = ShapeAt(q)
  OBVIOUS
<1>2. Reached(m, r, n, cs, cx, ps, s, F) /\ Firm(m, z, F)
  BY <1>1 DEF Seen, Reached
<1>3. /\ F \in Nat /\ \A k \in 1 .. Len(cx) : RecEnd(cx[k]) <= F
      /\ \A j \in 2 .. Len(cs) : z[cs[j].e - 2] = m[cs[j].e - 2]
      /\ s.own => z[r.e - 2] = m[r.e - 2]
  BY ONLY <1>2, EnvsStay
<1> QED
  BY <1>1, <1>3

\* The words of the records of a context are the same.
Same(m, z, cx) ==
    /\ \A k \in 1 .. Len(cx) : SameRecord(m, z, cx[k]) /\ Links(z, cx[k]) = Links(m, cx[k])
    /\ \A k \in 2 .. Len(cx) : z[cx[k]] = m[cx[k]] /\ z[cx[k] + 1] = m[cx[k] + 1]

\* The records that the clause called by c has pushed by q are in the context.
Within(c, cx, q) ==
    /\ Len(c.ctx) \in Nat /\ Len(cx) \in Nat /\ Len(c.ctx) <= Len(cx)
    /\ \A k \in 1 .. Len(CodePushes[q]) : Len(c.ctx) + k \in 2 .. Len(cx)

\* Where a clause comes from is read in its record alone.
LEMMA ComesFromAgrees ==
    ASSUME NEW m, NEW z, NEW cx, Same(m, z, cx), NEW c, Len(c.ctx) \in Nat, Len(cx) \in Nat,
           Len(c.ctx) <= Len(cx), NEW x, NEW t, ComesFrom(m, x, c, cx, t)
    PROVE  ComesFrom(z, x, c, cx, t)
<1> SUFFICES ASSUME t # NoTable
             PROVE  \E k \in 2 .. Len(c.ctx) : x = cx[k] /\ z[cx[k] + 2].v = t
  BY DEF ComesFrom
<1>1. PICK k \in 2 .. Len(c.ctx) : x = cx[k] /\ m[cx[k] + 2].v = t
  BY DEF ComesFrom
<1>2. k \in 1 .. Len(cx)
  BY <1>1
<1>3. z[cx[k] + 2] = m[cx[k] + 2]
  BY <1>2 DEF Same, SameRecord
<1> QED
  BY <1>1, <1>3

\* What a clause lends is read in its records, and in CI of its environment.
LEMMA LendsAgree ==
    ASSUME NEW m, NEW z, NEW cx, Same(m, z, cx), NEW c, NEW q, Within(c, cx, q),
           NEW e, z[e - 2] = m[e - 2], Lends(m, c, e, q, cx)
    PROVE  Lends(z, c, e, q, cx)
<1>1. ASSUME NEW k \in 1 .. Len(CodePushes[q])
      PROVE  /\ z[cx[Len(c.ctx) + k]].v = e
             /\ z[cx[Len(c.ctx) + k] + 2].v = CodePushes[q][k]
  <2> DEFINE x == cx[Len(c.ctx) + k]
  <2>1. Len(c.ctx) + k \in 2 .. Len(cx) /\ Len(c.ctx) + k \in 1 .. Len(cx)
    BY DEF Within
  <2>2. z[x] = m[x] /\ z[x + 2] = m[x + 2]
    BY <2>1 DEF Same, SameRecord
  <2>3. m[x].v = e /\ m[x + 2].v = CodePushes[q][k]
    BY DEF Lends
  <2> QED
    BY <2>2, <2>3
<1>2. ComesFrom(z, z[e - 2].v, c, cx, CodeHomes[q])
  <2>1. ComesFrom(m, m[e - 2].v, c, cx, CodeHomes[q])
    BY DEF Lends
  <2> QED
    BY <2>1, ComesFromAgrees DEF Within
<1> QED
  BY <1>1, <1>2 DEF Lends

\* What a record was made of is read the same from the same words.
LEMMA ImplicationsAgree ==
    ASSUME NEW m, NEW z, NEW cx, Same(m, z, cx), Len(cx) \in Nat, Implications(m, cx)
    PROVE  Implications(z, cx)
<1>1. ASSUME NEW k \in 1 .. Len(cx), NEW y \in 1 .. Links(z, cx[k])
      PROVE  NextHome(z, cx, k, y)
  <2>1. SameRecord(m, z, cx[k]) /\ y \in 1 .. Links(m, cx[k])
    BY DEF Same
  <2>2. NextHome(m, cx, k, y)
    BY <2>1 DEF Implications
  <2>3. \A j \in 2 .. k - 1 : z[cx[j] + 2] = m[cx[j] + 2]
    BY DEF Same, SameRecord
  <2> QED
    BY <2>1, <2>2, <2>3 DEF NextHome, SameRecord
<1>2. \A k \in 2 .. Len(cx) : z[cx[k]].f = "ce" /\ z[cx[k] + 1] = W("tag", TagImpl)
  BY DEF Implications, Same
<1> QED
  BY <1>1, <1>2 DEF Implications

\* The clauses of a view have their records in the context.
LEMMA WithinContext ==
    ASSUME NEW cs, NEW cx, NEW q, Between(cs, cx, q)
    PROVE  /\ \A j \in 2 .. Len(cs) : Within(cs[j - 1], cx, cs[j].ret)
           /\ Within(cs[Len(cs)], cx, q)
<1>1. /\ \A j \in 2 .. Len(cs) : \A k \in 1 .. Len(CodePushes[cs[j].ret]) :
               /\ Len(cs[j - 1].ctx) + k \in 2 .. Len(cx)
               /\ Len(cs[j - 1].ctx) + k <= Len(cs[j].ctx)
      /\ \A k \in 1 .. Len(CodePushes[q]) : Len(cs[Len(cs)].ctx) + k \in 2 .. Len(cx)
      /\ \A j \in 1 .. Len(cs) : Len(cs[j].ctx) \in Nat \ {0} /\ Len(cs[j].ctx) <= Len(cx)
  BY PushedAre
<1>2. Len(cs) \in Nat \ {0} /\ Len(cx) \in Nat
  BY DEF Between
<1>3. Len(cs) \in 1 .. Len(cs) /\ \A j \in 2 .. Len(cs) : j - 1 \in 1 .. Len(cs)
  BY <1>2
<1>4. ASSUME NEW j \in 2 .. Len(cs) PROVE Within(cs[j - 1], cx, cs[j].ret)
  <2>1. Len(cs[j - 1].ctx) \in Nat /\ Len(cs[j - 1].ctx) <= Len(cx)
    BY <1>1, <1>3
  <2> QED
    BY <1>1, <1>2, <2>1 DEF Within
<1>5. Within(cs[Len(cs)], cx, q)
  <2>1. Len(cs[Len(cs)].ctx) \in Nat /\ Len(cs[Len(cs)].ctx) <= Len(cx)
    BY <1>1, <1>3
  <2> QED
    BY <1>1, <1>2, <2>1 DEF Within
<1> QED
  BY <1>4, <1>5

\* A stack that keeps what is firm keeps the words of the records.
LEMMA FirmIsSame ==
    ASSUME NEW m, NEW z, NEW r, NEW n, NEW cs, NEW cx, NEW ps, NEW q, NEW F,
           Seen(m, r, n, cs, cx, ps, q, F), Firm(m, z, F), Implications(m, cx)
    PROVE  Same(m, z, cx) /\ Between(cs, cx, q) /\ Len(cx) \in Nat
<1>1. F \in Nat /\ \A k \in 1 .. Len(cx) : RecEnd(cx[k]) <= F
  BY EnvsFirm
<1>2. Records(m, cx) /\ WellShaped(prog)
  BY DEF Seen, View
<1>3. Between(cs, cx, q)
  BY PushedBetween DEF Seen
<1>4. /\ \A k \in 1 .. Len(cx) : SameRecord(m, z, cx[k]) /\ Links(z, cx[k]) = Links(m, cx[k])
      /\ \A k \in 2 .. Len(cx) : z[cx[k]] = m[cx[k]] /\ z[cx[k] + 1] = m[cx[k] + 1]
  <2>1. F \in Nat
    BY <1>1
  <2> QED
    BY <1>1, <1>2, <2>1, RecordsFirm
<1> QED
  BY <1>3, <1>4 DEF Same, Between

\* Closures are read in the records and in the environments alone.
LEMMA ClosuresStay ==
    ASSUME NEW m, NEW z, NEW cs, NEW cx, NEW q, Between(cs, cx, q), Same(m, z, cx),
           \A j \in 2 .. Len(cs) : z[cs[j].e - 2] = m[cs[j].e - 2],
           NEW e, ShapeAt(q).own => z[e - 2] = m[e - 2],
           NEW ci, Closures(m, e, ci, cs, cx, q)
    PROVE  Closures(z, e, ci, cs, cx, q)
<1>2. Implications(m, cx) /\ Lending(m, cs, cx)
  BY DEF Closures
<1>3. Len(cx) \in Nat
  BY DEF Between
<1>4. /\ \A j \in 2 .. Len(cs) : Within(cs[j - 1], cx, cs[j].ret)
      /\ Within(cs[Len(cs)], cx, q)
  BY WithinContext
<1>5. Implications(z, cx)
  BY <1>2, <1>3, ImplicationsAgree
<1>6. ASSUME NEW j \in 2 .. Len(cs) PROVE Lends(z, cs[j - 1], cs[j].e, cs[j].ret, cx)
  <2>1. Lends(m, cs[j - 1], cs[j].e, cs[j].ret, cx)
    BY <1>2 DEF Lending
  <2>2. Within(cs[j - 1], cx, cs[j].ret) /\ z[cs[j].e - 2] = m[cs[j].e - 2]
    BY <1>4
  <2> QED
    BY <2>1, <2>2, LendsAgree
<1>7. ASSUME ShapeAt(q).own PROVE Lends(z, cs[Len(cs)], e, q, cx)
  <2>1. Lends(m, cs[Len(cs)], e, q, cx) /\ z[e - 2] = m[e - 2]
    BY <1>7 DEF Closures
  <2> QED
    BY <1>4, <2>1, LendsAgree
<1>8. ComesFrom(z, ci, cs[Len(cs)], cx, CodeHomes[q])
  <2>1. ComesFrom(m, ci, cs[Len(cs)], cx, CodeHomes[q])
    BY DEF Closures
  <2> QED
    BY <1>4, <2>1, ComesFromAgrees DEF Within
<1>9. Lending(z, cs, cx)
  BY <1>2, <1>6 DEF Lending
<1> QED
  BY <1>5, <1>7, <1>8, <1>9 DEF Closures

\* Closures are the same in a stack that keeps what is firm.
LEMMA ClosuresAgree ==
    ASSUME NEW m, NEW z, NEW r, NEW n, NEW cs, NEW cx, NEW ps, NEW q, NEW F,
           Seen(m, r, n, cs, cx, ps, q, F), Firm(m, z, F),
           NEW e, ShapeAt(q).own => e = r.e, NEW ci, Closures(m, e, ci, cs, cx, q)
    PROVE  Closures(z, e, ci, cs, cx, q)
<1>1. /\ \A j \in 2 .. Len(cs) : z[cs[j].e - 2] = m[cs[j].e - 2]
      /\ ShapeAt(q).own => z[e - 2] = m[e - 2]
  BY EnvsFirm
<1>2. Same(m, z, cx) /\ Between(cs, cx, q)
  BY FirmIsSame DEF Closures
<1> QED
  BY <1>1, <1>2, ClosuresStay

-----------------------------------------------------------------------------
\* Where a clause that goes on from q to l does so in its own definition, with
\* what it has pushed.
Carries(q, l) ==
    /\ CodeHomes[l] \in {NoTable, CodeHomes[q]}
    /\ ShapeAt(l).own => ShapeAt(q).own /\ CodePushes[l] = CodePushes[q]

\* What a clause relies upon carries over to where it goes on.
LEMMA ClosuresCarry ==
    ASSUME NEW m, NEW e, NEW ci, NEW cs, NEW cx, NEW q, Closures(m, e, ci, cs, cx, q),
           NEW l, Carries(q, l)
    PROVE  Closures(m, e, ci, cs, cx, l)
<1>1. /\ ComesFrom(m, ci, cs[Len(cs)], cx, CodeHomes[l])
      /\ ShapeAt(l).own => ComesFrom(m, m[e - 2].v, cs[Len(cs)], cx, CodeHomes[l])
  BY DEF Closures, Carries, Lends, ComesFrom
<1>2. ShapeAt(l).own => Lends(m, cs[Len(cs)], e, l, cx)
  BY <1>1 DEF Closures, Carries, Lends
<1> QED
  BY <1>1, <1>2 DEF Closures

\* A clause has an environment where it goes on only if it had one.
LEMMA OnlyOwn ==
    ASSUME WellShaped(prog), NEW t, NEW l, Goes(t, l)
    PROVE  /\ ShapeAt(l).own => t.own /\ Fits(t, ShapeAt(l))
           /\ l \in DOMAIN Code
<1>1. l \in DOMAIN Code /\ (l = FailCode \/ Fits(t, ShapeAt(l)))
  BY DEF Goes, LeadsTo, ShapeAt
<1>2. ~ShapeAt(FailCode).own
  <2>1. FailCode \in DOMAIN Code /\ IsFixed(FailCode) /\ 1 \in 1 .. Len(Boot)
    BY Limits DEF IsFixed, FailCode, Boot
  <2>2. ShapeAt(FailCode) = BootShape(FailCode)
    BY <2>1, Limits
  <2>3. ~BootShape(FailCode).own
    BY DEF BootShape, FailCode, AndCode, SolveCode, OrCode, AllCode, NotCode1, Returned, Shape
  <2> QED
    BY <2>2, <2>3
<1> QED
  BY <1>1, <1>2 DEF Fits

\* CE is the same environment where a clause goes on.
Follows(q, l) == CodeHomes[l] \in {NoTable, CodeHomes[q]}

\* CE stays with CI.
LEMMA StaysEnclosed ==
    ASSUME NEW m, NEW z, NEW cs, NEW cx, NEW q, Between(cs, cx, q), Same(m, z, cx),
           NEW e, NEW r, Closures(m, e, r.ci, cs, cx, q), Enclosed(m, r, q),
           NEW l, Follows(q, l), NEW p, p.ci = r.ci, p.ce = r.ce
    PROVE  Enclosed(z, p, l)
<1> SUFFICES ASSUME CodeHomes[l] # NoTable
             PROVE  p.ce = z[p.ci].v
  BY DEF Enclosed
<1>1. CodeHomes[q] = CodeHomes[l]
  BY DEF Follows
<1>2. PICK k \in 2 .. Len(cs[Len(cs)].ctx) : r.ci = cx[k]
  BY <1>1 DEF Closures, ComesFrom
<1>3. k \in 2 .. Len(cx)
  <2>1. Within(cs[Len(cs)], cx, q)
    BY WithinContext
  <2> QED
    BY <2>1 DEF Within
<1>4. z[r.ci] = m[r.ci]
  BY <1>2, <1>3 DEF Same
<1> QED
  BY <1>1, <1>4 DEF Enclosed

\* cereg is reset to what the record that a clause comes from lends.
LEMMA WithCEEncloses ==
    ASSUME NEW e, NEW r, NEW cs, NEW l, Closures(stk, e, r.ci, cs, ctx, l),
           Len(ctx) \in Nat, Len(cs[Len(cs)].ctx) \in Nat, Len(cs[Len(cs)].ctx) <= Len(ctx),
           "ce" \in DOMAIN r
    PROVE  Enclosed(stk, WithCE(r), l)
<1> SUFFICES ASSUME CodeHomes[l] # NoTable
             PROVE  WithCE(r).ce = stk[WithCE(r).ci].v
  BY DEF Enclosed
<1>1. PICK k \in 2 .. Len(cs[Len(cs)].ctx) : r.ci = ctx[k]
  BY DEF Closures, ComesFrom
<1>2. stk[r.ci + 1] = W("tag", TagImpl)
  BY <1>1 DEF Closures, Implications
<1>3. isImpl(r.ci)
  BY <1>2 DEF isImpl, v, W
<1> QED
  BY <1>3 DEF WithCE, v

-----------------------------------------------------------------------------
\* What is meant in the next state, the program staying the same.
LEMMA StaysClosures ==
    ASSUME prog' = prog
    PROVE  /\ \A m, e, ci, cs, cx, q : Closures(m, e, ci, cs, cx, q)' <=> Closures(m, e, ci, cs, cx, q)
           /\ \A m, r, q : Enclosed(m, r, q)' <=> Enclosed(m, r, q)
           /\ \A m, d : Resumes(m, d)' <=> Resumes(m, d)
<1>1. CodeHomes' = CodeHomes /\ CodePushes' = CodePushes
  BY DEF CodeHomes, CodePushes, Code
<1>2. ASSUME NEW m, NEW ci, NEW c, NEW cx, NEW t PROVE ComesFrom(m, ci, c, cx, t)' <=> ComesFrom(m, ci, c, cx, t)
  BY DEF ComesFrom
<1>3. ASSUME NEW m, NEW c, NEW e, NEW q, NEW cx PROVE Lends(m, c, e, q, cx)' <=> Lends(m, c, e, q, cx)
  BY <1>1, <1>2 DEF Lends
<1>4. ASSUME NEW m, NEW cx PROVE Implications(m, cx)' <=> Implications(m, cx)
  <2>1. ASSUME NEW k, NEW y PROVE NextHome(m, cx, k, y)' <=> NextHome(m, cx, k, y)
    BY <1>1 DEF NextHome
  <2> QED
    BY <2>1, StaysRecord DEF Implications
<1>5. ASSUME NEW m, NEW cs, NEW cx PROVE Lending(m, cs, cx)' <=> Lending(m, cs, cx)
  BY <1>3 DEF Lending
<1>6. ASSUME NEW m, NEW e, NEW ci, NEW cs, NEW cx, NEW q
      PROVE  Closures(m, e, ci, cs, cx, q)' <=> Closures(m, e, ci, cs, cx, q)
  BY <1>1, <1>2, <1>3, <1>4, <1>5, StaysRecord DEF Closures
<1>7. ASSUME NEW m, NEW r, NEW q PROVE Enclosed(m, r, q)' <=> Enclosed(m, r, q)
  BY <1>1 DEF Enclosed
<1> QED
  BY <1>6, <1>7 DEF Resumes

\* What a choice point needs besides is still there.
Prepared(m, ps) == \A k \in 1 .. Len(ps) : Resumes(m, ps[k])

\* A step keeps it if the machine and the choice points do.
LEMMA ClosesStep ==
    ASSUME prog' = prog, Prepared(stk', snaps'),
           IsLive' => /\ Closures(stk', reg'.e, reg'.ci, calls', ctx', reg'.p)
                      /\ Enclosed(stk', reg', reg'.p)
    PROVE  CInv'
<1>1. IsLive' => (Closures(stk, reg.e, reg.ci, calls, ctx, reg.p) /\ Enclosed(stk, reg, reg.p))'
  <2>1. Closures(stk, reg.e, reg.ci, calls, ctx, reg.p)'
          <=> Closures(stk', reg'.e, reg'.ci, calls', ctx', reg'.p)
    BY StaysClosures
  <2>2. Enclosed(stk, reg, reg.p)' <=> Enclosed(stk', reg', reg'.p)
    BY StaysClosures
  <2> QED
    BY <2>1, <2>2
<1>2. ASSUME NEW k \in 1 .. Len(snaps') PROVE Resumes(stk, snaps[k])'
  BY StaysClosures DEF Prepared
<1> QED
  BY <1>1, <1>2 DEF CInv

\* Choice points go, and the stack keeps what is firm below them.
LEMMA PreparedStays ==
    ASSUME NEW m, NEW tr, NEW ps, Memory(m, tr, ps), Prepared(m, ps), NEW F \in Nat,
           LastB(ps) < F, NEW z, Firm(m, z, F),
           NEW pz, Len(pz) \in 0 .. Len(ps), \A k \in 1 .. Len(pz) : pz[k] = ps[k]
    PROVE  Prepared(z, pz)
<1> SUFFICES ASSUME NEW k \in 1 .. Len(pz)
             PROVE  Resumes(z, pz[k])
  BY DEF Prepared
<1>1. Len(ps) \in Nat
  BY MemoryStacks
<1>2. k \in 1 .. Len(ps) /\ pz[k] = ps[k]
  BY <1>1
<1>3. ps[k].b \in Nat /\ ps[k].base \in Nat /\ ps[k].base + 10 <= ps[k].b /\ ps[k].b <= LastB(ps)
  BY <1>2, MemoryStacks
<1>4. LastB(ps) \in Nat
  <2>1. Stacked(ps)
    BY MemoryStacks
  <2> QED
    BY <2>1, PointsAre
<1>5. ps[k].b - 1 \in 0 .. F - 1
  BY <1>3, <1>4
<1>6. m[ps[k].b - 1].f = "cpncl"
  BY <1>2 DEF Memory, Kept, Keeps
<1>7. z[ps[k].b - 1] = m[ps[k].b - 1]
  BY <1>5, <1>6 DEF Firm, Soft
<1>8. Resumes(m, ps[k])
  BY <1>2 DEF Prepared
<1> QED
  BY <1>2, <1>7, <1>8 DEF Resumes

\* The end of what the machine uses.
End == Frontier(reg.e, live, reg.tos)

\* What is known where the machine runs a clause.
Knows ==
    /\ Here(ShapeAt(reg.p)) /\ ClosuresShaped(prog) /\ Checked(reg.p)
    /\ Seen(stk, reg, live, calls, ctx, snaps, reg.p, End)
    /\ Closures(stk, reg.e, reg.ci, calls, ctx, reg.p) /\ Enclosed(stk, reg, reg.p)
    /\ Prepared(stk, snaps)
    /\ End \in Nat /\ LastB(snaps) < End
    /\ Between(calls, ctx, reg.p)

\* An instruction other than a later clause's first may rely on all of it.
LEMMA ComesKnowing ==
    ASSUME WellShaped(prog), ClosuresShaped(prog), IInv, CInv, status = "run",
           I.op \notin Alternatives \cup Halting
    PROVE  Knows
<1>1. Here(ShapeAt(reg.p))
  BY ComesHere
<1>2. reg.p \in DOMAIN Code /\ View(stk, reg, live, calls, ctx, snaps, ShapeAt(reg.p))
  BY <1>1 DEF Here, Registers
<1>3. Between(calls, ctx, reg.p) /\ Checked(reg.p)
  BY <1>2, PushedBetween
<1>4. Seen(stk, reg, live, calls, ctx, snaps, reg.p, End)
  BY <1>2 DEF Seen, End
<1>5. End \in Nat /\ reg.tos \in Nat /\ reg.tos <= End
  BY <1>2, ViewReaches DEF End
<1>6. LastB(snaps) < reg.tos /\ LastB(snaps) \in Nat
  <2>1. Stacked(snaps)
    BY <1>1 DEF Here
  <2>2. LastB(snaps) \in Nat
    BY <2>1, PointsAre
  <2>3. Registers(reg, snaps)
    BY <1>1 DEF Here
  <2> QED
    BY <2>2, <2>3 DEF Registers
<1>7. LastB(snaps) < End
  BY <1>5, <1>6
<1>8. /\ Closures(stk, reg.e, reg.ci, calls, ctx, reg.p) /\ Enclosed(stk, reg, reg.p)
      /\ Prepared(stk, snaps)
  BY DEF CInv, IsLive, Prepared
<1> QED
  BY <1>1, <1>3, <1>4, <1>5, <1>7, <1>8 DEF Knows

\* A choice points of the first, those left after a cut.
Fewer(pz, ps) == Len(pz) \in 0 .. Len(ps) /\ \A k \in 1 .. Len(pz) : pz[k] = ps[k]

\* The choice points that are left are prepared as they were.
LEMMA StillPrepared ==
    ASSUME Knows, NEW z, Firm(stk, z, End), NEW pz, Fewer(pz, snaps)
    PROVE  Prepared(z, pz)
<1>1. Memory(stk, trail, snaps) /\ End \in Nat /\ LastB(snaps) < End /\ Prepared(stk, snaps)
  BY DEF Knows, Here
<1> QED
  BY <1>1, PreparedStays DEF Fewer

\* A clause goes on in its own definition.
LEMMA GoesOn ==
    ASSUME Knows, prog' = prog, Firm(stk, stk', End), Fewer(snaps', snaps),
           calls' = calls, ctx' = ctx,
           reg'.e = reg.e, reg'.ci = reg.ci, reg'.ce = reg.ce, Carries(reg.p, reg'.p)
    PROVE  CInv'
<1>1. Closures(stk', reg.e, reg.ci, calls, ctx, reg.p)
  BY ClosuresAgree DEF Knows
<1>2. Closures(stk', reg.e, reg.ci, calls, ctx, reg'.p)
  BY <1>1, ClosuresCarry
<1>3. Same(stk, stk', ctx)
  BY FirmIsSame DEF Knows, Closures
<1>4. Enclosed(stk', reg', reg'.p)
  <2>1. PICK l : l = reg'.p
    OBVIOUS
  <2>2. Follows(reg.p, l)
    BY <2>1 DEF Carries, Follows
  <2>3. Enclosed(stk', reg', l)
    BY <1>3, <2>2, StaysEnclosed DEF Knows
  <2> QED
    BY <2>1, <2>3
<1>5. Prepared(stk', snaps')
  BY StillPrepared
<1> QED
  BY <1>2, <1>4, <1>5, ClosesStep

\* The next instruction of a clause, for most instructions.
LEMMA NextCarries ==
    ASSUME Knows, I.op \in Straight \ ({"allocate", "deallocate", "push_impl_point",
                                       "pop_impl_point"} \cup CallOps)
    PROVE  Carries(reg.p, reg.p + 1)
<1>1. Goes(After(ShapeAt(reg.p), I), reg.p + 1)
  BY NextGoes DEF Knows
<1>2. After(ShapeAt(reg.p), I).own = ShapeAt(reg.p).own
  <2>1. DOMAIN ShapeAt(reg.p) = {"own", "n", "slot", "pushed", "univ", "cut", "a1", "ext"}
    BY DEF Knows, Here, IsShape
  <2> QED
    BY <2>1 DEF After, ValueOps, CallOps, Set
<1>3. ShapeAt(reg.p + 1).own => ShapeAt(reg.p).own
  BY <1>1, <1>2, OnlyOwn DEF Knows, Here
<1>4. reg.p + 1 \in GoesTo(I, reg.p)
  BY DEF GoesTo
<1>5. CodeHomes[reg.p + 1] \in {NoTable, CodeHomes[reg.p]}
  BY <1>4 DEF Knows, Checked, I
<1>6. CodePushes[reg.p + 1] = CodePushes[reg.p]
  BY DEF Knows, Checked, I, PushedFrom
<1> QED
  BY <1>3, <1>5, <1>6 DEF Carries

\* Where a switch, or an instruction for a clause, goes.
LEMMA JumpCarries ==
    ASSUME Knows, NEW l \in GoesTo(I, reg.p), Goes(ShapeAt(reg.p), l),
           I.op \in Switches \/ ~ShapeAt(reg.p).own
    PROVE  Carries(reg.p, l)
<1>1. WellShaped(prog) /\ ClosuresShaped(prog)
  BY DEF Knows, Here
<1>2. CodeHomes[l] \in {NoTable, CodeHomes[reg.p]}
  BY DEF Knows, Checked, I
<1>3. ASSUME ShapeAt(l).own
      PROVE  ShapeAt(reg.p).own /\ CodePushes[l] = CodePushes[reg.p]
  <2>1. ShapeAt(reg.p).own /\ Fits(ShapeAt(reg.p), ShapeAt(l)) /\ l \in DOMAIN Code
    BY <1>1, <1>3, OnlyOwn
  <2>2. ShapeAt(reg.p).pushed = 0 /\ I.op \in Switches
    BY <2>1 DEF Knows, Checked, I
  <2>3. ShapeAt(reg.p).ext \in Nat
    BY DEF Knows, Here, View, Running, FromRecord
  <2>4. ShapeAt(l).ext \in Nat /\ ShapeAt(l).pushed = 0
    BY <2>1, <2>2, <2>3 DEF Fits
  <2>5. Checked(l)
    BY <1>1, <2>1, <2>4, ChecksOut
  <2>6. /\ CodePushes[l] \in Seq(DOMAIN prog.tables) /\ Len(CodePushes[l]) = 0
        /\ CodePushes[reg.p] \in Seq(DOMAIN prog.tables) /\ Len(CodePushes[reg.p]) = 0
    BY <2>2, <2>4, <2>5 DEF Checked, Lent, Knows
  <2> QED
    BY <2>1, <2>6
<1> QED
  BY <1>2, <1>3 DEF Carries

\* A step that moves registers only, within a clause.
LEMMA RegsCloses ==
    ASSUME Knows, Regs(reg'), reg'.e = reg.e, reg'.ci = reg.ci, reg'.ce = reg.ce,
           Carries(reg.p, reg'.p)
    PROVE  CInv'
<1>1. Fewer(snaps', snaps)
  <2>1. Len(snaps) \in Nat
    BY MemoryStacks DEF Knows, Here
  <2> QED
    BY <2>1 DEF Regs, hist, Fewer
<1>2. Firm(stk, stk', End) /\ prog' = prog /\ calls' = calls /\ ctx' = ctx
  BY DEF Regs, hist, Firm
<1> QED
  BY <1>1, <1>2, GoesOn

\* The machine stops, or fails.
LEMMA StopsClose ==
    ASSUME CInv, UNCHANGED <<reg, stk, trail, prog, hist>>, status' # "run"
    PROVE  CInv'
<1>1. Prepared(stk', snaps')
  BY DEF CInv, Prepared, hist
<1> QED
  BY <1>1, ClosesStep DEF IsLive

\* The registers are those of the code.
LEMMA RegistersKnown ==
    ASSUME Knows
    PROVE  DOMAIN reg = {"tos", "e", "b", "b0", "i", "ci", "ce", "uc", "p", "cp", "a1"}
BY DEF Knows, Here, Registers

\* Counting universes, and reading variables into registers.
LEMMA RegistersCloses ==
    ASSUME WellShaped(prog), ClosuresShaped(prog), IInv, CInv,
           IncrUniverse \/ DecrUniverse \/ ToRegister \/ PutLevel \/ PutGoal
    PROVE  CInv'
<1>1. /\ status = "run"
      /\ I.op \in {"incr_universe", "decr_universe", "put_value", "init_variable_t",
                   "put_level", "put_goal"}
  BY DEF IncrUniverse, DecrUniverse, ToRegister, PutLevel, PutGoal, Is
<1>2. Knows
  BY <1>1, ComesKnowing DEF Alternatives, Halting
<1>3. Carries(reg.p, reg.p + 1)
  BY <1>1, <1>2, NextCarries DEF Straight, SlotOps, ValueOps, CallOps
<1>4. CASE Overflow
  BY <1>4, StopsClose DEF Overflow
<1>5. CASE ~Overflow
  <2> DEFINE At(x) == /\ DOMAIN x = DOMAIN reg /\ x.e = reg.e /\ x.ci = reg.ci /\ x.ce = reg.ce
                      /\ x.p = reg.p
  <2>1. DOMAIN reg = {"tos", "e", "b", "b0", "i", "ci", "ce", "uc", "p", "cp", "a1"}
    BY <1>2, RegistersKnown
  <2>2. PICK x : Regs(Next1(x)) /\ At(x)
    <3>1. CASE IncrUniverse
      <4>1. Regs(Next1([reg EXCEPT !.uc = @ + 1]))
        BY <1>5, <3>1 DEF IncrUniverse
      <4>2. At([reg EXCEPT !.uc = @ + 1])
        BY <2>1
      <4> QED
        BY <4>1, <4>2
    <3>2. CASE DecrUniverse
      <4>1. Regs(Next1([reg EXCEPT !.uc = @ - 1]))
        BY <3>2 DEF DecrUniverse
      <4>2. At([reg EXCEPT !.uc = @ - 1])
        BY <2>1
      <4> QED
        BY <4>1, <4>2
    <3>3. CASE ToRegister
      <4>1. Regs(Next1(reg)) /\ At(reg)
        BY <3>3 DEF ToRegister
      <4> QED
        BY <4>1
    <3>4. CASE PutLevel
      <4>1. Regs(Next1([reg EXCEPT !.b0 = v(Y(I.y))]))
        BY <3>4 DEF PutLevel
      <4>2. At([reg EXCEPT !.b0 = v(Y(I.y))])
        BY <2>1
      <4> QED
        BY <4>1, <4>2
    <3>5. CASE PutGoal
      <4>1. Regs(Next1([reg EXCEPT !.a1 = v(Y(I.y))]))
        BY <3>5 DEF PutGoal
      <4>2. At([reg EXCEPT !.a1 = v(Y(I.y))])
        BY <2>1
      <4> QED
        BY <4>1, <4>2
    <3> QED
      BY <3>1, <3>2, <3>3, <3>4, <3>5
  <2>3. reg' = Next1(x) /\ Regs(reg')
    BY <2>2 DEF Regs
  <2>4. reg'.e = reg.e /\ reg'.ci = reg.ci /\ reg'.ce = reg.ce /\ reg'.p = reg.p + 1
    BY <2>1, <2>2, <2>3 DEF Next1
  <2> QED
    BY <1>2, <1>3, <2>3, <2>4, RegsCloses
<1> QED
  BY <1>4, <1>5

\* The switches.
LEMMA SwitchesClose ==
    ASSUME WellShaped(prog), ClosuresShaped(prog), IInv, CInv,
           SwitchOnReg \/ SwitchOnTerm \/ SwitchOnConstant
    PROVE  CInv'
<1>1. status = "run" /\ I.op \in Switches
  BY DEF SwitchOnReg, SwitchOnTerm, SwitchOnConstant, Is, Switches
<1>2. Knows
  BY <1>1, ComesKnowing DEF Alternatives, Halting, Switches
<1>3. Finds(prog, CodeShapes, reg.p, ShapeAt(reg.p), I)
  BY <1>2 DEF Knows, Here
<1>4. CASE Fails
  BY <1>4, StopsClose DEF Fails
<1>5. CASE ~Fails
  <2>1. PICK l \in GoesTo(I, reg.p) : Regs([reg EXCEPT !.p = l]) /\ Goes(ShapeAt(reg.p), l)
    <3>1. CASE SwitchOnReg
      BY <1>3, <3>1 DEF SwitchOnReg, Is, Finds, Goes, Code, GoesTo
    <3>2. CASE SwitchOnTerm
      BY <1>3, <3>2 DEF SwitchOnTerm, Is, Finds, Goes, Code, GoesTo
    <3>3. CASE SwitchOnConstant
      BY <1>3, <1>5, <3>3 DEF SwitchOnConstant, Is, Finds, Goes, Code, GoesTo
    <3> QED
      BY <3>1, <3>2, <3>3
  <2>2. Carries(reg.p, l)
    BY <1>1, <1>2, <2>1, JumpCarries
  <2>3. reg' = [reg EXCEPT !.p = l] /\ Regs(reg')
    BY <2>1 DEF Regs
  <2>4. reg'.e = reg.e /\ reg'.ci = reg.ci /\ reg'.ce = reg.ce /\ reg'.p = l
    BY <1>2, <2>3, RegistersKnown
  <2> QED
    BY <1>2, <2>2, <2>3, <2>4, RegsCloses
<1> QED
  BY <1>4, <1>5

\* A cut leaves the clause where it is.
LEMMA CutCloses ==
    ASSUME Knows, NEW b \in Points(snaps), Carries(reg.p, reg.p + 1),
           CutTo(b, Next1(settosreg([reg EXCEPT !.b = b])))
    PROVE  CInv'
<1>1. Memory(stk, trail, snaps)
  BY DEF Knows, Here
<1>2. PICK n \in 0 .. Len(snaps) : Len(UpTo(b)) = n /\ \A k \in 1 .. n : UpTo(b)[k] = snaps[k]
  BY <1>1, CutsTo
<1>3. Fewer(snaps', snaps)
  BY <1>2 DEF CutTo, Fewer
<1>4. /\ reg'.e = reg.e /\ reg'.ci = reg.ci /\ reg'.ce = reg.ce /\ reg'.p = reg.p + 1
  BY RegistersKnown DEF CutTo, Next1, settosreg
<1>5. Firm(stk, stk', End) /\ prog' = prog /\ calls' = calls /\ ctx' = ctx
  BY DEF CutTo, Firm
<1> QED
  BY <1>3, <1>4, <1>5, GoesOn

\* A cut leaves the clause where it is, with fewer choice points.
LEMMA CutsClose ==
    ASSUME WellShaped(prog), ClosuresShaped(prog), IInv, CInv, NeckCut \/ Cut
    PROVE  CInv'
<1> DEFINE s == ShapeAt(reg.p)
           c == calls[Len(calls)]
           b == stk[reg.e + 2 * I.y].v
<1>1. status = "run" /\ I.op \in {"neck_cut", "cut"}
  BY DEF NeckCut, Cut, Is
<1>2. Knows
  BY <1>1, ComesKnowing DEF Alternatives, Halting
<1>3. Carries(reg.p, reg.p + 1)
  BY <1>1, <1>2, NextCarries DEF Straight, SlotOps, ValueOps, CallOps
<1>4. Here(s)
  BY <1>2 DEF Knows
<1>5. CASE NeckCut
  <2>1. I.op = "neck_cut" /\ CutTo(reg.b0, Next1(settosreg([reg EXCEPT !.b = reg.b0])))
    BY <1>5 DEF NeckCut, Is
  <2>2. CutKnown(stk, reg, c, snaps, s) /\ s.cut = "clause"
    BY <1>4, <2>1 DEF Here, View, Running, Finds
  <2>3. reg.b0 \in Points(snaps)
    BY <2>2 DEF CutKnown
  <2> QED
    BY <1>2, <1>3, <2>1, <2>3, CutCloses
<1>6. CASE Cut
  <2>1. I.op = "cut" /\ CutTo(b, Next1(settosreg([reg EXCEPT !.b = b])))
    BY <1>6 DEF Cut, Is, v, Y
  <2>2. s.own /\ I.y \in 1 .. s.n /\ s.slot[I.y] = "level"
    BY <1>4, <2>1 DEF Here, Finds, SlotOps
  <2>3. Levels(stk, c, reg.e, s, snaps)
    BY <1>4, <2>2 DEF Here, View, Running, AtEnv
  <2>4. b \in Points(snaps)
    BY <2>2, <2>3 DEF Levels
  <2> HIDE DEF b
  <2> QED
    BY <1>2, <1>3, <2>1, <2>4, CutCloses
<1> QED
  BY <1>5, <1>6

\* One word is written, of which nothing was known, or a free variable.
LEMMA WordCloses ==
    ASSUME Knows, Carries(reg.p, reg.p + 1), NEW a, NEW w, Soft(stk[a]),
           stk' = [stk EXCEPT ![a] = w], reg' = Next1(reg), UNCHANGED <<prog, hist>>
    PROVE  CInv'
<1>1. Firm(stk, stk', End)
  <2>1. DOMAIN stk = Addr /\ End <= StackEnd + 1 /\ StackEnd \in Nat /\ End \in Nat
    <3>1. View(stk, reg, live, calls, ctx, snaps, ShapeAt(reg.p)) /\ Memory(stk, trail, snaps)
          /\ WellShaped(prog)
      BY DEF Knows, Here
    <3> QED
      BY <3>1, ViewReaches DEF End, Memory, Tidy
  <2>2. \A b \in 0 .. End - 1 : b \in DOMAIN stk
    BY <2>1 DEF Addr, StackBeg
  <2> QED
    BY <2>2 DEF Firm
<1>2. Len(snaps) \in Nat
  BY MemoryStacks DEF Knows, Here
<1>3. Fewer(snaps', snaps) /\ prog' = prog /\ calls' = calls /\ ctx' = ctx
  BY <1>2 DEF Fewer, hist
<1>4. /\ reg'.e = reg.e /\ reg'.ci = reg.ci /\ reg'.ce = reg.ce /\ reg'.p = reg.p + 1
  BY RegistersKnown DEF Next1
<1> QED
  BY <1>1, <1>3, <1>4, GoesOn

\* The instructions that write a variable.
LEMMA VariablesClose ==
    ASSUME WellShaped(prog), ClosuresShaped(prog), IInv, CInv,
           \/ PutVariable \/ TagVariable \/ TagExists \/ SetUnivTag
           \/ GetVariable \/ InitVariable \/ GetLevel
    PROVE  CInv'
<1>w. \E op \in ValueOps \cup {"get_level"} : \E w : SetVar(op, w)
  <2>1. /\ PutVariable => SetVar("put_variable", W("free", envUC))
        /\ TagVariable => SetVar("tag_variable", W("free", envUC))
        /\ TagExists => SetVar("tag_exists", W("free", reg.uc))
        /\ SetUnivTag => SetVar("set_univ_tag", W("univ", reg.uc))
        /\ GetVariable => SetVar("get_variable", W("arg", 0))
        /\ InitVariable => SetVar("init_variable", W("ref", Clenv(I.m)))
        /\ GetLevel => SetVar("get_level", W("level", reg.b0))
    BY DEF PutVariable, TagVariable, TagExists, SetUnivTag, GetVariable, InitVariable, GetLevel
  <2>2. {"put_variable", "tag_variable", "tag_exists", "set_univ_tag", "get_variable",
         "init_variable", "get_level"} \subseteq ValueOps \cup {"get_level"}
    BY DEF ValueOps
  <2> QED
    BY <2>1, <2>2, Zenon
<1>o. PICK op \in ValueOps \cup {"get_level"} : \E w : SetVar(op, w)
  BY <1>w
<1>1. PICK w : SetVar(op, w)
  BY <1>o
<1>2. status = "run" /\ I.op \in ValueOps \cup {"get_level"}
  BY <1>1 DEF SetVar, Is
<1>3. Knows
  BY <1>2, ComesKnowing DEF Alternatives, Halting, ValueOps
<1>4. Carries(reg.p, reg.p + 1)
  BY <1>2, <1>3, NextCarries DEF Straight, SlotOps, ValueOps, CallOps
<1> DEFINE s == ShapeAt(reg.p)
<1>5. Here(s)
  BY <1>3 DEF Knows
<1>6. s.own /\ I.y \in 1 .. s.n /\ s.slot[I.y] = "none"
  BY <1>2, <1>5 DEF Here, Finds, SlotOps
<1>7. Environment(stk, calls[Len(calls)], reg.e, s)
  BY <1>5, <1>6 DEF Here, View, Running, AtEnv
<1>8. stk[Y(I.y)].f = "junk"
  BY <1>6, <1>7 DEF Environment, Slot, Y
<1>9. PICK a : a = Y(I.y)
  OBVIOUS
<1>10. stk' = [stk EXCEPT ![a] = w] /\ reg' = Next1(reg) /\ UNCHANGED <<prog, hist>>
  BY <1>1, <1>9 DEF SetVar
<1>11. Soft(stk[a])
  BY <1>8, <1>9 DEF Soft
<1> QED
  BY <1>3, <1>4, <1>10, <1>11, WordCloses

\* Unification.
LEMMA UnifyCloses ==
    ASSUME WellShaped(prog), ClosuresShaped(prog), IInv, CInv, Unify
    PROVE  CInv'
<1>1. status = "run" /\ I.op = "unify"
  BY DEF Unify, Is
<1>2. Knows
  BY <1>1, ComesKnowing DEF Alternatives, Halting
<1>3. Carries(reg.p, reg.p + 1)
  BY <1>1, <1>2, NextCarries DEF Straight, SlotOps, ValueOps, CallOps
<1>4. CASE Fails
  BY <1>4, StopsClose DEF Fails
<1>5. CASE Regs(Next1(reg))
  <2>1. reg' = Next1(reg) /\ Regs(reg')
    BY <1>5 DEF Regs
  <2>2. /\ reg'.e = reg.e /\ reg'.ci = reg.ci /\ reg'.ce = reg.ce /\ reg'.p = reg.p + 1
    BY <1>2, <2>1, RegistersKnown DEF Next1
  <2> QED
    BY <1>2, <1>3, <2>1, <2>2, RegsCloses
<1>6. ASSUME NEW a \in FreeVars, Bind(a) PROVE CInv'
  <2>1. Soft(stk[a])
    BY DEF FreeVars, Soft
  <2>2. PICK w : w = W("bound", 0)
    OBVIOUS
  <2>3. stk' = [stk EXCEPT ![a] = w] /\ reg' = Next1(reg) /\ UNCHANGED <<prog, hist>>
    BY <1>6, <2>2 DEF Bind
  <2> QED
    BY <1>2, <1>3, <2>1, <2>3, WordCloses
<1>7. Fails \/ Regs(Next1(reg)) \/ \E a \in FreeVars : Bind(a)
  BY DEF Unify
<1> QED
  BY <1>4, <1>5, <1>6, <1>7

\* A clause without an environment lends none.
LEMMA LendsNone ==
    ASSUME NEW m, NEW e, NEW ci, NEW cs, NEW cx, NEW q, Closures(m, e, ci, cs, cx, q),
           ~ShapeAt(q).own, NEW f
    PROVE  Closures(m, f, ci, cs, cx, q)
BY DEF Closures

\* The environment of a clause is given up before its last call.
LEMMA DeallocateCloses ==
    ASSUME WellShaped(prog), ClosuresShaped(prog), IInv, CInv, Deallocate
    PROVE  CInv'
<1>1. status = "run" /\ I.op = "deallocate"
  BY DEF Deallocate, Is
<1>2. Knows
  BY <1>1, ComesKnowing DEF Alternatives, Halting
<1>3. ~ShapeAt(reg.p + 1).own
  <2>1. Goes(After(ShapeAt(reg.p), I), reg.p + 1)
    BY <1>1, <1>2, NextGoes DEF Knows, Straight
  <2>2. DOMAIN ShapeAt(reg.p) = {"own", "n", "slot", "pushed", "univ", "cut", "a1", "ext"}
    BY <1>2 DEF Knows, Here, IsShape
  <2>3. PICK s : s = ShapeAt(reg.p) /\ DOMAIN s = {"own", "n", "slot", "pushed", "univ", "cut", "a1", "ext"}
    BY <2>2
  <2>4. After(s, I) = [s EXCEPT !.own = FALSE, !.n = 0, !.slot = <<>>,
                                !.a1 = IF @ = "slot" THEN "goal" ELSE @]
    BY <1>1 DEF After, ValueOps, CallOps
  <2>5. ~After(ShapeAt(reg.p), I).own
    BY <2>3, <2>4
  <2> QED
    BY <2>1, <2>5, OnlyOwn DEF Knows, Here
<1>4. Carries(reg.p, reg.p + 1)
  <2>1. reg.p + 1 \in GoesTo(I, reg.p)
    BY <1>1 DEF GoesTo, Straight
  <2>2. CodeHomes[reg.p + 1] \in {NoTable, CodeHomes[reg.p]}
    BY <1>2, <2>1 DEF Knows, Checked, I
  <2> QED
    BY <1>3, <2>2 DEF Carries
<1>5. reg'.ci = reg.ci /\ reg'.ce = reg.ce /\ reg'.p = reg.p + 1
  BY <1>2, RegistersKnown DEF Deallocate, Next1
<1>6. stk' = stk /\ prog' = prog /\ calls' = calls /\ ctx' = ctx /\ snaps' = snaps
  BY DEF Deallocate
<1>7. Closures(stk, reg'.e, reg.ci, calls, ctx, reg.p + 1)
  <2>1. Closures(stk, reg.e, reg.ci, calls, ctx, reg.p + 1)
    BY <1>2, <1>4, ClosuresCarry DEF Knows
  <2> QED
    BY <1>3, <2>1, LendsNone
<1>8. Enclosed(stk, reg', reg.p + 1)
  <2>1. Same(stk, stk, ctx)
    BY DEF Same, SameRecord
  <2> QED
    BY <1>2, <1>4, <1>5, <2>1, StaysEnclosed DEF Knows, Carries, Follows
<1> QED
  BY <1>2, <1>5, <1>6, <1>7, <1>8, ClosesStep DEF Knows

-----------------------------------------------------------------------------
\* The code found for a predicate is that of the record it is found in.
LEMMA NamedComes ==
    ASSUME WellShaped(prog), ClosuresShaped(prog), Rooted(stk), NEW cx, Records(stk, cx),
           NEW c, NEW n \in 1 .. Len(cx), NEW x, x = FindIP(cx[n], c), CodeAt(x, c) # 0,
           NEW t, t = CodeHomes[CodeAt(x, c)], t # NoTable
    PROVE  \E k \in 2 .. n : x = cx[k] /\ stk[cx[k] + 2].v = t
<1>1. x # StackBeg
  BY DEF CodeAt
<1>2. PICK k \in 1 .. n : x = cx[k] /\ c \in DOMAIN Tables[stk[cx[k] + 2].v].code
  BY <1>1, FindsRecord
<1> DEFINE T == stk[cx[k] + 2].v
<1>3. T \in DOMAIN prog.tables
  <2>1. k \in 1 .. Len(cx) /\ Len(cx) \in Nat
    BY <1>2 DEF Records
  <2> QED
    BY <2>1 DEF Records, Record, Tables
<1>4. CodeAt(x, c) = prog.tables[T].code[c] /\ c \in DOMAIN prog.tables[T].code
  BY <1>1, <1>2 DEF CodeAt, v, Tables
<1>5. CodeHomes[prog.tables[T].code[c]] \in {NoTable} \cup ({T} \ {Top})
  BY <1>3, <1>4 DEF ClosuresShaped, CodeHomes, Top
<1>6. t = T /\ T # Top
  BY <1>4, <1>5
<1>7. k # 1
  BY <1>6 DEF Records, Rooted
<1> QED
  BY <1>2, <1>6, <1>7

\* A clause is entered: it comes from where it was found, or anywhere.
LEMMA EnteringCloses ==
    ASSUME ClosuresShaped(prog), WellShaped(prog),
           NEW cs, Implications(stk, ctx), Lending(stk, cs, ctx),
           NEW t, ~t.own, NEW q, Goes(t, q), NEW ci,
           ComesFrom(stk, ci, cs[Len(cs)], ctx, CodeHomes[q]), NEW e
    PROVE  Closures(stk, e, ci, cs, ctx, q)
<1>1. ~ShapeAt(q).own
  BY OnlyOwn
<1> QED
  BY <1>1 DEF Closures

\* The machine enters the clause at q, with the record x and the calls cs: a
\* clause found for a predicate, or one that is come to from anywhere.
Enters(cs, x, q) ==
    /\ Implications(stk, ctx) /\ Lending(stk, cs, ctx)
    /\ Len(ctx) \in Nat \ {0} /\ Len(cs[Len(cs)].ctx) = Len(ctx)
    /\ \/ CodeHomes[q] = NoTable
       \/ \E c : x = FindIP(ctx[Len(ctx)], c) /\ q = CodeAt(x, c) /\ q # 0

\* A predicate comes from the record that it is found in.
LEMMA EntersFrom ==
    ASSUME WellShaped(prog), ClosuresShaped(prog), Rooted(stk), Records(stk, ctx),
           NEW cs, NEW x, NEW q, Enters(cs, x, q)
    PROVE  ComesFrom(stk, x, cs[Len(cs)], ctx, CodeHomes[q])
<1> SUFFICES ASSUME CodeHomes[q] # NoTable
             PROVE  \E k \in 2 .. Len(ctx) : x = ctx[k] /\ stk[ctx[k] + 2].v = CodeHomes[q]
  BY DEF ComesFrom, Enters
<1>1. PICK c : x = FindIP(ctx[Len(ctx)], c) /\ q = CodeAt(x, c) /\ q # 0
  BY DEF Enters
<1>2. Len(ctx) \in 1 .. Len(ctx)
  BY DEF Enters
<1>3. PICK t : t = CodeHomes[CodeAt(x, c)]
  OBVIOUS
<1>4. t # NoTable /\ t = CodeHomes[q]
  BY <1>1, <1>3
<1>5. \E k \in 2 .. Len(ctx) : x = ctx[k] /\ stk[ctx[k] + 2].v = t
  BY <1>1, <1>2, <1>3, <1>4, NamedComes
<1> QED
  BY <1>4, <1>5

\* By entering a clause the machine keeps what it needs.
LEMMA EntersCloses ==
    ASSUME Knows, prog' = prog, stk' = stk, ctx' = ctx, snaps' = snaps,
           NEW r, Enters(calls', r.ci, r.p), reg' = WithCE(r), "ce" \in DOMAIN r,
           reg'.p = r.p, reg'.ci = r.ci, NEW t, ~t.own, Goes(t, r.p)
    PROVE  CInv'
<1>1. WellShaped(prog) /\ ClosuresShaped(prog) /\ Rooted(stk) /\ Records(stk, ctx)
  BY DEF Knows, Here, Memory, View
<1>2. ComesFrom(stk, r.ci, calls'[Len(calls')], ctx, CodeHomes[r.p])
  BY <1>1, EntersFrom
<1>3. Closures(stk, reg'.e, r.ci, calls', ctx, r.p)
  BY <1>1, <1>2, EnteringCloses DEF Enters
<1>4. Enclosed(stk, reg', r.p)
  <2>1. Len(ctx) \in Nat /\ Len(calls'[Len(calls')].ctx) \in Nat
        /\ Len(calls'[Len(calls')].ctx) <= Len(ctx)
    BY DEF Enters
  <2>2. Enclosed(stk, WithCE(r), r.p)
    BY <1>3, <2>1, WithCEEncloses
  <2> QED
    BY <2>2
<1> QED
  BY <1>3, <1>4, ClosesStep DEF Knows

\* The last call of a clause.
LEMMA ExecutesClose ==
    ASSUME WellShaped(prog), ClosuresShaped(prog), IInv, CInv, Execute \/ ExecuteName
    PROVE  CInv'
<1>1. status = "run" /\ I.op \in {"execute", "execute_name"}
  BY DEF Execute, ExecuteName, Is
<1>2. Knows
  BY <1>1, ComesKnowing DEF Alternatives, Halting
<1> DEFINE s == ShapeAt(reg.p)
           c == calls[Len(calls)]
<1>3. Here(s) /\ View(stk, reg, live, calls, ctx, snaps, s) /\ Finds(prog, CodeShapes, reg.p, s, I)
  BY <1>2 DEF Knows, Here
<1>4. Len(ctx) \in Nat \ {0} /\ Len(c.ctx) = Len(ctx) /\ reg.i = ctx[Len(ctx)]
  <2>1. InClause(s)
    BY <1>1, <1>3 DEF Finds, Leaving
  <2>2. Len(ctx) \in Nat /\ Len(c.ctx) \in Nat /\ 1 <= Len(c.ctx)
    BY <1>3, CallerIs
  <2>3. Len(ctx) = Len(c.ctx) + s.pushed /\ reg.i = ctx[Len(ctx)] /\ s.pushed = 0
    BY <1>3, <2>1 DEF View, Running, InContext, InClause
  <2> QED
    BY <2>2, <2>3
<1>5. Implications(stk, ctx) /\ Lending(stk, calls, ctx)
  BY <1>2 DEF Knows, Closures
<1>6. CASE Fails
  BY <1>6, StopsClose DEF Fails
<1>7. CASE Execute
  <2>1. I.op = "execute" /\ Regs([reg EXCEPT !.b0 = reg.b, !.p = I.l])
    BY <1>7 DEF Execute, Is
  <2>2. Goes(Entered, I.l) /\ CodeHomes[I.l] = NoTable
    BY <1>2, <1>3, <2>1 DEF Finds, Goes, Code, Knows, Checked, I
  <2>3. reg'.p = I.l
    BY <1>2, <2>1, RegistersKnown DEF Regs
  <2>4. ~Entered.own
    BY DEF Entered, Shape
  <2>5. prog' = prog /\ stk' = stk /\ ctx' = ctx /\ snaps' = snaps /\ calls' = calls
    BY <2>1 DEF Regs, hist
  <2>6. ComesFrom(stk, reg'.ci, c, ctx, CodeHomes[I.l])
    BY <2>2 DEF ComesFrom
  <2>7. Closures(stk, reg'.e, reg'.ci, calls, ctx, I.l)
    BY <1>5, <2>2, <2>4, <2>6, EnteringCloses
  <2>8. Enclosed(stk, reg', I.l)
    BY <2>2 DEF Enclosed
  <2> QED
    BY <1>2, <2>3, <2>5, <2>7, <2>8, ClosesStep DEF Knows
<1>8. CASE HasCode(I.c) /\ Regs(Enter(reg, I.c))
  <2> DEFINE x == FindIP(reg.i, I.c)
  <2>1. PICK r : r = [reg EXCEPT !.b0 = reg.b, !.p = CodeAt(x, I.c), !.ci = x]
    OBVIOUS
  <2>2. reg' = WithCE(r) /\ prog' = prog /\ stk' = stk /\ ctx' = ctx /\ snaps' = snaps /\ calls' = calls
    BY <1>8, <2>1 DEF Regs, hist, Enter
  <2>3. reg' = Enter(reg, I.c)
    BY <1>8 DEF Regs
  <2>4. reg'.ci = x /\ reg'.p = CodeAt(x, I.c)
    BY <1>3, <2>3, EnterIs DEF Here
  <2>5. r.ci = x /\ r.p = CodeAt(x, I.c) /\ "ce" \in DOMAIN r
    BY <1>2, <2>1, RegistersKnown
  <2>6. CodeAt(x, I.c) # 0
    BY <1>8 DEF HasCode
  <2>7. Enters(calls', r.ci, r.p)
    BY <1>4, <1>5, <2>2, <2>5, <2>6 DEF Enters
  <2>8. PICK k \in 1 .. Len(ctx) : Goes(Extended(Links(stk, ctx[k])), CodeAt(x, I.c))
    <3>1. Records(stk, ctx) /\ Len(ctx) \in 1 .. Len(ctx) /\ x = FindIP(ctx[Len(ctx)], I.c)
      BY <1>3, <1>4 DEF View
    <3> HIDE DEF x
    <3> QED
      BY <1>2, <2>6, <3>1, NamedGoes DEF Knows, Here
  <2>9. ~Extended(Links(stk, ctx[k])).own
    BY DEF Extended, Entered, Shape
  <2> HIDE DEF x
  <2> QED
    BY <1>2, <2>2, <2>4, <2>5, <2>7, <2>8, <2>9, EntersCloses
<1> QED
  BY <1>6, <1>7, <1>8 DEF ExecuteName

-----------------------------------------------------------------------------
\* Calls: the clause lends its environment while it waits.
LEMMA LendingAdds ==
    ASSUME NEW m, NEW cs, NEW cx, IsSeq(cs), cs # <<>>, Lending(m, cs, cx),
           NEW d, NEW c, c = cs[Len(cs)], Lends(m, c, d.e, d.ret, cx)
    PROVE  /\ Lending(m, Append(cs, d), cx)
           /\ Append(cs, d)[Len(Append(cs, d))] = d
<1> DEFINE ds == Append(cs, d)
<1>1. /\ Len(ds) = Len(cs) + 1 /\ \A i \in 1 .. Len(cs) : ds[i] = cs[i]
      /\ ds[Len(cs) + 1] = d
  BY AppendIs
<1>2. Len(cs) \in Nat \ {0}
  BY SeqIs
<1> HIDE DEF ds
<1>3. Len(ds[1].ctx) = 1
  BY <1>1, <1>2 DEF Lending
<1>4. ASSUME NEW j \in 2 .. Len(ds) PROVE Lends(m, ds[j - 1], ds[j].e, ds[j].ret, cx)
  <2>1. CASE j = Len(ds)
    <3>1. ds[j] = d /\ ds[j - 1] = cs[Len(cs)]
      BY <1>1, <1>2, <2>1
    <3> QED
      BY <3>1
  <2>2. CASE j # Len(ds)
    <3>1. j \in 2 .. Len(cs) /\ ds[j] = cs[j] /\ ds[j - 1] = cs[j - 1]
      BY <1>1, <1>2, <2>2
    <3> QED
      BY <3>1 DEF Lending
  <2> QED
    BY <2>1, <2>2
<1>5. Lending(m, ds, cx)
  BY <1>3, <1>4 DEF Lending
<1>6. ds[Len(ds)] = d
  BY <1>1
<1> QED
  BY <1>5, <1>6 DEF ds

\* A call leaves its clause waiting, with what it has pushed.
LEMMA CallsLend ==
    ASSUME Knows, I.op \in CallOps, NEW d, d.e = reg.e, d.ret = reg.p + 1
    PROVE  /\ Lending(stk, Append(calls, d), ctx)
           /\ Append(calls, d)[Len(Append(calls, d))] = d
<1> DEFINE s == ShapeAt(reg.p)
           c == calls[Len(calls)]
<1>1. Here(s) /\ View(stk, reg, live, calls, ctx, snaps, s) /\ Finds(prog, CodeShapes, reg.p, s, I)
  BY DEF Knows, Here
<1>2. s.own
  BY <1>1 DEF Finds
<1>3. Lends(stk, c, reg.e, reg.p, ctx) /\ Lending(stk, calls, ctx)
  BY <1>2 DEF Knows, Closures
<1>4. I.op \in Straight /\ I.op \notin {"push_impl_point", "pop_impl_point"}
  BY DEF CallOps, Straight
<1>5. CodePushes[reg.p + 1] = CodePushes[reg.p]
  BY <1>4 DEF Knows, Checked, I, PushedFrom
<1>6. CodeHomes[reg.p + 1] \in {NoTable, CodeHomes[reg.p]}
  <2>1. reg.p + 1 \in GoesTo(I, reg.p)
    BY <1>4 DEF GoesTo
  <2> QED
    BY <2>1 DEF Knows, Checked, I
<1>7. Lends(stk, c, reg.e, reg.p + 1, ctx)
  BY <1>3, <1>5, <1>6 DEF Lends, ComesFrom
<1>8. IsSeq(calls) /\ calls # <<>>
  BY <1>1 DEF View, Calls
<1> HIDE DEF c
<1>9. Lends(stk, c, d.e, d.ret, ctx)
  BY <1>7
<1> QED
  BY <1>3, <1>8, <1>9, LendingAdds DEF c

\* The fields of the registers when CE is reset.
LEMMA WithCEFields ==
    ASSUME NEW r, DOMAIN r = {"tos", "e", "b", "b0", "i", "ci", "ce", "uc", "p", "cp", "a1"},
           NEW q, q = WithCE(r)
    PROVE  /\ q.e = r.e /\ q.ci = r.ci /\ q.p = r.p /\ q.cp = r.cp
           /\ DOMAIN q = DOMAIN r
<1>1. SameBut(r, q, {"ce"})
  BY WithCEIs
<1> QED
  BY <1>1 DEF SameBut

\* Calls of predicates by label, and by name.
LEMMA CallsClose ==
    ASSUME WellShaped(prog), ClosuresShaped(prog), IInv, CInv, CallLabel \/ CallName
    PROVE  CInv'
<1>1. status = "run" /\ I.op \in {"call", "call_name"} /\ I.op \in CallOps
  BY DEF CallLabel, CallName, Is, CallOps
<1>2. Knows
  BY <1>1, ComesKnowing DEF Alternatives, Halting
<1> DEFINE s == ShapeAt(reg.p)
<1>3. Here(s) /\ View(stk, reg, live, calls, ctx, snaps, s) /\ Finds(prog, CodeShapes, reg.p, s, I)
  BY <1>2 DEF Knows, Here
<1>4. Len(ctx) \in Nat \ {0} /\ reg.i = ctx[Len(ctx)]
  <2>1. Len(ctx) \in Nat /\ Len(calls[Len(calls)].ctx) \in Nat /\ 1 <= Len(calls[Len(calls)].ctx)
        /\ Len(calls[Len(calls)].ctx) <= Len(ctx)
    BY <1>3, CallerIs
  <2> QED
    BY <1>3, <2>1 DEF View, Running, InContext
<1>5. Implications(stk, ctx)
  BY <1>2 DEF Knows, Closures
<1>6. DOMAIN reg = {"tos", "e", "b", "b0", "i", "ci", "ce", "uc", "p", "cp", "a1"}
  BY <1>2, RegistersKnown
<1>7. CASE Fails
  BY <1>7, StopsClose DEF Fails
<1>8. CASE CallLabel
  <2>1. I.op = "call" /\ Calling(reg')
        /\ reg' = [reg EXCEPT !.cp = reg.p + 1, !.ce = reg.e, !.b0 = reg.b, !.p = I.l]
    BY <1>8 DEF CallLabel, Is
  <2>2. Goes(Entered, I.l) /\ CodeHomes[I.l] = NoTable
    BY <1>2, <1>3, <2>1 DEF Finds, Goes, Code, Knows, Checked, I
  <2>3. reg'.p = I.l /\ reg'.e = reg.e /\ reg'.cp = reg.p + 1
    BY <1>6, <2>1
  <2>4. ~Entered.own
    BY DEF Entered, Shape
  <2>5. prog' = prog /\ stk' = stk /\ ctx' = ctx /\ snaps' = snaps
        /\ calls' = Append(calls, Caller(reg'))
    BY <2>1 DEF Calling
  <2>6. PICK d : d = Caller(reg')
    OBVIOUS
  <2>7. d.e = reg.e /\ d.ret = reg.p + 1
    BY <2>3, <2>6 DEF Caller
  <2>8. Lending(stk, calls', ctx)
    BY <1>1, <1>2, <2>5, <2>6, <2>7, CallsLend
  <2>9. ComesFrom(stk, reg'.ci, calls'[Len(calls')], ctx, CodeHomes[I.l])
    BY <2>2 DEF ComesFrom
  <2>10. Closures(stk, reg'.e, reg'.ci, calls', ctx, I.l)
    BY <1>5, <2>2, <2>4, <2>8, <2>9, EnteringCloses
  <2>11. Enclosed(stk, reg', I.l)
    BY <2>2 DEF Enclosed
  <2> QED
    BY <1>2, <2>3, <2>5, <2>10, <2>11, ClosesStep DEF Knows
<1>9. CASE HasCode(I.c) /\ reg' = Enter([reg EXCEPT !.cp = reg.p + 1], I.c) /\ Calling(reg')
  <2> DEFINE x == FindIP(reg.i, I.c)
  <2>1. PICK r : r = [reg EXCEPT !.cp = reg.p + 1, !.b0 = reg.b, !.p = CodeAt(x, I.c), !.ci = x]
    OBVIOUS
  <2>2. reg' = WithCE(r)
    <3>1. PICK y : y = [reg EXCEPT !.cp = reg.p + 1]
      OBVIOUS
    <3>2. y.i = reg.i /\ y.b = reg.b
      BY <1>6, <3>1
    <3>3. r = [y EXCEPT !.b0 = y.b, !.p = CodeAt(FindIP(y.i, I.c), I.c), !.ci = FindIP(y.i, I.c)]
      BY <2>1, <3>1, <3>2
    <3> QED
      BY <1>9, <3>1, <3>3 DEF Enter
  <2>3. /\ DOMAIN r = {"tos", "e", "b", "b0", "i", "ci", "ce", "uc", "p", "cp", "a1"}
        /\ r.ci = x /\ r.p = CodeAt(x, I.c) /\ r.e = reg.e /\ r.cp = reg.p + 1
    BY <1>6, <2>1
  <2>4. reg'.ci = x /\ reg'.p = CodeAt(x, I.c) /\ reg'.e = reg.e /\ reg'.cp = reg.p + 1
    BY <2>2, <2>3, WithCEFields
  <2>5. prog' = prog /\ stk' = stk /\ ctx' = ctx /\ snaps' = snaps
        /\ calls' = Append(calls, Caller(reg'))
    BY <1>9 DEF Calling
  <2>6. PICK d : d = Caller(reg')
    OBVIOUS
  <2>7. d.e = reg.e /\ d.ret = reg.p + 1 /\ d.ctx = ctx
    BY <2>4, <2>6 DEF Caller
  <2>8. Lending(stk, calls', ctx) /\ calls'[Len(calls')] = d
    BY <1>1, <1>2, <2>5, <2>6, <2>7, CallsLend
  <2>9. CodeAt(x, I.c) # 0
    BY <1>9 DEF HasCode
  <2>10. Enters(calls', r.ci, r.p)
    BY <1>4, <1>5, <2>3, <2>7, <2>8, <2>9 DEF Enters
  <2>11. PICK k \in 1 .. Len(ctx) : Goes(Extended(Links(stk, ctx[k])), CodeAt(x, I.c))
    <3>1. Records(stk, ctx) /\ Len(ctx) \in 1 .. Len(ctx) /\ x = FindIP(ctx[Len(ctx)], I.c)
      BY <1>3, <1>4 DEF View
    <3> HIDE DEF x
    <3> QED
      BY <1>2, <2>9, <3>1, NamedGoes DEF Knows, Here
  <2>12. ~Extended(Links(stk, ctx[k])).own
    BY DEF Extended, Entered, Shape
  <2> HIDE DEF x
  <2> QED
    BY <1>2, <2>2, <2>3, <2>4, <2>5, <2>10, <2>11, <2>12, EntersCloses
<1> QED
  BY <1>7, <1>8, <1>9 DEF CallName

-----------------------------------------------------------------------------
\* Returns: what the clause that waited had lent, it still lends.
LEMMA LendingDrops ==
    ASSUME NEW m, NEW cs, NEW cx, IsSeq(cs), Lending(m, cs, cx), Len(cs) > 1,
           NEW ds, ds = Init1(cs), NEW d, d = cs[Len(cs)]
    PROVE  /\ Lending(m, ds, cx) /\ ds[Len(ds)] = cs[Len(cs) - 1]
           /\ Lends(m, ds[Len(ds)], d.e, d.ret, cx)
<1>1. Len(cs) \in Nat \ {0, 1} /\ Len(cs) - 1 \in 0 .. Len(cs)
  BY SeqIs
<1>2. Len(ds) = Len(cs) - 1 /\ \A i \in 1 .. Len(cs) - 1 : ds[i] = cs[i]
  BY <1>1, PrefixIs DEF Init1
<1>3. ds[Len(ds)] = cs[Len(cs) - 1] /\ ds[1] = cs[1]
  BY <1>1, <1>2
<1>4. Lends(m, cs[Len(cs) - 1], d.e, d.ret, cx)
  BY <1>1 DEF Lending
<1>5. ASSUME NEW j \in 2 .. Len(ds) PROVE Lends(m, ds[j - 1], ds[j].e, ds[j].ret, cx)
  <2>1. ds[j] = cs[j] /\ ds[j - 1] = cs[j - 1] /\ j \in 2 .. Len(cs)
    BY <1>1, <1>2
  <2> QED
    BY <2>1 DEF Lending
<1>6. Lending(m, ds, cx)
  BY <1>3, <1>5 DEF Lending
<1> QED
  BY <1>3, <1>4, <1>6

\* A return goes back to what the waiting clause relies upon.
LEMMA ReturningCloses ==
    ASSUME Knows, prog' = prog, stk' = stk, ctx' = ctx, Fewer(snaps', snaps),
           NEW cs, IsSeq(cs), Lending(stk, cs, ctx), Len(cs) > 1, calls' = Init1(cs),
           NEW d, d = cs[Len(cs)], reg'.p = d.ret, reg'.e = d.e,
           ComesFrom(stk, reg'.ci, cs[Len(cs) - 1], ctx, CodeHomes[d.ret]),
           CodeHomes[d.ret] # NoTable => reg'.ce = stk[reg'.ci].v
    PROVE  CInv'
<1>1. Implications(stk, ctx)
  BY DEF Knows, Closures
<1>2. PICK ds : ds = Init1(cs)
  OBVIOUS
<1>3. /\ Lending(stk, ds, ctx) /\ ds[Len(ds)] = cs[Len(cs) - 1]
      /\ Lends(stk, ds[Len(ds)], d.e, d.ret, ctx)
  BY <1>2, LendingDrops
<1>4. Closures(stk, d.e, reg'.ci, ds, ctx, d.ret)
  BY <1>1, <1>3 DEF Closures
<1>5. Enclosed(stk, reg', d.ret)
  BY DEF Enclosed
<1>6. Prepared(stk', snaps')
  <2>1. Firm(stk, stk', End)
    BY DEF Firm
  <2> QED
    BY <2>1, StillPrepared
<1> QED
  BY <1>2, <1>4, <1>5, <1>6, ClosesStep

\* The record that a clause which waits comes from is found back in its
\* environment.
LEMMA CallerComes ==
    ASSUME WellShaped(prog), Implications(stk, ctx), NEW cs, IsSeq(cs), Len(cs) > 1,
           Lending(stk, cs, ctx), Len(ctx) \in Nat,
           Len(cs[Len(cs) - 1].ctx) \in Nat, Len(cs[Len(cs) - 1].ctx) <= Len(ctx),
           NEW d, d = cs[Len(cs)], NEW r, r.ci = stk[d.e - 2].v, "ce" \in DOMAIN r
    PROVE  /\ ComesFrom(stk, r.ci, cs[Len(cs) - 1], ctx, CodeHomes[d.ret])
           /\ CodeHomes[d.ret] # NoTable => WithCE(r).ce = stk[r.ci].v
<1>1. ComesFrom(stk, r.ci, cs[Len(cs) - 1], ctx, CodeHomes[d.ret])
  <2>1. Len(cs) \in 2 .. Len(cs)
    BY SeqIs
  <2> QED
    BY <2>1 DEF Lending, Lends
<1>2. ASSUME CodeHomes[d.ret] # NoTable
      PROVE  WithCE(r).ce = stk[r.ci].v
  <2>1. PICK k \in 2 .. Len(cs[Len(cs) - 1].ctx) : r.ci = ctx[k]
    BY <1>1, <1>2 DEF ComesFrom
  <2>2. stk[r.ci + 1] = W("tag", TagImpl)
    BY <2>1 DEF Implications
  <2>3. isImpl(r.ci)
    BY <2>2 DEF isImpl, v, W
  <2> QED
    BY <2>3 DEF WithCE, v
<1> QED
  BY <1>1, <1>2

\* Facts and last calls that are done return.
LEMMA ProceedCloses ==
    ASSUME WellShaped(prog), ClosuresShaped(prog), IInv, CInv, Proceed
    PROVE  CInv'
<1>1. status = "run" /\ I.op = "proceed"
  BY DEF Proceed, Is
<1>2. Knows
  BY <1>1, ComesKnowing DEF Alternatives, Halting
<1> DEFINE s == ShapeAt(reg.p)
           d == calls[Len(calls)]
<1>3. Here(s) /\ View(stk, reg, live, calls, ctx, snaps, s) /\ Finds(prog, CodeShapes, reg.p, s, I)
  BY <1>2 DEF Knows, Here
<1>4. InClause(s)
  BY <1>1, <1>3 DEF Finds, Leaving
<1>5. CASE noEnv
  <2>1. UNCHANGED <<reg, stk, trail, prog, hist>> /\ status' # "run"
    BY <1>5 DEF Proceed
  <2> QED
    BY <2>1, StopsClose
<1>6. CASE ~noEnv
  <2>1. /\ reg' = WithCE(Return([reg EXCEPT !.ci = envCI])) /\ Returning
    BY <1>6 DEF Proceed
  <2>2. Len(calls) > 1 /\ Len(calls) \in Nat
    <3>1. reg.e # StackBeg
      BY <1>6 DEF noEnv
    <3>2. PICK q : q.e = reg.e /\ q.tos = reg.tos /\ q.uc = reg.uc /\ q.i = reg.i
      OBVIOUS
    <3> QED
      BY <1>2, <1>3, <1>4, <3>1, <3>2, ViewReturns DEF Knows, Here
  <2>3. reg.e = d.e /\ reg.cp = d.ret
    BY <1>3, <1>4 DEF View, Running, AtEnv, InClause
  <2>4. PICK r : r = Return([reg EXCEPT !.ci = envCI])
    OBVIOUS
  <2>5. /\ DOMAIN r = {"tos", "e", "b", "b0", "i", "ci", "ce", "uc", "p", "cp", "a1"}
        /\ r.ci = stk[d.e - 2].v /\ r.e = d.e /\ r.p = d.ret
    BY <1>2, <2>3, <2>4, RegistersKnown DEF Return, envCI, v
  <2>6. reg' = WithCE(r) /\ reg'.ci = r.ci /\ reg'.e = d.e /\ reg'.p = d.ret
    BY <2>1, <2>4, <2>5, WithCEFields
  <2>7. IsSeq(calls) /\ Lending(stk, calls, ctx) /\ Implications(stk, ctx)
    BY <1>2, <1>3 DEF View, Calls, Knows, Closures
  <2>8. /\ Len(ctx) \in Nat /\ Len(calls[Len(calls) - 1].ctx) \in Nat
        /\ Len(calls[Len(calls) - 1].ctx) <= Len(ctx)
    <3>1. Between(calls, ctx, reg.p) /\ Len(calls) - 1 \in 1 .. Len(calls)
      BY <1>2, <2>2 DEF Knows
    <3> QED
      BY <3>1, PushedAre DEF Between
  <2>9. /\ ComesFrom(stk, r.ci, calls[Len(calls) - 1], ctx, CodeHomes[d.ret])
        /\ CodeHomes[d.ret] # NoTable => reg'.ce = stk[r.ci].v
    BY <2>2, <2>5, <2>6, <2>7, <2>8, CallerComes
  <2>10. calls' = Init1(calls) /\ prog' = prog /\ stk' = stk /\ ctx' = ctx /\ snaps' = snaps
    BY <2>1, <2>2 DEF Returning, Popped
  <2>11. Fewer(snaps', snaps)
    <3>1. Len(snaps) \in Nat
      BY <1>3, MemoryStacks DEF Here
    <3> QED
      BY <2>10, <3>1 DEF Fewer
  <2> HIDE DEF d
  <2> QED
    BY <1>2, <2>2, <2>6, <2>7, <2>9, <2>10, <2>11, ReturningCloses DEF d
<1> QED
  BY <1>5, <1>6

-----------------------------------------------------------------------------
\* What is known where the goal in A1 is solved.
SolvesKnow(o, cs) ==
    /\ Knows /\ IsSeq(cs) /\ cs # <<>>
    /\ View(stk, o, LiveAt(o.e, o.cp), cs, ctx, snaps, Solving)
    /\ Lending(stk, cs, ctx) /\ Implications(stk, ctx)
    /\ DOMAIN o = {"tos", "e", "b", "b0", "i", "ci", "ce", "uc", "p", "cp", "a1"}
    /\ o.e = cs[Len(cs)].e /\ o.cp = cs[Len(cs)].ret
    /\ Len(cs) > 1 => /\ ComesFrom(stk, o.ci, cs[Len(cs) - 1], ctx, CodeHomes[o.cp])
                      /\ CodeHomes[o.cp] # NoTable => o.ce = stk[o.ci].v
    /\ Len(ctx) \in Nat \ {0} /\ Len(cs[Len(cs)].ctx) = Len(ctx) /\ o.i = ctx[Len(ctx)]

\* A clause's last goal is solved.
LEMMA SolvesLast ==
    ASSUME Knows, I.op = "solve", NEW o, o = SolveReg, NEW cs, cs = calls, Len(cs) > 1
    PROVE  /\ ComesFrom(stk, o.ci, cs[Len(cs) - 1], ctx, CodeHomes[cs[Len(cs)].ret])
           /\ CodeHomes[cs[Len(cs)].ret] # NoTable => o.ce = stk[o.ci].v
<1> DEFINE s == ShapeAt(reg.p)
           d == calls[Len(calls)]
<1>1. Here(s) /\ View(stk, reg, live, calls, ctx, snaps, s) /\ Finds(prog, CodeShapes, reg.p, s, I)
  BY DEF Knows, Here
<1>2. InClause(s)
  BY <1>1 DEF Finds, Leaving
<1>3. reg.e = d.e /\ Calls(stk, calls, ctx, snaps)
  BY <1>1, <1>2 DEF View, Running, AtEnv, InClause
<1>4. Len(calls) \in Nat /\ d.e # StackBeg
  <2>1. Running(stk, reg, live, calls[Len(calls)], ctx, snaps, s) /\ Calls(stk, calls, ctx, snaps)
    BY <1>1 DEF View
  <2> HIDE DEF s, d
  <2>4. reg.e \in Nat /\ Len(calls) \in Nat \ {0}
    BY <2>1, FramesAre
  <2>2. 1 \in 1 .. Len(calls) /\ Len(calls) \in 1 .. Len(calls) /\ 1 < Len(calls)
    BY <2>4
  <2>3. calls[1].e = StackBeg /\ calls[1].e < calls[Len(calls)].e
    BY <2>1, <2>2 DEF Calls
  <2> QED
    BY <2>3, <2>4 DEF d, StackBeg
<1>5. PICK r : r = [Next1(reg) EXCEPT !.ci = envCI]
  OBVIOUS
<1>6. o = WithCE(r)
  BY <1>3, <1>4, <1>5 DEF SolveReg, noEnv
<1>7. /\ DOMAIN r = {"tos", "e", "b", "b0", "i", "ci", "ce", "uc", "p", "cp", "a1"}
      /\ r.ci = stk[d.e - 2].v
  BY <1>3, <1>5, RegistersKnown DEF envCI, v, Next1
<1>8. o.ci = r.ci
  BY <1>6, <1>7, WithCEFields
<1>9. IsSeq(calls) /\ Lending(stk, calls, ctx) /\ Implications(stk, ctx) /\ WellShaped(prog)
  BY <1>1 DEF View, Calls, Knows, Closures, Here
<1>10. /\ Len(ctx) \in Nat /\ Len(calls[Len(calls) - 1].ctx) \in Nat
       /\ Len(calls[Len(calls) - 1].ctx) <= Len(ctx)
  <2>1. Between(calls, ctx, reg.p) /\ Len(calls) - 1 \in 1 .. Len(calls)
    BY <1>4 DEF Knows
  <2> QED
    BY <2>1, PushedAre DEF Between
<1> HIDE DEF d
<1>11. d = calls[Len(calls)] /\ Len(calls) > 1
  BY DEF d
<1>12. /\ ComesFrom(stk, r.ci, calls[Len(calls) - 1], ctx, CodeHomes[d.ret])
       /\ CodeHomes[d.ret] # NoTable => WithCE(r).ce = stk[r.ci].v
  <2>1. "ce" \in DOMAIN r
    BY <1>7
  <2> QED
    BY ONLY <2>1, <1>4, <1>7, <1>9, <1>10, <1>11, CallerComes
<1> QED
  BY <1>6, <1>8, <1>11, <1>12

\* Each goal given to solve may rely on all of it.
LEMMA SolvesKnown ==
    ASSUME WellShaped(prog), ClosuresShaped(prog), IInv, CInv, NEW kind, Solves(kind),
           NEW o, o = SolveReg, NEW cs, cs = SolveCalls
    PROVE  SolvesKnow(o, cs)
<1>1. status = "run" /\ I.op \in {"solve", "call_solve"}
  BY DEF Solves, Is
<1>2. Knows
  BY <1>1, ComesKnowing DEF Alternatives, Halting
<1>3. SolvesAt(SolveReg)
  BY ComesToSolve
<1>4. View(stk, o, LiveAt(o.e, o.cp), cs, ctx, snaps, Solving)
  BY <1>3 DEF SolvesAt
<1>5. IsSeq(cs) /\ cs # <<>>
  BY <1>4 DEF View, Calls
<1>6. o.e = cs[Len(cs)].e /\ o.cp = cs[Len(cs)].ret
  BY <1>4 DEF View, Running, AtEnv, Solving, Shape
<1>7. Len(ctx) \in Nat \ {0} /\ Len(cs[Len(cs)].ctx) = Len(ctx) /\ o.i = ctx[Len(ctx)]
  <2>1. Len(ctx) \in Nat /\ Len(cs[Len(cs)].ctx) \in Nat /\ 1 <= Len(cs[Len(cs)].ctx)
    BY <1>4, CallerIs
  <2>2. Len(ctx) = Len(cs[Len(cs)].ctx) + 0 /\ o.i = ctx[Len(ctx)]
    BY <1>4 DEF View, Running, InContext, Solving, Shape
  <2> QED
    BY <2>1, <2>2
<1>8. Implications(stk, ctx) /\ Lending(stk, calls, ctx)
  BY <1>2 DEF Knows, Closures
<1>9. DOMAIN reg = {"tos", "e", "b", "b0", "i", "ci", "ce", "uc", "p", "cp", "a1"}
  BY <1>2, RegistersKnown
<1>10. DOMAIN o = {"tos", "e", "b", "b0", "i", "ci", "ce", "uc", "p", "cp", "a1"}
  <2>1. Here(ShapeAt(reg.p))
    BY <1>2 DEF Knows
  <2>2. SameBut(reg, o, {"p", "cp", "ci", "ce"})
    <3>1. CASE I.op = "solve"
      BY <2>1, <3>1, SolvesFor
    <3>2. CASE I.op = "call_solve"
      BY <2>1, <3>2, SolveCalled
    <3> QED
      BY <1>1, <3>1, <3>2
  <2> QED
    BY <1>9, <2>2 DEF SameBut
<1>11. CASE I.op = "solve"
  <2>1. cs = calls
    BY <1>11 DEF SolveCalls
  <2>2. Len(cs) > 1 => /\ ComesFrom(stk, o.ci, cs[Len(cs) - 1], ctx, CodeHomes[o.cp])
                       /\ CodeHomes[o.cp] # NoTable => o.ce = stk[o.ci].v
    BY <1>2, <1>6, <1>11, <2>1, SolvesLast
  <2> QED
    BY <1>2, <1>4, <1>5, <1>6, <1>7, <1>8, <1>10, <2>1, <2>2 DEF SolvesKnow
<1>12. CASE I.op = "call_solve"
  <2>1. o = [Next1(reg) EXCEPT !.cp = reg.p + 1] /\ cs = Append(calls, Caller(o))
    BY <1>12 DEF SolveReg, SolveCalls
  <2>2. o.ci = reg.ci /\ o.ce = reg.ce /\ o.e = reg.e /\ o.cp = reg.p + 1
    BY <1>9, <2>1 DEF Next1
  <2>3. PICK d : d = Caller(o)
    OBVIOUS
  <2>4. d.e = reg.e /\ d.ret = reg.p + 1 /\ cs = Append(calls, d)
    BY <2>1, <2>2, <2>3 DEF Caller
  <2>5. Lending(stk, cs, ctx)
    BY <1>2, <1>12, <2>4, CallsLend DEF CallOps
  <2>6. Len(cs) = Len(calls) + 1 /\ cs[Len(calls)] = calls[Len(calls)] /\ Len(calls) \in Nat
    <3>1. IsSeq(calls) /\ Len(calls) \in Nat \ {0}
      BY <1>2, FramesAre DEF Knows, Here, View, Calls
    <3> QED
      BY <2>4, <3>1, AppendIs
  <2>7. CodeHomes[reg.p + 1] \in {NoTable, CodeHomes[reg.p]}
    <3>1. reg.p + 1 \in GoesTo(I, reg.p)
      BY <1>12 DEF GoesTo, Straight, CallOps
    <3> QED
      BY <1>2, <3>1 DEF Knows, Checked, I
  <2>8. ComesFrom(stk, reg.ci, calls[Len(calls)], ctx, CodeHomes[reg.p])
    BY <1>2 DEF Knows, Closures
  <2>9. /\ ComesFrom(stk, o.ci, cs[Len(cs) - 1], ctx, CodeHomes[o.cp])
        /\ CodeHomes[o.cp] # NoTable => o.ce = stk[o.ci].v
    <3>1. Enclosed(stk, reg, reg.p)
      BY <1>2 DEF Knows
    <3>2. cs[Len(cs) - 1] = calls[Len(calls)]
      BY <2>6
    <3> QED
      BY <2>2, <2>7, <2>8, <3>1, <3>2 DEF ComesFrom, Enclosed
  <2> QED
    BY <1>2, <1>4, <1>5, <1>6, <1>7, <1>8, <1>10, <2>5, <2>9 DEF SolvesKnow
<1> QED
  BY <1>1, <1>11, <1>12

\* The fixed code may be come to from anywhere.
LEMMA FixedOpen ==
    ASSUME WellShaped(prog), ClosuresShaped(prog),
           NEW q \in {SolveCode, StopCode, ProceedCode, NotCode1, OrCode, NotCode2, FailCode}
    PROVE  CodeHomes[q] = NoTable /\ ~ShapeAt(q).own /\ q \in DOMAIN Code
<1>1. q \in 1 .. Len(Boot) /\ IsFixed(q)
  BY DEF Boot, IsFixed, SolveCode, StopCode, ProceedCode, NotCode1, OrCode, NotCode2, FailCode
<1>2. CodeHomes[q] = NoTable
  BY <1>1, FixedHomes
<1>3. ShapeAt(q) = BootShape(q) /\ q \in DOMAIN Code
  BY <1>1, Limits
<1>4. ~BootShape(q).own
  BY DEF BootShape, Solving, Returned, Shape, SolveCode, StopCode, ProceedCode, NotCode1, OrCode,
         NotCode2, FailCode, AndCode, AllCode
<1> QED
  BY <1>2, <1>3, <1>4

\* Solving goes on, in the fixed code.
LEMMA SolvingCloses ==
    ASSUME NEW o, NEW cs, SolvesKnow(o, cs), prog' = prog, stk' = stk, ctx' = ctx,
           snaps' = snaps, calls' = cs, CodeHomes[reg'.p] = NoTable, ~ShapeAt(reg'.p).own
    PROVE  CInv'
<1>1. Closures(stk, reg'.e, reg'.ci, cs, ctx, reg'.p)
  BY DEF Closures, SolvesKnow, ComesFrom
<1>2. Enclosed(stk, reg', reg'.p)
  BY DEF Enclosed
<1> QED
  BY <1>1, <1>2, ClosesStep DEF SolvesKnow, Knows

\* Goals that are followed by solve, fail or stop.
LEMMA SolvesOnClose ==
    ASSUME WellShaped(prog), ClosuresShaped(prog), IInv, CInv, SolveSome \/ SolveStop \/ SolveFail
    PROVE  CInv'
<1>1. CASE SolveFail
  BY <1>1, StopsClose DEF SolveFail, Fails
<1>2. CASE SolveSome \/ SolveStop
  <2>1. PICK kind : Solves(kind) /\ UNCHANGED snaps
    BY <1>2 DEF SolveSome, SolveStop
  <2>2. PICK o, cs : o = SolveReg /\ cs = SolveCalls
    OBVIOUS
  <2>3. SolvesKnow(o, cs)
    BY <2>1, <2>2, SolvesKnown
  <2>4. PICK r : SolveStep(r, cs) /\ r.p \in {SolveCode, StopCode}
    <3>1. DOMAIN o = {"tos", "e", "b", "b0", "i", "ci", "ce", "uc", "p", "cp", "a1"}
      BY <2>3 DEF SolvesKnow
    <3>2. CASE SolveSome
      <4>1. SolveStep([o EXCEPT !.a1 = Goal.l, !.p = SolveCode], cs)
        BY <2>2, <3>2 DEF SolveSome
      <4>2. [o EXCEPT !.a1 = Goal.l, !.p = SolveCode].p = SolveCode
        BY <3>1
      <4> QED
        BY <4>1, <4>2
    <3>3. CASE SolveStop
      <4>1. SolveStep([o EXCEPT !.p = StopCode], cs)
        BY <2>2, <3>3 DEF SolveStop
      <4>2. [o EXCEPT !.p = StopCode].p = StopCode
        BY <3>1
      <4> QED
        BY <4>1, <4>2
    <3> QED
      BY <1>2, <3>2, <3>3
  <2>5. prog' = prog /\ stk' = stk /\ ctx' = ctx /\ snaps' = snaps /\ calls' = cs /\ reg' = r
    BY <2>1, <2>4 DEF SolveStep
  <2>6. WellShaped(prog) /\ ClosuresShaped(prog) /\ r.p \in {SolveCode, StopCode, ProceedCode, NotCode1, OrCode, NotCode2, FailCode}
    BY <2>4
  <2>7. CodeHomes[r.p] = NoTable /\ ~ShapeAt(r.p).own
    BY <2>6, FixedOpen
  <2> QED
    BY <2>3, <2>5, <2>7, SolvingCloses
<1> QED
  BY <1>1, <1>2

\* A goal given to solve is solved: its continuation goes on.
LEMMA SolvedCloses ==
    ASSUME NEW o, NEW cs, SolvesKnow(o, cs), prog' = prog, stk' = stk, ctx' = ctx,
           Fewer(snaps', snaps), calls' = IF Len(cs) > 1 THEN Init1(cs) ELSE cs,
           reg'.p = o.cp, reg'.e = o.e, reg'.ci = o.ci, reg'.ce = o.ce
    PROVE  CInv'
<1>1. CASE Len(cs) > 1
  <2>1. PICK d : d = cs[Len(cs)]
    OBVIOUS
  <2> QED
    BY <1>1, <2>1, ReturningCloses DEF SolvesKnow
<1>2. CASE ~(Len(cs) > 1)
  <2>1. Calls(stk, cs, ctx, snaps) /\ IsSeq(cs) /\ cs # <<>>
    BY DEF SolvesKnow, View
  <2>2. Len(cs) = 1
    <3>1. PICK n \in Nat : n = Len(cs) /\ n # 0
      BY <2>1, SeqIs
    <3>2. ~(n > 1)
      BY <1>2, <3>1
    <3>3. n = 1
      BY <3>1, <3>2
    <3> QED
      BY <3>1, <3>3
  <2>3. o.cp = ProceedCode
    BY <2>1, <2>2 DEF SolvesKnow, Calls
  <2>4. WellShaped(prog) /\ ClosuresShaped(prog)
    BY DEF SolvesKnow, Knows, Here
  <2>5. CodeHomes[ProceedCode] = NoTable /\ ~ShapeAt(ProceedCode).own
    BY <2>4, FixedOpen
  <2>6. Closures(stk, reg'.e, reg'.ci, cs, ctx, ProceedCode)
    BY <2>5 DEF Closures, SolvesKnow, ComesFrom
  <2>7. Enclosed(stk, reg', ProceedCode)
    BY <2>5 DEF Enclosed
  <2>8. Prepared(stk', snaps')
    BY StillPrepared DEF Firm, SolvesKnow
  <2> QED
    BY <1>2, <2>3, <2>6, <2>7, <2>8, ClosesStep
<1> QED
  BY <1>1, <1>2

\* Goals that have been solved return.
LEMMA SolvedClose ==
    ASSUME WellShaped(prog), ClosuresShaped(prog), IInv, CInv, SolveTrue \/ SolveCut
    PROVE  CInv'
<1>1. PICK kind : Solves(kind)
  BY DEF SolveTrue, SolveCut
<1>2. PICK o, cs : o = SolveReg /\ cs = SolveCalls
  OBVIOUS
<1>3. SolvesKnow(o, cs)
  BY <1>1, <1>2, SolvesKnown
<1>4. DOMAIN o = {"tos", "e", "b", "b0", "i", "ci", "ce", "uc", "p", "cp", "a1"}
  BY <1>3 DEF SolvesKnow
<1>5. Memory(stk, trail, snaps) /\ Len(snaps) \in Nat
  BY <1>3, MemoryStacks DEF SolvesKnow, Knows, Here
<1>6. PICK r : SolveStep(r, SolvePops) /\ r.p = o.cp /\ r.e = o.e /\ r.ci = o.ci /\ r.ce = o.ce
  <2>1. CASE SolveTrue
    <3>1. SolveStep(Return(o), SolvePops)
      BY <1>2, <2>1 DEF SolveTrue
    <3>2. Return(o).p = o.cp /\ Return(o).e = o.e /\ Return(o).ci = o.ci /\ Return(o).ce = o.ce
      BY <1>4 DEF Return
    <3> QED
      BY <3>1, <3>2
  <2>2. CASE SolveCut
    <3>1. PICK r : r = [Return(o) EXCEPT !.b = reg.b0]
      OBVIOUS
    <3>2. SolveStep(r, SolvePops)
      BY <1>2, <2>2, <3>1 DEF SolveCut
    <3>3. r.p = o.cp /\ r.e = o.e /\ r.ci = o.ci /\ r.ce = o.ce
      BY <1>4, <3>1 DEF Return
    <3> QED
      BY <3>2, <3>3
  <2> QED
    BY <2>1, <2>2
<1>7. Fewer(snaps', snaps)
  <2>1. CASE SolveTrue
    BY <1>5, <2>1 DEF SolveTrue, Fewer
  <2>2. CASE SolveCut
    <3>1. Solves("cut") /\ snaps' = UpTo(reg.b0)
      BY <2>2 DEF SolveCut
    <3>2. SolvesAt(SolveReg) /\ Goal.kind = "cut"
      BY <3>1, ComesToSolve
    <3>3. /\ View(stk, o, LiveAt(o.e, o.cp), cs, ctx, snaps, Solving)
          /\ o.b0 = reg.b0 /\ o.a1 = reg.a1 /\ reg.a1 \in DOMAIN prog.goals
      BY <1>2, <3>2 DEF SolvesAt
    <3>4. reg.a1 \in Cutters
      BY <3>2, <3>3, CuttersAre DEF Cutting, Goal
    <3>5. \A c : c = cs[Len(cs)] => CutPoint(snaps, c, o.a1, o.b0)
      BY <3>3, SolvedCut
    <3>6. reg.b0 \in Points(snaps)
      BY <3>3, <3>4, <3>5 DEF CutPoint
    <3>7. PICK b \in Points(snaps) : b = reg.b0
      BY <3>6
    <3>8. PICK n \in 0 .. Len(snaps) : Len(UpTo(b)) = n /\ \A k \in 1 .. n : UpTo(b)[k] = snaps[k]
      BY <1>5, CutsTo
    <3> QED
      BY <3>1, <3>7, <3>8 DEF Fewer
  <2> QED
    BY <2>1, <2>2
<1>8. reg' = r /\ calls' = SolvePops /\ prog' = prog /\ stk' = stk /\ ctx' = ctx
  BY <1>6 DEF SolveStep
<1>9. calls' = IF Len(cs) > 1 THEN Init1(cs) ELSE cs
  BY <1>2, <1>8 DEF SolvePops
<1> QED
  BY <1>3, <1>6, <1>7, <1>8, <1>9, SolvedCloses

\* An atom given to solve is entered like a call by name.
LEMMA SolveAtomCloses ==
    ASSUME WellShaped(prog), ClosuresShaped(prog), IInv, CInv, SolveAtom
    PROVE  CInv'
<1>1. Solves("atom")
  BY DEF SolveAtom
<1>2. PICK o, cs : o = SolveReg /\ cs = SolveCalls
  OBVIOUS
<1>3. SolvesKnow(o, cs)
  BY <1>1, <1>2, SolvesKnown
<1>4. CASE Fails
  BY <1>4, StopsClose DEF Fails
<1>5. CASE HasCode(Goal.c) /\ SolveStep(Enter(SolveReg, Goal.c), SolveCalls) /\ snaps' = snaps
  <2>1. DOMAIN o = {"tos", "e", "b", "b0", "i", "ci", "ce", "uc", "p", "cp", "a1"}
    BY <1>3 DEF SolvesKnow
  <2>2. reg.i = o.i
    BY <1>1, <1>2, ComesToSolve DEF SolvesAt
  <2>3. PICK c : c = Goal.c
    OBVIOUS
  <2>4. PICK x : x = FindIP(o.i, c)
    OBVIOUS
  <2>5. CodeAt(x, c) # 0
    BY <1>5, <2>2, <2>3, <2>4 DEF HasCode
  <2>6. PICK r : r = [o EXCEPT !.b0 = o.b, !.p = CodeAt(x, c), !.ci = x]
    OBVIOUS
  <2>7. reg' = WithCE(r) /\ calls' = cs /\ prog' = prog /\ stk' = stk /\ ctx' = ctx
    BY <1>2, <1>5, <2>3, <2>4, <2>6 DEF SolveStep, Enter
  <2>8. /\ DOMAIN r = {"tos", "e", "b", "b0", "i", "ci", "ce", "uc", "p", "cp", "a1"}
        /\ r.ci = x /\ r.p = CodeAt(x, c)
    BY <2>1, <2>6
  <2>9. reg'.ci = r.ci /\ reg'.p = r.p
    BY <2>7, <2>8, WithCEFields
  <2>10. /\ Knows /\ Lending(stk, cs, ctx) /\ Implications(stk, ctx) /\ o.i = ctx[Len(ctx)]
         /\ Len(ctx) \in Nat \ {0} /\ Len(cs[Len(cs)].ctx) = Len(ctx)
    BY <1>3 DEF SolvesKnow
  <2>11. Enters(calls', r.ci, r.p)
    BY <2>4, <2>5, <2>7, <2>8, <2>10 DEF Enters
  <2>12. Records(stk, ctx) /\ Len(ctx) \in 1 .. Len(ctx)
    BY <2>10 DEF Knows, Here, View
  <2>13. WellShaped(prog) /\ Records(stk, ctx) /\ Len(ctx) \in 1 .. Len(ctx)
         /\ x = FindIP(ctx[Len(ctx)], c) /\ CodeAt(x, c) # 0
    BY <2>4, <2>5, <2>10, <2>12
  <2>14. PICK k \in 1 .. Len(ctx) : Goes(Extended(Links(stk, ctx[k])), CodeAt(x, c))
    BY ONLY <2>13, NamedGoes
  <2>15. ~Extended(Links(stk, ctx[k])).own
    BY DEF Extended, Entered, Shape
  <2>16. PICK t : ~t.own /\ Goes(t, r.p)
    BY <2>8, <2>14, <2>15
  <2> QED
    BY <1>5, <2>7, <2>8, <2>9, <2>10, <2>11, <2>16, EntersCloses
<1> QED
  BY <1>4, <1>5 DEF SolveAtom

\* What is written past all that is in use leaves the closures as they are.
LEMMA WrittenPast ==
    ASSUME Knows, NEW r, NEW n, NEW cs, NEW q, NEW F, Seen(stk, r, n, cs, ctx, snaps, q, F),
           NEW z, \A a \in 0 .. F - 1 : z[a] = stk[a]
    PROVE  F \in Nat /\ Firm(stk, z, F) /\ Prepared(z, snaps)
<1>1. /\ WellShaped(prog) /\ View(stk, r, n, cs, ctx, snaps, ShapeAt(q))
      /\ F = Frontier(r.e, n, r.tos)
  BY DEF Seen
<1>2. F \in Nat /\ r.tos \in Nat /\ r.tos <= F
  BY <1>1, ViewReaches
<1>3. Memory(stk, trail, snaps) /\ Stacked(snaps) /\ Prepared(stk, snaps)
  BY DEF Knows, Here
<1>4. LastB(snaps) < r.tos /\ LastB(snaps) \in Nat
  BY <1>1, <1>3, ViewBounds, PointsAre
<1>5. LastB(snaps) < F
  BY <1>2, <1>4
<1>6. Firm(stk, z, F)
  BY DEF Firm
<1>7. Len(snaps) \in 0 .. Len(snaps)
  BY <1>3, MemoryStacks
<1>8. F \in Nat
  BY <1>2
<1>9. \A k \in 1 .. Len(snaps) : snaps[k] = snaps[k]
  OBVIOUS
<1> QED
  BY ONLY <1>3, <1>5, <1>6, <1>7, <1>8, <1>9, PreparedStays

\* Where a goal is solved, its continuation is seen from the fixed code.
LEMMA SolvesSeen ==
    ASSUME NEW o, NEW cs, SolvesKnow(o, cs), NEW F, F = findtosEnv(o)
    PROVE  /\ Seen(stk, o, LiveAt(o.e, o.cp), cs, ctx, snaps, SolveCode, F)
           /\ Closures(stk, o.e, o.ci, cs, ctx, SolveCode)
           /\ ~ShapeAt(SolveCode).own
<1>1. WellShaped(prog) /\ ClosuresShaped(prog)
  BY DEF SolvesKnow, Knows, Here
<1>2. View(stk, o, LiveAt(o.e, o.cp), cs, ctx, snaps, Solving)
  BY DEF SolvesKnow
<1>3. CodeHomes[SolveCode] = NoTable /\ ~ShapeAt(SolveCode).own /\ SolveCode \in DOMAIN Code
  BY <1>1, FixedOpen
<1>4. ShapeAt(SolveCode) = Solving
  <2>1. SolveCode \in 1 .. Len(Boot) /\ IsFixed(SolveCode)
    BY DEF Boot, IsFixed, SolveCode
  <2>2. ShapeAt(SolveCode) = BootShape(SolveCode)
    BY <1>1, <2>1, Limits
  <2> QED
    BY <2>2 DEF BootShape, SolveCode, AndCode, OrCode, AllCode, NotCode1
<1>5. ~Solving.own
  BY DEF Solving, Shape
<1>6. F = Frontier(o.e, LiveAt(o.e, o.cp), o.tos)
  BY <1>1, <1>2, <1>5, FrontierIs
<1>7. Closures(stk, o.e, o.ci, cs, ctx, SolveCode)
  BY <1>3 DEF Closures, SolvesKnow, ComesFrom
<1> QED
  BY <1>1, <1>2, <1>3, <1>4, <1>6, <1>7 DEF Seen

\* A part of the goal is solved first; the environment made for the rest lends
\* nothing.
LEMMA SolveInCloses ==
    ASSUME NEW o, o = SolveReg, NEW cs, cs = SolveCalls, SolvesKnow(o, cs),
           NEW cp \in {AndCode, AllCode}, NEW g, NEW n, NEW vars2, IsSeq(vars2), NEW uc,
           SolveIn(o, cp, g, n, vars2, uc), CInv
    PROVE  CInv'
<1>1. WellShaped(prog) /\ ClosuresShaped(prog) /\ Knows /\ DOMAIN stk = Addr
  BY DEF SolvesKnow, Knows, Here, Memory, Tidy
<1>2. PICK F : F = findtosEnv(o)
  OBVIOUS
<1>3. /\ Seen(stk, o, LiveAt(o.e, o.cp), cs, ctx, snaps, SolveCode, F)
      /\ Closures(stk, o.e, o.ci, cs, ctx, SolveCode) /\ ~ShapeAt(SolveCode).own
  BY <1>2, SolvesSeen
<1>4. CASE Overflow
  BY <1>4, StopsClose DEF Overflow
<1>5. CASE ~Overflow
  <2> DEFINE ep == F + EnvFixSize
  <2>1. /\ reg' = [o EXCEPT !.e = ep - 1, !.cp = cp, !.a1 = g, !.uc = uc, !.p = SolveCode]
        /\ stk' = Write(stk, ep - 3, EnvWords(o, 0, stk[ep - 1]) \o vars2)
        /\ calls' = Append(cs, Caller(reg'))
        /\ prog' = prog /\ snaps' = snaps /\ ctx' = ctx
    BY <1>2, <1>5 DEF SolveIn
  <2>2. F \in Nat
    BY <1>3, EnvsFirm DEF Firm
  <2>3. ep - 3 = F + 1 /\ ep - 3 \in Int
    BY <2>2 DEF EnvFixSize
  <2>4. PICK A : A = EnvWords(o, 0, stk[ep - 1])
    OBVIOUS
  <2>5. PICK ws : ws = A \o vars2
    OBVIOUS
  <2>6. IsSeq(A) /\ Len(A) = 4
    BY <2>4, NoWords
  <2>7. PICK l \in Nat : DOMAIN ws = 1 .. l
    <3>1. DOMAIN ws = 1 .. Len(A) + Len(vars2) /\ Len(vars2) \in Nat
      BY <2>5, <2>6, JoinIs, SeqIs
    <3>2. Len(A) + Len(vars2) \in Nat
      BY <2>6, <3>1
    <3> QED
      BY <3>1, <3>2
  <2>8. stk' = Write(stk, F + 1, ws)
    BY <2>1, <2>3, <2>4, <2>5
  <2>9. ASSUME NEW a \in 0 .. F - 1 PROVE stk'[a] = stk[a]
    <3>1. a < F + 1 /\ F + 1 \in Int /\ DOMAIN stk \subseteq Int
      BY <1>1, <2>2 DEF Addr, StackBeg
    <3>2. a \in DOMAIN stk => stk'[a] = stk[a]
      BY <2>7, <2>8, <3>1, WriteIs
    <3>3. F <= StackEnd + 1 /\ StackEnd \in Nat
      <4>1. /\ View(stk, o, LiveAt(o.e, o.cp), cs, ctx, snaps, ShapeAt(SolveCode))
            /\ F = Frontier(o.e, LiveAt(o.e, o.cp), o.tos)
        BY <1>3 DEF Seen
      <4> QED
        BY <1>1, <4>1, ViewReaches
    <3>4. a \in DOMAIN stk
      BY <1>1, <2>2, <3>3 DEF Addr, StackBeg
    <3> QED
      BY <3>2, <3>4
  <2>10. PICK z : z = stk'
    OBVIOUS
  <2>11. \A a \in 0 .. F - 1 : z[a] = stk[a]
    BY <2>9, <2>10
  <2>12. Firm(stk, z, F) /\ Prepared(z, snaps)
    BY <1>1, <1>3, <2>11, WrittenPast
  <2>13. Closures(z, o.e, o.ci, cs, ctx, SolveCode)
    BY <1>3, <2>12, ClosuresAgree
  <2>14. PICK d : d = Caller(reg')
    OBVIOUS
  <2>15. reg'.p = SolveCode /\ d.ret = cp
    <3>1. DOMAIN o = {"tos", "e", "b", "b0", "i", "ci", "ce", "uc", "p", "cp", "a1"}
      BY DEF SolvesKnow
    <3>2. PICK r : r = [o EXCEPT !.e = ep - 1, !.cp = cp, !.a1 = g, !.uc = uc, !.p = SolveCode]
      OBVIOUS
    <3>3. r.p = SolveCode /\ r.cp = cp
      BY <3>1, <3>2
    <3> QED
      BY <2>1, <2>14, <3>2, <3>3 DEF Caller
  <2>16. CodePushes[cp] = <<>> /\ CodeHomes[cp] = NoTable
    BY <1>1, FixedHomes DEF AndCode, AllCode, Boot
  <2>17. PICK c : c = cs[Len(cs)]
    OBVIOUS
  <2>18. Lends(z, c, d.e, d.ret, ctx)
    BY <2>15, <2>16 DEF Lends, ComesFrom
  <2>19. IsSeq(cs) /\ cs # <<>> /\ Lending(z, cs, ctx) /\ Implications(z, ctx)
    BY <2>13 DEF SolvesKnow, Closures
  <2>20. Lending(z, Append(cs, d), ctx)
    BY <2>17, <2>18, <2>19, LendingAdds
  <2>21. CodeHomes[SolveCode] = NoTable
    BY <1>1, FixedOpen
  <2>22. Closures(stk', reg'.e, reg'.ci, calls', ctx', reg'.p)
    BY <1>3, <2>1, <2>10, <2>14, <2>15, <2>19, <2>20, <2>21 DEF Closures, ComesFrom
  <2>23. Enclosed(stk', reg', reg'.p)
    BY <2>15, <2>21 DEF Enclosed
  <2> QED
    BY <2>1, <2>10, <2>12, <2>22, <2>23, ClosesStep
<1> QED
  BY <1>4, <1>5

\* Conjunctions and universal goals.
LEMMA SolvePartsClose ==
    ASSUME WellShaped(prog), ClosuresShaped(prog), IInv, CInv, SolveAnd \/ SolveAll
    PROVE  CInv'
<1>1. PICK kind : Solves(kind)
  BY DEF SolveAnd, SolveAll
<1>2. PICK o, cs : o = SolveReg /\ cs = SolveCalls
  OBVIOUS
<1>3. SolvesKnow(o, cs)
  BY <1>1, <1>2, SolvesKnown
<1>4. CASE SolveAnd
  <2>1. PICK vars2 : vars2 = <<W("goal", Goal.r), Junk, W("level", reg.b0), Junk>>
    OBVIOUS
  <2>2. IsSeq(vars2)
    BY <2>1 DEF IsSeq
  <2>3. SolveIn(o, AndCode, Goal.l, 3, vars2, reg.uc)
    BY <1>2, <1>4, <2>1 DEF SolveAnd
  <2> QED
    BY <1>2, <1>3, <2>2, <2>3, SolveInCloses
<1>5. CASE SolveAll
  <2>1. PICK vars2 : vars2 = <<>>
    OBVIOUS
  <2>2. IsSeq(vars2)
    BY <2>1 DEF IsSeq
  <2>3. SolveIn(o, AllCode, Goal.l, 1, vars2, reg.uc + 1)
    BY <1>2, <1>5, <2>1 DEF SolveAll
  <2> QED
    BY <1>2, <1>3, <2>2, <2>3, SolveInCloses
<1> QED
  BY <1>4, <1>5

\* One more choice point.
LEMMA PreparedGrows ==
    ASSUME NEW z, NEW ps, IsSeq(ps), Prepared(z, ps), NEW d, Resumes(z, d)
    PROVE  Prepared(z, Append(ps, d))
<1>1. PICK qs : qs = Append(ps, d)
  OBVIOUS
<1>2. /\ Len(qs) = Len(ps) + 1 /\ \A k \in 1 .. Len(ps) : qs[k] = ps[k]
      /\ qs[Len(ps) + 1] = d
  BY <1>1, AppendIs
<1>3. Len(ps) \in Nat
  BY SeqIs
<1>4. ASSUME NEW k \in 1 .. Len(qs) PROVE Resumes(z, qs[k])
  <2>1. CASE k = Len(ps) + 1
    BY <1>2, <2>1
  <2>2. CASE k \in 1 .. Len(ps)
    <3>1. Resumes(z, ps[k])
      BY <2>2 DEF Prepared
    <3> QED
      BY <1>2, <2>2, <3>1
  <2>3. k = Len(ps) + 1 \/ k \in 1 .. Len(ps)
    BY <1>2, <1>3
  <2> QED
    BY <2>1, <2>2, <2>3
<1> QED
  BY <1>1, <1>4 DEF Prepared

\* A choice point keeps what its alternative relies upon.
LEMMA ChoiceCloses ==
    ASSUME Knows, NEW r, NEW n0, NEW cs, NEW q, NEW F,
           Seen(stk, r, n0, cs, ctx, snaps, q, F), ~ShapeAt(q).own,
           Closures(stk, r.e, r.ci, cs, ctx, q), Enclosed(stk, r, q),
           NEW n \in Nat, NEW ncl, Carries(q, ncl),
           F + 10 + 2 * n + 1 <= StackEnd,
           NEW o, o.e = r.e, o.ci = r.ci, NEW z, z = Write(stk, F, CPWords(o, n, ncl)),
           NEW d, d.b = F + 10 + 2 * n, d.base = F, d.stk = z, d.calls = cs, d.ctx = ctx,
           prog' = prog, stk' = z, snaps' = Append(snaps, d), calls' = cs, ctx' = ctx,
           reg'.e = r.e, reg'.ci = r.ci, reg'.ce = r.ce, Carries(q, reg'.p)
    PROVE  CInv'
<1> DEFINE N == 2 * n + 11
           ws == CPWords(o, n, ncl)
<1>1. /\ WellShaped(prog) /\ ClosuresShaped(prog) /\ DOMAIN stk = Addr /\ IsSeq(snaps)
      /\ View(stk, r, n0, cs, ctx, snaps, ShapeAt(q)) /\ F = Frontier(r.e, n0, r.tos)
  BY DEF Seen, Knows, Here, Memory, Tidy
<1>2. F \in Nat /\ StackEnd \in Nat
  BY <1>1, ViewReaches
<1>4. N = 2 * n + 11
  OBVIOUS
<1>5. N \in Nat /\ N - 1 \in 1 .. N /\ N - 6 \in 1 .. N /\ N - 9 \in 1 .. N
  BY <1>4
<1>6. /\ DOMAIN ws = 1 .. N
      /\ ws[N - 1] = W("cpncl", ncl) /\ ws[N - 2] = W("cptr", Len(trail))
      /\ ws[N - 4] = W("cpb0", o.b0) /\ ws[N - 5] = W("cpb", o.b)
      /\ ws[N - 6] = W("cpci", o.ci) /\ ws[N - 7] = W("cpi", o.i)
      /\ ws[N - 8] = W("cpcp", o.cp) /\ ws[N - 9] = W("cpe", o.e)
      /\ ws[N - 10] = W("cpuc", o.uc)
      /\ n > 0 => ws[N - 12] = W("a1", o.a1)
      /\ \A k \in 0 .. 10 : ws[N - k].f \notin {"free", "bound", "junk"}
      /\ \A k \in 1 .. N : ws[k] = Junk \/ ws[k].f \notin {"free", "bound", "junk"}
  BY CPWordsAre
<1>3. z = Write(stk, F, ws)
  OBVIOUS
<1> HIDE DEF ws, N
<1>7. DOMAIN stk \subseteq Int /\ F \in Int /\ z = Write(stk, F, ws)
  BY <1>1, <1>2, <1>3 DEF Addr, StackBeg
<1>words. DOMAIN ws = 1 .. N /\ N \in Nat
  BY <1>5, <1>6
<1>8. /\ \A k \in 1 .. N : F + k - 1 \in DOMAIN stk => z[F + k - 1] = ws[k]
      /\ \A b \in DOMAIN stk : b < F \/ F + N <= b => z[b] = stk[b]
  BY ONLY <1>words, <1>7, WriteIs
<1>9. \A a \in 0 .. F - 1 : z[a] = stk[a]
  <2>1. F <= StackEnd + 1
    BY <1>2
  <2> QED
    BY ONLY <1>1, <1>2, <1>8, <2>1 DEF Addr, StackBeg
<1>10. Firm(stk, z, F) /\ Prepared(z, snaps)
  BY <1>9, WrittenPast
<1>11. z[d.b - 1].v = ncl /\ z[d.b - 6].v = r.ci /\ z[d.b - 9].v = r.e
  <2>0. PICK b : b = d.b
    OBVIOUS
  <2>00. b = F + 10 + 2 * n /\ b + 1 <= StackEnd
    BY <2>0
  <2>1. /\ b - 1 = F + (N - 1) - 1 /\ b - 6 = F + (N - 6) - 1 /\ b - 9 = F + (N - 9) - 1
        /\ b - 1 \in Addr /\ b - 6 \in Addr /\ b - 9 \in Addr
    BY ONLY n \in Nat, <1>2, <1>4, <2>00 DEF Addr, StackBeg
  <2> QED
    BY <1>1, <1>5, <1>6, <1>8, <2>0, <2>1 DEF W
<1>12. Closures(z, r.e, r.ci, cs, ctx, q)
  BY <1>10, ClosuresAgree
<1>13. SavedRegs(d).e = r.e /\ SavedRegs(d).ci = r.ci
  BY <1>11 DEF SavedRegs
<1>14. Closures(z, r.e, r.ci, cs, ctx, ncl)
  BY <1>12, ClosuresCarry
<1>15. Resumes(z, d)
  BY <1>11, <1>13, <1>14 DEF Resumes
<1>16. Prepared(z, Append(snaps, d))
  BY <1>1, <1>10, <1>15, PreparedGrows
<1>17. Closures(z, r.e, r.ci, cs, ctx, reg'.p)
  BY <1>12, ClosuresCarry
<1>18. Enclosed(z, reg', reg'.p)
  <2>1. Same(stk, z, ctx) /\ Between(cs, ctx, q)
    BY <1>10, FirmIsSame DEF Closures
  <2>2. PICK l : l = reg'.p
    OBVIOUS
  <2>3. Follows(q, l)
    BY <2>2 DEF Carries, Follows
  <2>4. Enclosed(z, reg', l)
    BY <2>1, <2>3, StaysEnclosed
  <2> QED
    BY <2>2, <2>4
<1> QED
  BY <1>16, <1>17, <1>18, ClosesStep

\* Either disjunct, and what is not to be solved, has an alternative of the
\* interpreter's own.
LEMMA SolvePushCloses ==
    ASSUME WellShaped(prog), ClosuresShaped(prog), NEW o, o = SolveReg, NEW cs, cs = SolveCalls,
           SolvesKnow(o, cs), CInv, NEW n \in Nat, NEW g, NEW ncl \in {OrCode, NotCode2},
           NEW r, r.e = o.e, r.ci = o.ci, r.ce = o.ce, r.p \in {SolveCode, NotCode1},
           DOMAIN r = DOMAIN o, SolvePush(r, n, g, ncl)
    PROVE  CInv'
<1>1. PICK F : F = findtosEnv(o)
  OBVIOUS
<1>2. /\ Seen(stk, o, LiveAt(o.e, o.cp), cs, ctx, snaps, SolveCode, F)
      /\ Closures(stk, o.e, o.ci, cs, ctx, SolveCode) /\ ~ShapeAt(SolveCode).own
  BY <1>1, SolvesSeen
<1>3. CASE Overflow
  BY <1>3, StopsClose DEF Overflow
<1>4. CASE ~Overflow
  <2>1. PICK tos : tos = F + CPFixSize + 2 * n
    OBVIOUS
  <2>2. PICK w : w = [o EXCEPT !.a1 = g]
    OBVIOUS
  <2>3. PICK d : d = [b |-> tos - 1, base |-> F, stk |-> stk', calls |-> calls', ctx |-> ctx]
    OBVIOUS
  <2>4. /\ stk' = Write(stk, F, CPWords(w, n, ncl)) /\ ~stackError(tos)
        /\ reg' = [r EXCEPT !.tos = tos, !.b = tos - 1] /\ calls' = cs
        /\ snaps' = Append(snaps, d) /\ prog' = prog /\ ctx' = ctx
    BY <1>1, <1>4, <2>1, <2>2, <2>3 DEF SolvePush
  <2>5. DOMAIN o = {"tos", "e", "b", "b0", "i", "ci", "ce", "uc", "p", "cp", "a1"}
    BY DEF SolvesKnow
  <2>6. w.e = o.e /\ w.ci = o.ci
    BY <2>2, <2>5
  <2>7. reg'.e = o.e /\ reg'.ci = o.ci /\ reg'.ce = o.ce /\ reg'.p = r.p
    <3>1. PICK q : q = [r EXCEPT !.tos = tos, !.b = tos - 1]
      OBVIOUS
    <3>2. q.e = r.e /\ q.ci = r.ci /\ q.ce = r.ce /\ q.p = r.p
      BY <2>5, <3>1
    <3> QED
      BY <2>4, <3>1, <3>2
  <2>8. Knows /\ F \in Nat /\ StackEnd \in Nat
    <3>1. View(stk, o, LiveAt(o.e, o.cp), cs, ctx, snaps, ShapeAt(SolveCode))
          /\ F = Frontier(o.e, LiveAt(o.e, o.cp), o.tos)
      BY <1>2 DEF Seen
    <3> QED
      BY <3>1, ViewReaches DEF SolvesKnow
  <2>9. F + 10 + 2 * n + 1 <= StackEnd /\ tos - 1 = F + 10 + 2 * n
    BY <2>1, <2>4, <2>8 DEF CPFixSize, stackError
  <2>10. d.b = F + 10 + 2 * n /\ d.base = F /\ d.stk = stk' /\ d.calls = cs /\ d.ctx = ctx
    BY <2>3, <2>4, <2>9
  <2>11. Carries(SolveCode, ncl) /\ Carries(SolveCode, reg'.p) /\ Enclosed(stk, o, SolveCode)
    <3>1. /\ CodeHomes[ncl] = NoTable /\ ~ShapeAt(ncl).own
          /\ CodeHomes[r.p] = NoTable /\ ~ShapeAt(r.p).own /\ CodeHomes[SolveCode] = NoTable
      BY FixedOpen
    <3> QED
      BY <2>7, <3>1 DEF Carries, Enclosed
  <2>12. PICK z : z = stk'
    OBVIOUS
  <2> QED
    <3>1. PICK m : m = LiveAt(o.e, o.cp)
      OBVIOUS
    <3>2. PICK q : q = SolveCode
      OBVIOUS
    <3>3. /\ Seen(stk, o, m, cs, ctx, snaps, q, F) /\ ~ShapeAt(q).own
          /\ Closures(stk, o.e, o.ci, cs, ctx, q) /\ Enclosed(stk, o, q)
          /\ Carries(q, ncl) /\ Carries(q, reg'.p)
      BY <1>2, <2>11, <3>1, <3>2
    <3>4. /\ d.b = F + 10 + 2 * n /\ d.base = F /\ d.stk = z /\ d.calls = cs /\ d.ctx = ctx
          /\ z = Write(stk, F, CPWords(w, n, ncl)) /\ stk' = z
      BY <2>4, <2>10, <2>12
    <3>5. reg'.e = o.e /\ reg'.ci = o.ci /\ reg'.ce = o.ce
      BY <2>7
    <3>6. /\ prog' = prog /\ snaps' = Append(snaps, d) /\ calls' = cs /\ ctx' = ctx
          /\ F + 10 + 2 * n + 1 <= StackEnd
      BY <2>4, <2>9
    <3> QED
      BY ONLY n \in Nat, <2>6, <2>8, <3>3, <3>4, <3>5, <3>6, ChoiceCloses
<1> QED
  BY <1>3, <1>4

\* Disjunctions and negation.
LEMMA SolveChoosesCloses ==
    ASSUME WellShaped(prog), ClosuresShaped(prog), IInv, CInv, SolveOr \/ SolveNot
    PROVE  CInv'
<1>1. PICK kind : Solves(kind)
  BY DEF SolveOr, SolveNot
<1>2. PICK o, cs : o = SolveReg /\ cs = SolveCalls
  OBVIOUS
<1>3. SolvesKnow(o, cs)
  BY <1>1, <1>2, SolvesKnown
<1>4. DOMAIN o = {"tos", "e", "b", "b0", "i", "ci", "ce", "uc", "p", "cp", "a1"}
  BY <1>3 DEF SolvesKnow
<1>5. CASE SolveOr
  <2>1. PICK r : r = [o EXCEPT !.a1 = Goal.l, !.p = SolveCode,
                               !.b0 = findtosEnv(o) + CPFixSize + 1]
    OBVIOUS
  <2>2. SolvePush(r, 1, Goal.r, OrCode)
    BY <1>2, <1>5, <2>1 DEF SolveOr
  <2>3. r.e = o.e /\ r.ci = o.ci /\ r.ce = o.ce /\ r.p = SolveCode /\ DOMAIN r = DOMAIN o
    BY <1>4, <2>1
  <2>4. PICK n \in Nat : n = 1
    OBVIOUS
  <2> QED
    BY <1>2, <1>3, <2>2, <2>3, <2>4, SolvePushCloses
<1>6. CASE SolveNot
  <2>1. PICK r : r = [o EXCEPT !.a1 = Goal.l, !.p = NotCode1, !.b0 = reg.b]
    OBVIOUS
  <2>2. SolvePush(r, 0, 0, NotCode2)
    BY <1>2, <1>6, <2>1 DEF SolveNot
  <2>3. r.e = o.e /\ r.ci = o.ci /\ r.ce = o.ce /\ r.p = NotCode1 /\ DOMAIN r = DOMAIN o
    BY <1>4, <2>1
  <2> QED
    BY <1>2, <1>3, <2>2, <2>3, SolvePushCloses
<1> QED
  BY <1>5, <1>6

\* A clause makes a choice point for its alternative at ncl.
LEMMA PushCloses ==
    ASSUME Knows, CInv, ~ShapeAt(reg.p).own, NEW n \in Nat, NEW ncl, Carries(reg.p, ncl),
           NEW r, SameBut(reg, r, {"p"}), Carries(reg.p, r.p), Push(r, n, ncl)
    PROVE  CInv'
<1>1. PICK F : F = findtosEnv(reg)
  OBVIOUS
<1>2. /\ Seen(stk, reg, live, calls, ctx, snaps, reg.p, End)
      /\ Closures(stk, reg.e, reg.ci, calls, ctx, reg.p) /\ Enclosed(stk, reg, reg.p)
      /\ View(stk, reg, live, calls, ctx, snaps, ShapeAt(reg.p)) /\ WellShaped(prog)
  BY DEF Knows, Seen
<1>3. F = End
  BY <1>1, <1>2, FrontierIs DEF End
<1>4. CASE Overflow
  BY <1>4, StopsClose DEF Overflow
<1>5. CASE ~Overflow
  <2>1. PICK tos : tos = F + CPFixSize + 2 * n
    OBVIOUS
  <2>2. PICK d : d = [b |-> tos - 1, base |-> F, stk |-> stk', calls |-> calls, ctx |-> ctx]
    OBVIOUS
  <2>3. /\ stk' = Write(stk, F, CPWords(reg, n, ncl)) /\ ~stackError(tos)
        /\ reg' = [r EXCEPT !.tos = tos, !.b = tos - 1] /\ calls' = calls
        /\ snaps' = Append(snaps, d) /\ prog' = prog /\ ctx' = ctx
    BY <1>1, <1>5, <2>1, <2>2 DEF Push
  <2>4. DOMAIN reg = {"tos", "e", "b", "b0", "i", "ci", "ce", "uc", "p", "cp", "a1"}
    BY RegistersKnown
  <2>5. reg'.e = reg.e /\ reg'.ci = reg.ci /\ reg'.ce = reg.ce /\ reg'.p = r.p
    <3>1. PICK q : q = [r EXCEPT !.tos = tos, !.b = tos - 1]
      OBVIOUS
    <3>2. DOMAIN r = DOMAIN reg /\ r.e = reg.e /\ r.ci = reg.ci /\ r.ce = reg.ce
      BY <2>4 DEF SameBut
    <3>3. q.e = r.e /\ q.ci = r.ci /\ q.ce = r.ce /\ q.p = r.p
      BY <2>4, <3>1, <3>2
    <3> QED
      BY <2>3, <3>1, <3>2, <3>3
  <2>6. F \in Nat /\ StackEnd \in Nat
    BY <1>2, <1>3, Limits DEF Knows
  <2>7. F + 10 + 2 * n + 1 <= StackEnd /\ tos - 1 = F + 10 + 2 * n
    BY <2>1, <2>3, <2>6 DEF CPFixSize, stackError
  <2>8. PICK z : z = stk'
    OBVIOUS
  <2>9. /\ d.b = F + 10 + 2 * n /\ d.base = F /\ d.stk = z /\ d.calls = calls /\ d.ctx = ctx
        /\ z = Write(stk, F, CPWords(reg, n, ncl)) /\ stk' = z
    BY <2>2, <2>3, <2>7, <2>8
  <2>10. PICK o : o = reg
    OBVIOUS
  <2>11. PICK q : q = reg.p
    OBVIOUS
  <2>12. /\ Seen(stk, o, live, calls, ctx, snaps, q, F) /\ ~ShapeAt(q).own
         /\ Closures(stk, o.e, o.ci, calls, ctx, q) /\ Enclosed(stk, o, q)
         /\ Carries(q, ncl) /\ Carries(q, reg'.p)
    BY <1>2, <1>3, <2>5, <2>10, <2>11
  <2>13. reg'.e = o.e /\ reg'.ci = o.ci /\ reg'.ce = o.ce /\ z = Write(stk, F, CPWords(o, n, ncl))
    BY <2>5, <2>9, <2>10
  <2>14. /\ prog' = prog /\ snaps' = Append(snaps, d) /\ calls' = calls /\ ctx' = ctx
         /\ F + 10 + 2 * n + 1 <= StackEnd
    BY <2>3, <2>7
  <2> QED
    BY ONLY n \in Nat, Knows, <2>9, <2>12, <2>13, <2>14, ChoiceCloses
<1> QED
  BY <1>4, <1>5

\* So does the first of the clauses to be tried.
LEMMA TriesClose ==
    ASSUME WellShaped(prog), ClosuresShaped(prog), IInv, CInv, TryMeElse \/ TryElse \/ Try
    PROVE  CInv'
<1>1. status = "run" /\ I.op \in {"try_me_else", "try_else", "try"}
  BY DEF TryMeElse, TryElse, Try, Is
<1>2. Knows
  BY <1>1, ComesKnowing DEF Alternatives, Halting
<1>3. PICK s : s = ShapeAt(reg.p)
  OBVIOUS
<1>4. Here(s) /\ Registers(reg, snaps) /\ Finds(prog, CodeShapes, reg.p, s, I) /\ Checked(reg.p)
  BY <1>2, <1>3 DEF Knows, Here
<1>5. InClause(s) /\ I.n \in Nat
  BY <1>1, <1>4 DEF Finds, MeOps, ToOps, ElseOps
<1>6. ~ShapeAt(reg.p).own
  BY <1>3, <1>5 DEF InClause
<1>7. ASSUME NEW ncl \in GoesTo(I, reg.p), MayResume(prog.code, CodeShapes, s, ncl)
      PROVE  Carries(reg.p, ncl)
  <2>1. CodeHomes[ncl] \in {NoTable, CodeHomes[reg.p]}
    BY <1>4 DEF Checked, I, Code
  <2>2. ~ShapeAt(ncl).own
    BY <1>7 DEF MayResume, ShapeAt
  <2> QED
    BY <2>1, <2>2 DEF Carries
<1>8. ASSUME NEW l \in GoesTo(I, reg.p), Goes(s, l) PROVE Carries(reg.p, l)
  BY <1>2, <1>3, <1>6, <1>8, JumpCarries
<1>9. CASE TryMeElse
  <2>1. I.op = "try_me_else" /\ Push(Next1(reg), I.n, I.l)
    BY <1>9 DEF TryMeElse, Is
  <2>2. After(s, I) = s
    BY <2>1 DEF After, ValueOps, CallOps
  <2>3. Goes(s, reg.p + 1)
    BY <1>4, <2>1, <2>2, NextGoes DEF Straight, MeOps
  <2>4. MayResume(prog.code, CodeShapes, s, I.l)
    BY <1>4, <2>1 DEF Finds, ElseOps
  <2>5. reg.p + 1 \in GoesTo(I, reg.p) /\ I.l \in GoesTo(I, reg.p)
    BY <2>1 DEF GoesTo, Straight, MeOps
  <2>6. SameBut(reg, Next1(reg), {"p"}) /\ Next1(reg).p = reg.p + 1
    BY <1>4, <2>3, NextRegs
  <2>7. Carries(reg.p, I.l) /\ Carries(reg.p, Next1(reg).p)
    BY <1>7, <1>8, <2>3, <2>4, <2>5, <2>6
  <2> QED
    BY <1>2, <1>5, <1>6, <2>1, <2>6, <2>7, PushCloses
<1>10. CASE TryElse
  <2>1. PICK r : r = [reg EXCEPT !.p = I.k]
    OBVIOUS
  <2>2. I.op = "try_else" /\ Push(r, I.n, I.l)
    BY <1>10, <2>1 DEF TryElse, Is
  <2>3. Goes(s, I.k)
    BY <1>4, <2>2 DEF Finds, ElseOps, Code, Goes
  <2>4. MayResume(prog.code, CodeShapes, s, I.l)
    BY <1>4, <2>2 DEF Finds, ElseOps
  <2>5. I.k \in GoesTo(I, reg.p) /\ I.l \in GoesTo(I, reg.p)
    BY <2>2 DEF GoesTo, ElseOps
  <2>6. SameBut(reg, r, {"p"}) /\ r.p = I.k
    BY <1>4, <2>1 DEF Registers, SameBut
  <2>7. Carries(reg.p, I.l) /\ Carries(reg.p, r.p)
    BY <1>7, <1>8, <2>3, <2>4, <2>5, <2>6
  <2> QED
    BY <1>2, <1>5, <1>6, <2>2, <2>6, <2>7, PushCloses
<1>11. CASE Try
  <2>1. PICK r : r = [reg EXCEPT !.p = I.l]
    OBVIOUS
  <2>2. I.op = "try" /\ Push(r, I.n, reg.p + 1)
    BY <1>11, <2>1 DEF Try, Is
  <2>3. Goes(s, I.l)
    BY <1>4, <2>2 DEF Finds, ToOps, Code, Goes
  <2>4. MayResume(prog.code, CodeShapes, s, reg.p + 1)
    BY <1>4, <2>2 DEF Finds
  <2>5. I.l \in GoesTo(I, reg.p) /\ reg.p + 1 \in GoesTo(I, reg.p)
    BY <2>2 DEF GoesTo, ToOps
  <2>6. SameBut(reg, r, {"p"}) /\ r.p = I.l
    BY <1>4, <2>1 DEF Registers, SameBut
  <2>7. Carries(reg.p, reg.p + 1) /\ Carries(reg.p, r.p)
    BY <1>7, <1>8, <2>3, <2>4, <2>5, <2>6
  <2> QED
    BY <1>2, <1>5, <1>6, <2>2, <2>6, <2>7, PushCloses
<1> QED
  BY <1>9, <1>10, <1>11

\* A clause takes an environment of its own, where CI is kept.
LEMMA AllocateCloses ==
    ASSUME WellShaped(prog), ClosuresShaped(prog), IInv, CInv, Allocate
    PROVE  CInv'
<1>1. status = "run" /\ I.op = "allocate"
  BY DEF Allocate, Is
<1>2. Knows
  BY <1>1, ComesKnowing DEF Alternatives, Halting
<1>3. PICK q : q = reg.p
  OBVIOUS
<1>4. /\ Here(ShapeAt(q)) /\ Checked(q) /\ Finds(prog, CodeShapes, q, ShapeAt(q), I)
      /\ Seen(stk, reg, live, calls, ctx, snaps, q, End) /\ End \in Nat
      /\ View(stk, reg, live, calls, ctx, snaps, ShapeAt(q)) /\ DOMAIN stk = Addr
      /\ Closures(stk, reg.e, reg.ci, calls, ctx, q) /\ Enclosed(stk, reg, q)
      /\ Between(calls, ctx, q)
  BY <1>2, <1>3 DEF Knows, Here, Memory, Tidy
<1>5. ~ShapeAt(q).own /\ I.n \in Nat /\ ShapeAt(q).pushed = 0
  BY <1>1, <1>4 DEF Finds, InClause
<1>6. findtosEnv(reg) = End
  BY <1>4, <1>5, FrontierIs DEF End
<1>7. CodePushes[q + 1] = CodePushes[q] /\ Len(CodePushes[q]) = 0
  BY <1>1, <1>3, <1>4, <1>5 DEF Checked, Straight, PushedFrom, Lent, I
<1>8. CodeHomes[q + 1] \in {NoTable, CodeHomes[q]}
  BY <1>1, <1>3, <1>4 DEF Checked, GoesTo, Straight, I
<1>9. CASE Overflow
  BY <1>9, StopsClose DEF Overflow
<1>10. CASE ~Overflow
  <2>0. PICK F : F = findtosEnv(reg)
    OBVIOUS
  <2>1. F = End
    BY <1>6, <2>0
  <2> DEFINE ws == EnvWords(reg, I.n, W("uc", reg.uc))
  <2>3. PICK z : z = stk'
    OBVIOUS
  <2>4. /\ reg' = Next1([reg EXCEPT !.e = (F + EnvFixSize) - 1])
        /\ stk' = Write(stk, (F + EnvFixSize) - 3, ws) /\ ~stackError(F + EnvFixSize + 2 * I.n)
        /\ prog' = prog /\ calls' = calls /\ snaps' = snaps /\ ctx' = ctx
    <3>1. PICK w : w = ws
      OBVIOUS
    <3> HIDE DEF ws
    <3>2. w = EnvWords(reg, I.n, W("uc", reg.uc))
      BY <3>1 DEF ws
    <3>3. PICK ep : ep = findtosEnv(reg) + EnvFixSize
      OBVIOUS
    <3>4. /\ reg' = Next1([reg EXCEPT !.e = ep - 1])
          /\ stk' = Write(stk, ep - 3, w) /\ ~stackError(ep + 2 * I.n)
          /\ prog' = prog /\ calls' = calls /\ snaps' = snaps /\ ctx' = ctx
      BY ONLY Allocate, <1>10, <3>2, <3>3 DEF Allocate
    <3>5. ep = F + EnvFixSize
      BY <2>0, <3>3
    <3>6. /\ reg' = Next1([reg EXCEPT !.e = (F + EnvFixSize) - 1])
          /\ stk' = Write(stk, (F + EnvFixSize) - 3, w) /\ ~stackError(F + EnvFixSize + 2 * I.n)
      BY ONLY <3>4, <3>5
    <3> QED
      BY ONLY <3>1, <3>4, <3>6
  <2>8. /\ IsSeq(ws) /\ DOMAIN ws = 1 .. 4 + 2 * I.n
        /\ ws[1] = W("ci", reg.ci) /\ ws[2] = W("ce", reg.e) /\ ws[3] = W("uc", reg.uc)
        /\ ws[4] = W("cp", reg.cp) /\ \A k \in 1 .. 2 * I.n : ws[4 + k] = Junk
    BY <1>5, EnvWordsAre
  <2>words. DOMAIN ws = 1 .. 4 + 2 * I.n
    BY <2>8
  <2> HIDE DEF ws
  <2>5. F \in Nat /\ EnvFixSize = 4 /\ StackEnd \in Nat
    BY <1>2, <1>4, <2>1, Limits DEF EnvFixSize, Knows, Here
  <2>6. /\ (F + EnvFixSize) - 3 = F + 1 /\ (F + EnvFixSize) - 1 - 2 = F + 1 /\ F + 1 \in Addr
        /\ F + 1 \in Int /\ DOMAIN stk \subseteq Int /\ 4 + 2 * I.n \in Nat
    BY <1>4, <1>5, <2>4, <2>5 DEF stackError, Addr, StackBeg
  <2>7. /\ reg'.e = (F + EnvFixSize) - 1 /\ reg'.ci = reg.ci /\ reg'.ce = reg.ce /\ reg'.p = q + 1
    <3>1. PICK r : r = [reg EXCEPT !.e = (F + EnvFixSize) - 1]
      OBVIOUS
    <3>2. DOMAIN r = DOMAIN reg /\ r.e = (F + EnvFixSize) - 1 /\ r.ci = reg.ci /\ r.ce = reg.ce /\ r.p = q
      BY <1>2, <1>3, <3>1, RegistersKnown
    <3>3. reg' = [r EXCEPT !.p = r.p + 1]
      BY <2>4, <3>1 DEF Next1
    <3> QED
      BY <1>2, <3>2, <3>3, RegistersKnown
  <2>9. z = Write(stk, F + 1, ws)
    BY <2>3, <2>4, <2>6
  <2>10. /\ \A b \in DOMAIN stk : b < F + 1 \/ F + 1 + (4 + 2 * I.n) <= b => z[b] = stk[b]
         /\ \A k \in 1 .. 4 + 2 * I.n : F + 1 + k - 1 \in DOMAIN stk => z[F + 1 + k - 1] = ws[k]
    BY ONLY <2>6, <2>words, <2>9, WriteIs
  <2>11. \A a \in 0 .. F - 1 : z[a] = stk[a]
    BY <1>4, <2>5, <2>6, <2>10 DEF Addr, StackBeg
  <2>12. z[reg'.e - 2] = W("ci", reg.ci)
    <3>1. z[F + 1] = ws[1]
      <4>1. 1 \in 1 .. 4 + 2 * I.n /\ F + 1 + 1 - 1 = F + 1
        BY <1>5, <2>5
      <4> QED
        BY <1>4, <2>6, <2>10, <4>1
    <3>2. reg'.e - 2 = F + 1
      <4>1. PICK e : e = reg'.e
        OBVIOUS
      <4>2. e = (F + EnvFixSize) - 1
        BY <2>7, <4>1
      <4>3. e - 2 = F + 1
        BY ONLY <2>5, <4>2
      <4> QED
        BY <4>1, <4>3
    <3> QED
      BY <2>8, <3>1, <3>2
  <2>13. Seen(stk, reg, live, calls, ctx, snaps, q, F) /\ Knows
    BY <1>2, <1>4, <2>1
  <2>14. Firm(stk, z, F) /\ Prepared(z, snaps)
    BY <2>11, <2>13, WrittenPast
  <2>15. Closures(z, reg.e, reg.ci, calls, ctx, q)
    BY <1>4, <2>13, <2>14, ClosuresAgree
  <2>16. Same(stk, z, ctx)
    BY <1>4, <2>13, <2>14, FirmIsSame DEF Closures
  <2>17. ComesFrom(z, reg.ci, calls[Len(calls)], ctx, CodeHomes[q + 1])
    BY <1>8, <2>15 DEF Closures, ComesFrom
  <2>18. Lends(z, calls[Len(calls)], reg'.e, q + 1, ctx)
    <3>1. z[reg'.e - 2].v = reg.ci
      BY <2>12 DEF W
    <3> QED
      BY <1>7, <2>17, <3>1 DEF Lends
  <2>19. Closures(z, reg'.e, reg'.ci, calls, ctx, q + 1)
    BY <2>7, <2>15, <2>17, <2>18 DEF Closures
  <2>20. Enclosed(z, reg', q + 1)
    <3>1. PICK l : l = q + 1
      OBVIOUS
    <3>2. Follows(q, l)
      BY <1>8, <3>1 DEF Follows
    <3>3. reg'.ci = reg.ci /\ reg'.ce = reg.ce
      BY <2>7
    <3>4. Between(calls, ctx, q) /\ Closures(stk, reg.e, reg.ci, calls, ctx, q) /\ Enclosed(stk, reg, q)
      BY <1>4
    <3>5. Enclosed(z, reg', l)
      BY ONLY <2>16, <3>2, <3>3, <3>4, StaysEnclosed
    <3> QED
      BY <3>1, <3>5
  <2> QED
    BY <2>3, <2>4, <2>7, <2>14, <2>19, <2>20, ClosesStep
<1> QED
  BY <1>9, <1>10

-----------------------------------------------------------------------------
\* What the calls have pushed is in any context that the clause being run may
\* make of its caller's.
LEMMA BetweenAgain ==
    ASSUME NEW m, NEW cs, NEW cx, NEW ps, Calls(m, cs, cx, ps), NEW q, Between(cs, cx, q),
           NEW cz, NEW l, Len(CodePushes[l]) \in Nat,
           Len(cz) = Len(cs[Len(cs)].ctx) + Len(CodePushes[l])
    PROVE  Between(cs, cz, l)
<1>1. PICK n \in Nat \ {0} : n = Len(cs)
  BY DEF Between
<1>2. Len(cs[n].ctx) \in Nat \ {0} /\ Len(cz) \in Nat
  <2>1. PICK a, d : a = Len(cs[Len(cs)].ctx) /\ d = Len(CodePushes[l])
    OBVIOUS
  <2>2. a \in Nat \ {0}
    BY <2>1 DEF Between
  <2>3. d \in Nat /\ Len(cz) = a + d
    BY <2>1
  <2>4. Len(cz) \in Nat
    BY ONLY <2>2, <2>3
  <2> QED
    BY <1>1, <2>1, <2>2, <2>4
<1>3. ASSUME NEW j \in 2 .. n PROVE Len(cs[j].ctx) <= Len(cz)
  <2>1. Len(cs[j].ctx) <= Len(cs[n].ctx)
    <3>1. CASE j = n
      BY <1>2, <3>1
    <3>2. CASE j < n
      <4>1. j \in 1 .. Len(cs) /\ n \in 1 .. Len(cs)
        BY <1>1
      <4> QED
        BY <1>1, <3>2, <4>1 DEF Calls
    <3> QED
      BY <3>1, <3>2
  <2>2. Len(cs[j].ctx) \in Nat
    <3>1. PICK a, b, d : /\ a = Len(cs[j - 1].ctx) /\ d = Len(CodePushes[cs[j].ret])
                         /\ b = Len(cs[j].ctx)
      OBVIOUS
    <3>2. a \in Nat /\ d \in Nat /\ b = a + d
      BY <1>1, <3>1 DEF Between
    <3>3. b \in Nat
      BY ONLY <3>2
    <3> QED
      BY <3>1, <3>3
  <2>3. Len(cs[n].ctx) <= Len(cz)
    <3>1. PICK a, d : a = Len(cs[Len(cs)].ctx) /\ d = Len(CodePushes[l])
      OBVIOUS
    <3>2. a \in Nat /\ d \in Nat /\ Len(cz) = a + d
      BY <1>1, <1>2, <3>1
    <3>3. a <= Len(cz)
      BY ONLY <3>2
    <3> QED
      BY <1>1, <3>1, <3>3
  <2>4. PICK a, b, d : a = Len(cs[j].ctx) /\ b = Len(cs[n].ctx) /\ d = Len(cz)
    OBVIOUS
  <2>5. a \in Nat /\ b \in Nat /\ d \in Nat /\ a <= b /\ b <= d
    BY <1>2, <2>1, <2>2, <2>3, <2>4
  <2>6. a <= d
    BY ONLY <2>5
  <2> QED
    BY <2>4, <2>6
<1> QED
  BY <1>1, <1>2, <1>3 DEF Between

\* Contexts that agree as far as both go.
Coincide(cx, cz) == \A k : k \in 1 .. Len(cx) /\ k \in 1 .. Len(cz) => cz[k] = cx[k]

\* What the records lend depends upon those below that of the clause alone.
LEMMA ContextAgrees ==
    ASSUME NEW m, NEW cs, NEW cx, NEW q, Between(cs, cx, q), NEW cz, NEW l, Between(cs, cz, l),
           Coincide(cx, cz)
    PROVE  /\ Lending(m, cs, cx) => Lending(m, cs, cz)
           /\ \A x, t : ComesFrom(m, x, cs[Len(cs)], cx, t) => ComesFrom(m, x, cs[Len(cs)], cz, t)
<1>1. /\ \A j \in 2 .. Len(cs) : Within(cs[j - 1], cx, cs[j].ret) /\ Within(cs[j - 1], cz, cs[j].ret)
      /\ Within(cs[Len(cs)], cx, q) /\ Within(cs[Len(cs)], cz, l)
  BY WithinContext
<1>2. ASSUME NEW c, Len(c.ctx) \in Nat, Len(c.ctx) <= Len(cx), Len(c.ctx) <= Len(cz),
             Len(cx) \in Nat, Len(cz) \in Nat, NEW x, NEW t, ComesFrom(m, x, c, cx, t)
      PROVE  ComesFrom(m, x, c, cz, t)
  <2>1. CASE t = NoTable
    BY <2>1 DEF ComesFrom
  <2>2. CASE t # NoTable
    <3>1. PICK k \in 2 .. Len(c.ctx) : x = cx[k] /\ m[cx[k] + 2].v = t
      BY <1>2, <2>2 DEF ComesFrom
    <3>2. cz[k] = cx[k]
      BY <1>2, <3>1 DEF Coincide
    <3> QED
      BY <3>1, <3>2 DEF ComesFrom
  <2> QED
    BY <2>1, <2>2
<1>3. ASSUME NEW c, NEW e, NEW p, Within(c, cx, p), Within(c, cz, p), Lends(m, c, e, p, cx)
      PROVE  Lends(m, c, e, p, cz)
  <2>1. \A k \in 1 .. Len(CodePushes[p]) : cz[Len(c.ctx) + k] = cx[Len(c.ctx) + k]
    BY <1>3 DEF Within, Coincide
  <2>2. ComesFrom(m, m[e - 2].v, c, cz, CodeHomes[p])
    BY <1>2, <1>3 DEF Within, Lends
  <2> QED
    BY <1>3, <2>1, <2>2 DEF Lends
<1>4. ASSUME Lending(m, cs, cx) PROVE Lending(m, cs, cz)
  <2>1. ASSUME NEW j \in 2 .. Len(cs) PROVE Lends(m, cs[j - 1], cs[j].e, cs[j].ret, cz)
    BY <1>1, <1>3, <1>4 DEF Lending
  <2> QED
    BY <1>4, <2>1 DEF Lending
<1>5. \A x, t : ComesFrom(m, x, cs[Len(cs)], cx, t) => ComesFrom(m, x, cs[Len(cs)], cz, t)
  BY <1>1, <1>2 DEF Within
<1> QED
  BY <1>4, <1>5

\* One more implication in the context.
LEMMA ImplicationsGrow ==
    ASSUME NEW z, NEW cx, IsSeq(cx), cx # <<>>, Implications(z, cx), NEW x,
           z[x].f = "ce", z[x + 1] = W("tag", TagImpl), NEW cz, cz = Append(cx, x),
           \A y \in 1 .. Links(z, x) : NextHome(z, cz, Len(cx) + 1, y)
    PROVE  Implications(z, cz)
<1>1. PICK n \in Nat \ {0} : n = Len(cx)
  BY SeqIs
<1>2. Len(cz) = n + 1 /\ cz[n + 1] = x /\ \A k \in 1 .. n : cz[k] = cx[k]
  BY <1>1, AppendIs
<1>3. ASSUME NEW k \in 1 .. n, NEW y \in 1 .. Links(z, cz[k]) PROVE NextHome(z, cz, k, y)
  <2>1. NextHome(z, cx, k, y) /\ cz[k] = cx[k]
    BY <1>1, <1>2 DEF Implications
  <2>2. \A j \in 2 .. k - 1 : cz[j] = cx[j]
    BY <1>2
  <2> QED
    BY <2>1, <2>2 DEF NextHome
<1>4. ASSUME NEW k \in 1 .. n + 1 PROVE \A y \in 1 .. Links(z, cz[k]) : NextHome(z, cz, k, y)
  <2>1. CASE k \in 1 .. n
    BY <1>3, <2>1
  <2>2. CASE k = n + 1
    BY <1>1, <1>2, <2>2
  <2>3. k \in 1 .. n \/ k = n + 1
    OBVIOUS
  <2> QED
    BY <2>1, <2>2, <2>3
<1>5. ASSUME NEW k \in 2 .. n + 1 PROVE z[cz[k]].f = "ce" /\ z[cz[k] + 1] = W("tag", TagImpl)
  <2>1. CASE k \in 1 .. n
    <3>1. k \in 2 .. Len(cx) /\ cz[k] = cx[k]
      BY <1>1, <1>2, <2>1
    <3> QED
      BY <3>1 DEF Implications
  <2>2. CASE k = n + 1
    BY <1>2, <2>2
  <2>3. k \in 1 .. n \/ k = n + 1
    OBVIOUS
  <2> QED
    BY <2>1, <2>2, <2>3
<1> QED
  BY <1>2, <1>4, <1>5 DEF Implications


\* The predicates that the record at x, for table t, extends have their code as
\* found from the record i.
NextAre(z, x, i, t) ==
    \A y \in 1 .. Len(Tables[t].link) :
       LET c == Tables[t].link[y]
           ip == FindIP(i, c)
       IN  /\ z[x - 2 * y].v = IF CodeAt(ip, c) = 0 THEN FailCode ELSE CodeAt(ip, c)
           /\ z[x - 2 * y + 1].v = ip

\* A record of the table t, laid at F, where it is known what it extends.
LEMMA LaysImplication ==
    ASSUME WellShaped(prog), NEW cx, Records(stk, cx), NEW r, r.i = cx[Len(cx)],
           NEW t \in DOMAIN Tables, NEW word0, NEW tag, word0.f \notin {"free", "bound", "junk"},
           NEW F \in Nat, FstCP < F, \A k \in 1 .. Len(cx) : RecEnd(cx[k]) <= F,
           NEW x, x = F + VectorSize(t), RecEnd(x) <= StackEnd, Tidy(stk),
           NEW z, z = Write(stk, F, RecordWords(r, t, word0, tag))
    PROVE  /\ z[x] = word0 /\ z[x + 1] = W("tag", tag) /\ z[x + 2] = W("pst", t)
           /\ \A a \in 0 .. F - 1 : z[a] = stk[a]
           /\ NextAre(z, x, r.i, t)
<1> DEFINE V == VectorSize(t)
           ws == RecordWords(r, t, word0, tag)
<1>1. /\ V \in Nat /\ 2 * Len(Tables[t].link) <= V /\ Len(Tables[t].link) \in Nat
      /\ StackEnd \in Nat
  BY Tabled, Limits
<1>2. /\ x \in Nat /\ x = F + V /\ RecEnd(x) = x + 6
      /\ F + (V + 6) <= StackEnd + 1 /\ V + 6 \in Nat
  BY <1>1 DEF RecEnd, ImpFixSize
<1>3. z = Write(stk, F, ws)
  OBVIOUS
<1> HIDE DEF V, ws
<1>4. V = VectorSize(t) /\ ws = RecordWords(r, t, word0, tag)
  BY DEF V, ws
<1>5. NextWords(ws, V, r.i, t)
  BY <1>4, RecordWordsAre
<1>6. DOMAIN ws = 1 .. V + 6 /\ \A k \in 1 .. V + 6 : ws[k].f \notin {"free", "bound", "junk"}
  BY <1>4, RecordWordsAre
<1>7. /\ ws[V + 1] = word0 /\ ws[V + 2] = W("tag", tag) /\ ws[V + 3] = W("pst", t)
      /\ ws[V + 5] = W("pip", r.i)
  BY <1>4, RecordWordsAre
<1>8. HasWords(stk, F, V + 6, ws, z)
  <2>1. Tidy(stk) /\ StackEnd \in Nat /\ F \in Nat /\ V + 6 \in Nat
    BY <1>1, <1>2
  <2>2. DOMAIN ws = 1 .. V + 6 /\ F + (V + 6) <= StackEnd + 1
        /\ \A k \in 1 .. V + 6 : ws[k] = Junk \/ ws[k].f \notin {"free", "bound", "junk"}
    BY <1>2, <1>6
  <2> QED
    BY ONLY <2>1, <2>2, <1>3, LaysWords
<1>9. \A k \in 1 .. V + 6 : z[F + k - 1] = ws[k]
  BY <1>8 DEF HasWords
<1>10. z[x] = word0 /\ z[x + 1] = W("tag", tag) /\ z[x + 2] = W("pst", t)
  <2>1. /\ F + (V + 1) - 1 = x /\ F + (V + 2) - 1 = x + 1 /\ F + (V + 3) - 1 = x + 2
        /\ V + 1 \in 1 .. V + 6 /\ V + 2 \in 1 .. V + 6 /\ V + 3 \in 1 .. V + 6
    BY <1>1, <1>2
  <2> QED
    BY <1>7, <1>9, <2>1
<1>11. ASSUME NEW a \in 0 .. F - 1 PROVE z[a] = stk[a]
  <2>1. a \in Addr /\ a < F
    BY <1>1, <1>2 DEF Addr, StackBeg
  <2> QED
    BY <1>8, <2>1 DEF HasWords
<1>12. ASSUME NEW y \in 1 .. Len(Tables[t].link), NEW c, c = Tables[t].link[y],
              NEW ip, ip = FindIP(r.i, c)
       PROVE  /\ z[x - 2 * y].v = IF CodeAt(ip, c) = 0 THEN FailCode ELSE CodeAt(ip, c)
              /\ z[x - 2 * y + 1].v = ip
  <2>1. /\ ws[V + 1 - 2 * y] = W("ncl", IF CodeAt(ip, c) = 0 THEN FailCode ELSE CodeAt(ip, c))
        /\ ws[V + 2 - 2 * y] = W("nclip", ip)
    BY <1>5, <1>12 DEF NextWords
  <2>2. V + 1 - 2 * y \in 1 .. V + 6 /\ V + 2 - 2 * y \in 1 .. V + 6
    BY <1>1
  <2>3. F + (V + 1 - 2 * y) - 1 = x - 2 * y /\ F + (V + 2 - 2 * y) - 1 = x - 2 * y + 1
    BY <1>1, <1>2
  <2>4. z[x - 2 * y] = ws[V + 1 - 2 * y] /\ z[x - 2 * y + 1] = ws[V + 2 - 2 * y]
    BY <1>9, <2>2, <2>3
  <2> QED
    BY <2>1, <2>4 DEF W
<1>13. NextAre(z, x, r.i, t)
  BY <1>12 DEF NextAre
<1> QED
  BY <1>10, <1>11, <1>13

\* The predicates that a new record extends have their code from the records
\* below it.
LEMMA RecordHomes ==
    ASSUME WellShaped(prog), ClosuresShaped(prog), Rooted(stk), NEW cx, Records(stk, cx),
           NEW i, i = cx[Len(cx)], NEW t \in DOMAIN Tables, NEW z, Same(stk, z, cx),
           NEW x, NextAre(z, x, i, t), NEW cz, cz = Append(cx, x)
    PROVE  \A y \in 1 .. Len(Tables[t].link) : NextHome(z, cz, Len(cx) + 1, y)
<1>1. PICK n \in Nat \ {0} : n = Len(cx)
  BY SeqIs DEF Records
<1>2. Len(cz) = n + 1 /\ cz[n + 1] = x /\ \A k \in 1 .. n : cz[k] = cx[k]
  BY <1>1, AppendIs
<1> SUFFICES ASSUME NEW y \in 1 .. Len(Tables[t].link)
             PROVE  NextHome(z, cz, n + 1, y)
  BY <1>1
<1>4. PICK c, ip : c = Tables[t].link[y] /\ ip = FindIP(i, c)
  OBVIOUS
<1>7. PICK l : l = z[x - 2 * y].v
  OBVIOUS
<1>8. l = (IF CodeAt(ip, c) = 0 THEN FailCode ELSE CodeAt(ip, c)) /\ z[x - 2 * y + 1].v = ip
  BY <1>4, <1>7 DEF NextAre
<1>9. ASSUME CodeHomes[l] # NoTable
      PROVE  \E j \in 2 .. n : ip = cx[j] /\ z[cx[j] + 2].v = CodeHomes[l]
  <2>1. CodeAt(ip, c) # 0 /\ l = CodeAt(ip, c)
    <3>1. CodeHomes[FailCode] = NoTable
      BY FixedOpen
    <3> QED
      BY <1>8, <1>9, <3>1
  <2>2. Len(cx) \in 1 .. Len(cx) /\ ip = FindIP(cx[Len(cx)], c)
    BY <1>1, <1>4
  <2>3. PICK h : h = CodeHomes[CodeAt(ip, c)]
    OBVIOUS
  <2>4. PICK j \in 2 .. n : ip = cx[j] /\ stk[cx[j] + 2].v = h
    <3>1. /\ WellShaped(prog) /\ ClosuresShaped(prog) /\ Rooted(stk) /\ Records(stk, cx)
          /\ h = CodeHomes[CodeAt(ip, c)] /\ h # NoTable /\ CodeAt(ip, c) # 0
      BY <1>9, <2>1, <2>3
    <3>2. \E j \in 2 .. Len(cx) : ip = cx[j] /\ stk[cx[j] + 2].v = h
      BY ONLY <2>2, <3>1, NamedComes
    <3> QED
      BY <1>1, <3>2
  <2>5. z[cx[j] + 2] = stk[cx[j] + 2]
    BY <1>1, <2>4 DEF Same, SameRecord
  <2> QED
    BY <2>1, <2>3, <2>4, <2>5
<1>10. ASSUME CodeHomes[l] # NoTable
       PROVE  \E j \in 2 .. (n + 1) - 1 : ip = cz[j] /\ z[cz[j] + 2].v = CodeHomes[l]
  <2>1. PICK j \in 2 .. n : ip = cx[j] /\ z[cx[j] + 2].v = CodeHomes[l]
    BY <1>9, <1>10
  <2>2. j \in 2 .. (n + 1) - 1 /\ cz[j] = cx[j]
    BY <1>1, <1>2, <2>1
  <2> QED
    BY <2>1, <2>2
<1> QED
  BY <1>2, <1>7, <1>8, <1>10 DEF NextHome


\* An implication lends the clause's environment to the clauses that it adds.
LEMMA PushImplPointCloses ==
    ASSUME WellShaped(prog), ClosuresShaped(prog), IInv, CInv, PushImplPoint
    PROVE  CInv'
<1>1. status = "run" /\ I.op = "push_impl_point"
  BY DEF PushImplPoint, Is
<1>2. Knows
  BY <1>1, ComesKnowing DEF Alternatives, Halting
<1>3. PICK q, s, u, t : /\ q = reg.p /\ s = ShapeAt(q) /\ u = Trimmed(s, I.n) /\ t = I.t
  OBVIOUS
<1>4. /\ View(stk, reg, live, calls, ctx, snaps, s) /\ Memory(stk, trail, snaps)
      /\ Registers(reg, snaps) /\ Stacked(snaps) /\ Rooted(stk) /\ Tidy(stk)
      /\ Finds(prog, CodeShapes, q, s, I) /\ IsShape(s) /\ Checked(q)
      /\ Closures(stk, reg.e, reg.ci, calls, ctx, q) /\ Enclosed(stk, reg, q)
      /\ Between(calls, ctx, q) /\ Prepared(stk, snaps)
  BY <1>2, <1>3 DEF Knows, Here, Memory
<1>5. s.own /\ I.n \in 0 .. s.n /\ t \in DOMAIN Tables /\ s.a1 # "slot"
  BY <1>1, <1>3, <1>4 DEF Finds, Tables
<1>6. View(stk, reg, I.n, calls, ctx, snaps, u)
  BY <1>3, <1>4, <1>5, ViewTrims
<1>7. u.own
  BY <1>3, <1>4, <1>5 DEF Trimmed, IsShape
<1>8. PICK F : F = findtos(reg, I.n)
  OBVIOUS
<1>9. F = Frontier(reg.e, I.n, reg.tos)
  BY <1>8, FindsLive
<1>10. Reached(stk, reg, I.n, calls, ctx, snaps, u, F)
  BY <1>6, <1>9 DEF Reached
<1>11. /\ F \in Nat /\ StackEnd \in Nat /\ reg.tos \in Nat /\ reg.tos <= F
  BY <1>6, <1>9, ViewReaches
<1>12. PICK V : V = VectorSize(t)
  OBVIOUS
<1>size. V \in Nat
  BY <1>5, <1>12, Tabled
<1>13. PICK ws : ws = RecordWords(reg, t, W("ce", reg.e), TagImpl)
  OBVIOUS
<1>14. CASE Overflow
  BY <1>14, StopsClose DEF Overflow
<1>15. CASE ~Overflow
  <2>1. PICK x : x = F + V
    OBVIOUS
  <2>2. PICK cz : cz = Append(ctx, x)
    OBVIOUS
  <2>3. PICK z : z = stk'
    OBVIOUS
  <2>4. PushRecord(F, t, W("ce", reg.e), TagImpl, reg.uc, I.n)
    BY <1>3, <1>8 DEF PushImplPoint
  <2>5. /\ z = Write(stk, F, ws) /\ ~stackError(x + ImpFixSize)
        /\ reg' = Next1([reg EXCEPT !.tos = x + ImpFixSize, !.i = x, !.uc = reg.uc])
        /\ ctx' = cz /\ prog' = prog /\ calls' = calls /\ snaps' = snaps
    BY ONLY <2>4, <1>12, <1>13, <1>15, <2>1, <2>2, <2>3 DEF PushRecord
  <2>6. /\ reg'.e = reg.e /\ reg'.ci = reg.ci /\ reg'.ce = reg.ce /\ reg'.p = q + 1
    <3>1. PICK r : r = [reg EXCEPT !.tos = x + ImpFixSize, !.i = x, !.uc = reg.uc]
      OBVIOUS
    <3>2. DOMAIN r = DOMAIN reg /\ r.e = reg.e /\ r.ci = reg.ci /\ r.ce = reg.ce /\ r.p = q
      BY <1>2, <1>3, <3>1, RegistersKnown
    <3>3. reg' = [r EXCEPT !.p = r.p + 1]
      BY <2>5, <3>1 DEF Next1
    <3> QED
      BY <1>2, <3>2, <3>3, RegistersKnown
  <2>12. Records(stk, ctx) /\ Implications(stk, ctx) /\ Len(ctx) \in Nat \ {0} /\ IsSeq(ctx)
         /\ ctx # <<>> /\ reg.i = ctx[Len(ctx)]
    <3>1. Records(stk, ctx) /\ Implications(stk, ctx) /\ reg.i = ctx[Len(ctx)]
      BY <1>4 DEF View, Closures, Running, InContext
    <3>2. ctx \in Seq(Nat) /\ ctx # <<>>
      BY <3>1 DEF Records
    <3>3. Len(ctx) \in Nat \ {0} /\ IsSeq(ctx)
      BY <3>2, SeqIs DEF IsSeq
    <3> QED
      BY <3>1, <3>2, <3>3
  <2>7. /\ z[x] = W("ce", reg.e) /\ z[x + 1] = W("tag", TagImpl) /\ z[x + 2] = W("pst", t)
        /\ \A a \in 0 .. F - 1 : z[a] = stk[a]
        /\ NextAre(z, x, reg.i, t)
    <3>1. PICK r, w0, g : r = reg /\ w0 = W("ce", reg.e) /\ g = TagImpl
      OBVIOUS
    <3>2. w0.f \notin {"free", "bound", "junk"}
      BY <3>1 DEF W
    <3>3. \A k \in 1 .. Len(ctx) : RecEnd(ctx[k]) <= F
      <4>1. \A k \in 1 .. Len(ctx) : RecEnd(ctx[k]) <= reg.tos /\ RecEnd(ctx[k]) \in Nat
        BY <1>6 DEF View, Layout
      <4> QED
        BY <1>11, <4>1
    <3>4. x = F + VectorSize(t) /\ RecEnd(x) <= StackEnd /\ FstCP < F
      <4>1. RecEnd(x) <= StackEnd
        BY <1>11, <1>size, <2>1, <2>5 DEF stackError, RecEnd, ImpFixSize
      <4> QED
        BY <1>6, <1>9, <1>12, <2>1, <4>1, ViewReaches
    <3>5. z = Write(stk, F, RecordWords(r, t, w0, g)) /\ r.i = ctx[Len(ctx)]
      BY <1>13, <2>5, <2>12, <3>1
    <3>6. /\ z[x] = w0 /\ z[x + 1] = W("tag", g) /\ z[x + 2] = W("pst", t)
          /\ \A a \in 0 .. F - 1 : z[a] = stk[a]
          /\ NextAre(z, x, r.i, t)
      BY <1>4, <1>5, <1>11, <2>12, <3>2, <3>3, <3>4, <3>5, LaysImplication
    <3> QED
      BY <3>1, <3>6
  <2>10. Firm(stk, z, F)
    BY <2>7 DEF Firm
  <2>11. /\ \A k \in 1 .. Len(ctx) : RecEnd(ctx[k]) <= F
         /\ \A j \in 2 .. Len(calls) : z[calls[j].e - 2] = stk[calls[j].e - 2]
         /\ z[reg.e - 2] = stk[reg.e - 2]
    BY <1>7, <1>10, <2>10, EnvsStay
  <2>13. Same(stk, z, ctx)
    <3>1. /\ \A k \in 1 .. Len(ctx) : SameRecord(stk, z, ctx[k]) /\ Links(z, ctx[k]) = Links(stk, ctx[k])
          /\ \A k \in 2 .. Len(ctx) : z[ctx[k]] = stk[ctx[k]] /\ z[ctx[k] + 1] = stk[ctx[k] + 1]
      BY <1>11, <2>10, <2>11, <2>12, RecordsFirm
    <3> QED
      BY <3>1 DEF Same
  <2>14. Closures(z, reg.e, reg.ci, calls, ctx, q)
    BY <1>4, <2>11, <2>13, ClosuresStay
  <2>16. Links(z, x) = Len(Tables[t].link)
    BY <2>7 DEF Links, W
  <2>17. \A y \in 1 .. Links(z, x) : NextHome(z, cz, Len(ctx) + 1, y)
    <3>1. \A y \in 1 .. Len(Tables[t].link) : NextHome(z, cz, Len(ctx) + 1, y)
      <4>1. PICK i : i = reg.i
        OBVIOUS
      <4>2. /\ WellShaped(prog) /\ ClosuresShaped(prog) /\ Rooted(stk) /\ Records(stk, ctx)
            /\ i = ctx[Len(ctx)] /\ t \in DOMAIN Tables /\ Same(stk, z, ctx)
            /\ NextAre(z, x, i, t) /\ cz = Append(ctx, x)
        BY <1>4, <1>5, <2>2, <2>7, <2>12, <2>13, <4>1
      <4> QED
        BY ONLY <4>2, RecordHomes
    <3> QED
      BY <2>16, <3>1
  <2>18. Implications(z, cz)
    <3>1. z[x].f = "ce" /\ Implications(z, ctx)
      BY <2>14, <2>7 DEF W, Closures
    <3> QED
      BY <2>2, <2>12, <2>7, <2>17, <3>1, ImplicationsGrow
  <2>19. PICK l, P, c : l = q + 1 /\ P = CodePushes[q] /\ c = calls[Len(calls)]
    OBVIOUS
  <2>20. IsSeq(P) /\ CodePushes[l] = Append(P, t) /\ Follows(q, l)
    <3>1. CodePushes[l] = Append(P, t)
      BY <1>1, <1>3, <1>4, <2>19 DEF Checked, PushedFrom, Straight, I
    <3>2. l \in GoesTo(Code[q], q)
      BY <1>1, <1>3, <2>19 DEF GoesTo, Straight, I
    <3>3. Follows(q, l)
      BY <1>4, <3>2 DEF Checked, Follows
    <3>4. P \in Seq(DOMAIN prog.tables)
      BY <1>4, <2>19 DEF Checked, Lent
    <3>5. IsSeq(P)
      BY <3>4, SeqIs DEF IsSeq
    <3> QED
      BY <3>1, <3>3, <3>5
  <2>21. PICK n \in Nat : n = Len(P)
    BY <2>20, SeqIs
  <2>22. /\ Len(CodePushes[l]) = n + 1 /\ CodePushes[l][n + 1] = t
         /\ \A k \in 1 .. n : CodePushes[l][k] = P[k]
    BY <2>20, <2>21, AppendIs
  <2>23. /\ Len(cz) = Len(ctx) + 1 /\ cz[Len(ctx) + 1] = x
         /\ \A k \in 1 .. Len(ctx) : cz[k] = ctx[k]
    BY <2>2, <2>12, AppendIs
  <2>24. PICK m \in Nat : m = Len(c.ctx)
    BY <1>4, <2>19 DEF Between
  <2>25. Len(ctx) = m + n
    BY <1>4, <2>19, <2>21, <2>24 DEF Between
  <2>26. Between(calls, cz, l)
    <3>1. Len(CodePushes[l]) \in Nat /\ Len(cz) = Len(c.ctx) + Len(CodePushes[l])
      <4>1. PICK a, b : a = Len(cz) /\ b = Len(CodePushes[l])
        OBVIOUS
      <4>2. a = m + n + 1 /\ b = n + 1
        BY <2>22, <2>23, <2>25, <4>1
      <4>3. b \in Nat /\ a = m + b
        BY ONLY <4>2, m \in Nat, n \in Nat
      <4> QED
        BY <2>24, <4>1, <4>3
    <3>2. Calls(stk, calls, ctx, snaps)
      BY <1>4 DEF View
    <3> QED
      BY <1>4, <2>19, <3>1, <3>2, BetweenAgain
  <2>27. Coincide(ctx, cz)
    BY <2>23 DEF Coincide
  <2>28. /\ Lending(z, calls, cz)
         /\ \A y, h : ComesFrom(z, y, c, ctx, h) => ComesFrom(z, y, c, cz, h)
    <3>1. Lending(z, calls, ctx)
      BY <2>14 DEF Closures
    <3> QED
      BY <1>4, <2>19, <2>26, <2>27, <3>1, ContextAgrees
  <2>29. Lends(z, c, reg.e, q, ctx) /\ ComesFrom(z, reg.ci, c, ctx, CodeHomes[q])
    BY <1>3, <1>5, <2>14, <2>19 DEF Closures
  <2>30. ASSUME NEW y, ComesFrom(z, y, c, ctx, CodeHomes[q])
         PROVE  ComesFrom(z, y, c, cz, CodeHomes[l])
    <3>1. ComesFrom(z, y, c, cz, CodeHomes[q])
      BY <2>28, <2>30
    <3> QED
      BY <2>20, <3>1 DEF Follows, ComesFrom
  <2>31. ASSUME NEW k \in 1 .. n + 1
         PROVE  z[cz[m + k]].v = reg.e /\ z[cz[m + k] + 2].v = CodePushes[l][k]
    <3>1. CASE k \in 1 .. n
      <4>1. z[ctx[m + k]].v = reg.e /\ z[ctx[m + k] + 2].v = P[k]
        BY <2>19, <2>21, <2>24, <2>29, <3>1 DEF Lends
      <4>2. m + k \in 1 .. Len(ctx)
        BY <2>25, <3>1
      <4> QED
        BY <2>22, <2>23, <3>1, <4>1, <4>2
    <3>2. CASE k = n + 1
      <4>1. m + k = Len(ctx) + 1
        BY <2>25, <3>2
      <4> QED
        BY <2>7, <2>22, <2>23, <3>2, <4>1 DEF W
    <3>3. k \in 1 .. n \/ k = n + 1
      OBVIOUS
    <3> QED
      BY <3>1, <3>2, <3>3
  <2>32. Lends(z, c, reg.e, l, cz)
    <3>1. ComesFrom(z, z[reg.e - 2].v, c, cz, CodeHomes[l])
      BY <2>29, <2>30 DEF Lends
    <3> QED
      BY <2>22, <2>24, <2>31, <3>1 DEF Lends
  <2>33. Closures(z, reg.e, reg.ci, calls, cz, l)
    BY <2>18, <2>19, <2>28, <2>29, <2>30, <2>32 DEF Closures
  <2>34. Enclosed(z, reg', l)
    BY <1>4, <2>6, <2>13, <2>20, StaysEnclosed
  <2>35. Prepared(z, snaps)
    <3>1. LastB(snaps) < F
      <4>1. LastB(snaps) = reg.b /\ reg.b < reg.tos /\ LastB(snaps) \in Nat
        BY <1>4, PointsAre DEF Registers
      <4> QED
        BY <1>11, <4>1
    <3>2. Len(snaps) \in 0 .. Len(snaps)
      BY <1>4, MemoryStacks
    <3>3. \A k \in 1 .. Len(snaps) : snaps[k] = snaps[k]
      OBVIOUS
    <3> QED
      BY ONLY <1>4, <1>11, <2>10, <3>1, <3>2, <3>3, PreparedStays
  <2> QED
    BY <2>3, <2>5, <2>6, <2>19, <2>33, <2>34, <2>35, ClosesStep
<1> QED
  BY <1>14, <1>15



\* Fewer implications in the context.
LEMMA ImplicationsDrop ==
    ASSUME NEW m, NEW cx, NEW cz, Implications(m, cx), NEW n \in Nat, n = Len(cz), n <= Len(cx),
           Len(cx) \in Nat, \A k \in 1 .. n : cz[k] = cx[k]
    PROVE  Implications(m, cz)
<1>1. ASSUME NEW k \in 1 .. n, NEW y \in 1 .. Links(m, cz[k]) PROVE NextHome(m, cz, k, y)
  <2>1. k \in 1 .. Len(cx) /\ cz[k] = cx[k]
    OBVIOUS
  <2>2. NextHome(m, cx, k, y)
    BY <1>1, <2>1 DEF Implications
  <2>3. \A j \in 2 .. k - 1 : cz[j] = cx[j]
    OBVIOUS
  <2> QED
    BY <2>1, <2>2, <2>3 DEF NextHome
<1>2. ASSUME NEW k \in 2 .. n PROVE m[cz[k]].f = "ce" /\ m[cz[k] + 1] = W("tag", TagImpl)
  <2>1. k \in 2 .. Len(cx) /\ cz[k] = cx[k]
    OBVIOUS
  <2> QED
    BY <2>1 DEF Implications
<1> QED
  BY <1>1, <1>2 DEF Implications

\* The clauses that the implication has added go again.
LEMMA PopImplPointCloses ==
    ASSUME WellShaped(prog), ClosuresShaped(prog), IInv, CInv, PopImplPoint
    PROVE  CInv'
<1>1. status = "run" /\ I.op = "pop_impl_point"
  BY DEF PopImplPoint, Is
<1>2. Knows
  BY <1>1, ComesKnowing DEF Alternatives, Halting
<1>3. PICK q, s, l, P, c : /\ q = reg.p /\ s = ShapeAt(q) /\ l = q + 1 /\ P = CodePushes[q]
                           /\ c = calls[Len(calls)]
  OBVIOUS
<1>4. /\ View(stk, reg, live, calls, ctx, snaps, s)
      /\ Finds(prog, CodeShapes, q, s, I) /\ Checked(q)
      /\ Closures(stk, reg.e, reg.ci, calls, ctx, q) /\ Enclosed(stk, reg, q)
      /\ Between(calls, ctx, q) /\ Prepared(stk, snaps)
  BY <1>2, <1>3 DEF Knows, Here, Memory
<1>5. s.own /\ s.pushed > 0
  BY <1>1, <1>4 DEF Finds
<1>6. PICK cz : cz = SubSeq(ctx, 1, Len(ctx) - 1)
  OBVIOUS
<1>7. ctx' = cz /\ stk' = stk /\ prog' = prog /\ calls' = calls /\ snaps' = snaps
  BY <1>6 DEF PopImplPoint, PopTo
<1>8. reg'.e = reg.e /\ reg'.ci = reg.ci /\ reg'.ce = reg.ce /\ reg'.p = l
  <2>1. PICK o : o = [reg EXCEPT !.i = v(reg.i + 4)]
    OBVIOUS
  <2>2. PICK r : r = settosreg(o)
    OBVIOUS
  <2>3. DOMAIN o = DOMAIN reg /\ o.e = reg.e /\ o.ci = reg.ci /\ o.ce = reg.ce /\ o.p = q
    BY <1>2, <1>3, <2>1, RegistersKnown
  <2>4. DOMAIN r = DOMAIN o /\ r.e = o.e /\ r.ci = o.ci /\ r.ce = o.ce /\ r.p = o.p
    BY <1>2, <2>2, <2>3, RegistersKnown DEF settosreg
  <2>5. reg' = [r EXCEPT !.p = r.p + 1]
    BY <2>1, <2>2 DEF PopImplPoint, PopTo, Next1
  <2> QED
    BY <1>2, <1>3, <2>3, <2>4, <2>5, RegistersKnown
<1>9. Follows(q, l) /\ CodePushes[l] = Init1(P)
  <2>1. CodePushes[l] = Init1(P)
    BY <1>1, <1>3, <1>4 DEF Checked, PushedFrom, Straight, I
  <2>2. l \in GoesTo(Code[q], q)
    BY <1>1, <1>3 DEF GoesTo, Straight, I
  <2> QED
    BY <1>4, <2>1, <2>2 DEF Checked, Follows
<1>10. IsSeq(P) /\ Len(P) = s.pushed
  <2>1. P \in Seq(DOMAIN prog.tables) /\ Len(P) = s.pushed
    BY <1>3, <1>4 DEF Checked, Lent
  <2> QED
    BY <2>1, SeqIs DEF IsSeq
<1>11. PICK n \in Nat \ {0} : n = Len(P)
  BY <1>5, <1>10, SeqIs
<1>12. Len(CodePushes[l]) = n - 1 /\ \A k \in 1 .. n - 1 : CodePushes[l][k] = P[k]
  BY <1>9, <1>10, <1>11, PrefixIs DEF Init1
<1>13. PICK m \in Nat \ {0} : m = Len(c.ctx)
  BY <1>3, <1>4 DEF Between
<1>14. Len(ctx) = m + n
  BY <1>3, <1>4, <1>11, <1>13 DEF Between
<1>15. IsSeq(ctx)
  <2>1. ctx \in Seq(Nat)
    BY <1>4 DEF View, Records
  <2> QED
    BY <2>1, SeqIs DEF IsSeq
<1>16. Len(cz) = m + (n - 1) /\ \A k \in 1 .. m + (n - 1) : cz[k] = ctx[k]
  <2>1. Len(ctx) - 1 \in 0 .. Len(ctx) /\ Len(ctx) - 1 = m + (n - 1)
    BY <1>14
  <2>2. PICK j : j = Len(ctx) - 1
    OBVIOUS
  <2>3. j \in 0 .. Len(ctx) /\ cz = SubSeq(ctx, 1, j)
    BY <1>6, <2>1, <2>2
  <2>4. Len(cz) = j /\ \A k \in 1 .. j : cz[k] = ctx[k]
    BY ONLY <1>15, <2>3, PrefixIs
  <2> QED
    BY <2>1, <2>2, <2>4
<1>17. Between(calls, cz, l)
  <2>1. Len(CodePushes[l]) \in Nat /\ Len(cz) = Len(c.ctx) + Len(CodePushes[l])
    BY <1>12, <1>13, <1>16
  <2>2. Calls(stk, calls, ctx, snaps)
    BY <1>4 DEF View
  <2> QED
    BY <1>3, <1>4, <2>1, <2>2, BetweenAgain
<1>18. Coincide(ctx, cz)
  BY <1>16 DEF Coincide
<1>19. /\ Lending(stk, calls, cz)
       /\ \A y, h : ComesFrom(stk, y, c, ctx, h) => ComesFrom(stk, y, c, cz, h)
  <2>1. Lending(stk, calls, ctx)
    BY <1>4 DEF Closures
  <2> QED
    BY <1>3, <1>4, <1>17, <1>18, <2>1, ContextAgrees
<1>20. /\ Lends(stk, c, reg.e, q, ctx) /\ ComesFrom(stk, reg.ci, c, ctx, CodeHomes[q])
       /\ Implications(stk, ctx)
  BY <1>3, <1>4, <1>5 DEF Closures
<1>21. ASSUME NEW y, ComesFrom(stk, y, c, ctx, CodeHomes[q])
       PROVE  ComesFrom(stk, y, c, cz, CodeHomes[l])
  <2>1. ComesFrom(stk, y, c, cz, CodeHomes[q])
    BY <1>19, <1>21
  <2> QED
    BY <1>9, <2>1 DEF Follows, ComesFrom
<1>22. Lends(stk, c, reg.e, l, cz)
  <2>1. ComesFrom(stk, stk[reg.e - 2].v, c, cz, CodeHomes[l])
    BY <1>20, <1>21 DEF Lends
  <2>2. ASSUME NEW k \in 1 .. n - 1
        PROVE  stk[cz[m + k]].v = reg.e /\ stk[cz[m + k] + 2].v = CodePushes[l][k]
    <3>1. k \in 1 .. n /\ m + k \in 1 .. m + (n - 1)
      OBVIOUS
    <3>2. stk[ctx[m + k]].v = reg.e /\ stk[ctx[m + k] + 2].v = P[k]
      BY <1>3, <1>11, <1>13, <1>20, <3>1 DEF Lends
    <3> QED
      BY <1>12, <1>16, <3>1, <3>2
  <2> QED
    BY <1>12, <1>13, <2>1, <2>2 DEF Lends
<1>23. Implications(stk, cz)
  <2>1. PICK j \in Nat : j = m + (n - 1)
    OBVIOUS
  <2>2. j = Len(cz) /\ j <= Len(ctx) /\ Len(ctx) \in Nat /\ \A k \in 1 .. j : cz[k] = ctx[k]
    BY <1>14, <1>16, <2>1
  <2> QED
    BY ONLY <1>20, <2>2, j \in Nat, ImplicationsDrop
<1>24. Closures(stk, reg.e, reg.ci, calls, cz, l)
  BY <1>3, <1>19, <1>20, <1>21, <1>22, <1>23 DEF Closures
<1>25. Enclosed(stk, reg', l)
  <2>1. Same(stk, stk, ctx)
    BY DEF Same, SameRecord
  <2> QED
    BY <1>4, <1>8, <1>9, <2>1, StaysEnclosed
<1> QED
  BY <1>4, <1>7, <1>8, <1>24, <1>25, ClosesStep

-----------------------------------------------------------------------------
\* Alternatives.

\* What is known where the machine comes back to its newest choice point.
BackKnowing ==
    /\ Back(ShapeAt(reg.p)) /\ ClosuresShaped(prog) /\ Checked(reg.p)
    /\ Closures(stk, SavedRegs(Newest).e, SavedRegs(Newest).ci, calls, ctx, reg.p)
    /\ Between(calls, ctx, reg.p)
    /\ Prepared(stk, snaps) /\ Resumed

\* The choice points up to the newest one.
LEMMA OlderAre ==
    ASSUME NEW ps, Memory(stk, trail, ps), ps # <<>>
    PROVE  /\ IsSeq(ps) /\ Len(ps) \in Nat \ {0} /\ Len(Init1(ps)) = Len(ps) - 1
           /\ \A k \in 1 .. Len(ps) - 1 : Init1(ps)[k] = ps[k]
           /\ Fewer(Init1(ps), ps) /\ IsSeq(Init1(ps))
<1>1. IsSeq(ps)
  BY DEF Memory
<1>2. Len(ps) \in Nat \ {0} /\ Len(ps) - 1 \in 0 .. Len(ps)
  BY <1>1, SeqIs
<1>3. /\ Len(Init1(ps)) = Len(ps) - 1 /\ IsSeq(Init1(ps))
      /\ \A k \in 1 .. Len(ps) - 1 : Init1(ps)[k] = ps[k]
  BY <1>1, <1>2, PrefixIs DEF Init1
<1> QED
  BY <1>1, <1>2, <1>3 DEF Fewer

\* A later clause may rely on what its choice point kept.
LEMMA ComesBackKnowing ==
    ASSUME WellShaped(prog), ClosuresShaped(prog), IInv, CInv, status = "run",
           I.op \in Alternatives
    PROVE  BackKnowing
<1> DEFINE d == Newest
           q == SavedRegs(d)
           L == Len(snaps)
           t == ShapeAt(reg.p)
<1>1. Back(t)
  BY ComesBack
<1>2. /\ snaps # <<>> /\ Memory(stk, trail, snaps) /\ Resumed
      /\ calls = d.calls /\ ctx = d.ctx /\ reg.p = stk[d.b - 1].v /\ live = SavedLive(d)
      /\ \A a \in StackBeg .. d.b :
            a = d.b - 1 \/ stk[a] = d.stk[a] \/ (Unknown(d, a) /\ stk[a].f = "junk")
  BY DEF IInv, Resumed
<1>3. L \in 1 .. L /\ d = snaps[L]
  <2>1. L \in Nat \ {0}
    BY <1>2, OlderAre
  <2> QED
    BY <2>1 DEF Newest
<1> HIDE DEF d, L, t
<1>4. Prepared(stk, snaps) /\ Resumes(stk, d)
  BY <1>3 DEF CInv, Prepared, L
<1>5. Waits(snaps, L, reg.p) /\ Below(snaps, L) = Older
  BY <1>2, <1>3 DEF Memory, L, Below, Older, Init1
<1>6. /\ d.base \in Nat /\ d.b \in Nat /\ d.base + 10 <= d.b /\ q.tos = d.base /\ q.e < d.base
      /\ q.e \in Addr
  BY <1>1 DEF Back, d
<1>7. /\ reg.p \in DOMAIN Code
      /\ View(d.stk, q, SavedLive(d), d.calls, d.ctx, Older, ShapeAt(reg.p))
  BY <1>3, <1>5 DEF Waits
<1> HIDE DEF q
<1>8. q.e \in Nat
  BY <1>6 DEF Addr, StackBeg, StackEnd
<1>9. d.base = Frontier(q.e, live, q.tos)
  BY <1>6, <1>8 DEF Frontier
<1>10. Seen(d.stk, q, live, calls, ctx, Older, reg.p, d.base)
  BY ONLY <1>2, <1>7, <1>9, WellShaped(prog), ClosuresShaped(prog) DEF Seen
<1>11. Firm(d.stk, stk, d.base)
  <2>1. \A a \in 0 .. d.base - 1 : a \in StackBeg .. d.b /\ a # d.b - 1
    BY <1>6 DEF StackBeg
  <2> QED
    BY <2>1, <1>2 DEF Firm, Unknown, Soft
<1>12. Closures(d.stk, q.e, q.ci, calls, ctx, reg.p)
  BY <1>2, <1>4 DEF Resumes, q
<1>13. Closures(stk, q.e, q.ci, calls, ctx, reg.p)
  BY ONLY <1>10, <1>11, <1>12, ClosuresAgree
<1>14. Between(calls, ctx, reg.p) /\ Checked(reg.p)
  BY <1>10, PushedBetween DEF Seen
<1> QED
  BY <1>1, <1>2, <1>4, <1>13, <1>14 DEF BackKnowing, q, d, t

\* Where a clause that has no environment goes on, nothing more is relied upon.
LEMMA AlternativeCarries ==
    ASSUME BackKnowing, NEW l, Goes(ShapeAt(reg.p), l), Follows(reg.p, l)
    PROVE  Carries(reg.p, l)
<1>1. WellShaped(prog) /\ ~ShapeAt(reg.p).own
  BY DEF BackKnowing, Back
<1>2. ~ShapeAt(l).own
  BY <1>1, OnlyOwn
<1> QED
  BY <1>2 DEF Carries, Follows


\* The registers that a choice point brings back.
LEMMA BackRegs ==
    ASSUME BackKnowing, NEW n \in Nat, ShapeAt(reg.p).cut = "goal" \/ ShapeAt(reg.p).a1 # "any" => n > 0,
           NEW l, Goes(ShapeAt(reg.p), l), Follows(reg.p, l)
    PROVE  /\ Closures(stk, RestoreRegs(n).e, RestoreRegs(n).ci, calls, ctx, l)
           /\ Enclosed(stk, RestoreRegs(n), l)
           /\ DOMAIN RestoreRegs(n) = DOMAIN reg
<1> DEFINE o == SavedRegs(Newest)
           w == RestoreWoCI(n)
           x == [w EXCEPT !.ci = cpCI(reg.b)]
           t == ShapeAt(reg.p)
<1>1. Back(t)
  BY DEF BackKnowing
<1>2. DOMAIN reg = {"tos", "e", "b", "b0", "i", "ci", "ce", "uc", "p", "cp", "a1"}
  BY <1>1 DEF Back, Registers
<1>3. /\ SameBut(reg, w, {"b0", "i", "cp", "e", "uc", "a1"})
      /\ SameBut(w, RestoreRegs(n), {"ci", "ce"})
      /\ Restores(RestoreRegs(n), o) /\ RestoreRegs(n).ci = o.ci
  BY <1>1, RestoredRegs
<1>4. Closures(stk, o.e, o.ci, calls, ctx, reg.p) /\ Between(calls, ctx, reg.p)
  BY DEF BackKnowing
<1>5. Carries(reg.p, l)
  BY AlternativeCarries
<1>6. Closures(stk, o.e, o.ci, calls, ctx, l)
  BY ONLY <1>4, <1>5, ClosuresCarry
<1> HIDE DEF o, w
<1>7. Closures(stk, RestoreRegs(n).e, RestoreRegs(n).ci, calls, ctx, l)
  BY <1>3, <1>6 DEF Restores
<1>8. DOMAIN w = DOMAIN reg /\ DOMAIN RestoreRegs(n) = DOMAIN reg
  BY <1>3 DEF SameBut
<1>9. DOMAIN x = DOMAIN reg /\ "ci" \in DOMAIN w /\ "ce" \in DOMAIN x /\ x.ci = cpCI(reg.b)
  BY <1>2, <1>8
<1>10. RestoreRegs(n) = WithCE(x)
  BY DEF RestoreRegs, w
<1> HIDE DEF x
<1>12. DOMAIN x = {"tos", "e", "b", "b0", "i", "ci", "ce", "uc", "p", "cp", "a1"}
  BY <1>2, <1>9
<1>13. WithCE(x).ci = x.ci
  BY <1>12, WithCEFields
<1>14. Closures(stk, RestoreRegs(n).e, x.ci, calls, ctx, l)
  BY <1>7, <1>10, <1>13
<1>15. /\ Len(ctx) \in Nat /\ Len(calls[Len(calls)].ctx) \in Nat
       /\ Len(calls[Len(calls)].ctx) <= Len(ctx)
  <2>1. Within(calls[Len(calls)], ctx, reg.p)
    BY <1>4, WithinContext
  <2> QED
    BY <2>1 DEF Within
<1>16. Enclosed(stk, WithCE(x), l)
  BY <1>9, <1>14, <1>15, WithCEEncloses
<1> QED
  BY <1>7, <1>8, <1>10, <1>16

\* What a choice point knew still holds when newer ones go.
LEMMA OlderPrepared ==
    ASSUME BackKnowing, NEW z, \A k \in 1 .. Len(Older) : z[Older[k].b - 1] = stk[Older[k].b - 1]
    PROVE  Prepared(z, Older)
<1>1. Memory(stk, trail, snaps) /\ snaps # <<>> /\ Prepared(stk, snaps)
  BY DEF BackKnowing, Back
<1>2. /\ Len(snaps) \in Nat \ {0} /\ Len(Older) = Len(snaps) - 1
      /\ \A k \in 1 .. Len(snaps) - 1 : Older[k] = snaps[k]
  BY <1>1, OlderAre DEF Older
<1>3. ASSUME NEW k \in 1 .. Len(Older) PROVE Resumes(z, Older[k])
  <2>1. k \in 1 .. Len(snaps) /\ Older[k] = snaps[k] /\ k \in 1 .. Len(snaps) - 1
    BY <1>2
  <2>2. Resumes(stk, Older[k])
    BY <1>1, <2>1 DEF Prepared
  <2>3. z[Older[k].b - 1] = stk[Older[k].b - 1]
    BY <1>3
  <2> QED
    BY <2>2, <2>3 DEF Resumes
<1> QED
  BY <1>3 DEF Prepared

\* The last clause of a predicate.
LEMMA TrustingCloses ==
    ASSUME BackKnowing, NEW r, DOMAIN r = DOMAIN reg, Trusting(r),
           Closures(stk, r.e, r.ci, calls, ctx, r.p), Enclosed(stk, r, r.p)
    PROVE  CInv'
<1>1. DOMAIN r = {"tos", "e", "b", "b0", "i", "ci", "ce", "uc", "p", "cp", "a1"}
  BY DEF BackKnowing, Back, Registers
<1>2. /\ reg' = Discard(r) /\ snaps' = Older
      /\ stk' = stk /\ prog' = prog /\ calls' = calls /\ ctx' = ctx
  BY DEF Trusting
<1>3. reg'.e = r.e /\ reg'.ci = r.ci /\ reg'.ce = r.ce /\ reg'.p = r.p
  BY <1>1, <1>2 DEF Discard, settosreg
<1>4. Prepared(stk, Older)
  BY OlderPrepared
<1>5. Enclosed(stk, reg', reg'.p)
  BY <1>3 DEF Enclosed
<1> QED
  BY <1>2, <1>3, <1>4, <1>5, ClosesStep

\* The last clause goes on without its choice point,
LEMMA LastCloses ==
    ASSUME BackKnowing, NEW n \in Nat, ShapeAt(reg.p).cut = "goal" \/ ShapeAt(reg.p).a1 # "any" => n > 0,
           NEW l, Goes(ShapeAt(reg.p), l), Follows(reg.p, l),
           NEW r, SameBut(RestoreRegs(n), r, {"p"}), r.p = l, Trusting(r)
    PROVE  CInv'
<1>1. /\ Closures(stk, RestoreRegs(n).e, RestoreRegs(n).ci, calls, ctx, l)
      /\ Enclosed(stk, RestoreRegs(n), l)
      /\ DOMAIN RestoreRegs(n) = DOMAIN reg
  BY BackRegs
<1>2. DOMAIN reg = {"tos", "e", "b", "b0", "i", "ci", "ce", "uc", "p", "cp", "a1"}
  BY DEF BackKnowing, Back, Registers
<1>3. PICK x : x = RestoreRegs(n)
  OBVIOUS
<1>4. DOMAIN r = DOMAIN reg /\ r.e = x.e /\ r.ci = x.ci /\ r.ce = x.ce
  BY <1>1, <1>2, <1>3 DEF SameBut
<1>5. Closures(stk, r.e, r.ci, calls, ctx, r.p) /\ Enclosed(stk, r, r.p)
  BY <1>1, <1>3, <1>4 DEF Enclosed
<1> QED
  BY <1>4, <1>5, TrustingCloses


\* in the definition the choice point was made in.
LEMMA FollowsOn ==
    ASSUME BackKnowing, NEW l \in GoesTo(I, reg.p)
    PROVE  Follows(reg.p, l)
  BY DEF BackKnowing, Checked, Follows, I

\* The instructions for last clauses.
LEMMA LastsClose ==
    ASSUME WellShaped(prog), ClosuresShaped(prog), IInv, CInv, TrustMe \/ Trust
    PROVE  CInv'
<1> DEFINE t == ShapeAt(reg.p)
<1>1. status = "run" /\ I.op \in {"trust_me", "trust"}
  BY DEF TrustMe, Trust, Is
<1>2. BackKnowing
  BY <1>1, ComesBackKnowing DEF Alternatives
<1>3. Back(t)
  BY <1>2 DEF BackKnowing
<1>4. DOMAIN reg = {"tos", "e", "b", "b0", "i", "ci", "ce", "uc", "p", "cp", "a1"}
  BY <1>3 DEF Back, Registers
<1> HIDE DEF t
<1>5. /\ I.op \in MeOps => Goes(t, reg.p + 1)
      /\ I.op \in ToOps => Goes(t, I.l)
      /\ I.n \in Nat /\ (t.cut = "goal" \/ t.a1 # "any" => I.n > 0)
  BY <1>1, <1>3, BackGoes DEF MeOps, ToOps, Alternatives
<1>6. DOMAIN RestoreRegs(I.n) = DOMAIN reg
  <2>1. /\ SameBut(reg, RestoreWoCI(I.n), {"b0", "i", "cp", "e", "uc", "a1"})
        /\ SameBut(RestoreWoCI(I.n), RestoreRegs(I.n), {"ci", "ce"})
    BY <1>3, <1>5, RestoredRegs
  <2> QED
    BY <2>1 DEF SameBut
<1>7. CASE TrustMe
  <2>1. I.op = "trust_me" /\ Trusting(Next1(RestoreRegs(I.n)))
    BY <1>7 DEF TrustMe, Is
  <2>2. reg.p + 1 \in GoesTo(I, reg.p)
    BY <2>1 DEF GoesTo, Straight, MeOps
  <2>3. Follows(reg.p, reg.p + 1) /\ Goes(t, reg.p + 1)
    BY <1>2, <1>5, <2>1, <2>2, FollowsOn DEF MeOps
  <2>4. RestoreRegs(I.n).p = reg.p
    <3>1. /\ SameBut(reg, RestoreWoCI(I.n), {"b0", "i", "cp", "e", "uc", "a1"})
          /\ SameBut(RestoreWoCI(I.n), RestoreRegs(I.n), {"ci", "ce"})
      BY <1>3, <1>5, RestoredRegs
    <3> QED
      BY <1>4, <3>1 DEF SameBut
  <2>5. PICK r : r = Next1(RestoreRegs(I.n))
    OBVIOUS
  <2>6. SameBut(RestoreRegs(I.n), r, {"p"}) /\ r.p = reg.p + 1
    BY <1>4, <1>6, <2>4, <2>5 DEF SameBut, Next1
  <2>7. Trusting(r)
    BY <2>1, <2>5
  <2> QED
    BY <1>2, <1>5, <2>3, <2>6, <2>7, LastCloses DEF t
<1>8. CASE Trust
  <2>1. I.op = "trust" /\ Trusting([RestoreRegs(I.n) EXCEPT !.p = I.l])
    BY <1>8 DEF Trust, Is
  <2>2. I.l \in GoesTo(I, reg.p)
    BY <2>1 DEF GoesTo, ToOps
  <2>3. Follows(reg.p, I.l) /\ Goes(t, I.l)
    BY <1>2, <1>5, <2>1, <2>2, FollowsOn DEF ToOps
  <2>5. PICK r : r = [RestoreRegs(I.n) EXCEPT !.p = I.l]
    OBVIOUS
  <2>6. SameBut(RestoreRegs(I.n), r, {"p"}) /\ r.p = I.l
    BY <1>4, <1>6, <2>5 DEF SameBut
  <2>7. Trusting(r)
    BY <2>1, <2>5
  <2> QED
    BY <1>2, <1>5, <2>3, <2>6, <2>7, LastCloses DEF t
<1> QED
  BY <1>7, <1>8

\* The choice point stays, for the clause at ncl.
LEMMA RetryingCloses ==
    ASSUME BackKnowing, NEW n \in Nat, ShapeAt(reg.p).cut = "goal" \/ ShapeAt(reg.p).a1 # "any" => n > 0,
           NEW l, Goes(ShapeAt(reg.p), l), Follows(reg.p, l),
           NEW ncl, ~ShapeAt(ncl).own, Follows(reg.p, ncl),
           NEW r, SameBut(RestoreRegs(n), r, {"p"}), r.p = l, Retrying(r, ncl)
    PROVE  CInv'
<1> DEFINE d == Newest
           q == SavedRegs(d)
           z == [stk EXCEPT ![reg.b - 1] = W("cpncl", ncl)]
<1>1. /\ Closures(stk, RestoreRegs(n).e, RestoreRegs(n).ci, calls, ctx, l)
      /\ Enclosed(stk, RestoreRegs(n), l)
      /\ DOMAIN RestoreRegs(n) = DOMAIN reg
  BY BackRegs
<1>2. /\ DOMAIN reg = {"tos", "e", "b", "b0", "i", "ci", "ce", "uc", "p", "cp", "a1"}
      /\ Memory(stk, trail, snaps) /\ snaps # <<>> /\ reg.b = d.b /\ WellShaped(prog)
      /\ d.base \in Nat /\ d.b \in Nat /\ d.base + 10 <= d.b /\ d.b \in Addr
      /\ q.tos = d.base /\ q.e < d.base /\ q.e \in Addr
      /\ View(stk, q, live, calls, ctx, Older, ShapeAt(reg.p)) /\ reg.p \in DOMAIN Code
      /\ ClosuresShaped(prog) /\ Between(calls, ctx, reg.p)
  BY DEF BackKnowing, Back, Registers, Waits
<1>3. PICK x : x = RestoreRegs(n)
  OBVIOUS
<1>4. DOMAIN r = DOMAIN reg /\ r.e = x.e /\ r.ci = x.ci /\ r.ce = x.ce
  BY <1>1, <1>2, <1>3 DEF SameBut
<1>5. /\ reg' = r /\ stk' = z /\ snaps' = snaps
      /\ prog' = prog /\ calls' = calls /\ ctx' = ctx
  BY DEF Retrying, hist
<1>6. q.e \in Nat /\ d.base = Frontier(q.e, live, q.tos)
  BY <1>2 DEF Addr, StackBeg, StackEnd, Frontier
<1>25. StackEnd \in Nat /\ d.b <= StackEnd
  <2>1. StackEnd \in Nat
    BY <1>2, Limits
  <2> QED
    BY <1>2, <2>1 DEF Addr, StackBeg
<1>7. /\ DOMAIN stk = Addr /\ z[d.b - 1].v = ncl
      /\ \A a \in Addr : a # d.b - 1 => z[a] = stk[a]
  <2>1. DOMAIN stk = Addr
    BY <1>2 DEF Memory, Tidy
  <2>2. d.b - 1 \in Addr
    BY <1>2, <1>25 DEF Addr, StackBeg
  <2> QED
    BY <1>2, <2>1, <2>2 DEF W
<1>8. \A a \in 0 .. d.base - 1 : a # d.b - 1 /\ z[a] = stk[a]
  <2>1. \A a \in 0 .. d.base - 1 : a \in Addr /\ a # d.b - 1
    <3>1. PICK b, e : b = d.b /\ e = d.base
      OBVIOUS
    <3>2. b \in Nat /\ e \in Nat /\ e + 10 <= b /\ b <= StackEnd /\ StackEnd \in Nat
      BY <1>2, <1>25, <3>1
    <3>3. \A a \in 0 .. e - 1 : a \in Addr /\ a # b - 1
      BY ONLY <3>2 DEF Addr, StackBeg
    <3> QED
      BY <3>1, <3>3
  <2> QED
    BY <1>7, <2>1
<1> HIDE DEF z
<1>9. Firm(stk, z, d.base)
  BY <1>8 DEF Firm
<1>10. /\ Closures(stk, q.e, q.ci, calls, ctx, reg.p)
       /\ Closures(d.stk, q.e, q.ci, d.calls, d.ctx, reg.p)
  <2>1. Resumed /\ Prepared(stk, snaps) /\ Len(snaps) \in Nat \ {0}
    BY <1>2, OlderAre DEF BackKnowing
  <2>2. Resumes(stk, d)
    BY <2>1 DEF Prepared, Newest
  <2>3. stk[d.b - 1].v = reg.p
    BY <2>1 DEF Resumed
  <2> QED
    BY <2>2, <2>3 DEF Resumes, BackKnowing
<1>11. /\ RestoreRegs(n).e = q.e /\ RestoreRegs(n).ci = q.ci
  <2>1. Back(ShapeAt(reg.p))
    BY DEF BackKnowing
  <2> QED
    BY <2>1, RestoredRegs DEF Restores
<1> HIDE DEF q, d
<1>12. Seen(stk, q, live, calls, ctx, Older, reg.p, d.base)
  BY ONLY <1>2, <1>6 DEF Seen
<1>13. Closures(z, q.e, q.ci, calls, ctx, reg.p)
  BY ONLY <1>9, <1>10, <1>12, ClosuresAgree
<1>14. Implications(stk, ctx)
  BY <1>10 DEF Closures
<1>15. Same(stk, z, ctx)
  BY ONLY <1>9, <1>12, <1>14, FirmIsSame
<1>16. Carries(reg.p, l)
  BY AlternativeCarries
<1>17. Closures(z, q.e, q.ci, calls, ctx, l)
  BY ONLY <1>13, <1>16, ClosuresCarry
<1>18. Closures(z, r.e, r.ci, calls, ctx, r.p)
  BY <1>3, <1>4, <1>11, <1>17
<1>19. Enclosed(z, r, l)
  <2> SUFFICES ASSUME CodeHomes[l] # NoTable
               PROVE  r.ce = z[r.ci].v
    BY DEF Enclosed
  <2>1. r.ce = stk[r.ci].v
    BY <1>1, <1>3, <1>4 DEF Enclosed
  <2>2. PICK k \in 2 .. Len(calls[Len(calls)].ctx) : q.ci = ctx[k]
    BY <1>17 DEF Closures, ComesFrom
  <2>3. Within(calls[Len(calls)], ctx, reg.p)
    BY <1>2, WithinContext
  <2>4. k \in 2 .. Len(ctx)
    BY <2>2, <2>3 DEF Within
  <2>5. z[ctx[k]] = stk[ctx[k]]
    BY <1>15, <2>4 DEF Same
  <2> QED
    BY <1>3, <1>4, <1>11, <2>1, <2>2, <2>5
<1>20. /\ Len(snaps) \in Nat \ {0} /\ Len(Older) = Len(snaps) - 1 /\ IsSeq(snaps)
       /\ \A k \in 1 .. Len(snaps) - 1 : Older[k] = snaps[k]
  BY <1>2, OlderAre DEF Older
<1>21. Prepared(z, Older)
  <2>1. ASSUME NEW k \in 1 .. Len(Older) PROVE z[Older[k].b - 1] = stk[Older[k].b - 1]
    <3>1. Made(snaps, Len(snaps))
      BY <1>2, <1>20 DEF Memory
    <3>2. k \in 1 .. Len(snaps) - 1 /\ k \in 1 .. Len(snaps) /\ Older[k] = snaps[k]
      BY <1>20
    <3>3. snaps[k].b < d.base
      BY <3>1, <3>2 DEF Made, Newest, d
    <3>4. snaps[k].b \in Nat /\ snaps[k].base + 10 <= snaps[k].b /\ snaps[k].base \in Nat
      BY <1>2, <3>2, MemoryStacks
    <3>5. snaps[k].b - 1 \in 0 .. d.base - 1
      BY <1>2, <3>3, <3>4
    <3> QED
      BY <1>8, <3>2, <3>5
  <2> QED
    BY <2>1, OlderPrepared
<1>22. Resumes(z, d)
  <2>1. Carries(reg.p, ncl)
    BY DEF Carries, Follows
  <2>2. Closures(d.stk, q.e, q.ci, d.calls, d.ctx, ncl)
    BY ONLY <1>10, <2>1, ClosuresCarry
  <2> QED
    BY <1>7, <2>2 DEF Resumes, q
<1>23. Prepared(z, snaps)
  <2>1. ASSUME NEW k \in 1 .. Len(snaps) PROVE Resumes(z, snaps[k])
    <3>1. CASE k = Len(snaps)
      BY <1>22, <3>1 DEF d, Newest
    <3>2. CASE k # Len(snaps)
      <4>1. k \in 1 .. Len(Older) /\ Older[k] = snaps[k]
        BY <1>20, <3>2
      <4> QED
        BY <1>21, <4>1 DEF Prepared
    <3> QED
      BY <3>1, <3>2
  <2> QED
    BY <2>1 DEF Prepared
<1> QED
  BY <1>5, <1>18, <1>19, <1>23, ClosesStep


\* The instructions for clauses that others follow.
LEMMA RetriesClose ==
    ASSUME WellShaped(prog), ClosuresShaped(prog), IInv, CInv,
           RetryMeElse \/ RetryElse \/ Retry
    PROVE  CInv'
<1> DEFINE t == ShapeAt(reg.p)
           x == RestoreRegs(I.n)
<1>1. status = "run" /\ I.op \in {"retry_me_else", "retry_else", "retry"}
  BY DEF RetryMeElse, RetryElse, Retry, Is
<1>2. BackKnowing
  BY <1>1, ComesBackKnowing DEF Alternatives
<1>3. Back(t)
  BY <1>2 DEF BackKnowing
<1>4. DOMAIN reg = {"tos", "e", "b", "b0", "i", "ci", "ce", "uc", "p", "cp", "a1"}
  BY <1>3 DEF Back, Registers
<1> HIDE DEF t, x
<1>5. /\ I.op \in MeOps => Goes(t, reg.p + 1)
      /\ I.op \in ToOps => Goes(t, I.l)
      /\ I.op \in ElseOps => Goes(t, I.k)
      /\ I.n \in Nat /\ (t.cut = "goal" \/ t.a1 # "any" => I.n > 0)
  BY <1>1, <1>3, BackGoes DEF MeOps, ToOps, ElseOps, Alternatives
<1>6. /\ SameBut(reg, RestoreWoCI(I.n), {"b0", "i", "cp", "e", "uc", "a1"})
      /\ SameBut(RestoreWoCI(I.n), x, {"ci", "ce"})
  BY <1>3, <1>5, RestoredRegs DEF x
<1>7. DOMAIN x = DOMAIN reg /\ x.p = reg.p
  BY <1>4, <1>6 DEF SameBut
<1>8. /\ I.op \in {"retry_me_else", "retry_else"} => ~ShapeAt(I.l).own
      /\ I.op = "retry" => ~ShapeAt(reg.p + 1).own
  <2>1. /\ I.op \in {"retry_me_else"} \cup ElseOps => MayResume(prog.code, CodeShapes, t, I.l)
        /\ I.op = "retry" => MayResume(prog.code, CodeShapes, t, reg.p + 1)
    BY <1>3, ResumesWith
  <2> QED
    BY <2>1 DEF MayResume, ElseOps, ShapeAt
<1>9. /\ I.op \in {"retry_me_else", "retry"} => Follows(reg.p, reg.p + 1)
      /\ I.op \in {"retry_me_else", "retry_else", "retry"} => Follows(reg.p, I.l)
      /\ I.op = "retry_else" => Follows(reg.p, I.k)
  <2>1. /\ I.op \in {"retry_me_else", "retry"} => reg.p + 1 \in GoesTo(I, reg.p)
        /\ I.op \in {"retry_me_else", "retry_else", "retry"} => I.l \in GoesTo(I, reg.p)
        /\ I.op = "retry_else" => I.k \in GoesTo(I, reg.p)
    BY DEF GoesTo, Straight, MeOps, ToOps, ElseOps
  <2> QED
    BY <1>2, <2>1, FollowsOn
<1>10. CASE RetryMeElse
  <2>1. I.op = "retry_me_else" /\ Retrying(Next1(x), I.l)
    BY <1>10 DEF RetryMeElse, Is, x
  <2>2. PICK r : r = Next1(x)
    OBVIOUS
  <2>3. SameBut(x, r, {"p"}) /\ r.p = reg.p + 1 /\ Retrying(r, I.l)
    BY <1>4, <1>7, <2>1, <2>2 DEF SameBut, Next1
  <2>4. Goes(t, reg.p + 1)
    BY <1>5, <2>1 DEF MeOps
  <2> QED
    BY <1>2, <1>5, <1>8, <1>9, <2>1, <2>3, <2>4, RetryingCloses DEF t, x
<1>11. CASE RetryElse
  <2>1. I.op = "retry_else" /\ Retrying([x EXCEPT !.p = I.k], I.l)
    BY <1>11 DEF RetryElse, Is, x
  <2>2. PICK r : r = [x EXCEPT !.p = I.k]
    OBVIOUS
  <2>3. SameBut(x, r, {"p"}) /\ r.p = I.k /\ Retrying(r, I.l)
    BY <1>4, <1>7, <2>1, <2>2 DEF SameBut
  <2>4. Goes(t, I.k)
    BY <1>5, <2>1 DEF ElseOps
  <2> QED
    BY <1>2, <1>5, <1>8, <1>9, <2>1, <2>3, <2>4, RetryingCloses DEF t, x
<1>12. CASE Retry
  <2>1. I.op = "retry" /\ Retrying([x EXCEPT !.p = I.l], reg.p + 1)
    BY <1>12 DEF Retry, Is, x
  <2>2. PICK r : r = [x EXCEPT !.p = I.l]
    OBVIOUS
  <2>3. SameBut(x, r, {"p"}) /\ r.p = I.l /\ Retrying(r, reg.p + 1)
    BY <1>4, <1>7, <2>1, <2>2 DEF SameBut
  <2>4. Goes(t, I.l)
    BY <1>5, <2>1 DEF ToOps
  <2> QED
    BY <1>2, <1>5, <1>8, <1>9, <2>1, <2>3, <2>4, RetryingCloses DEF t, x
<1> QED
  BY <1>10, <1>11, <1>12

\* The clause that the next clause table leads to, or none.
LEMMA TrustExtCloses ==
    ASSUME WellShaped(prog), ClosuresShaped(prog), IInv, CInv, TrustExt
    PROVE  CInv'
<1> DEFINE t == ShapeAt(reg.p)
           o == SavedRegs(Newest)
           a == o.ci - 2 * I.m
           w == RestoreWoCI(I.n)
           x == [w EXCEPT !.p = v(a), !.ci = v(a + 1)]
           c == calls[Len(calls)]
<1>1. status = "run" /\ I.op = "trust_ext"
  BY DEF TrustExt, Is
<1>2. BackKnowing /\ Back(t)
  <2>1. BackKnowing
    BY <1>1, ComesBackKnowing DEF Alternatives
  <2> QED
    BY <2>1 DEF BackKnowing
<1> HIDE DEF t
<1>3. /\ Finds(prog, CodeShapes, reg.p, t, I) /\ o.ci = v(reg.b - 6) /\ Registers(reg, snaps)
      /\ View(stk, o, live, calls, ctx, Older, t) /\ ~t.own /\ t.ext \in Nat
  <2>1. View(stk, o, live, calls, ctx, Older, t)
    BY <1>2 DEF Back
  <2> QED
    BY <2>1, <1>2 DEF Back, View, Running, FromRecord
<1>4. I.n \in Nat /\ t.cut = "clause" /\ I.m \in 1 .. t.ext
  BY <1>1, <1>3 DEF Finds
<1>5. IF isFailInstr(v(a))
      THEN /\ reg' = Discard([reg EXCEPT !.p = v(a)])
           /\ snaps' = Older
           /\ status' = "fail"
           /\ UNCHANGED <<stk, trail, prog, calls, live, ctx>>
      ELSE Trusting(WithCE(x))
  BY <1>3 DEF TrustExt, cpCI
<1>6. /\ DOMAIN reg = {"tos", "e", "b", "b0", "i", "ci", "ce", "uc", "p", "cp", "a1"}
      /\ DOMAIN w = DOMAIN reg
  BY <1>3 DEF Registers, RestoreWoCI
<1> HIDE DEF o, w, a
<1>7. /\ Running(stk, o, live, c, ctx, Older, t) /\ Records(stk, ctx)
      /\ Len(ctx) \in Nat /\ Len(c.ctx) \in Nat /\ Len(c.ctx) <= Len(ctx) /\ 1 <= Len(c.ctx)
  <2>1. /\ Len(ctx) \in Nat /\ Len(c.ctx) \in Nat /\ Len(c.ctx) <= Len(ctx) /\ 1 <= Len(c.ctx)
        /\ Running(stk, o, live, c, ctx, Older, t)
    BY <1>3, CallerIs
  <2> QED
    BY <2>1, <1>3 DEF View
<1>8. PICK k \in 1 .. Len(c.ctx) : o.ci = ctx[k] /\ t.ext <= Links(stk, ctx[k])
  BY <1>3, <1>4, <1>7 DEF Running, FromRecord
<1>9. k \in 1 .. Len(ctx) /\ Record(stk, ctx, k) /\ Links(stk, ctx[k]) \in Nat
  <2>1. k \in 1 .. Len(ctx)
    BY <1>7
  <2>2. Record(stk, ctx, k)
    BY <2>1, <1>7 DEF Records
  <2>3. stk[ctx[k] + 2].v \in DOMAIN Tables
    BY <2>2 DEF Record
  <2>4. WellShaped(prog)
    OBVIOUS
  <2> QED
    BY <2>1, <2>2, <2>3, <2>4, Tabled DEF Links
<1>10. I.m \in 1 .. Links(stk, ctx[k])
  BY <1>3, <1>4, <1>8, <1>9
<1>11. \/ v(a) = FailCode
       \/ \E j \in 1 .. k - 1 : v(a + 1) = ctx[j] /\ Goes(Extended(Links(stk, ctx[j])), v(a))
  <2>1. NextClause(stk, ctx, k, I.m)
    BY <1>9, <1>10 DEF Record
  <2> QED
    BY <1>8, <2>1 DEF NextClause, a, v
<1>12. NextHome(stk, ctx, k, I.m) /\ Lending(stk, calls, ctx) /\ Implications(stk, ctx)
  <2>1. Implications(stk, ctx) /\ Lending(stk, calls, ctx)
    BY <1>2 DEF BackKnowing, Closures
  <2> QED
    BY <1>9, <1>10, <2>1 DEF Implications
<1>13. CASE isFailInstr(v(a))
  <2>1. /\ reg' = Discard([reg EXCEPT !.p = v(a)]) /\ snaps' = Older /\ status' = "fail"
        /\ stk' = stk /\ prog' = prog
    BY <1>5, <1>13
  <2>2. Prepared(stk, Older)
    BY <1>2, OlderPrepared
  <2>3. ~IsLive'
    BY <2>1 DEF IsLive
  <2> QED
    BY <2>1, <2>2, <2>3, ClosesStep
<1>14. CASE ~isFailInstr(v(a))
  <2>1. v(a) # FailCode /\ Trusting(WithCE(x))
    BY <1>5, <1>14 DEF isFailInstr
  <2>2. PICK j \in 1 .. k - 1 : v(a + 1) = ctx[j] /\ Goes(Extended(Links(stk, ctx[j])), v(a))
    BY <1>11, <2>1
  <2>3. /\ DOMAIN x = {"tos", "e", "b", "b0", "i", "ci", "ce", "uc", "p", "cp", "a1"}
        /\ x.p = v(a) /\ x.ci = v(a + 1)
    BY <1>6
  <2>4. ComesFrom(stk, x.ci, c, ctx, CodeHomes[x.p])
    <3> SUFFICES ASSUME CodeHomes[x.p] # NoTable
                 PROVE  \E i \in 2 .. Len(c.ctx) : x.ci = ctx[i] /\ stk[ctx[i] + 2].v = CodeHomes[x.p]
      BY DEF ComesFrom
    <3>1. stk[ctx[k] - 2 * I.m].v = v(a) /\ stk[ctx[k] - 2 * I.m + 1].v = v(a + 1)
      BY <1>8 DEF v, a
    <3>2. PICK i \in 2 .. k - 1 : /\ stk[ctx[k] - 2 * I.m + 1].v = ctx[i]
                                  /\ stk[ctx[i] + 2].v = CodeHomes[v(a)]
      BY <1>12, <2>3, <3>1 DEF NextHome
    <3>3. i \in 2 .. Len(c.ctx)
      BY <1>7
    <3> QED
      BY <2>3, <3>1, <3>2, <3>3
  <2> HIDE DEF x
  <2>5. ~ShapeAt(x.p).own
    <3>1. ~Extended(Links(stk, ctx[j])).own
      BY DEF Extended, Entered, Shape
    <3>2. WellShaped(prog)
      OBVIOUS
    <3> QED
      BY <2>2, <2>3, <3>1, <3>2, OnlyOwn
  <2>6. PICK r : r = WithCE(x)
    OBVIOUS
  <2>7. r.e = x.e /\ r.ci = x.ci /\ r.p = x.p /\ DOMAIN r = DOMAIN x
    BY <2>3, <2>6, WithCEFields
  <2>8. Closures(stk, r.e, r.ci, calls, ctx, r.p)
    BY <1>12, <2>4, <2>5, <2>7 DEF Closures
  <2>9. Closures(stk, r.e, x.ci, calls, ctx, x.p)
    BY <2>7, <2>8
  <2>10. "ce" \in DOMAIN x
    BY <2>3
  <2>11. Enclosed(stk, WithCE(x), x.p)
    BY <1>7, <2>9, <2>10, WithCEEncloses
  <2>12. Enclosed(stk, r, r.p) /\ Trusting(r) /\ DOMAIN r = DOMAIN reg
    BY <1>6, <2>1, <2>3, <2>6, <2>7, <2>11
  <2> QED
    BY ONLY <1>2, <2>8, <2>12, TrustingCloses
<1> QED
  BY <1>13, <1>14


-----------------------------------------------------------------------------
\* Failures, and the driver.

\* Backtracking takes back what the choice point relied upon.
LEMMA BacktrackCloses ==
    ASSUME WellShaped(prog), ClosuresShaped(prog), IInv, CInv, Backtrack
    PROVE  CInv'
<1>1. CASE botCP(reg.b)
  <2>1. status' = "failed" /\ UNCHANGED <<reg, stk, trail, prog, hist>>
    BY <1>1 DEF Backtrack
  <2> QED
    BY <2>1, StopsClose
<1>2. CASE ~botCP(reg.b)
  <2>1. PICK s, L, z : s = Newest /\ L = Len(snaps) /\ z = stk'
    OBVIOUS
  <2>2. /\ IsSeq(snaps) /\ L \in Nat /\ L # 0 /\ L \in 1 .. L /\ s = snaps[L]
        /\ prog' = prog /\ snaps' = snaps /\ reg' = [reg EXCEPT !.p = stk[s.b - 1].v]
        /\ s.b \in Nat /\ s.base \in Nat /\ s.base + 10 <= s.b
        /\ \A a \in StackBeg .. s.b : a # s.b - 1 /\ ~Unknown(s, a) => z[a] = s.stk[a]
        /\ z[s.b - 1] = stk[s.b - 1]
    BY <1>2, <2>1, Backtracks
  <2>3. /\ Memory(stk, trail, snaps) /\ Registers(reg, snaps) /\ Prepared(stk, snaps)
    BY DEF IInv, CInv, Prepared
  <2>4. Made(snaps, L) /\ Waits(snaps, L, stk[s.b - 1].v) /\ Keeps(s, stk)
    BY <2>1, <2>2, <2>3 DEF Memory, Kept
  <2>5. ~IsLive'
    <3>1. reg'.p = stk[s.b - 1].v
      BY <2>2, <2>3 DEF Registers
    <3>2. Code[reg'.p].op \in Alternatives
      BY <2>4, <3>1 DEF Waits
    <3>3. I'.op \in Alternatives
      BY <2>2, <3>2 DEF I, Code
    <3> QED
      BY <3>3 DEF IsLive, Alternatives
  <2>6. ASSUME NEW k \in 1 .. L
        PROVE  z[snaps[k].b - 1] = stk[snaps[k].b - 1]
    <3>1. CASE k = L
      BY <2>2, <3>1
    <3>2. CASE k # L
      <4>1. PICK d : d = snaps[k]
        OBVIOUS
      <4>2. k \in 1 .. L - 1 /\ k \in 1 .. Len(snaps)
        BY <2>1, <2>2, <3>2
      <4>3. d.b < s.base /\ Keeps(d, s.stk)
        BY <2>2, <2>4, <4>1, <4>2 DEF Made
      <4>4. d.b \in Nat /\ d.base \in Nat /\ d.base + 10 <= d.b
        BY <2>3, <4>1, <4>2, MemoryStacks
      <4>5. PICK a : a = d.b - 1
        OBVIOUS
      <4>6. a \in StackBeg .. s.b /\ a # s.b - 1 /\ a < s.base
        <5>1. PICK x, y, w : x = d.b /\ y = s.b /\ w = s.base
          OBVIOUS
        <5>2. /\ x \in Nat /\ x > 0 /\ y \in Nat /\ w \in Nat /\ x < w /\ w + 10 <= y /\ a = x - 1
          BY <2>2, <4>3, <4>4, <4>5, <5>1
        <5>3. a \in StackBeg .. y /\ a # y - 1 /\ a < w
          BY ONLY <5>2 DEF StackBeg
        <5> QED
          BY <5>1, <5>3
      <4>7. s.stk[a].f = "cpncl"
        BY <4>3, <4>5 DEF Keeps
      <4>8. ~Unknown(s, a) /\ s.stk[a].f # "free"
        BY <4>7 DEF Unknown
      <4>9. stk[a] = s.stk[a]
        BY <2>4, <4>6, <4>8 DEF Keeps
      <4>10. z[a] = s.stk[a]
        BY <2>2, <4>6, <4>8
      <4> QED
        BY <4>1, <4>5, <4>9, <4>10
    <3> QED
      BY <3>1, <3>2
  <2>7. Prepared(z, snaps)
    <3>1. ASSUME NEW k \in 1 .. Len(snaps) PROVE Resumes(z, snaps[k])
      <4>1. z[snaps[k].b - 1] = stk[snaps[k].b - 1]
        BY <2>1, <2>6
      <4>2. Resumes(stk, snaps[k])
        BY <2>3 DEF Prepared
      <4> QED
        BY <4>1, <4>2 DEF Resumes
    <3> QED
      BY <3>1 DEF Prepared
  <2> QED
    BY <2>1, <2>2, <2>5, <2>7, ClosesStep
<1> QED
  BY <1>1, <1>2

\* Stopping, failing and asking for more answers.
LEMMA StoppingCloses ==
    ASSUME WellShaped(prog), CInv, IInv, Fail \/ Stop \/ MoreAnswers
    PROVE  CInv'
<1>1. CASE Fail
  <2>1. UNCHANGED <<reg, stk, trail, prog, hist>> /\ status' # "run"
    BY <1>1 DEF Fail, Fails
  <2> QED
    BY <2>1, StopsClose
<1>2. CASE Stop
  <2>1. UNCHANGED <<reg, stk, trail, prog, hist>> /\ status' # "run"
    BY <1>2 DEF Stop
  <2> QED
    BY <2>1, StopsClose
<1>3. CASE MoreAnswers
  <2>1. /\ reg' = [reg EXCEPT !.p = FailCode]
        /\ stk' = stk /\ prog' = prog /\ snaps' = snaps
    BY <1>3 DEF MoreAnswers, hist
  <2>2. Code[FailCode].op = "fail"
    BY Limits DEF FailCode, Boot, Op
  <2>3. reg'.p = FailCode
    BY <2>1 DEF IInv, Registers
  <2>4. I'.op = "fail"
    BY <2>1, <2>2, <2>3 DEF I, Code
  <2>5. ~IsLive'
    BY <2>4 DEF IsLive, Halting
  <2>6. Prepared(stk, snaps)
    BY DEF CInv, Prepared
  <2> QED
    BY <2>1, <2>5, <2>6, ClosesStep
<1> QED
  BY <1>1, <1>2, <1>3

\* Between queries there is nothing to come back to.
LEMMA EndQueryCloses ==
    ASSUME EndQuery
    PROVE  CInv'
<1>1. status' = "idle" /\ snaps' = <<>> /\ prog' = prog
  BY DEF EndQuery
<1>2. ~IsLive'
  BY <1>1 DEF IsLive
<1>3. Prepared(stk', snaps')
  BY <1>1 DEF Prepared
<1> QED
  BY <1>1, <1>2, <1>3, ClosesStep

\* Nothing runs when the program is loaded.
LEMMA InitCloses ==
    ASSUME Init
    PROVE  CInv
<1>1. status = "idle" /\ snaps = <<>>
  BY DEF Init
<1> QED
  BY <1>1 DEF CInv, IsLive

\* In the record of the module the predicates that it extends have no code.
LEMMA RootOpen ==
    ASSUME ClosuresShaped(prog), WellShaped(prog), NEW m, Rooted(m),
           NEW y \in 1 .. Links(m, ModuleIP)
    PROVE  CodeHomes[m[ModuleIP - 2 * y].v] = NoTable
<1>1. <<ModuleIP>>[1] = ModuleIP /\ \A j \in 1 .. 1 - 1 : FALSE
  OBVIOUS
<1>2. NextClause(m, <<ModuleIP>>, 1, y)
  BY <1>1 DEF Rooted, Record
<1>3. m[ModuleIP - 2 * y].v = FailCode
  BY <1>1, <1>2 DEF NextClause
<1> QED
  BY <1>3, FixedOpen

\* A query starts with the record of the module alone.
LEMMA StartQueryCloses ==
    ASSUME WellShaped(prog), ClosuresShaped(prog), IInv, NEW g \in prog.queries, StartQuery(g)
    PROVE  CInv'
<1> DEFINE r == [reg EXCEPT !.p = SolveCode, !.cp = ProceedCode, !.a1 = g]
           cx == <<ModuleIP>>
<1>1. /\ Memory(stk, trail, snaps) /\ Registers(reg, snaps) /\ Idle
  BY DEF IInv, StartQuery
<1>2. PICK d : d = Caller(r)
  OBVIOUS
<1>3. /\ reg' = r /\ calls' = <<d>> /\ stk' = stk /\ prog' = prog /\ snaps' = <<>>
      /\ ctx' = cx /\ ctx = cx
  BY <1>1, <1>2 DEF StartQuery, Idle
<1>4. r.p = SolveCode
  BY <1>1 DEF Registers
<1>5. Len(d.ctx) = 1
  BY <1>2, <1>3 DEF Caller
<1> HIDE DEF r
<1>6. Len(cx) = 1 /\ cx[1] = ModuleIP
  OBVIOUS
<1> HIDE DEF cx
<1>7. Rooted(stk)
  BY <1>1 DEF Memory
<1>8. Implications(stk, cx)
  <2>1. ASSUME NEW y \in 1 .. Links(stk, cx[1]) PROVE NextHome(stk, cx, 1, y)
    <3>1. CodeHomes[stk[cx[1] - 2 * y].v] = NoTable
      BY <1>6, <1>7, RootOpen
    <3> QED
      BY <3>1 DEF NextHome
  <2>2. \A k \in 1 .. Len(cx) : k = 1
    BY <1>6
  <2>3. \A k \in 2 .. Len(cx) : FALSE
    BY <1>6
  <2> QED
    BY <2>1, <2>2, <2>3 DEF Implications
<1>9. CodeHomes[SolveCode] = NoTable /\ ~ShapeAt(SolveCode).own
  BY FixedOpen
<1>10. PICK cs : cs = <<d>>
  OBVIOUS
<1>11. Len(cs) = 1 /\ cs[1] = d
  BY <1>10
<1>12. Lending(stk, cs, cx)
  <2>1. \A j \in 2 .. Len(cs) : FALSE
    BY <1>11
  <2> QED
    BY <1>5, <1>11, <2>1 DEF Lending
<1>13. Closures(stk, r.e, r.ci, cs, cx, r.p) /\ Enclosed(stk, r, r.p)
  BY <1>4, <1>8, <1>9, <1>12 DEF Closures, ComesFrom, Enclosed
<1>14. Prepared(stk, snaps')
  BY <1>3 DEF Prepared
<1> QED
  BY <1>3, <1>10, <1>13, <1>14, ClosesStep


-----------------------------------------------------------------------------
\* Every step keeps what the clauses of implications rely upon.
LEMMA SolvesClose ==
    ASSUME WellShaped(prog), ClosuresShaped(prog), IInv, CInv,
           \/ SolveAnd \/ SolveOr \/ SolveSome \/ SolveAll \/ SolveTrue
           \/ SolveCut \/ SolveNot \/ SolveAtom \/ SolveFail \/ SolveStop
    PROVE  CInv'
<1>1. CASE SolveAnd \/ SolveAll
  BY <1>1, SolvePartsClose
<1>2. CASE SolveOr \/ SolveNot
  BY <1>2, SolveChoosesCloses
<1>3. CASE SolveTrue \/ SolveCut
  BY <1>3, SolvedClose
<1>4. CASE SolveAtom
  BY <1>4, SolveAtomCloses
<1>5. CASE SolveSome \/ SolveStop \/ SolveFail
  BY <1>5, SolvesOnClose
<1> QED
  BY <1>1, <1>2, <1>3, <1>4, <1>5

\* The instructions that try clauses, cut and unify.
LEMMA TryingCloses ==
    ASSUME WellShaped(prog), ClosuresShaped(prog), IInv, CInv,
           \/ TryMeElse \/ TryElse \/ Try
           \/ RetryMeElse \/ RetryElse \/ Retry
           \/ TrustMe \/ Trust \/ TrustExt
           \/ SwitchOnReg \/ SwitchOnTerm \/ SwitchOnConstant \/ Fail \/ Backtrack
           \/ NeckCut \/ Cut \/ Unify
    PROVE  CInv'
<1>1. CASE TryMeElse \/ TryElse \/ Try
  BY <1>1, TriesClose
<1>2. CASE RetryMeElse \/ RetryElse \/ Retry
  BY <1>2, RetriesClose
<1>3. CASE TrustMe \/ Trust
  BY <1>3, LastsClose
<1>4. CASE TrustExt
  BY <1>4, TrustExtCloses
<1>5. CASE SwitchOnReg \/ SwitchOnTerm \/ SwitchOnConstant
  BY <1>5, SwitchesClose
<1>6. CASE Fail
  BY <1>6, StoppingCloses
<1>7. CASE Backtrack
  BY <1>7, BacktrackCloses
<1>8. CASE NeckCut \/ Cut
  BY <1>8, CutsClose
<1>9. CASE Unify
  BY <1>9, UnifyCloses
<1> QED
  BY <1>1, <1>2, <1>3, <1>4, <1>5, <1>6, <1>7, <1>8, <1>9

\* Every step keeps it.
LEMMA StepsClose ==
    ASSUME WellShaped(prog), ClosuresShaped(prog), IInv, CInv, [Next]_vars
    PROVE  CInv'
<1>1. CASE UNCHANGED vars
  <2>1. UNCHANGED <<prog, reg, stk, trail, status, calls, snaps, live, ctx>>
    BY <1>1 DEF vars
  <2>2. IsLive' => IsLive
    BY <2>1 DEF IsLive, I, Code, Alternatives, Halting
  <2> QED
    BY <2>1, <2>2, ClosesStep DEF CInv, Prepared
<1>2. CASE \/ MoreAnswers \/ EndQuery \/ \E g \in prog.queries : StartQuery(g)
  BY <1>2, StoppingCloses, EndQueryCloses, StartQueryCloses
<1>3. CASE Step
  <2>1. CASE Allocate \/ Deallocate
    BY <2>1, AllocateCloses, DeallocateCloses
  <2>2. CASE \/ PutVariable \/ TagVariable \/ TagExists \/ SetUnivTag
             \/ GetVariable \/ InitVariable \/ GetLevel
    BY <2>2, VariablesClose
  <2>3. CASE IncrUniverse \/ DecrUniverse \/ ToRegister \/ PutLevel \/ PutGoal
    BY <2>3, RegistersCloses
  <2>4. CASE PushImplPoint
    BY <2>4, PushImplPointCloses
  <2>5. CASE PopImplPoint
    BY <2>5, PopImplPointCloses
  <2>6. CASE CallLabel \/ CallName
    BY <2>6, CallsClose
  <2>7. CASE Execute \/ ExecuteName
    BY <2>7, ExecutesClose
  <2>8. CASE Proceed
    BY <2>8, ProceedCloses
  <2>9. CASE \/ TryMeElse \/ TryElse \/ Try
             \/ RetryMeElse \/ RetryElse \/ Retry
             \/ TrustMe \/ Trust \/ TrustExt
             \/ SwitchOnReg \/ SwitchOnTerm \/ SwitchOnConstant \/ Fail \/ Backtrack
             \/ NeckCut \/ Cut \/ Unify
    BY <2>9, TryingCloses
  <2>10. CASE \/ SolveAnd \/ SolveOr \/ SolveSome \/ SolveAll \/ SolveTrue
              \/ SolveCut \/ SolveNot \/ SolveAtom \/ SolveFail \/ SolveStop
    BY <2>10, SolvesClose
  <2>11. CASE Stop
    BY <2>11, StoppingCloses
  <2> QED
    BY <1>3, <2>1, <2>2, <2>3, <2>4, <2>5, <2>6, <2>7, <2>8, <2>9, <2>10, <2>11, NoImports DEF Step
<1> QED
  BY <1>1, <1>2, <1>3 DEF Next

\* The second inductive invariant: what the clauses of implications rely upon,
\* for programs whose clauses read only what is lent to them.
THEOREM ClosuresInvariant ==
    Spec => [](WellShaped(prog) /\ ClosuresShaped(prog) => CInv)
<1> DEFINE J == WellShaped(prog) /\ ClosuresShaped(prog) => IInv /\ CInv
<1>1. Init => J
  BY InitIInv, InitCloses
<1>2. J /\ [Next]_vars => J'
  <2> SUFFICES ASSUME J, [Next]_vars, WellShaped(prog)', ClosuresShaped(prog)'
               PROVE  IInv' /\ CInv'
    OBVIOUS
  <2>1. WellShaped(prog)' <=> WellShaped(prog)
    BY KeepsProg DEF WellShaped
  <2>2. ClosuresShaped(prog)' <=> ClosuresShaped(prog)
    <3>1. prog' = prog
      BY KeepsProg
    <3> QED
      BY ONLY <3>1 DEF ClosuresShaped
  <2> QED
    BY <2>1, <2>2, StepsKeep, StepsClose
<1> HIDE DEF J
<1>3. Spec => []J
  BY <1>1, <1>2, PTL DEF Spec
<1>4. J => (WellShaped(prog) /\ ClosuresShaped(prog) => CInv)
  BY DEF J
<1> QED
  BY <1>3, <1>4, PTL

\* A record that a program context has above the first was pushed by one of the
\* clauses that wait for their calls, or by the one that runs.
LEMMA SomeonePushed ==
    ASSUME NEW cs, NEW cx, NEW q, Between(cs, cx, q), Len(cs[1].ctx) = 1,
           NEW k \in 2 .. Len(cs[Len(cs)].ctx)
    PROVE  \E j \in 2 .. Len(cs) : \E i \in 1 .. Len(CodePushes[cs[j].ret]) :
              k = Len(cs[j - 1].ctx) + i
<1> DEFINE S == {j \in 1 .. Len(cs) : k <= Len(cs[j].ctx)}
<1>1. Len(cs) \in Nat \ {0} /\ \A j \in 1 .. Len(cs) : Len(cs[j].ctx) \in Nat \ {0}
  BY PushedAre DEF Between
<1>2. Len(cs) \in S /\ S \subseteq Nat
  BY <1>1
<1>3. PICK j \in S : \A i \in S : j <= i
  <2> HIDE DEF S
  <2> QED
    BY <1>2, Least
<1>4. j \in 2 .. Len(cs)
  <2>1. k \in Nat /\ 2 <= k
    BY <1>1
  <2>2. ASSUME j = 1 PROVE FALSE
    <3>1. k <= Len(cs[1].ctx)
      BY <1>3, <2>2
    <3> QED
      BY <2>1, <3>1
  <2> QED
    BY <1>1, <1>3, <2>2
<1>5. PICK a \in Nat, b \in Nat, n \in Nat : /\ a = Len(cs[j - 1].ctx) /\ b = Len(cs[j].ctx)
                                             /\ n = Len(CodePushes[cs[j].ret]) /\ b = a + n
  <2>1. /\ Len(cs[j - 1].ctx) \in Nat /\ Len(CodePushes[cs[j].ret]) \in Nat
        /\ Len(cs[j].ctx) = Len(cs[j - 1].ctx) + Len(CodePushes[cs[j].ret])
    BY <1>4 DEF Between
  <2>2. Len(cs[j].ctx) \in Nat
    BY <1>1, <1>4
  <2> QED
    BY <2>1, <2>2
<1>6. ~(k <= a)
  <2>1. j - 1 \in 1 .. Len(cs) /\ ~(j <= j - 1)
    BY <1>1, <1>4
  <2>2. j - 1 \notin S
    BY <1>3, <2>1
  <2> QED
    BY <1>5, <2>1, <2>2
<1>7. k <= b /\ k \in Nat
  <2>1. k <= Len(cs[j].ctx)
    BY <1>3
  <2>2. k \in Nat
    BY <1>1
  <2> QED
    BY <1>5, <2>1, <2>2
<1>8. k - a \in 1 .. n /\ k = a + (k - a)
  <2>1. k \in Nat /\ ~(k <= a) /\ k <= a + n
    BY <1>5, <1>6, <1>7
  <2> QED
    BY ONLY <2>1, a \in Nat, n \in Nat
<1> QED
  BY <1>4, <1>5, <1>8

\* A call whose environment the chain has waits with the variables it lends.
LEMMA LentAlive ==
    ASSUME Knows, StackEnd \in Nat, Linked(calls), NEW j \in 2 .. Len(calls)
    PROVE  /\ [e |-> calls[j].e, n |-> LiveAt(calls[j].e, calls[j].ret)]
                 \in EnvChain(reg.e, live, reg.cp)
           /\ LiveAt(calls[j].e, calls[j].ret) = ShapeAt(calls[j].ret).n
           /\ Checked(calls[j].ret)
           /\ Suspended(stk, calls[j - 1], calls[j], snaps)
<1> DEFINE s == ShapeAt(reg.p)
           c == calls[Len(calls)]
<1>1. /\ Calls(stk, calls, ctx, snaps) /\ Running(stk, reg, live, c, ctx, snaps, s)
      /\ Registers(reg, snaps) /\ ClosuresShaped(prog)
  BY DEF Knows, Here, View
<1>2. /\ Checked(calls[j].ret) /\ Suspended(stk, calls[j - 1], calls[j], snaps)
  BY <1>1, CallChecksOut
<1>3. /\ Len(calls) \in Nat \ {0} /\ reg.e \in Nat
      /\ \A i \in 1 .. Len(calls) : calls[i].e \in Nat /\ calls[i].e <= reg.e
      /\ \A i \in 2 .. Len(calls) : calls[i].e # StackBeg
  <2>1. PICK m, ps, z : m = stk /\ ps = snaps /\ z = s
    OBVIOUS
  <2>2. Calls(m, calls, ctx, ps) /\ Running(m, reg, live, calls[Len(calls)], ctx, ps, z)
    BY <1>1, <2>1
  <2>3. /\ Len(calls) \in Nat \ {0} /\ reg.e \in Nat
        /\ \A i \in 1 .. Len(calls) : calls[i].e \in Nat /\ calls[i].e <= reg.e
    BY ONLY <2>2, FramesAre
  <2>4. ASSUME NEW i \in 2 .. Len(calls) PROVE calls[i].e # StackBeg
    <3>1. 1 \in 1 .. Len(calls) /\ i \in 1 .. Len(calls) /\ 1 < i
      BY <2>3
    <3>2. calls[1].e = StackBeg /\ calls[1].e < calls[i].e
      BY <1>1, <3>1 DEF Calls
    <3> QED
      BY <2>3, <3>1, <3>2 DEF StackBeg
  <2> QED
    BY ONLY <2>3, <2>4
<1>4. reg.e \in Addr
  BY <1>1 DEF Registers
<1>5. Chained(calls)
  <2>1. \A i \in 1 .. Len(calls) : calls[i].e \in Addr
    BY <1>3, <1>4 DEF Addr, StackBeg
  <2>2. calls[1].e = StackBeg
    BY <1>1 DEF Calls
  <2> QED
    BY <1>3, <2>1, <2>2 DEF Chained
<1>6. \A i \in 2 .. Len(calls) : calls[i - 1].e < calls[i].e
  <2> SUFFICES ASSUME NEW i \in 2 .. Len(calls) PROVE calls[i - 1].e < calls[i].e
    OBVIOUS
  <2>1. i - 1 \in 1 .. Len(calls) /\ i \in 1 .. Len(calls) /\ i - 1 < i
    BY <1>3
  <2> QED
    BY <1>1, <2>1 DEF Calls
<1>7. \/ reg.e = c.e /\ live = LiveAt(reg.e, c.ret)
      \/ /\ stk[reg.e + 1] = W("cp", c.ret) /\ stk[reg.e - 1] = W("ce", c.e)
         /\ c.e < reg.e
  <2>1. AtEnv(stk, reg, live, c, snaps, s)
    BY <1>1 DEF Running
  <2> QED
    BY <2>1 DEF AtEnv, Environment
<1>8. [e |-> calls[j].e, n |-> LiveAt(calls[j].e, calls[j].ret)]
        \in EnvChain(reg.e, live, reg.cp)
  <2>1. calls[j].e # StackBeg
    BY <1>3
  <2> QED
    BY <1>4, <1>5, <1>6, <1>7, <2>1, ChainHas
<1>9. LiveAt(calls[j].e, calls[j].ret) = ShapeAt(calls[j].ret).n
  BY <1>2, <1>3 DEF LiveAt, Suspended, ReturnsTo
<1> QED
  BY <1>2, <1>8, <1>9

\* What a clause of an implication shares with the clause around it is there.
LEMMA ClosureHolds ==
    ASSUME WellShaped(prog), ClosuresShaped(prog), IInv, CInv
    PROVE  ClosureAlive
<1> SUFFICES ASSUME Is("init_variable") \/ Is("init_variable_t")
             PROVE  /\ \E x \in EnvChain(reg.e, live, reg.cp) : x.e = reg.ce /\ I.m <= x.n
                    /\ HasValue(Clenv(I.m))
  BY DEF ClosureAlive
<1> DEFINE t == CodeHomes[reg.p]
           c == calls[Len(calls)]
<1>1. Knows /\ StackEnd \in Nat /\ Linked(calls)
  <2>1. status = "run" /\ I.op \notin Alternatives \cup Halting
    BY DEF Is, Alternatives, Halting
  <2>2. Knows
    BY <2>1, ComesKnowing
  <2>3. Linked(calls)
    BY DEF IInv, Joined, Linked
  <2> QED
    BY <2>2, <2>3, Limits
<1>2. reg.p \in DOMAIN Code /\ t # NoTable
  <2>1. reg.p \in DOMAIN Code /\ Checked(reg.p)
    BY <1>1 DEF Knows, Seen
  <2> QED
    BY <2>1 DEF Checked, Is, I
<1>3. I.m \in Shared(prog, CodeHomes, t)
  <2>1. I = prog.code[reg.p] /\ reg.p \in DOMAIN prog.code
    BY <1>2 DEF I, Code
  <2> QED
    BY <2>1 DEF Shared, Is
<1>4. /\ Closures(stk, reg.e, reg.ci, calls, ctx, reg.p) /\ Enclosed(stk, reg, reg.p)
      /\ Between(calls, ctx, reg.p)
  BY <1>1 DEF Knows
<1>5. PICK k \in 2 .. Len(c.ctx) : reg.ci = ctx[k] /\ stk[ctx[k] + 2].v = t
  BY <1>2, <1>4 DEF Closures, ComesFrom
<1>6. reg.ce = stk[ctx[k]].v
  BY <1>2, <1>4, <1>5 DEF Enclosed
<1>7. Lending(stk, calls, ctx) /\ Len(calls[1].ctx) = 1
  BY <1>4 DEF Closures, Lending
<1>8. PICK j \in 2 .. Len(calls) : \E i \in 1 .. Len(CodePushes[calls[j].ret]) :
         k = Len(calls[j - 1].ctx) + i
  BY ONLY <1>4, <1>5, <1>7, SomeonePushed
<1>i. PICK i \in 1 .. Len(CodePushes[calls[j].ret]) : k = Len(calls[j - 1].ctx) + i
  BY <1>8
<1>9. reg.ce = calls[j].e /\ CodePushes[calls[j].ret][i] = t
  <2>1. Lends(stk, calls[j - 1], calls[j].e, calls[j].ret, ctx)
    BY <1>7 DEF Lending
  <2> QED
    BY <1>5, <1>6, <1>i, <2>1 DEF Lends
<1>10. PICK s, n : s = ShapeAt(calls[j].ret) /\ n = LiveAt(calls[j].e, calls[j].ret)
  OBVIOUS
<1>11. /\ [e |-> calls[j].e, n |-> n] \in EnvChain(reg.e, live, reg.cp)
       /\ n = s.n /\ Checked(calls[j].ret)
       /\ Suspended(stk, calls[j - 1], calls[j], snaps)
  BY <1>1, <1>10, LentAlive
<1>12. I.m \in 1 .. n /\ s.slot[I.m] = "value" /\ n \in Nat
  <2>1. I.m \in 1 .. s.n /\ s.slot[I.m] = "value"
    BY <1>3, <1>9, <1>10, <1>11 DEF Checked, Lent
  <2>2. s.n \in Nat
    BY <1>10, <1>11 DEF Suspended, ReturnsTo
  <2> QED
    BY <1>11, <2>1, <2>2
<1>13. HasValue(Clenv(I.m))
  <2>1. Environment(stk, calls[j - 1], calls[j].e, s)
    BY <1>10, <1>11 DEF Suspended
  <2>2. Slot(stk, calls[j].e + 2 * I.m, "value")
    BY <1>11, <1>12, <2>1 DEF Environment
  <2> QED
    BY <1>9, <2>2 DEF Slot, HasValue, Clenv
<1>14. I.m <= n
  BY <1>12
<1>15. \E x \in EnvChain(reg.e, live, reg.cp) : x.e = reg.ce /\ I.m <= x.n
  <2>1. PICK x : x = [e |-> calls[j].e, n |-> n]
    OBVIOUS
  <2>2. x \in EnvChain(reg.e, live, reg.cp) /\ x.e = reg.ce /\ I.m <= x.n
    BY <1>9, <1>11, <1>14, <2>1
  <2> QED
    BY <2>2
<1> QED
  BY <1>13, <1>15

\* A clause of an implication finds the variables it shares with the clause
\* around it in place, kept and set, whichever calls, backtracking and cuts lie
\* between the pushing of the implication and the call of the clause.
THEOREM ClosuresAlive ==
    Spec => [](WellShaped(prog) /\ ClosuresShaped(prog) => ClosureAlive)
<1>1. /\ WellShaped(prog) => IInv
      /\ WellShaped(prog) /\ ClosuresShaped(prog) => CInv
      => (WellShaped(prog) /\ ClosuresShaped(prog) => ClosureAlive)
  BY ClosureHolds
<1> QED
  BY <1>1, Invariant, ClosuresInvariant, PTL
===============================================================================
