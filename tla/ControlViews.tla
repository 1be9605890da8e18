---------------------------- MODULE ControlViews ----------------------------
(***************************************************************************)
(* Lemmas about the parts of a view of ControlInvariant: the layout of the *)
(* stack, the records of the context, the calls and the environments; and  *)
(* that a view holds in any stack that keeps what it is about; then how a  *)
(* step makes the next view of one.                                        *)
(***************************************************************************)
EXTENDS ControlInvariant, TLAPS

\* The length and the domain of a sequence.
LEMMA SeqIs ==
    ASSUME NEW s, IsSeq(s)
    PROVE  Len(s) \in Nat /\ DOMAIN s = 1 .. Len(s) /\ (s = <<>> <=> Len(s) = 0)
  BY DEF IsSeq

\* A sequence with an element more.
LEMMA AppendIs ==
    ASSUME NEW s, NEW x, IsSeq(s)
    PROVE  /\ IsSeq(Append(s, x)) /\ Len(Append(s, x)) = Len(s) + 1
           /\ \A i \in 1 .. Len(s) : Append(s, x)[i] = s[i]
           /\ Append(s, x)[Len(s) + 1] = x
           /\ Append(s, x) # <<>>
<1> DEFINE R == {s[k] : k \in 1 .. Len(s)}
           z == Append(s, x)
           T == {z[k] : k \in 1 .. Len(z)}
<1>1. s \in Seq(R \cup {x}) /\ Len(s) \in Nat
  BY DEF IsSeq
<1> HIDE DEF R
<1>2. /\ z \in Seq(R \cup {x}) /\ Len(z) = Len(s) + 1
      /\ \A i \in 1 .. Len(s) : z[i] = s[i]
      /\ z[Len(s) + 1] = x
  BY <1>1
<1> HIDE DEF z
<1>3. z \in Seq(T)
  BY <1>1, <1>2
<1>4. z # <<>>
  BY <1>1, <1>2
<1> QED
  BY <1>2, <1>3, <1>4 DEF IsSeq, z

\* The beginning of a sequence.
LEMMA PrefixIs ==
    ASSUME NEW s, IsSeq(s), NEW n \in 0 .. Len(s)
    PROVE  /\ IsSeq(SubSeq(s, 1, n)) /\ Len(SubSeq(s, 1, n)) = n
           /\ \A i \in 1 .. n : SubSeq(s, 1, n)[i] = s[i]
<1> DEFINE R == {s[k] : k \in 1 .. Len(s)}
           z == SubSeq(s, 1, n)
           T == {z[k] : k \in 1 .. Len(z)}
<1>1. s \in Seq(R) /\ Len(s) \in Nat
  BY DEF IsSeq
<1> HIDE DEF R
<1>2. /\ Len(z) = n
      /\ \A i \in 1 .. n : z[i] = s[i]
  BY <1>1
<1>3. z \in Seq(R)
  BY <1>1
<1> HIDE DEF z
<1>4. z \in Seq(T)
  BY <1>1, <1>2, <1>3
<1> QED
  BY <1>2, <1>4 DEF IsSeq, z

\* A new choice point is the last one.
LEMMA PointsGrow ==
    ASSUME NEW ps, NEW d, IsSeq(ps)
    PROVE  Points(Append(ps, d)) = Points(ps) \cup {d.b} /\ LastB(Append(ps, d)) = d.b
<1> DEFINE z == Append(ps, d)
<1>1. /\ Len(ps) \in Nat /\ Len(z) = Len(ps) + 1 /\ z # <<>>
      /\ \A i \in 1 .. Len(ps) : z[i] = ps[i]
      /\ z[Len(ps) + 1] = d
  <2>1. Len(ps) \in Nat
    BY ONLY IsSeq(ps), SeqIs
  <2>2. Len(z) = Len(ps) + 1 /\ z # <<>> /\ z[Len(ps) + 1] = d
    BY ONLY IsSeq(ps), AppendIs
  <2>3. \A i \in 1 .. Len(ps) : z[i] = ps[i]
    BY ONLY IsSeq(ps), AppendIs
  <2> QED
    BY <2>1, <2>2, <2>3
<1> HIDE DEF z
<1>2. Points(z) = Points(ps) \cup {d.b}
  <2>1. Points(z) \subseteq Points(ps) \cup {d.b}
    BY <1>1 DEF Points
  <2>2. ASSUME NEW k \in 1 .. Len(ps) PROVE ps[k].b \in Points(z)
    BY <1>1 DEF Points
  <2>3. d.b \in Points(z)
    BY <1>1 DEF Points
  <2> QED
    BY <2>1, <2>2, <2>3 DEF Points
<1>3. LastB(z) = d.b
  BY <1>1 DEF LastB
<1> QED
  BY <1>2, <1>3 DEF z

\* The code, the stack and the universes of a well-shaped program.
LEMMA Limits ==
    ASSUME WellShaped(prog)
    PROVE  /\ StackEnd \in Nat /\ UCMax \in Nat
           /\ DOMAIN Code = 1 .. Len(Code) /\ Len(Code) \in Nat
           /\ \A q \in 1 .. Len(Boot) : q \in DOMAIN Code /\ Code[q] = Boot[q]
           /\ \A q \in DOMAIN Code : /\ IsShape(ShapeAt(q))
                                     /\ IsFixed(q) => ShapeAt(q) = BootShape(q)
           /\ ~prog.merged
  BY DEF WellShaped, StackEnd, UCMax, Code, ShapeAt, CodeShapes

\* Every table of such a program says how large its record is, and leads to
\* code that may be called.
LEMMA Tabled ==
    ASSUME WellShaped(prog), NEW t \in DOMAIN Tables
    PROVE  /\ Tables[t].segs \in Nat /\ Len(Tables[t].link) \in Nat
           /\ VectorSize(t) \in Nat /\ 2 * Len(Tables[t].link) <= VectorSize(t)
           /\ VectorSize(t) = 2 * Tables[t].segs + 2 * Len(Tables[t].link)
           /\ \A c \in DOMAIN Tables[t].code :
                 /\ Goes(Extended(Len(Tables[t].link)), Tables[t].code[c])
                 /\ Tables[t].code[c] # FailCode
<1>1. TableShaped(prog, CodeShapes, Tables[t])
  BY DEF WellShaped, Tables, CodeShapes, Code
<1>2. Tables[t].segs \in Nat /\ Len(Tables[t].link) \in Nat
  BY <1>1 DEF TableShaped
<1>3. VectorSize(t) = 2 * Tables[t].segs + 2 * Len(Tables[t].link)
  BY DEF VectorSize
<1>4. VectorSize(t) \in Nat
  BY <1>2, <1>3
<1>5. 2 * Len(Tables[t].link) <= VectorSize(t)
  BY <1>2, <1>3
<1> QED
  BY <1>1, <1>2, <1>3, <1>4, <1>5 DEF TableShaped, Goes, Code

-----------------------------------------------------------------------------
\* Words that may change without a record of the context being touched.
Soft(w) == w.f \in {"junk", "free", "bound"}

Intact(m, z, a, b) == \A x \in a .. b - 1 : Soft(m[x]) \/ z[x] = m[x]
Untouched(m, z, cx) ==
    \A k \in 1 .. Len(cx) : Intact(m, z, RecStart(m, cx[k]), RecEnd(cx[k]))

\* Or without an environment losing anything.
Like(w, z) == \/ z = w \/ (w.f = "junk" /\ z.f = "junk")
              \/ w.f = "free" /\ z.f = "bound"

\* A record of the context is one in another stack that differs from the first
\* in soft words, or beside the record, only.
LEMMA RecordAgrees ==
    ASSUME WellShaped(prog), NEW m, NEW z, NEW cx \in Seq(Nat), NEW k \in 1 .. Len(cx),
           Record(m, cx, k), Intact(m, z, RecStart(m, cx[k]), RecEnd(cx[k])),
           \A i \in 1 .. k - 1 : z[cx[i] + 2] = m[cx[i] + 2]
    PROVE  /\ Record(z, cx, k) /\ z[cx[k] + 2] = m[cx[k] + 2]
           /\ RecStart(z, cx[k]) = RecStart(m, cx[k])
           /\ Links(z, cx[k]) = Links(m, cx[k])
<1>0. PICK x, t, start :
         /\ x = cx[k] /\ x \in Nat /\ t = m[x + 2].v
         /\ start = RecStart(m, x) /\ start = x - VectorSize(t)
  BY DEF RecStart
<1>1. t \in DOMAIN Tables /\ m[x + 2].f = "pst" /\ Links(m, x) = Len(Tables[t].link)
  BY <1>0 DEF Record, Links
<1>2. VectorSize(t) \in Nat /\ 2 * Links(m, x) <= VectorSize(t) /\ Links(m, x) \in Nat
  BY <1>1, Tabled
<1>x. x \in Nat /\ start = x - VectorSize(t)
  BY <1>0
<1>b. start \in Int /\ start <= x
  BY <1>x, <1>2
<1>a. \A a \in start .. x + 5 : Soft(m[a]) \/ z[a] = m[a]
  BY <1>0, <1>b DEF Intact, RecEnd, ImpFixSize
<1>3. z[x + 2] = m[x + 2]
  <2>1. x + 2 \in start .. x + 5
    BY <1>x, <1>b
  <2> QED
    BY <1>1, <1>a, <2>1 DEF Soft
<1>4. z[x + 4] = m[x + 4]
  <2>1. m[x + 4].f = "pip"
    BY <1>0 DEF Record, W
  <2>2. x + 4 \in start .. x + 5
    BY <1>x, <1>b
  <2> QED
    BY <1>a, <2>1, <2>2 DEF Soft
<1>5. RecStart(z, x) = RecStart(m, x) /\ Links(z, x) = Links(m, x)
  BY <1>3 DEF RecStart, Links
<1>6. ASSUME NEW y \in 1 .. Links(m, x) PROVE NextClause(z, cx, k, y)
  <2>1. NextClause(m, cx, k, y)
    BY <1>0 DEF Record
  <2>2. x - 2 * y \in start .. x + 5
    BY <1>x, <1>2, <1>b
  <2>5. x - 2 * y + 1 \in start .. x + 5
    BY <1>x, <1>2, <1>b
  <2>3. z[x - 2 * y] = m[x - 2 * y] /\ z[x - 2 * y + 1] = m[x - 2 * y + 1]
    BY <1>0, <2>1, <2>2, <2>5, <1>a DEF NextClause, Soft
  <2>4. \A j \in 1 .. k - 1 : Links(z, cx[j]) = Links(m, cx[j])
    BY DEF Links
  <2> QED
    BY <1>0, <2>1, <2>3, <2>4 DEF NextClause
<1> QED
  BY <1>0, <1>1, <1>3, <1>4, <1>5, <1>6 DEF Record

\* So is a whole context.
LEMMA RecordsAgree ==
    ASSUME WellShaped(prog), NEW m, NEW z, NEW cx, Records(m, cx), Untouched(m, z, cx)
    PROVE  /\ Records(z, cx)
           /\ \A k \in 1 .. Len(cx) : /\ z[cx[k] + 2] = m[cx[k] + 2]
                                      /\ RecStart(z, cx[k]) = RecStart(m, cx[k])
                                      /\ Links(z, cx[k]) = Links(m, cx[k])
<1>1. cx \in Seq(Nat) /\ Len(cx) \in Nat /\ \A k \in 1 .. Len(cx) : cx[k] \in Nat
  BY DEF Records
<1>2. ASSUME NEW k \in 1 .. Len(cx) PROVE z[cx[k] + 2] = m[cx[k] + 2]
  <2>1. Record(m, cx, k) /\ Intact(m, z, RecStart(m, cx[k]), RecEnd(cx[k]))
    BY DEF Records, Untouched
  <2>2. VectorSize(m[cx[k] + 2].v) \in Nat /\ m[cx[k] + 2].f = "pst"
    BY <2>1, Tabled DEF Record
  <2>3. cx[k] + 2 \in RecStart(m, cx[k]) .. RecEnd(cx[k]) - 1
    BY <1>1, <2>2 DEF RecStart, RecEnd, ImpFixSize
  <2> QED
    BY <2>1, <2>2, <2>3 DEF Soft, Intact
<1>3. ASSUME NEW k \in 1 .. Len(cx)
      PROVE  /\ Record(z, cx, k) /\ RecStart(z, cx[k]) = RecStart(m, cx[k])
             /\ Links(z, cx[k]) = Links(m, cx[k])
  <2>1. Record(m, cx, k) /\ Intact(m, z, RecStart(m, cx[k]), RecEnd(cx[k]))
    BY DEF Records, Untouched
  <2>2. \A i \in 1 .. k - 1 : i \in 1 .. Len(cx)
    BY <1>1
  <2>3. \A i \in 1 .. k - 1 : z[cx[i] + 2] = m[cx[i] + 2]
    BY <1>2, <2>2
  <2>4. cx \in Seq(Nat) /\ k \in 1 .. Len(cx)
    BY <1>1
  <2> QED
    BY <2>4, <2>1, <2>3, RecordAgrees, SMTT(30)
<1> QED
  BY <1>1, <1>2, <1>3 DEF Records

-----------------------------------------------------------------------------
\* Where things lie.

\* Where records lie depends on the stack through their sizes alone.
LEMMA LayoutAgrees ==
    ASSUME NEW m, NEW z, NEW fs, NEW tos, NEW cx, NEW ps, Layout(m, fs, tos, cx, ps),
           \A k \in 1 .. Len(cx) : RecStart(z, cx[k]) = RecStart(m, cx[k])
    PROVE  Layout(z, fs, tos, cx, ps)
  BY DEF Layout, Placed

\* Trimming leaves less of the same environments.
LEMMA LayoutTrims ==
    ASSUME WellShaped(prog), NEW m, NEW fs, NEW gs, NEW tos, NEW cx, NEW ps, Layout(m, fs, tos, cx, ps),
           \A f \in gs : f.n \in Nat /\ \E g \in fs : f.e = g.e /\ f.n <= g.n,
           \A f, g \in gs : f.e = g.e => f.n = g.n
    PROVE  Layout(m, gs, tos, cx, ps)
<1>1. ASSUME NEW f, NEW g, f.e = g.e, f.n \in Nat, g.n \in Nat, f.e \in Nat, f.n <= g.n
      PROVE  /\ EnvEnd(f) <= EnvEnd(g) /\ EnvEnd(f) \in Nat /\ EnvEnd(g) \in Nat
  BY <1>1 DEF EnvEnd
<1>2. ASSUME NEW f, NEW g, f.e = g.e, EnvEnd(f) <= EnvEnd(g), EnvEnd(f) \in Nat, EnvEnd(g) \in Nat,
             NEW a \in Nat, NEW y \in Nat, Beside(g, a, y)
      PROVE  Beside(f, a, y)
  BY <1>2 DEF Beside
<1>a. tos \in Nat /\ StackEnd \in Int
  BY Limits DEF Layout, Addr, StackBeg
<1>3. ASSUME NEW f \in gs, NEW g \in fs, f.e = g.e, f.n <= g.n
      PROVE  /\ Placed(m, f, cx, ps) /\ Beside(f, tos, tos)
             /\ f.e \in Nat /\ f.n \in Nat /\ EnvEnd(f) \in Nat
             /\ EnvEnd(f) <= EnvEnd(g) /\ EnvEnd(g) \in Nat
  <2>1. Placed(m, g, cx, ps) /\ Beside(g, tos, tos)
    BY DEF Layout
  <2>2. f.e \in Nat /\ f.n \in Nat /\ g.n \in Nat
    BY <1>3, <2>1 DEF Placed
  <2>3. EnvEnd(f) \in Nat /\ EnvEnd(f) <= EnvEnd(g) /\ EnvEnd(g) \in Nat
    BY <2>2, <1>1, <1>3
  <2>4. Beside(f, tos, tos)
    BY <2>1, <2>3, <1>2, <1>3, <1>a
  <2>5. \A k \in 1 .. Len(cx) : Beside(f, RecStart(m, cx[k]), RecEnd(cx[k]))
    BY <2>1, <2>3, <1>2, <1>3 DEF Layout, Placed
  <2>6. \A k \in 1 .. Len(ps) : Beside(f, ps[k].base, ps[k].b + 1)
    BY <2>1, <2>3, <1>2, <1>3 DEF Layout, Placed
  <2>7. EnvEnd(f) <= StackEnd + 1 /\ FstCP < f.e - 2
    BY <2>1, <2>3, <1>3, <1>a DEF Placed
  <2> QED
    BY <2>2, <2>3, <2>4, <2>5, <2>6, <2>7 DEF Placed
<1>4. ASSUME NEW f \in gs, NEW g \in gs
      PROVE  (f.e = g.e /\ f.n = g.n) \/ Beside(f, g.e - 2, EnvEnd(g))
  <2>1. PICK f1 \in fs : f.e = f1.e /\ f.n <= f1.n
    OBVIOUS
  <2>2. PICK g1 \in fs : g.e = g1.e /\ g.n <= g1.n
    OBVIOUS
  <2>3. /\ Placed(m, f, cx, ps) /\ f.e \in Nat /\ EnvEnd(f) \in Nat
        /\ EnvEnd(f) <= EnvEnd(f1) /\ EnvEnd(f1) \in Nat
    BY <1>3, <2>1
  <2>4. /\ Placed(m, g, cx, ps) /\ g.e \in Nat /\ EnvEnd(g) \in Nat
        /\ EnvEnd(g) <= EnvEnd(g1) /\ EnvEnd(g1) \in Nat
    BY <1>3, <2>2
  <2>5. (f1.e = g1.e /\ f1.n = g1.n) \/ Beside(f1, g1.e - 2, EnvEnd(g1))
    BY DEF Layout
  <2>6. CASE f.e = g.e
    BY <2>6
  <2>7. CASE f.e # g.e
    BY <2>1, <2>2, <2>3, <2>4, <2>5, <2>7 DEF Beside
  <2> QED
    BY <2>6, <2>7
<1>5. \A f \in gs : Placed(m, f, cx, ps) /\ Beside(f, tos, tos)
  BY <1>3
<1> QED
  BY <1>4, <1>5 DEF Layout

\* The end of the stack in use, tos being the end of its records.
Frontier(e, n, tos) == IF tos > e THEN tos ELSE e + 2 + 2 * n

\* Frames in their order: the one of the newest environment is the highest.
Topped(e, fs) == \A f \in fs : f.e <= e

\* The frontier is past everything that is in use.
LEMMA FrontierBounds ==
    ASSUME WellShaped(prog), NEW m, NEW fs, NEW tos, NEW cx, NEW ps,
           Layout(m, fs, tos, cx, ps), NEW e \in Nat, NEW n, Topped(e, fs),
           e = StackBeg \/ [e |-> e, n |-> n] \in fs,
           0 < tos
    PROVE  /\ Frontier(e, n, tos) \in Nat /\ tos <= Frontier(e, n, tos)
           /\ \A f \in fs : EnvEnd(f) <= Frontier(e, n, tos)
           /\ Frontier(e, n, tos) <= StackEnd + 1
<1> DEFINE F == Frontier(e, n, tos)
<1>a. tos \in Nat /\ StackEnd \in Nat /\ tos <= StackEnd
  BY Limits DEF Layout, Addr, StackBeg
<1>b. ASSUME NEW f \in fs
      PROVE  /\ f.e \in Nat /\ f.n \in Nat /\ EnvEnd(f) \in Nat /\ f.e <= e
             /\ Beside(f, tos, tos) /\ f.e < EnvEnd(f)
  <2>1. f.e \in Nat /\ f.n \in Nat /\ f.e <= e /\ Beside(f, tos, tos)
    BY DEF Layout, Placed, Topped
  <2>2. EnvEnd(f) \in Nat /\ f.e < EnvEnd(f)
    BY <2>1 DEF EnvEnd
  <2> QED
    BY <2>1, <2>2
<1>1. CASE tos > e
  <2>1. F = tos
    BY <1>1 DEF Frontier
  <2>2. \A f \in fs : EnvEnd(f) <= tos
    BY <1>a, <1>b, <1>1 DEF Beside
  <2> QED
    BY <2>1, <2>2, <1>a
<1>2. CASE ~(tos > e)
  <2>1. e # StackBeg /\ [e |-> e, n |-> n] \in fs
    BY <1>2, <1>a DEF StackBeg
  <2> DEFINE g == [e |-> e, n |-> n]
  <2>2. g \in fs /\ g.e = e /\ g.n = n /\ EnvEnd(g) = e + 2 + 2 * n
    BY <2>1 DEF EnvEnd
  <2>3. F = EnvEnd(g)
    BY <1>2, <2>2 DEF Frontier
  <2> HIDE DEF g
  <2>4. EnvEnd(g) \in Nat /\ e < EnvEnd(g) /\ EnvEnd(g) <= StackEnd + 1
    BY <2>2, <1>b DEF Layout, Placed
  <2>5. ASSUME NEW f \in fs PROVE EnvEnd(f) <= EnvEnd(g)
    <3>1. (f.e = g.e /\ f.n = g.n) \/ Beside(f, g.e - 2, EnvEnd(g))
      BY <2>2 DEF Layout
    <3>2. CASE f.e = g.e /\ f.n = g.n
      BY <3>2, <2>4 DEF EnvEnd
    <3>3. CASE Beside(f, g.e - 2, EnvEnd(g))
      BY <3>3, <1>b, <2>2, <2>4 DEF Beside
    <3> QED
      BY <3>1, <3>2, <3>3
  <2>6. tos <= EnvEnd(g)
    BY <1>2, <1>a, <2>4
  <2> HIDE DEF F
  <2>7. F \in Nat /\ tos <= F /\ F <= StackEnd + 1
    BY <2>3, <2>4, <2>6
  <2>8. \A f \in fs : EnvEnd(f) <= F
    BY <2>3, <2>5
  <2> QED
    BY <2>7, <2>8 DEF F
<1> QED
  BY <1>1, <1>2

\* Records and choice points go, and the stack ends elsewhere.
LEMMA LayoutPops ==
    ASSUME NEW m, NEW fs, NEW tos, NEW cx, NEW ps, Layout(m, fs, tos, cx, ps),
           Len(cx) \in Nat, Len(ps) \in Nat,
           NEW cz, Len(cz) \in 0 .. Len(cx), \A k \in 1 .. Len(cz) : cz[k] = cx[k],
           NEW pz, Len(pz) \in 0 .. Len(ps), \A k \in 1 .. Len(pz) : pz[k] = ps[k],
           NEW end \in Addr, \A f \in fs : Beside(f, end, end),
           \A k \in 1 .. Len(cz) : RecEnd(cz[k]) <= end,
           \A k \in 1 .. Len(pz) : pz[k].b < end
    PROVE  Layout(m, fs, end, cz, pz)
<1>1. \A k \in 1 .. Len(cz) : k \in 1 .. Len(cx) /\ cz[k] = cx[k]
  OBVIOUS
<1>2. \A k \in 1 .. Len(pz) : k \in 1 .. Len(ps) /\ pz[k] = ps[k]
  OBVIOUS
<1> QED
  BY <1>1, <1>2 DEF Layout, Placed

\* A place to which everything ends.
Reaches(fs, tos, F) == /\ F \in Nat /\ tos <= F
                     /\ \A f \in fs : EnvEnd(f) <= F

\* TOS may be moved up to the frontier.
LEMMA LayoutEndsAt ==
    ASSUME WellShaped(prog), NEW m, NEW fs, NEW tos, NEW cx, NEW ps,
           Layout(m, fs, tos, cx, ps), NEW F \in Addr, Reaches(fs, tos, F)
    PROVE  Layout(m, fs, F, cx, ps)
<1>1. tos \in Nat /\ F \in Nat
  BY Limits DEF Layout, Addr, StackBeg
<1>2. \A f \in fs : Beside(f, F, F)
  BY DEF Beside, Reaches
<1>3. \A k \in 1 .. Len(cx) : RecEnd(cx[k]) <= F
  BY <1>1 DEF Reaches, Layout
<1>4. \A k \in 1 .. Len(ps) : ps[k].b < F
  BY <1>1 DEF Reaches, Layout
<1> QED
  BY <1>2, <1>3, <1>4 DEF Layout, Placed

\* A record laid at the frontier is apart from all the others;
LEMMA LayoutAddsRecord ==
    ASSUME WellShaped(prog), NEW m, NEW fs, NEW tos, NEW cx, NEW ps, NEW F, NEW x \in Nat,
           Layout(m, fs, tos, cx, ps), Reaches(fs, tos, F), cx \in Seq(Nat),
           F <= RecStart(m, x), RecStart(m, x) \in Nat, RecStart(m, x) <= RecEnd(x),
           RecEnd(x) \in Addr
    PROVE  Layout(m, fs, RecEnd(x), Append(cx, x), ps)
<1> DEFINE cz == Append(cx, x)
<1>1. /\ Len(cz) = Len(cx) + 1 /\ Len(cx) \in Nat /\ cz[Len(cx) + 1] = x
      /\ \A k \in 1 .. Len(cx) : cz[k] = cx[k]
  OBVIOUS
<1> HIDE DEF cz
<1>2. RecEnd(x) \in Nat /\ tos \in Nat /\ F \in Nat
  BY Limits DEF Layout, Addr, StackBeg, Reaches
<1>b. F <= RecEnd(x)
  BY <1>2
<1>3. ASSUME NEW f \in fs PROVE Placed(m, f, cz, ps) /\ Beside(f, RecEnd(x), RecEnd(x))
  <2>1. Placed(m, f, cx, ps) /\ EnvEnd(f) <= F
    BY DEF Layout, Reaches
  <2>4. EnvEnd(f) \in Nat
    <3>1. f.e \in Nat /\ f.n \in Nat
      BY <2>1 DEF Placed
    <3> QED
      BY ONLY <3>1 DEF EnvEnd
  <2>2. Beside(f, RecStart(m, x), RecEnd(x)) /\ Beside(f, RecEnd(x), RecEnd(x))
    BY <1>2, <1>b, <2>1, <2>4 DEF Beside
  <2>3. \A k \in 1 .. Len(cz) : k \in 1 .. Len(cx) \/ cz[k] = x
    BY <1>1
  <2> QED
    BY <1>1, <2>1, <2>2, <2>3 DEF Placed
<1>4. ASSUME NEW k \in 1 .. Len(cz)
      PROVE  /\ RecStart(m, cz[k]) \in Nat /\ RecEnd(cz[k]) \in Nat /\ RecEnd(cz[k]) <= RecEnd(x)
             /\ \A l \in 1 .. Len(ps) : RecEnd(cz[k]) <= ps[l].base \/ ps[l].b < RecStart(m, cz[k])
  <2>1. CASE k = Len(cx) + 1
    <3>1. cz[k] = x
      BY <2>1, <1>1
    <3>2. \A l \in 1 .. Len(ps) : ps[l].b < RecStart(m, x)
      BY <1>2 DEF Layout, Reaches
    <3> QED
      BY <3>1, <3>2, <1>2
  <2>2. CASE k # Len(cx) + 1
    <3>1. k \in 1 .. Len(cx) /\ cz[k] = cx[k]
      BY <2>2, <1>1
    <3>2. RecEnd(cz[k]) <= tos /\ RecEnd(cz[k]) \in Nat
      BY <3>1 DEF Layout
    <3>3. RecEnd(cz[k]) <= RecEnd(x)
      BY <3>2, <1>2, <1>b DEF Reaches
    <3> QED
      BY <3>1, <3>2, <3>3 DEF Layout
  <2> QED
    BY <2>1, <2>2
<1>5. \A k \in 1 .. Len(ps) : ps[k].b < RecEnd(x)
  BY <1>2, <1>b DEF Layout, Reaches
<1>6. Layout(m, fs, RecEnd(x), cz, ps)
  BY <1>3, <1>4, <1>5 DEF Layout
<1> QED
  BY <1>6 DEF cz

\* so is a choice point;
LEMMA LayoutAddsChoice ==
    ASSUME WellShaped(prog), NEW m, NEW fs, NEW tos, NEW cx, NEW ps, NEW F, NEW d,
           Layout(m, fs, tos, cx, ps), Reaches(fs, tos, F), IsSeq(ps),
           F <= d.base, d.base \in Nat, d.base <= d.b + 1, d.b \in Nat, d.b + 1 \in Addr
    PROVE  Layout(m, fs, d.b + 1, cx, Append(ps, d))
<1> DEFINE pz == Append(ps, d)
<1>1. /\ Len(pz) = Len(ps) + 1 /\ Len(ps) \in Nat /\ pz[Len(ps) + 1] = d
      /\ \A k \in 1 .. Len(ps) : pz[k] = ps[k]
  BY AppendIs, SeqIs
<1> HIDE DEF pz
<1>2. tos \in Nat /\ F \in Nat
  BY Limits DEF Layout, Addr, StackBeg, Reaches
<1>b. F <= d.b + 1
  BY <1>2
<1>c. \A k \in 1 .. Len(pz) : k \in 1 .. Len(ps) \/ pz[k] = d
  BY <1>1
<1>3. ASSUME NEW f \in fs PROVE Placed(m, f, cx, pz) /\ Beside(f, d.b + 1, d.b + 1)
  <2>1. Placed(m, f, cx, ps) /\ EnvEnd(f) <= F
    BY DEF Layout, Reaches
  <2>4. EnvEnd(f) \in Nat
    BY <2>1 DEF Placed, EnvEnd
  <2>2. Beside(f, d.base, d.b + 1) /\ Beside(f, d.b + 1, d.b + 1)
    BY <1>2, <1>b, <2>1, <2>4 DEF Beside
  <2> QED
    BY <1>1, <1>c, <2>1, <2>2 DEF Placed
<1>4. ASSUME NEW k \in 1 .. Len(pz)
      PROVE  /\ pz[k].base \in Nat /\ pz[k].b \in Nat /\ pz[k].b < d.b + 1
             /\ \A l \in 1 .. Len(cx) : RecEnd(cx[l]) <= pz[k].base \/ pz[k].b < RecStart(m, cx[l])
  <2>1. CASE k = Len(ps) + 1
    <3>1. pz[k] = d
      BY <2>1, <1>1
    <3>2. \A l \in 1 .. Len(cx) : RecEnd(cx[l]) <= d.base
      BY <1>2 DEF Layout, Reaches
    <3> QED
      BY <3>1, <3>2, <1>2
  <2>2. CASE k # Len(ps) + 1
    <3>1. k \in 1 .. Len(ps) /\ pz[k] = ps[k]
      BY <2>2, <1>1
    <3>2. pz[k].b < tos /\ pz[k].b \in Nat
      BY <3>1 DEF Layout
    <3>3. pz[k].b < d.b + 1
      BY <3>2, <1>2, <1>b DEF Reaches
    <3> QED
      BY <3>1, <3>2, <3>3 DEF Layout
  <2> QED
    BY <2>1, <2>2
<1>5. \A k \in 1 .. Len(cx) : RecEnd(cx[k]) <= d.b + 1
  BY <1>2, <1>b DEF Layout, Reaches
<1>6. Layout(m, fs, d.b + 1, cx, pz)
  BY <1>3, <1>4, <1>5 DEF Layout
<1> QED
  BY <1>6 DEF pz

\* so is an environment.
LEMMA LayoutAddsFrame ==
    ASSUME WellShaped(prog), NEW m, NEW fs, NEW tos, NEW cx, NEW ps, NEW F, NEW g,
           Layout(m, fs, tos, cx, ps), Reaches(fs, tos, F),
           F < g.e - 2, g.e \in Nat, g.n \in Nat, EnvEnd(g) <= StackEnd + 1, FstCP <= F
    PROVE  Layout(m, fs \cup {g}, tos, cx, ps)
<1>1. tos \in Nat /\ F \in Nat
  BY Limits DEF Layout, Addr, StackBeg, Reaches
<1>2. \A k \in 1 .. Len(cx) : Beside(g, RecStart(m, cx[k]), RecEnd(cx[k]))
  BY <1>1 DEF Layout, Reaches, Beside
<1>3. \A k \in 1 .. Len(ps) : Beside(g, ps[k].base, ps[k].b + 1)
  <2>1. \A k \in 1 .. Len(ps) : ps[k].b + 1 <= g.e - 2
    BY <1>1 DEF Layout, Reaches
  <2> QED
    BY <2>1 DEF Beside
<1>4. Beside(g, tos, tos)
  BY <1>1 DEF Reaches, Beside
<1>5. Placed(m, g, cx, ps)
  BY <1>1, <1>2, <1>3 DEF Placed, FstCP
<1>6. \A f \in fs : Beside(f, g.e - 2, EnvEnd(g)) /\ Beside(g, f.e - 2, EnvEnd(f))
  <2>1. ASSUME NEW f \in fs PROVE EnvEnd(f) <= g.e - 2
    <3>1. EnvEnd(f) <= F /\ f.e \in Nat /\ f.n \in Nat
      BY DEF Layout, Reaches, Placed
    <3>2. EnvEnd(f) \in Nat
      BY <3>1 DEF EnvEnd
    <3> QED
      BY <3>1, <3>2, <1>1
  <2> QED
    BY <2>1 DEF Beside
<1> QED
  BY <1>4, <1>5, <1>6 DEF Layout

\* Choice points in their order.
Stacked(ps) ==
    /\ IsSeq(ps)
    /\ \A k \in 1 .. Len(ps) : /\ ps[k].base \in Nat /\ ps[k].b \in Nat
                               /\ FstCP < ps[k].base /\ ps[k].base <= ps[k].b
    /\ \A k \in 1 .. Len(ps), j \in 1 .. Len(ps) : j < k => ps[j].b < ps[k].base

\* What settosreg does to TOS.
TosFor(i, b) == IF i > b THEN RecEnd(i) ELSE b + 1

\* The records of a context lie one above the other.
LEMMA RecordsOrder ==
    ASSUME WellShaped(prog), NEW m, NEW cx, Records(m, cx), NEW k \in 1 .. Len(cx)
    PROVE  /\ cx[k] \in Nat /\ RecEnd(cx[k]) \in Nat /\ RecEnd(cx[k]) <= StackEnd
           /\ RecStart(m, cx[k]) \in Nat /\ FstCP < RecStart(m, cx[k])
           /\ RecStart(m, cx[k]) <= cx[k] /\ cx[k] < RecEnd(cx[k])
           /\ \A j \in 1 .. Len(cx) : j < k => RecEnd(cx[j]) <= RecStart(m, cx[k])
<1>1. Record(m, cx, k) /\ cx[k] \in Nat /\ Len(cx) \in Nat
  BY DEF Records
<1>2. m[cx[k] + 2].v \in DOMAIN Tables
  BY <1>1 DEF Record
<1>3. VectorSize(m[cx[k] + 2].v) \in Nat
  BY <1>2, Tabled
<1>4. RecStart(m, cx[k]) <= cx[k] /\ RecStart(m, cx[k]) \in Int
  BY <1>1, <1>3 DEF RecStart
<1>5. FstCP < RecStart(m, cx[k]) /\ RecEnd(cx[k]) <= StackEnd
  BY <1>1 DEF Record
<1>6. RecStart(m, cx[k]) \in Nat
  BY <1>4, <1>5 DEF FstCP
<1>7. RecEnd(cx[k]) \in Nat /\ cx[k] < RecEnd(cx[k])
  BY <1>1 DEF RecEnd, ImpFixSize
<1>8. \A j \in 1 .. Len(cx) : j < k => RecEnd(cx[j]) <= RecStart(m, cx[k])
  <2>1. \A j \in 1 .. Len(cx) : j < k => j \in 1 .. k - 1
    BY <1>1
  <2> QED
    BY <1>1, <2>1 DEF Record
<1> QED
  BY <1>1, <1>4, <1>5, <1>6, <1>7, <1>8

\* An environment that is beside an interval is beside its end.
LEMMA BesideEnd ==
    ASSUME NEW f, f.e \in Nat, EnvEnd(f) \in Nat, NEW a \in Nat, NEW z \in Nat, a <= z,
           Beside(f, a, z)
    PROVE  Beside(f, z, z)
  BY DEF Beside

\* AM_settosreg, after records or choice points have been dropped: TOS is past
\* what is left, and the environments are still apart.
LEMMA SetsTos ==
    ASSUME WellShaped(prog), NEW m, NEW fs, NEW tos, NEW cx, NEW ps,
           Layout(m, fs, tos, cx, ps), Records(m, cx), Stacked(ps),
           NEW cz, Len(cz) \in 1 .. Len(cx), \A k \in 1 .. Len(cz) : cz[k] = cx[k],
           NEW pz, IsSeq(pz), Len(pz) \in 0 .. Len(ps), \A k \in 1 .. Len(pz) : pz[k] = ps[k]
    PROVE  /\ Layout(m, fs, TosFor(cz[Len(cz)], LastB(pz)), cz, pz)
           /\ LastB(pz) < TosFor(cz[Len(cz)], LastB(pz))
           /\ TosFor(cz[Len(cz)], LastB(pz)) \in Addr /\ LastB(pz) \in Addr
<1> DEFINE c == Len(cz)
           i == cz[Len(cz)]
           b == LastB(pz)
           end == TosFor(i, b)
<1>1. /\ c \in 1 .. Len(cx) /\ i = cx[c] /\ Len(cx) \in Nat /\ c \in Nat /\ Len(pz) \in Nat
      /\ Len(ps) \in Nat /\ i \in Nat
  BY SeqIs DEF Records, Stacked
<1>2. /\ RecEnd(i) \in Nat /\ RecStart(m, i) \in Nat /\ RecEnd(i) <= StackEnd
      /\ FstCP < RecStart(m, i) /\ RecStart(m, i) <= i /\ i < RecEnd(i)
      /\ \A j \in 1 .. Len(cx) : j < c => RecEnd(cx[j]) <= RecStart(m, i)
  BY <1>1, RecordsOrder
<1>3. /\ b \in Nat /\ FstCP <= b
      /\ b = FstCP \/ \E k \in 1 .. Len(ps) : b = ps[k].b
      /\ \A k \in 1 .. Len(pz) : pz[k].b <= b
  <2>1. CASE Len(pz) = 0
    BY <2>1, SeqIs DEF LastB, FstCP
  <2>2. CASE Len(pz) # 0
    <3>1. b = pz[Len(pz)].b /\ Len(pz) \in 1 .. Len(pz) /\ Len(pz) \in 1 .. Len(ps)
      BY <2>2, <1>1, SeqIs DEF LastB
    <3>2. b = ps[Len(pz)].b
      BY <3>1
    <3>3. b \in Nat /\ FstCP <= b
      BY <3>1, <3>2 DEF Stacked, FstCP
    <3>4. ASSUME NEW k \in 1 .. Len(pz) PROVE pz[k].b <= b
      <4>1. k = Len(pz) \/ (k < Len(pz) /\ k \in 1 .. Len(ps) /\ pz[k] = ps[k])
        BY <1>1
      <4>2. CASE k = Len(pz)
        BY <4>2, <3>1, <3>3
      <4>3. CASE k < Len(pz) /\ k \in 1 .. Len(ps) /\ pz[k] = ps[k]
        <5>1. ps[k].b < ps[Len(pz)].base
          BY <4>3, <3>1 DEF Stacked
        <5> QED
          BY <5>1, <4>3, <3>1, <3>2 DEF Stacked
      <4> QED
        BY <4>1, <4>2, <4>3
    <3> QED
      BY <3>1, <3>2, <3>3, <3>4
  <2> QED
    BY <2>1, <2>2
<1> HIDE DEF b
<1>a. tos \in Nat /\ StackEnd \in Nat /\ tos <= StackEnd
  BY Limits DEF Layout, Addr, StackBeg
<1>4. end \in Nat /\ end <= StackEnd /\ b < end /\ RecEnd(i) <= end
  <2>1. CASE i > b
    BY <2>1, <1>1, <1>2, <1>3 DEF TosFor
  <2>2. CASE ~(i > b)
    <3>1. PICK k \in 1 .. Len(ps) : b = ps[k].b
      BY <2>2, <1>1, <1>2, <1>3 DEF FstCP
    <3>2. end = b + 1
      BY <2>2 DEF TosFor
    <3>3. b < tos
      BY <3>1 DEF Layout
    <3>4. RecEnd(i) <= ps[k].base
      BY <1>1, <1>2, <1>3, <2>2, <3>1 DEF Layout
    <3>5. RecEnd(i) <= b
      BY <3>1, <3>4, <1>2, <1>3 DEF Stacked
    <3> HIDE DEF end
    <3> QED
      BY <3>2, <3>3, <3>5, <1>a, <1>2, <1>3
  <2> QED
    BY <2>1, <2>2
<1>f. \A f \in fs : f.e \in Nat /\ EnvEnd(f) \in Nat
  <2>1. \A f \in fs : f.e \in Nat /\ f.n \in Nat
    BY DEF Layout, Placed
  <2> QED
    BY <2>1 DEF EnvEnd
<1>g. RecStart(m, i) <= RecEnd(i)
  BY <1>1, <1>2
<1>5. \A f \in fs : Beside(f, end, end)
  <2>1. CASE i > b
    <3>1. end = RecEnd(i)
      BY <2>1 DEF TosFor
    <3>2. \A f \in fs : Beside(f, RecStart(m, i), RecEnd(i))
      BY <1>1 DEF Layout, Placed
    <3>3. \A f \in fs : Beside(f, RecEnd(i), RecEnd(i))
      BY <1>f, <3>2, <1>2, <1>g, BesideEnd
    <3> QED
      BY <3>1, <3>3
  <2>2. CASE ~(i > b)
    <3>1. PICK k \in 1 .. Len(ps) : b = ps[k].b
      BY <2>2, <1>1, <1>2, <1>3 DEF FstCP
    <3>2. end = b + 1
      BY <2>2 DEF TosFor
    <3>3. \A f \in fs : Beside(f, ps[k].base, b + 1)
      BY <3>1 DEF Layout, Placed
    <3>4. ps[k].base \in Nat /\ ps[k].base <= b + 1 /\ b + 1 \in Nat
      BY <3>1, <1>3 DEF Stacked
    <3>5. \A f \in fs : Beside(f, b + 1, b + 1)
      BY <1>f, <3>3, <3>4, BesideEnd
    <3> QED
      BY <3>2, <3>5
  <2> QED
    BY <2>1, <2>2
<1>6. \A k \in 1 .. Len(cz) : RecEnd(cz[k]) <= end
  <2>1. ASSUME NEW k \in 1 .. Len(cz) PROVE RecEnd(cz[k]) <= end
    <3>1. k \in 1 .. Len(cx) /\ cz[k] = cx[k] /\ (k < c \/ k = c)
      BY <1>1
    <3>2. CASE k = c
      BY <3>2, <1>4
    <3>3. CASE k < c
      <4>1. RecEnd(cx[k]) <= RecStart(m, i) /\ RecEnd(cx[k]) \in Nat
        BY <3>1, <3>3, <1>2, RecordsOrder
      <4> HIDE DEF end, i
      <4>2. RecEnd(cx[k]) <= end
        BY <4>1, <1>1, <1>2, <1>4
      <4> QED
        BY <4>2, <3>1
    <3> QED
      BY <3>1, <3>2, <3>3
  <2> QED
    BY <2>1
<1>7. end \in Addr /\ b \in Addr
  BY <1>3, <1>4, <1>a DEF Addr, StackBeg
<1>8. \A k \in 1 .. Len(pz) : pz[k].b < end
  <2>1. ASSUME NEW k \in 1 .. Len(pz) PROVE pz[k].b < end
    <3>1. k \in 1 .. Len(ps) /\ pz[k] = ps[k] /\ pz[k].b \in Nat /\ pz[k].b <= b
      BY <1>1, <1>3 DEF Stacked
    <3> HIDE DEF end
    <3> QED
      BY <3>1, <1>3, <1>4
  <2> QED
    BY <2>1
<1>9. Layout(m, fs, end, cz, pz)
  <2>1. Len(cz) \in 0 .. Len(cx)
    BY <1>1
  <2> HIDE DEF end
  <2> QED
    BY <2>1, <1>1, <1>5, <1>6, <1>7, <1>8, LayoutPops
<1> QED
  BY <1>4, <1>7, <1>9 DEF b

-----------------------------------------------------------------------------
\* Environments in a stack that has changed elsewhere.

EnvKept(m, z, e, n) == \A a \in e - 2 .. e + 1 + 2 * n : Like(m[a], z[a])

\* A variable is what it was, or has been bound.
LEMMA SlotAgrees ==
    ASSUME NEW m, NEW z, NEW a, NEW kind, Slot(m, a, kind), Like(m[a], z[a]), Like(m[a + 1], z[a + 1])
    PROVE  /\ Slot(z, a, kind)
           /\ kind \in {"level", "goal", "cut"} => z[a] = m[a]
<1>1. z[a + 1].f = "junk"
  BY DEF Slot, Like
<1>2. kind = "none" => z[a].f = "junk"
  BY DEF Slot, Like
<1>3. kind = "value" => z[a].f \in Values
  BY DEF Slot, Like, Values
<1>4. kind \in {"level", "goal", "cut"} => z[a] = m[a]
  BY DEF Slot, Like
<1> QED
  BY <1>1, <1>2, <1>3, <1>4 DEF Slot

\* The levels and the goals in an environment are the same.
SameLevels(m, z, e, s) ==
    \A y \in 1 .. s.n :
       /\ s.slot[y] \in {"level", "cut", "goal"} => z[e + 2 * y] = m[e + 2 * y]
       /\ s.slot[y] = "cut" => z[e + 2] = m[e + 2]

\* So is an environment, which keeps its levels and goals.
LEMMA EnvironmentAgrees ==
    ASSUME NEW m, NEW z, NEW c, NEW e \in Nat, NEW s, s.n \in Nat,
           Environment(m, c, e, s), EnvKept(m, z, e, s.n)
    PROVE  Environment(z, c, e, s) /\ SameLevels(m, z, e, s)
<1>1. /\ Like(m[e + 1], z[e + 1]) /\ Like(m[e - 1], z[e - 1]) /\ Like(m[e - 2], z[e - 2])
  <2>1. e + 1 \in e - 2 .. e + 1 + 2 * s.n
    OBVIOUS
  <2>2. e - 1 \in e - 2 .. e + 1 + 2 * s.n
    OBVIOUS
  <2>3. e - 2 \in e - 2 .. e + 1 + 2 * s.n
    OBVIOUS
  <2> QED
    BY <2>1, <2>2, <2>3 DEF EnvKept
<1>2. z[e + 1] = m[e + 1] /\ z[e - 1] = m[e - 1] /\ z[e - 2] = m[e - 2]
  BY <1>1 DEF Environment, Like, W
<1>3. ASSUME NEW y \in 1 .. s.n
      PROVE  /\ Slot(z, e + 2 * y, s.slot[y])
             /\ s.slot[y] \in {"level", "cut", "goal"} => z[e + 2 * y] = m[e + 2 * y]
  <2>1. Slot(m, e + 2 * y, s.slot[y])
    BY DEF Environment
  <2>2. e + 2 * y \in e - 2 .. e + 1 + 2 * s.n
    OBVIOUS
  <2>3. e + 2 * y + 1 \in e - 2 .. e + 1 + 2 * s.n
    OBVIOUS
  <2>4. Like(m[e + 2 * y], z[e + 2 * y]) /\ Like(m[e + 2 * y + 1], z[e + 2 * y + 1])
    BY <2>2, <2>3 DEF EnvKept
  <2>5. PICK a, kind : a = e + 2 * y /\ kind = s.slot[y]
    OBVIOUS
  <2>6. Slot(m, a, kind) /\ Like(m[a], z[a]) /\ Like(m[a + 1], z[a + 1])
    BY <2>1, <2>4, <2>5
  <2>7. Slot(z, a, kind) /\ (kind \in {"level", "goal", "cut"} => z[a] = m[a])
    BY <2>6, SlotAgrees
  <2> QED
    BY <2>5, <2>7
<1>4. ASSUME NEW y \in 1 .. s.n, s.slot[y] = "cut" PROVE z[e + 2] = m[e + 2]
  <2>1. s.slot[1] = "goal" /\ 1 \in 1 .. s.n
    BY <1>4 DEF Environment
  <2>2. z[e + 2 * 1] = m[e + 2 * 1]
    BY <2>1, <1>3
  <2>3. e + 2 * 1 = e + 2
    OBVIOUS
  <2> QED
    BY <2>2, <2>3
<1> QED
  BY <1>2, <1>3, <1>4 DEF Environment, SameLevels

\* The levels kept in it still name choice points.
LEMMA LevelsAgree ==
    ASSUME NEW m, NEW z, NEW c, NEW e, NEW s, NEW ps, Levels(m, c, e, s, ps),
           SameLevels(m, z, e, s)
    PROVE  Levels(z, c, e, s, ps)
  BY DEF Levels, SameLevels

CallsKept(m, z, cs) == \A j \in 2 .. Len(cs) : EnvKept(m, z, cs[j].e, CallI1(cs[j].ret))

\* The calls still to return, in a stack that keeps their environments.
LEMMA CallsAgree ==
    ASSUME NEW m, NEW z, NEW cs, NEW cx, NEW ps, Calls(m, cs, cx, ps), CallsKept(m, z, cs)
    PROVE  Calls(z, cs, cx, ps)
<1>1. ASSUME NEW j \in 2 .. Len(cs) PROVE Suspended(z, cs[j - 1], cs[j], ps)
  <2> DEFINE c == cs[j - 1]
             d == cs[j]
             s == ShapeAt(d.ret)
  <2>1. Suspended(m, c, d, ps) /\ EnvKept(m, z, d.e, CallI1(d.ret))
    BY DEF Calls, CallsKept
  <2>2. d.e \in Nat
    <3>1. j \in 1 .. Len(cs)
      OBVIOUS
    <3>2. Called(d, cx, ps)
      BY <3>1 DEF Calls
    <3> QED
      BY ONLY <3>2 DEF Called
  <2> HIDE DEF c, d
  <2>3. /\ Environment(m, c, d.e, s) /\ Levels(m, c, d.e, s, ps) /\ Spared(m, c, d, s)
        /\ s.n \in Nat /\ CallI1(d.ret) = s.n
    BY <2>1 DEF Suspended, ReturnsTo
  <2>a. EnvKept(m, z, d.e, s.n)
    BY <2>1, <2>3
  <2>4. Environment(z, c, d.e, s) /\ SameLevels(m, z, d.e, s)
    BY <2>a, <2>2, <2>3, EnvironmentAgrees
  <2> HIDE DEF s
  <2>5. Levels(z, c, d.e, s, ps)
    BY <2>3, <2>4, LevelsAgree
  <2>6. Spared(z, c, d, s)
    BY <2>3, <2>4 DEF Spared, SameLevels
  <2>7. Suspended(z, c, d, ps)
    BY <2>1, <2>4, <2>5, <2>6 DEF Suspended, s
  <2> QED
    BY <2>7 DEF c, d
<1> QED
  BY <1>1 DEF Calls

\* The clause being run, in a stack that keeps its environment.
LEMMA RunningAgrees ==
    ASSUME NEW m, NEW z, NEW r, NEW n, NEW c, NEW cx, NEW ps, NEW s,
           Running(m, r, n, c, cx, ps, s), s.own => EnvKept(m, z, r.e, s.n),
           Len(c.ctx) <= Len(cx), Len(cx) \in Nat, Len(c.ctx) \in Nat,
           \A k \in 1 .. Len(cx) : Links(z, cx[k]) = Links(m, cx[k])
    PROVE  Running(z, r, n, c, cx, ps, s)
<1>0. /\ AtEnv(m, r, n, c, ps, s) /\ InContext(r, c, cx, s) /\ FromRecord(m, r, c, cx, s)
      /\ CutKnown(m, r, c, ps, s) /\ GoalKnown(m, r, s)
  BY DEF Running
<1>1. ASSUME s.own
      PROVE  /\ Environment(z, c, r.e, s) /\ Levels(z, c, r.e, s, ps) /\ SameLevels(m, z, r.e, s)
             /\ s.n \in Nat /\ r.e \in Nat
  <2>1. Environment(m, c, r.e, s) /\ Levels(m, c, r.e, s, ps) /\ r.e \in Nat /\ s.n \in Nat
    BY <1>0, <1>1 DEF AtEnv
  <2>2. EnvKept(m, z, r.e, s.n)
    BY <1>1
  <2>3. Environment(z, c, r.e, s) /\ SameLevels(m, z, r.e, s)
    BY <2>1, <2>2, EnvironmentAgrees
  <2> QED
    BY <2>1, <2>3, LevelsAgree
<1>2. AtEnv(z, r, n, c, ps, s)
  BY <1>0, <1>1 DEF AtEnv
<1>3. FromRecord(z, r, c, cx, s)
  BY <1>0 DEF FromRecord
<1>4. CutKnown(z, r, c, ps, s)
  BY <1>0, <1>1 DEF CutKnown, SameLevels
<1>5. GoalKnown(z, r, s)
  <2>1. ASSUME s.own, 0 < s.n, s.slot[1] = "goal" PROVE z[r.e + 2] = m[r.e + 2]
    <3>1. 1 \in 1 .. s.n
      BY <1>1, <2>1
    <3>2. z[r.e + 2 * 1] = m[r.e + 2 * 1]
      BY <1>1, <2>1, <3>1 DEF SameLevels
    <3>3. r.e + 2 * 1 = r.e + 2
      BY <1>1, <2>1
    <3> QED
      BY <3>2, <3>3
  <2> QED
    BY <1>0, <2>1 DEF GoalKnown
<1> QED
  BY <1>0, <1>2, <1>3, <1>4, <1>5 DEF Running

\* The frames of a view, one by one.
LEMMA FramesAre ==
    ASSUME NEW m, NEW r, NEW n, NEW cs, NEW cx, NEW ps, NEW s,
           Calls(m, cs, cx, ps), Running(m, r, n, cs[Len(cs)], cx, ps, s)
    PROVE  /\ r.e \in Nat /\ Len(cs) \in Nat \ {0}
           /\ \A j \in 1 .. Len(cs) : cs[j].e \in Nat /\ cs[j].e <= r.e
           /\ \A j \in 2 .. Len(cs) : cs[j].e # StackBeg
           /\ s.own => r.e # StackBeg /\ n = s.n
           /\ r.e = StackBeg => Len(cs) = 1 /\ ~s.own
           /\ Topped(r.e, Frames(r.e, n, cs))
           /\ r.e = StackBeg \/ [e |-> r.e, n |-> n] \in Frames(r.e, n, cs)
<1>1. Len(cs) \in Nat \ {0}
  BY SeqIs DEF Calls
<1>2. \A j \in 1 .. Len(cs) : cs[j].e \in Nat
  BY DEF Calls, Called
<1>3. \A j \in 1 .. Len(cs), i \in 1 .. Len(cs) : i < j => cs[i].e < cs[j].e
  BY DEF Calls
<1>4. (~s.own /\ r.e = cs[Len(cs)].e) \/ (s.own /\ cs[Len(cs)].e < r.e /\ r.e \in Nat /\ n = s.n)
  BY DEF Running, AtEnv
<1>5. r.e \in Nat /\ cs[Len(cs)].e <= r.e
  BY <1>1, <1>2, <1>4
<1>6. ASSUME NEW j \in 1 .. Len(cs) PROVE cs[j].e <= r.e
  BY <1>1, <1>2, <1>3, <1>5
<1>7. ASSUME NEW j \in 2 .. Len(cs) PROVE cs[j].e # StackBeg
  <2>1. 1 \in 1 .. Len(cs) /\ j \in 1 .. Len(cs)
    BY <1>1
  <2>2. cs[1].e < cs[j].e
    BY <2>1, <1>3
  <2> QED
    BY <2>1, <2>2, <1>2 DEF StackBeg
<1>8. s.own => r.e # StackBeg /\ n = s.n
  BY <1>1, <1>2, <1>4 DEF StackBeg
<1>9. ASSUME r.e = StackBeg PROVE Len(cs) = 1 /\ ~s.own
  <2>1. ~s.own
    BY <1>8, <1>9
  <2>2. CASE Len(cs) # 1
    <3>1. Len(cs) \in 2 .. Len(cs)
      BY <2>2, <1>1
    <3> QED
      BY <3>1, <1>7, <1>4, <2>1, <1>9
  <2> QED
    BY <2>1, <2>2
<1>10. Topped(r.e, Frames(r.e, n, cs))
  <2>1. ASSUME NEW f \in Frames(r.e, n, cs) PROVE f.e <= r.e
    <3>1. f.e = r.e \/ \E j \in 2 .. Len(cs) : f.e = cs[j].e
      BY DEF Frames
    <3>2. \A j \in 2 .. Len(cs) : j \in 1 .. Len(cs)
      BY <1>1
    <3> QED
      BY <3>1, <3>2, <1>5, <1>6
  <2> QED
    BY <2>1 DEF Topped
<1>11. r.e = StackBeg \/ [e |-> r.e, n |-> n] \in Frames(r.e, n, cs)
  BY DEF Frames
<1> QED
  BY <1>1, <1>2, <1>5, <1>6, <1>7, <1>8, <1>9, <1>10, <1>11

\* The clause that runs without an environment at the bottom is the outermost.
LEMMA OutermostCall ==
    ASSUME NEW m, NEW r, NEW n, NEW cs, NEW cx, NEW ps, NEW s,
           Calls(m, cs, cx, ps), Running(m, r, n, cs[Len(cs)], cx, ps, s), r.e = StackBeg
    PROVE  Len(cs) = 1
<1>1. Len(cs) \in Nat \ {0} /\ \A j \in 1 .. Len(cs) : cs[j].e \in Nat
  BY SeqIs DEF Calls, Called
<1>2. cs[Len(cs)].e <= r.e
  BY <1>1 DEF Running, AtEnv
<1>3. \A i, j \in 1 .. Len(cs) : i < j => cs[i].e < cs[j].e
  BY DEF Calls
<1>4. ~(1 < Len(cs))
  <2>0. SUFFICES ASSUME 1 < Len(cs) PROVE FALSE
    OBVIOUS
  <2>1. 1 \in 1 .. Len(cs) /\ Len(cs) \in 1 .. Len(cs)
    BY <1>1
  <2>2. cs[1].e < cs[Len(cs)].e
    BY <2>1, <1>3, <2>0
  <2> QED
    BY ONLY <2>1, <2>2, <1>1, <1>2, r.e = StackBeg DEF StackBeg
<1>5. PICK l : l = Len(cs)
  OBVIOUS
<1>6. l \in Nat \ {0} /\ ~(1 < l)
  BY ONLY <1>1, <1>4, <1>5
<1>7. l = 1
  BY ONLY <1>6
<1> QED
  BY <1>5, <1>7

FramesKept(m, z, fs) == \A f \in fs : EnvKept(m, z, f.e, f.n)

\* A whole view, in a stack that keeps its records and environments.
LEMMA ViewAgrees ==
    ASSUME WellShaped(prog), NEW m, NEW z, NEW r, NEW n, NEW cs, NEW cx, NEW ps, NEW s,
           View(m, r, n, cs, cx, ps, s), Untouched(m, z, cx),
           FramesKept(m, z, Frames(r.e, n, cs))
    PROVE  View(z, r, n, cs, cx, ps, s)
<1>1. /\ Records(m, cx) /\ Layout(m, Frames(r.e, n, cs), r.tos, cx, ps)
      /\ Calls(m, cs, cx, ps) /\ Running(m, r, n, cs[Len(cs)], cx, ps, s)
  BY DEF View
<1>2. /\ Records(z, cx)
      /\ \A k \in 1 .. Len(cx) : /\ RecStart(z, cx[k]) = RecStart(m, cx[k])
                                 /\ Links(z, cx[k]) = Links(m, cx[k])
  BY <1>1, RecordsAgree
<1>3. Layout(z, Frames(r.e, n, cs), r.tos, cx, ps)
  BY <1>1, <1>2, LayoutAgrees
<1>4. CallsKept(m, z, cs)
  <2>1. ASSUME NEW j \in 2 .. Len(cs) PROVE EnvKept(m, z, cs[j].e, CallI1(cs[j].ret))
    <3>1. [e |-> cs[j].e, n |-> CallI1(cs[j].ret)] \in Frames(r.e, n, cs)
      BY DEF Frames
    <3> QED
      BY <3>1 DEF FramesKept
  <2> QED
    BY <2>1 DEF CallsKept
<1>5. Calls(z, cs, cx, ps)
  BY <1>1, <1>4, CallsAgree
<1>6. Running(z, r, n, cs[Len(cs)], cx, ps, s)
  <2>1. ASSUME s.own PROVE EnvKept(m, z, r.e, s.n)
    <3>1. [e |-> r.e, n |-> s.n] \in Frames(r.e, n, cs)
      BY <1>1, <2>1, FramesAre
    <3> QED
      BY <3>1 DEF FramesKept
  <2>a. Len(cs) \in Nat \ {0}
    BY <1>1, SeqIs DEF Calls
  <2>2. Len(cs) \in 1 .. Len(cs) /\ Len(cx) \in Nat
    BY <1>1, <2>a DEF Records
  <2>3. Len(cs[Len(cs)].ctx) \in 1 .. Len(cx)
    BY <1>1, <2>2 DEF Calls, Called
  <2>4. PICK c : c = cs[Len(cs)]
    OBVIOUS
  <2>5. Running(m, r, n, c, cx, ps, s) /\ Len(c.ctx) <= Len(cx) /\ Len(c.ctx) \in Nat
    BY <1>1, <2>2, <2>3, <2>4
  <2>6. Running(z, r, n, c, cx, ps, s)
    BY <1>2, <2>1, <2>2, <2>5, RunningAgrees
  <2> QED
    BY <2>4, <2>6
<1> QED
  BY <1>2, <1>3, <1>5, <1>6 DEF View

-----------------------------------------------------------------------------
\* The calls, in another context and with other choice points.

\* The calls rely on no more of the context than they had themselves;
LEMMA CallsContext ==
    ASSUME NEW m, NEW cs, NEW cx, NEW ps, Calls(m, cs, cx, ps), NEW cz, Len(cz) \in Nat,
           Len(cs[Len(cs)].ctx) <= Len(cz),
           \A k \in 1 .. Len(cs[Len(cs)].ctx) : cz[k] = cx[k]
    PROVE  Calls(m, cs, cz, ps)
<1>1. Len(cs) \in Nat \ {0}
  BY SeqIs DEF Calls
<1>2. ASSUME NEW j \in 1 .. Len(cs) PROVE Called(cs[j], cz, ps)
  <2>1. Called(cs[j], cx, ps)
    BY DEF Calls
  <2>2. Len(cs[j].ctx) <= Len(cs[Len(cs)].ctx) /\ Len(cs[Len(cs)].ctx) \in Nat
    <3>1. Len(cs) \in 1 .. Len(cs)
      BY <1>1
    <3>2. Len(cs[Len(cs)].ctx) \in Nat /\ Len(cs[j].ctx) \in Nat
      BY <3>1 DEF Calls, Called
    <3>3. CASE j = Len(cs)
      BY <3>2, <3>3
    <3>4. CASE j # Len(cs)
      BY <1>1, <3>1, <3>4 DEF Calls
    <3> QED
      BY <3>2, <3>3, <3>4
  <2>3. Len(cs[j].ctx) \in Nat /\ Len(cs[j].ctx) >= 1 /\ cs[j].i = cx[Len(cs[j].ctx)]
    BY <2>1 DEF Called
  <2>4. Len(cs[j].ctx) \in 1 .. Len(cz) /\ cs[j].i = cz[Len(cs[j].ctx)]
    BY <2>2, <2>3
  <2> QED
    BY <2>1, <2>4 DEF Called
<1> QED
  BY <1>2 DEF Calls

\* and on no choice point above their floor.
LEMMA CallsPoints ==
    ASSUME NEW m, NEW cs, NEW cx, NEW ps, Calls(m, cs, cx, ps), NEW pz,
           Points(ps) \subseteq Nat,
           \A b \in Points(ps) : b <= cs[Len(cs)].floor => b \in Points(pz)
    PROVE  Calls(m, cs, cx, pz)
<1>1. Len(cs) \in Nat \ {0}
  BY SeqIs DEF Calls
<1>2. ASSUME NEW j \in 1 .. Len(cs)
      PROVE  cs[j].floor <= cs[Len(cs)].floor /\ cs[j].floor \in Nat /\ cs[Len(cs)].floor \in Nat
  <2>1. Len(cs) \in 1 .. Len(cs)
    BY <1>1
  <2>2. cs[Len(cs)].floor \in Nat /\ cs[j].floor \in Nat
    BY <2>1 DEF Calls, Called
  <2>3. cs[Len(cs)].floor <= cs[Len(cs)].floor
    BY <2>2
  <2>4. CASE j = Len(cs)
    BY <2>2, <2>3, <2>4
  <2>5. CASE j # Len(cs)
    <3>1. j < Len(cs)
      BY <1>1, <2>5
    <3> QED
      BY <2>1, <2>2, <3>1 DEF Calls
  <2> QED
    BY <2>4, <2>5
<1>3. ASSUME NEW j \in 1 .. Len(cs) PROVE Called(cs[j], cx, pz)
  BY <1>2 DEF Calls, Called
<1>4. ASSUME NEW j \in 2 .. Len(cs) PROVE Suspended(m, cs[j - 1], cs[j], pz)
  <2> DEFINE c == cs[j - 1]
             d == cs[j]
             s == ShapeAt(d.ret)
  <2>1. Suspended(m, c, d, ps) /\ j \in 1 .. Len(cs)
    BY DEF Calls
  <2>2. d.floor <= cs[Len(cs)].floor /\ d.floor \in Nat /\ cs[Len(cs)].floor \in Nat
    BY <2>1, <1>2
  <2> HIDE DEF c, d
  <2>3. Levels(m, c, d.e, s, ps) /\ Spared(m, c, d, s)
    BY <2>1 DEF Suspended
  <2> HIDE DEF s
  <2>4. ASSUME NEW y \in 1 .. s.n, s.slot[y] = "level" PROVE m[d.e + 2 * y].v \in Points(pz)
    <3>1. m[d.e + 2 * y].v \in Points(ps) /\ m[d.e + 2 * y].v <= d.floor
      BY <2>3, <2>4 DEF Levels, Spared
    <3> QED
      BY <3>1, <2>2
  <2>5. ASSUME NEW y \in 1 .. s.n, s.slot[y] = "cut"
        PROVE  CutPoint(pz, c, m[d.e + 2].v, m[d.e + 2 * y].v)
    <3>1. /\ CutPoint(ps, c, m[d.e + 2].v, m[d.e + 2 * y].v)
          /\ m[d.e + 2 * y].v <= d.floor \/ (m[d.e + 2].v \notin Cutters /\ c.floor = FstCP)
      BY <2>3, <2>5 DEF Levels, Spared
    <3>2. CASE m[d.e + 2].v \notin Cutters /\ c.floor = FstCP
      BY <3>2 DEF CutPoint
    <3>3. CASE m[d.e + 2 * y].v \in Points(ps) /\ m[d.e + 2 * y].v <= d.floor /\ c.floor <= m[d.e + 2 * y].v
      <4>1. m[d.e + 2 * y].v \in Points(pz)
        BY <3>3, <2>2
      <4> QED
        BY <4>1, <3>3 DEF CutPoint
    <3> QED
      BY <3>1, <3>2, <3>3 DEF CutPoint
  <2>6. Levels(m, c, d.e, s, pz)
    BY <2>3, <2>4, <2>5 DEF Levels
  <2>7. Suspended(m, c, d, pz)
    BY <2>1, <2>6 DEF Suspended, s
  <2> QED
    BY <2>7 DEF c, d
<1> QED
  BY <1>3, <1>4 DEF Calls

\* A call that returns is taken away,
LEMMA CallsDrop ==
    ASSUME NEW m, NEW cs, NEW cx, NEW ps, Calls(m, cs, cx, ps), Len(cs) > 1
    PROVE  /\ Calls(m, Init1(cs), cx, ps) /\ Len(Init1(cs)) = Len(cs) - 1
           /\ Len(cs) \in Nat
           /\ \A j \in 1 .. Len(cs) - 1 : Init1(cs)[j] = cs[j]
<1>1. Len(cs) \in Nat /\ IsSeq(cs)
  BY SeqIs DEF Calls
<1> DEFINE z == Init1(cs)
<1>2. IsSeq(z) /\ Len(z) = Len(cs) - 1 /\ \A j \in 1 .. Len(cs) - 1 : z[j] = cs[j]
  BY <1>1, PrefixIs DEF Init1
<1> HIDE DEF z
<1>3. z # <<>> /\ 1 \in 1 .. Len(cs) - 1
  BY <1>1, <1>2, SeqIs
<1>4. z[1].e = StackBeg /\ z[1].ret = ProceedCode
  BY <1>2, <1>3 DEF Calls
<1>5. \A j \in 1 .. Len(z) : Called(z[j], cx, ps)
  BY <1>1, <1>2 DEF Calls
<1>6. \A j \in 1 .. Len(z), i \in 1 .. Len(z) :
          i < j => /\ z[i].e < z[j].e /\ z[i].floor <= z[j].floor
                   /\ Len(z[i].ctx) <= Len(z[j].ctx)
  <2>1. \A j \in 1 .. Len(z) : j \in 1 .. Len(cs) /\ z[j] = cs[j]
    BY <1>1, <1>2
  <2>2. \A j \in 1 .. Len(cs), i \in 1 .. Len(cs) :
           i < j => /\ cs[i].e < cs[j].e /\ cs[i].floor <= cs[j].floor
                    /\ Len(cs[i].ctx) <= Len(cs[j].ctx)
    BY DEF Calls
  <2> QED
    BY ONLY <2>1, <2>2
<1>7. ASSUME NEW j \in 2 .. Len(z) PROVE Suspended(m, z[j - 1], z[j], ps)
  <2>1. j \in 2 .. Len(cs) /\ z[j] = cs[j] /\ z[j - 1] = cs[j - 1]
    BY <1>1, <1>2
  <2> QED
    BY <2>1 DEF Calls
<1>8. Calls(m, z, cx, ps)
  BY <1>2, <1>3, <1>4, <1>5, <1>6, <1>7 DEF Calls
<1> QED
  BY <1>1, <1>2, <1>8 DEF z

\* and a new one is added.
LEMMA CallsAdd ==
    ASSUME NEW m, NEW cs, NEW cx, NEW ps, Calls(m, cs, cx, ps), NEW c, c = cs[Len(cs)],
           NEW d, Called(d, cx, ps), Suspended(m, c, d, ps),
           c.e < d.e, c.floor <= d.floor, Len(c.ctx) <= Len(d.ctx)
    PROVE  Calls(m, Append(cs, d), cx, ps)
<1> DEFINE z == Append(cs, d)
<1>1. /\ IsSeq(z) /\ Len(z) = Len(cs) + 1 /\ z # <<>>
      /\ Len(cs) \in Nat \ {0}
      /\ \A i \in 1 .. Len(cs) : z[i] = cs[i]
      /\ z[Len(cs) + 1] = d
  BY AppendIs, SeqIs DEF Calls
<1> HIDE DEF z
<1>2. z[1].e = StackBeg /\ z[1].ret = ProceedCode
  BY <1>1 DEF Calls
<1>3. \A j \in 1 .. Len(z) : j \in 1 .. Len(cs) \/ (j = Len(cs) + 1 /\ z[j] = d)
  BY <1>1
<1>4. \A j \in 1 .. Len(z) : Called(z[j], cx, ps)
  BY <1>1, <1>3 DEF Calls
<1>5. ASSUME NEW i \in 1 .. Len(cs)
      PROVE  cs[i].e < d.e /\ cs[i].floor <= d.floor /\ Len(cs[i].ctx) <= Len(d.ctx)
  <2>1. Len(cs) \in 1 .. Len(cs)
    BY <1>1
  <2>2. Called(cs[i], cx, ps) /\ Called(c, cx, ps)
    BY <2>1 DEF Calls
  <2>3. /\ cs[i].e \in Nat /\ cs[i].floor \in Nat /\ Len(cs[i].ctx) \in Nat
        /\ c.e \in Nat /\ c.floor \in Nat /\ Len(c.ctx) \in Nat
        /\ d.e \in Nat /\ d.floor \in Nat /\ Len(d.ctx) \in Nat
    <3>1. cs[i].e \in Nat /\ cs[i].floor \in Nat /\ Len(cs[i].ctx) \in Nat
      BY ONLY <2>2 DEF Called
    <3>2. c.e \in Nat /\ c.floor \in Nat /\ Len(c.ctx) \in Nat
      BY ONLY <2>2 DEF Called
    <3>3. d.e \in Nat /\ d.floor \in Nat /\ Len(d.ctx) \in Nat
      BY ONLY Called(d, cx, ps) DEF Called
    <3> QED
      BY <3>1, <3>2, <3>3
  <2>4. CASE i = Len(cs)
    BY <2>4
  <2>5. CASE i # Len(cs)
    <3>1. i < Len(cs)
      BY <2>5, <1>1
    <3>2. cs[i].e < c.e /\ cs[i].floor <= c.floor /\ Len(cs[i].ctx) <= Len(c.ctx)
      BY <3>1, <2>1 DEF Calls
    <3>3. cs[i].e < d.e
      BY <3>2, <2>3
    <3>4. cs[i].floor <= d.floor
      BY <3>2, <2>3
    <3>5. Len(cs[i].ctx) <= Len(d.ctx)
      BY <3>2, <2>3
    <3> QED
      BY <3>3, <3>4, <3>5
  <2> QED
    BY <2>4, <2>5
<1>6. ASSUME NEW j \in 1 .. Len(z), NEW i \in 1 .. Len(z), i < j
      PROVE  z[i].e < z[j].e /\ z[i].floor <= z[j].floor /\ Len(z[i].ctx) <= Len(z[j].ctx)
  <2>1. i \in 1 .. Len(cs) /\ z[i] = cs[i]
    BY <1>1, <1>6
  <2>2. CASE j \in 1 .. Len(cs)
    <3>1. z[j] = cs[j]
      BY <2>2, <1>1
    <3> QED
      BY <2>1, <2>2, <3>1, <1>6 DEF Calls
  <2>3. CASE z[j] = d
    BY <2>1, <2>3, <1>5
  <2> QED
    BY <2>2, <2>3, <1>3
<1>7. ASSUME NEW j \in 2 .. Len(z) PROVE Suspended(m, z[j - 1], z[j], ps)
  <2>1. CASE j = Len(cs) + 1
    <3>1. z[j] = d /\ z[j - 1] = c
      BY <2>1, <1>1
    <3> QED
      BY <3>1
  <2>2. CASE j # Len(cs) + 1
    <3>1. j \in 2 .. Len(cs) /\ z[j] = cs[j] /\ z[j - 1] = cs[j - 1]
      BY <2>2, <1>1
    <3> QED
      BY <3>1 DEF Calls
  <2> QED
    BY <2>1, <2>2
<1>8. Calls(m, z, cx, ps)
  BY <1>1, <1>2, <1>4, <1>6, <1>7 DEF Calls
<1> QED
  BY <1>8 DEF z

-----------------------------------------------------------------------------
(* How a view becomes the next one: what each kind of instruction makes of *)
(* the environment, the context, the calls and the choice points.          *)

\* A number that is not 0 or 1.
LEMMA AtLeastTwo ==
    ASSUME NEW k \in Nat \ {0}, k # 1
    PROVE  k \in 2 .. k
  OBVIOUS

\* What is known of the call that a clause runs for.
LEMMA CallerIs ==
    ASSUME NEW m, NEW r, NEW n, NEW cs, NEW cx, NEW ps, NEW s, View(m, r, n, cs, cx, ps, s),
           NEW c, c = cs[Len(cs)]
    PROVE  /\ Len(cs) \in Nat \ {0} /\ Called(c, cx, ps) /\ Running(m, r, n, c, cx, ps, s)
           /\ c.e \in Nat /\ c.floor \in Nat /\ c.ret \in DOMAIN Code
           /\ Len(cx) \in Nat /\ Len(c.ctx) \in Nat /\ 1 <= Len(c.ctx) /\ Len(c.ctx) <= Len(cx)
<1>1. Calls(m, cs, cx, ps) /\ Running(m, r, n, c, cx, ps, s) /\ Records(m, cx)
  BY DEF View
<1>2. Len(cs) \in Nat \ {0} /\ Len(cx) \in Nat
  BY <1>1, SeqIs DEF Calls, Records
<1>3. Len(cs) \in 1 .. Len(cs)
  BY <1>2
<1>4. Called(c, cx, ps)
  BY <1>1, <1>3 DEF Calls
<1> QED
  BY <1>1, <1>2, <1>4 DEF Called

\* What the view at s relies upon, the view at a shape that s fits does too.
LEMMA ViewFits ==
    ASSUME WellShaped(prog), NEW m, NEW r, NEW n, NEW cs, NEW cx, NEW ps, NEW s,
           View(m, r, n, cs, cx, ps, s), NEW t, Fits(s, t)
    PROVE  View(m, r, n, cs, cx, ps, t)
<1>1. PICK c : c = cs[Len(cs)]
  OBVIOUS
<1>2. Running(m, r, n, c, cx, ps, s)
  BY <1>1 DEF View
<1>3. AtEnv(m, r, n, c, ps, t)
  BY <1>2 DEF Running, AtEnv, Fits, Environment, Levels
<1>4. InContext(r, c, cx, t)
  BY <1>2 DEF Running, InContext, Fits
<1>5. FromRecord(m, r, c, cx, t)
  <2>1. s.ext \in Nat /\ t.ext \in 0 .. s.ext
    BY <1>2 DEF Running, FromRecord, Fits
  <2>2. ASSUME NEW k \in 1 .. Len(c.ctx), s.ext <= Links(m, cx[k])
        PROVE  t.ext <= Links(m, cx[k])
    <3>1. k \in 1 .. Len(cx)
      BY <1>1, CallerIs
    <3>2. m[cx[k] + 2].v \in DOMAIN Tables
      BY <3>1 DEF View, Records, Record
    <3>3. Links(m, cx[k]) \in Nat
      BY <3>2, Tabled DEF Links
    <3> QED
      BY <3>3, <2>1, <2>2
  <2> QED
    BY <2>1, <2>2, <1>2 DEF Running, FromRecord
<1>6. CutKnown(m, r, c, ps, t)
  BY <1>2 DEF Running, CutKnown, Fits
<1>7. GoalKnown(m, r, t)
  BY <1>2 DEF Running, GoalKnown, Fits
<1> QED
  BY <1>1, <1>3, <1>4, <1>5, <1>6, <1>7 DEF View, Running

\* Fewer environments are in place as well.
LEMMA LayoutLess ==
    ASSUME NEW m, NEW fs, NEW gs, NEW tos, NEW cx, NEW ps, Layout(m, fs, tos, cx, ps),
           gs \subseteq fs
    PROVE  Layout(m, gs, tos, cx, ps)
  BY DEF Layout

\* A call trims the environment to k variables.
LEMMA FramesTrim ==
    ASSUME WellShaped(prog), NEW m, NEW r, NEW n, NEW cs, NEW cx, NEW ps, NEW s,
           View(m, r, n, cs, cx, ps, s), s.own, NEW k \in 0 .. n
    PROVE  Layout(m, Frames(r.e, k, cs), r.tos, cx, ps)
<1>1. Layout(m, Frames(r.e, n, cs), r.tos, cx, ps) /\ Calls(m, cs, cx, ps)
  BY DEF View
<1>2. PICK c : c = cs[Len(cs)]
  OBVIOUS
<1>3. Len(cs) \in Nat \ {0} /\ Running(m, r, n, c, cx, ps, s)
  BY <1>2, CallerIs
<1>4. /\ r.e \in Nat /\ n \in Nat /\ c.e < r.e
      /\ r.e # StackBeg
  BY <1>1, <1>2, <1>3, FramesAre DEF Running, AtEnv
<1>5. ASSUME NEW j \in 2 .. Len(cs) PROVE cs[j].e # r.e
  <2>1. Called(c, cx, ps) /\ c.e \in Nat
    BY <1>2, CallerIs
  <2>2. j \in 1 .. Len(cs) /\ Len(cs) \in 1 .. Len(cs) /\ (j < Len(cs) \/ j = Len(cs))
    BY <1>3
  <2>3. cs[j].e \in Nat /\ (cs[j].e < c.e \/ j = Len(cs))
    BY <1>1, <1>2, <2>2 DEF Calls, Called
  <2>4. cs[j].e < r.e
    BY <2>1, <2>3, <1>2, <1>4
  <2> QED
    BY <2>3, <2>4, <1>4
<1> DEFINE fs == Frames(r.e, n, cs)
           gs == Frames(r.e, k, cs)
<1>6. ASSUME NEW f \in gs
      PROVE  f \in fs \/ f = [e |-> r.e, n |-> k]
  BY DEF Frames
<1>7. [e |-> r.e, n |-> n] \in fs
  BY <1>4 DEF Frames
<1>8. ASSUME NEW f \in fs PROVE f.n \in Nat
  BY <1>1 DEF Layout, Placed
<1>9. ASSUME NEW f \in gs PROVE f.n \in Nat /\ \E g \in fs : f.e = g.e /\ f.n <= g.n
  <2>1. CASE f \in fs
    <3>1. f.n <= f.n
      BY <2>1, <1>8
    <3> QED
      BY <2>1, <1>8, <3>1
  <2>2. CASE f = [e |-> r.e, n |-> k]
    BY <2>2, <1>4, <1>7
  <2> QED
    BY <2>1, <2>2, <1>6
<1>10. ASSUME NEW f \in gs, NEW g \in gs, f.e = g.e PROVE f.n = g.n
  <2>1. ASSUME NEW h \in gs
        PROVE  \/ h = [e |-> r.e, n |-> k]
               \/ \E j \in 2 .. Len(cs) : h = [e |-> cs[j].e, n |-> CallI1(cs[j].ret)]
    BY DEF Frames
  <2>2. CASE f = [e |-> r.e, n |-> k]
    BY <2>1, <2>2, <1>5, <1>10
  <2>3. CASE g = [e |-> r.e, n |-> k]
    BY <2>1, <2>3, <1>5, <1>10
  <2>4. CASE /\ \E j \in 2 .. Len(cs) : f = [e |-> cs[j].e, n |-> CallI1(cs[j].ret)]
             /\ \E j \in 2 .. Len(cs) : g = [e |-> cs[j].e, n |-> CallI1(cs[j].ret)]
    <3>1. PICK i \in 2 .. Len(cs), j \in 2 .. Len(cs) :
             /\ f = [e |-> cs[i].e, n |-> CallI1(cs[i].ret)]
             /\ g = [e |-> cs[j].e, n |-> CallI1(cs[j].ret)]
      BY <2>4
    <3>2. i \in 1 .. Len(cs) /\ j \in 1 .. Len(cs)
      BY <1>3
    <3>3. cs[i].e \in Nat /\ cs[j].e \in Nat /\ cs[i].e = cs[j].e
      BY <1>1, <3>1, <3>2, <1>10 DEF Calls, Called
    <3>4. ~(i < j) /\ ~(j < i)
      BY <1>1, <3>2, <3>3 DEF Calls
    <3>5. i = j
      BY <3>4
    <3> QED
      BY <3>1, <3>5
  <2> QED
    BY <2>1, <2>2, <2>3, <2>4
<1> HIDE DEF fs, gs
<1>11. Layout(m, gs, r.tos, cx, ps)
  BY <1>1, <1>9, <1>10, LayoutTrims DEF fs
<1> QED
  BY <1>11 DEF gs

\* A clause that gives up variables keeps the rest of its view.
LEMMA ViewTrims ==
    ASSUME WellShaped(prog), NEW m, NEW r, NEW n, NEW cs, NEW cx, NEW ps, NEW s,
           View(m, r, n, cs, cx, ps, s), IsShape(s), s.own, s.a1 # "slot", NEW k \in 0 .. s.n
    PROVE  View(m, r, k, cs, cx, ps, Trimmed(s, k))
<1>1. PICK c : c = cs[Len(cs)]
  OBVIOUS
<1>2. Running(m, r, n, c, cx, ps, s) /\ n = s.n
  BY <1>1 DEF View, Running, AtEnv
<1> DEFINE t == Trimmed(s, k)
<1>3. /\ t.own = s.own /\ t.n = k /\ t.pushed = s.pushed /\ t.univ = s.univ
      /\ t.cut = s.cut /\ t.a1 = s.a1 /\ t.ext = s.ext
      /\ \A y \in 1 .. k : t.slot[y] = s.slot[y]
      /\ s.n \in Nat
  BY DEF Trimmed, IsShape
<1> HIDE DEF t
<1>4. 1 .. k \subseteq 1 .. s.n /\ (1 .. k # {} => 1 \in 1 .. k) /\ k \in Nat
  BY <1>3
<1>5. Environment(m, c, r.e, t)
  BY <1>2, <1>3, <1>4 DEF Running, AtEnv, Environment
<1>6. Levels(m, c, r.e, t, ps)
  BY <1>2, <1>3, <1>4 DEF Running, AtEnv, Levels
<1>7. AtEnv(m, r, k, c, ps, t)
  BY <1>2, <1>3, <1>4, <1>5, <1>6 DEF Running, AtEnv
<1>8. InContext(r, c, cx, t) /\ FromRecord(m, r, c, cx, t) /\ GoalKnown(m, r, t)
  BY <1>2, <1>3 DEF Running, InContext, FromRecord, GoalKnown
<1>9. CutKnown(m, r, c, ps, t)
  BY <1>2, <1>3, <1>4 DEF Running, CutKnown
<1>10. Layout(m, Frames(r.e, k, cs), r.tos, cx, ps)
  BY <1>2, <1>3, FramesTrim
<1> QED
  BY <1>1, <1>7, <1>8, <1>9, <1>10 DEF View, Running, t

-----------------------------------------------------------------------------
\* The environment is given back to the clause's caller.
LEMMA ViewDeallocates ==
    ASSUME WellShaped(prog), NEW m, NEW r, NEW n, NEW cs, NEW cx, NEW ps, NEW s,
           View(m, r, n, cs, cx, ps, s), s.own,
           NEW q, q.e = m[r.e - 1].v, q.cp = m[r.e + 1].v, q.tos = r.tos, q.uc = r.uc,
           q.i = r.i, q.ci = r.ci, q.b0 = r.b0, q.a1 = r.a1,
           NEW t, ~t.own, t.pushed = s.pushed, t.univ = s.univ, t.cut = s.cut,
           t.a1 = IF s.a1 = "slot" THEN "goal" ELSE s.a1, t.ext = s.ext
    PROVE  /\ View(m, q, LiveAt(q.e, q.cp), cs, cx, ps, t)
           /\ Frames(q.e, LiveAt(q.e, q.cp), cs) \subseteq Frames(r.e, n, cs)
<1>1. PICK c : c = cs[Len(cs)]
  OBVIOUS
<1>2. /\ Running(m, r, n, c, cx, ps, s) /\ Len(cs) \in Nat \ {0} /\ c.e \in Nat
      /\ Calls(m, cs, cx, ps) /\ Layout(m, Frames(r.e, n, cs), r.tos, cx, ps)
  BY <1>1, CallerIs DEF View
<1>3. q.e = c.e /\ q.cp = c.ret
  BY <1>2 DEF Running, AtEnv, Environment, W
<1>4. LiveAt(c.e, c.ret) \in Nat /\ (c.e # StackBeg => Len(cs) \in 2 .. Len(cs))
  <2>1. CASE Len(cs) = 1
    <3>1. c.e = StackBeg
      BY <2>1, <1>1, <1>2 DEF Calls
    <3> QED
      BY <3>1 DEF LiveAt
  <2>2. CASE Len(cs) # 1
    <3>0. Len(cs) \in Nat \ {0}
      BY <1>2
    <3>1. Len(cs) \in 2 .. Len(cs)
      BY <3>0, <2>2, AtLeastTwo
    <3>2. CallI1(c.ret) \in Nat
      BY <3>1, <1>1, <1>2 DEF Calls, Suspended, ReturnsTo
    <3> QED
      BY <3>1, <3>2 DEF LiveAt
  <2> QED
    BY <2>1, <2>2
<1>5. Frames(q.e, LiveAt(q.e, q.cp), cs) \subseteq Frames(r.e, n, cs)
  BY <1>1, <1>3, <1>4 DEF Frames, LiveAt
<1>6. Layout(m, Frames(q.e, LiveAt(q.e, q.cp), cs), q.tos, cx, ps)
  BY <1>2, <1>5, LayoutLess
<1>7. AtEnv(m, q, LiveAt(q.e, q.cp), c, ps, t)
  BY <1>3, <1>4 DEF AtEnv
<1>8. InContext(q, c, cx, t) /\ FromRecord(m, q, c, cx, t)
  BY <1>2 DEF Running, InContext, FromRecord
<1>9. CutKnown(m, q, c, ps, t) /\ GoalKnown(m, q, t)
  BY <1>2 DEF Running, CutKnown, GoalKnown
<1>10. View(m, q, LiveAt(q.e, q.cp), cs, cx, ps, t)
  BY <1>1, <1>6, <1>7, <1>8, <1>9 DEF View, Running
<1> QED
  BY <1>5, <1>10

\* A clause returns to the one that called it.
LEMMA ViewReturns ==
    ASSUME WellShaped(prog), NEW m, NEW r, NEW n, NEW cs, NEW cx, NEW ps, NEW s,
           View(m, r, n, cs, cx, ps, s), InClause(s), r.e # StackBeg,
           NEW q, q.e = r.e, q.tos = r.tos, q.uc = r.uc, q.i = r.i
    PROVE  /\ Len(cs) > 1 /\ Len(cs) \in Nat
           /\ r.cp \in DOMAIN Code /\ Code[r.cp].op \notin Alternatives
           /\ View(m, q, LiveAt(r.e, r.cp), Init1(cs), cx, ps, ShapeAt(r.cp))
<1>1. PICK c : c = cs[Len(cs)]
  OBVIOUS
<1>2. /\ Running(m, r, n, c, cx, ps, s) /\ Len(cs) \in Nat \ {0} /\ c.e \in Nat
      /\ Calls(m, cs, cx, ps) /\ Layout(m, Frames(r.e, n, cs), r.tos, cx, ps)
      /\ Called(c, cx, ps)
  BY <1>1, CallerIs DEF View
<1>3. /\ r.e = c.e /\ r.cp = c.ret /\ n = LiveAt(r.e, r.cp) /\ r.uc = c.uc + s.univ
      /\ s.univ = 0 /\ s.pushed = 0 /\ Len(cx) = Len(c.ctx) + s.pushed
      /\ r.i = cx[Len(cx)] /\ r.uc \in 0 .. UCMax
  BY <1>2 DEF Running, AtEnv, InContext, InClause
<1>4. Len(cs) > 1
  BY <1>1, <1>2, <1>3 DEF Calls
<1> DEFINE cz == Init1(cs)
           p == cs[Len(cs) - 1]
           u == ShapeAt(c.ret)
<1>5. /\ Calls(m, cz, cx, ps) /\ Len(cz) = Len(cs) - 1
      /\ \A j \in 1 .. Len(cs) - 1 : cz[j] = cs[j]
  BY <1>2, <1>4, CallsDrop
<1>6. cz[Len(cz)] = p
  BY <1>2, <1>4, <1>5
<1>7. Suspended(m, p, c, ps) /\ p.e < c.e
  <2>1. Len(cs) \in 2 .. Len(cs) /\ Len(cs) - 1 \in 1 .. Len(cs) /\ Len(cs) \in 1 .. Len(cs)
        /\ Len(cs) - 1 < Len(cs)
    BY <1>2, <1>4
  <2> QED
    BY <2>1, <1>1, <1>2 DEF Calls
<1> HIDE DEF cz, p, u
<1>8. /\ ReturnsTo(u, c.ret) /\ Environment(m, p, c.e, u) /\ Levels(m, p, c.e, u, ps)
      /\ u.univ \in Nat /\ c.uc = p.uc + u.univ
      /\ u.pushed \in Nat /\ Len(c.ctx) = Len(p.ctx) + u.pushed
  BY <1>7 DEF Suspended, u
<1>9. LiveAt(r.e, r.cp) = u.n
  BY <1>3, <1>8 DEF LiveAt, ReturnsTo
<1>10. AtEnv(m, q, u.n, p, ps, u)
  BY <1>2, <1>3, <1>7, <1>8 DEF AtEnv, ReturnsTo
<1>11. InContext(q, p, cx, u)
  <2>1. p.uc + u.univ + 0 = p.uc + u.univ
    <3>1. p.uc \in Nat
      <4>1. Called(p, cx, ps)
        BY <1>5, <1>6, <1>2, <1>4 DEF Calls
      <4> QED
        BY <4>1, Limits DEF Called
    <3> QED
      BY <3>1, <1>8
  <2>2. q.uc = p.uc + u.univ
    BY <2>1, <1>3, <1>8
  <2>3. Len(cx) = Len(p.ctx) + u.pushed
    <3>1. Len(c.ctx) \in Nat
      BY <1>2 DEF Called
    <3> QED
      BY <3>1, <1>3, <1>8
  <2> QED
    BY <2>2, <2>3, <1>3, <1>8 DEF InContext
<1>12. FromRecord(m, q, p, cx, u) /\ CutKnown(m, q, p, ps, u) /\ GoalKnown(m, q, u)
  BY <1>8 DEF FromRecord, CutKnown, GoalKnown, ReturnsTo
<1>13. Running(m, q, u.n, p, cx, ps, u)
  BY <1>10, <1>11, <1>12 DEF Running
<1>14. Frames(r.e, u.n, cz) \subseteq Frames(r.e, n, cs)
  <2>1. \A j \in 2 .. Len(cz) : j \in 2 .. Len(cs) /\ cz[j] = cs[j]
    BY <1>2, <1>5
  <2> QED
    BY <2>1, <1>3, <1>9 DEF Frames
<1>15. Layout(m, Frames(q.e, u.n, cz), q.tos, cx, ps)
  BY <1>2, <1>14, LayoutLess
<1>16. View(m, q, u.n, cz, cx, ps, u)
  BY <1>5, <1>6, <1>13, <1>15 DEF View
<1> QED
  BY <1>2, <1>3, <1>4, <1>8, <1>9, <1>16 DEF cz, u, Called, ReturnsTo

\* A clause is suspended in a call.
LEMMA ViewCalls ==
    ASSUME WellShaped(prog), NEW m, NEW r, NEW n, NEW cs, NEW cx, NEW ps, NEW s,
           View(m, r, n, cs, cx, ps, s), s.own, NEW c, c = cs[Len(cs)],
           NEW d, d.e = r.e, d.uc = r.uc, d.i = r.i, d.ctx = cx, d.ret \in DOMAIN Code,
           d.floor \in Points(ps), d.floor \in Nat, c.floor <= d.floor,
           NEW u, u = ShapeAt(d.ret), ReturnsTo(u, d.ret), u.n \in 0 .. s.n,
           \A y \in 1 .. u.n : u.slot[y] = s.slot[y],
           u.univ = s.univ, u.pushed = s.pushed, Spared(m, c, d, u),
           NEW q, q.e = r.e, q.cp = d.ret, q.tos = r.tos, q.i = r.i, q.uc = r.uc,
           NEW t, ~t.own, t.univ = 0, t.pushed = 0,
           FromRecord(m, q, d, cx, t), CutKnown(m, q, d, ps, t), GoalKnown(m, q, t)
    PROVE  View(m, q, LiveAt(q.e, q.cp), Append(cs, d), cx, ps, t)
<1>1. /\ Running(m, r, n, c, cx, ps, s) /\ Len(cs) \in Nat \ {0} /\ c.e \in Nat
      /\ Calls(m, cs, cx, ps) /\ Layout(m, Frames(r.e, n, cs), r.tos, cx, ps)
      /\ Called(c, cx, ps) /\ Len(cx) \in Nat /\ Len(c.ctx) \in Nat
      /\ 1 <= Len(c.ctx) /\ Len(c.ctx) <= Len(cx)
  BY CallerIs DEF View
<1>a. Running(m, r, n, cs[Len(cs)], cx, ps, s) /\ Calls(m, cs, cx, ps)
  BY <1>1
<1>b. r.e # StackBeg
  BY <1>a, FramesAre
<1>c. /\ r.e \in Nat /\ c.e < r.e /\ n = s.n /\ n \in Nat
      /\ Environment(m, c, r.e, s) /\ Levels(m, c, r.e, s, ps)
  BY <1>1 DEF Running, AtEnv
<1>d. /\ r.uc = c.uc + s.univ /\ r.uc \in 0 .. UCMax /\ s.univ \in Nat
      /\ s.pushed \in Nat /\ Len(cx) = Len(c.ctx) + s.pushed /\ r.i = cx[Len(cx)]
  BY <1>1 DEF Running, InContext
<1>2. /\ r.e \in Nat /\ c.e < r.e /\ n = s.n /\ n \in Nat /\ r.e # StackBeg
      /\ Environment(m, c, r.e, s) /\ Levels(m, c, r.e, s, ps)
      /\ r.uc = c.uc + s.univ /\ r.uc \in 0 .. UCMax /\ s.univ \in Nat
      /\ s.pushed \in Nat /\ Len(cx) = Len(c.ctx) + s.pushed /\ r.i = cx[Len(cx)]
  BY <1>b, <1>c, <1>d
<1>3. 1 .. u.n \subseteq 1 .. s.n /\ (1 .. u.n # {} => 1 \in 1 .. u.n) /\ u.n \in Nat
  BY <1>2
<1>4. Environment(m, c, r.e, u)
  BY <1>2, <1>3 DEF Environment
<1>5. Levels(m, c, r.e, u, ps)
  <2>1. \A y \in 1 .. u.n : y \in 1 .. s.n /\ u.slot[y] = s.slot[y]
    BY <1>3
  <2>2. Levels(m, c, r.e, s, ps)
    BY <1>2
  <2>3. ASSUME NEW y \in 1 .. u.n, NEW b, b = m[r.e + 2 * y].v
        PROVE  /\ u.slot[y] = "level" =>
                     /\ b \in Points(ps) /\ c.floor <= b
                     /\ \A z \in 1 .. u.n : u.slot[z] = "level" => m[r.e + 2 * z].v = b
               /\ u.slot[y] = "cut" => CutPoint(ps, c, m[r.e + 2].v, b)
    <3>1. y \in 1 .. s.n /\ u.slot[y] = s.slot[y]
      BY <2>1
    <3>2. /\ s.slot[y] = "level" =>
                /\ b \in Points(ps) /\ c.floor <= b
                /\ \A z \in 1 .. s.n : s.slot[z] = "level" => m[r.e + 2 * z].v = b
          /\ s.slot[y] = "cut" => CutPoint(ps, c, m[r.e + 2].v, b)
      BY ONLY <3>1, <2>2, <2>3 DEF Levels
    <3>3. /\ u.slot[y] = "level" => b \in Points(ps) /\ c.floor <= b
          /\ u.slot[y] = "cut" => CutPoint(ps, c, m[r.e + 2].v, b)
      BY ONLY <3>1, <3>2
    <3>4. u.slot[y] = "level" =>
             \A z \in 1 .. u.n : u.slot[z] = "level" => m[r.e + 2 * z].v = b
      BY ONLY <3>1, <3>2, <2>1
    <3> QED
      BY ONLY <3>3, <3>4
  <2> QED
    BY <2>3 DEF Levels
<1>6. Suspended(m, c, d, ps)
  BY <1>2, <1>4, <1>5 DEF Suspended
<1>7. Called(d, cx, ps)
  BY <1>1, <1>2 DEF Called
<1> DEFINE cz == Append(cs, d)
<1>8. Calls(m, cz, cx, ps)
  BY <1>1, <1>2, <1>6, <1>7, CallsAdd
<1>9. /\ Len(cz) = Len(cs) + 1 /\ cz[Len(cz)] = d
      /\ \A i \in 1 .. Len(cs) : cz[i] = cs[i]
  BY <1>1, AppendIs DEF Calls
<1>10. LiveAt(q.e, q.cp) = u.n
  BY <1>2 DEF LiveAt, ReturnsTo
<1>11. Layout(m, Frames(r.e, u.n, cs), r.tos, cx, ps)
  BY <1>2, FramesTrim
<1>12. Frames(r.e, u.n, cz) \subseteq Frames(r.e, u.n, cs)
  <2>1. ASSUME NEW j \in 2 .. Len(cz)
        PROVE  [e |-> cz[j].e, n |-> CallI1(cz[j].ret)] \in Frames(r.e, u.n, cs)
    <3>1. CASE j \in 2 .. Len(cs)
      <4>1. cz[j] = cs[j]
        BY <3>1, <1>1, <1>9
      <4> QED
        BY <3>1, <4>1 DEF Frames
    <3>2. CASE j = Len(cz)
      <4>1. cz[j] = d /\ CallI1(d.ret) = u.n
        BY <3>2, <1>9 DEF ReturnsTo
      <4> QED
        BY <4>1, <1>2 DEF Frames
    <3>3. j \in 2 .. Len(cs) \/ j = Len(cz)
      BY <1>1, <1>9
    <3> QED
      BY <3>1, <3>2, <3>3
  <2> HIDE DEF cz
  <2>2. r.e # StackBeg
    BY <1>2
  <2>3. [e |-> r.e, n |-> u.n] \in Frames(r.e, u.n, cs)
    BY ONLY <2>2 DEF Frames
  <2> QED
    BY ONLY <2>1, <2>2, <2>3 DEF Frames
<1> HIDE DEF cz
<1>13. Layout(m, Frames(q.e, u.n, cz), q.tos, cx, ps)
  BY <1>11, <1>12, LayoutLess
<1>14. AtEnv(m, q, u.n, d, ps, t)
  BY <1>2, <1>3, <1>10 DEF AtEnv
<1>15. InContext(q, d, cx, t)
  BY <1>1, <1>2 DEF InContext
<1>16. View(m, q, u.n, cz, cx, ps, t)
  BY <1>8, <1>9, <1>13, <1>14, <1>15 DEF View, Running
<1> QED
  BY <1>10, <1>16 DEF cz

-----------------------------------------------------------------------------
\* A view reaches to the frontier of its stack: whatever is written above is
\* new to it.
LEMMA ViewReaches ==
    ASSUME WellShaped(prog), NEW m, NEW r, NEW n, NEW cs, NEW cx, NEW ps, NEW s,
           View(m, r, n, cs, cx, ps, s), NEW F, F = Frontier(r.e, n, r.tos)
    PROVE  /\ Reaches(Frames(r.e, n, cs), r.tos, F)
           /\ F \in Nat /\ r.tos \in Nat /\ r.tos <= F /\ F <= StackEnd + 1
           /\ FstCP < r.tos /\ FstCP < F /\ StackEnd \in Nat
<1>1. /\ Records(m, cx) /\ Layout(m, Frames(r.e, n, cs), r.tos, cx, ps)
      /\ Calls(m, cs, cx, ps) /\ Running(m, r, n, cs[Len(cs)], cx, ps, s)
  BY DEF View
<1>2. /\ Topped(r.e, Frames(r.e, n, cs)) /\ r.e \in Nat
      /\ r.e = StackBeg \/ [e |-> r.e, n |-> n] \in Frames(r.e, n, cs)
  BY <1>1, FramesAre
<1>3. StackEnd \in Nat /\ r.tos \in Nat
  BY <1>1, Limits DEF Layout, Addr, StackBeg
<1>4. 1 \in 1 .. Len(cx) /\ RecEnd(cx[1]) <= r.tos
  <2>1. 1 \in 1 .. Len(cx)
    BY <1>1 DEF Records
  <2> QED
    BY <2>1, <1>1 DEF Layout
<1>5. FstCP < r.tos
  <2>1. FstCP < RecStart(m, cx[1]) /\ RecStart(m, cx[1]) <= cx[1] /\ cx[1] < RecEnd(cx[1])
        /\ cx[1] \in Nat /\ RecEnd(cx[1]) \in Nat /\ RecStart(m, cx[1]) \in Nat
    BY <1>1, <1>4, RecordsOrder
  <2> QED
    BY <2>1, <1>3, <1>4 DEF FstCP
<1>6. /\ F \in Nat /\ r.tos <= F /\ F <= StackEnd + 1
      /\ \A f \in Frames(r.e, n, cs) : EnvEnd(f) <= F
  <2>1. 0 < r.tos
    BY <1>3, <1>5 DEF FstCP
  <2> QED
    BY <2>1, <1>1, <1>2, FrontierBounds
<1>7. FstCP < F
  BY <1>3, <1>5, <1>6 DEF FstCP
<1> QED
  BY <1>3, <1>5, <1>6, <1>7 DEF Reaches

\* Writes above the last record in use leave a view as it is.
LEMMA ViewBelow ==
    ASSUME WellShaped(prog), NEW m, NEW r, NEW n, NEW cs, NEW cx, NEW ps, NEW s,
           View(m, r, n, cs, cx, ps, s), NEW F, F = Frontier(r.e, n, r.tos),
           NEW z, \A a \in 0 .. F - 1 : z[a] = m[a]
    PROVE  View(z, r, n, cs, cx, ps, s)
<1>1. Records(m, cx) /\ Layout(m, Frames(r.e, n, cs), r.tos, cx, ps)
  BY DEF View
<1>2. /\ F \in Nat /\ r.tos \in Nat /\ r.tos <= F
      /\ \A f \in Frames(r.e, n, cs) : EnvEnd(f) <= F
  BY ViewReaches DEF Reaches
<1>3. Untouched(m, z, cx)
  <2>1. ASSUME NEW k \in 1 .. Len(cx), NEW a \in RecStart(m, cx[k]) .. RecEnd(cx[k]) - 1
        PROVE  z[a] = m[a]
    <3>1. RecStart(m, cx[k]) \in Nat /\ RecEnd(cx[k]) \in Nat /\ RecEnd(cx[k]) <= r.tos
      BY <1>1 DEF Layout
    <3>2. a \in 0 .. F - 1
      BY <3>1, <1>2
    <3> QED
      BY <3>2
  <2> QED
    BY <2>1 DEF Untouched, Intact
<1>4. FramesKept(m, z, Frames(r.e, n, cs))
  <2>1. ASSUME NEW f \in Frames(r.e, n, cs), NEW a \in f.e - 2 .. f.e + 1 + 2 * f.n
        PROVE  Like(m[a], z[a])
    <3>1. f.e \in Nat /\ f.n \in Nat /\ FstCP < f.e - 2
      BY <1>1 DEF Layout, Placed
    <3>2. f.e + 2 + 2 * f.n <= F
      BY <1>2 DEF EnvEnd
    <3>3. a \in 0 .. F - 1
      BY <3>1, <3>2, <1>2 DEF FstCP
    <3> QED
      BY <3>3 DEF Like
  <2> QED
    BY <2>1 DEF FramesKept, EnvKept
<1> QED
  BY <1>3, <1>4, ViewAgrees

\* What findtosEnv finds.
LEMMA FindsFrontier ==
    ASSUME NEW r, r.e \in Nat, r.tos \in Nat, 0 < r.tos
    PROVE  findtosEnv(r) = Frontier(r.e, LiveAt(r.e, r.cp), r.tos)
  BY DEF findtosEnv, Frontier, LiveAt, StackBeg

\* AM_findtos says where the next record goes.
LEMMA FindsLive ==
    ASSUME NEW r, NEW n
    PROVE  findtos(r, n) = Frontier(r.e, n, r.tos)
  BY DEF findtos, Frontier

\* A clause that has no environment gets one, just above the frontier.
LEMMA ViewAllocates ==
    ASSUME WellShaped(prog), NEW m, NEW r, NEW n, NEW cs, NEW cx, NEW ps, NEW s,
           View(m, r, n, cs, cx, ps, s), ~s.own, NEW F, F = Frontier(r.e, n, r.tos),
           NEW z, \A a \in 0 .. F - 1 : z[a] = m[a], NEW c, c = cs[Len(cs)],
           NEW q, q.e = F + 3, q.tos = r.tos,
           NEW t, t.own, t.n \in Nat, q.e + 2 + 2 * t.n <= StackEnd + 1,
           Environment(z, c, q.e, t), Levels(z, c, q.e, t, ps),
           InContext(q, c, cx, t), FromRecord(m, q, c, cx, t), CutKnown(z, q, c, ps, t),
           GoalKnown(z, q, t)
    PROVE  View(z, q, t.n, cs, cx, ps, t)
<1>1. /\ View(z, r, n, cs, cx, ps, s)
      /\ Reaches(Frames(r.e, n, cs), r.tos, F) /\ F \in Nat /\ FstCP < F
  BY ViewBelow, ViewReaches
<1>2. /\ Calls(z, cs, cx, ps) /\ Records(z, cx) /\ Layout(z, Frames(r.e, n, cs), r.tos, cx, ps)
      /\ Running(z, r, n, c, cx, ps, s)
  BY <1>1 DEF View
<1>3. /\ r.e = c.e /\ n = LiveAt(c.e, c.ret) /\ c.e \in Nat /\ Len(cs) \in Nat \ {0}
      /\ Len(cx) \in Nat /\ Len(c.ctx) \in Nat /\ Len(c.ctx) <= Len(cx)
  BY <1>2, CallerIs DEF Running, AtEnv
<1> DEFINE g == [e |-> q.e, n |-> t.n]
<1>4. F < g.e - 2 /\ g.e \in Nat /\ g.n \in Nat /\ EnvEnd(g) <= StackEnd + 1 /\ FstCP <= F
  BY <1>1 DEF EnvEnd, FstCP
<1> HIDE DEF g
<1>5. Layout(z, Frames(r.e, n, cs) \cup {g}, r.tos, cx, ps)
  BY <1>1, <1>2, <1>4, LayoutAddsFrame
<1>6. Frames(q.e, t.n, cs) \subseteq Frames(r.e, n, cs) \cup {g}
  BY DEF Frames, g
<1>7. Layout(z, Frames(q.e, t.n, cs), q.tos, cx, ps)
  BY <1>5, <1>6, LayoutLess
<1>8. c.e < q.e
  <2>1. r.e < F + 3
    <3>1. r.e = StackBeg \/ [e |-> r.e, n |-> n] \in Frames(r.e, n, cs)
      BY DEF Frames
    <3>2. CASE r.e = StackBeg
      BY <3>2, <1>1 DEF StackBeg
    <3>3. CASE [e |-> r.e, n |-> n] \in Frames(r.e, n, cs)
      <4>1. r.e + 2 + 2 * n <= F /\ n \in Nat
        BY <3>3, <1>1, <1>2 DEF Reaches, EnvEnd, Layout, Placed
      <4> QED
        BY <4>1, <1>1, <1>3
    <3> QED
      BY <3>1, <3>2, <3>3
  <2> QED
    BY <2>1, <1>3
<1>9. AtEnv(z, q, t.n, c, ps, t)
  BY <1>1, <1>8 DEF AtEnv
<1>10. FromRecord(z, q, c, cx, t)
  <2>1. \A k \in 1 .. Len(cx) : Links(z, cx[k]) = Links(m, cx[k])
    <3>1. \A k \in 1 .. Len(cx) : z[cx[k] + 2] = m[cx[k] + 2]
      <4>1. ASSUME NEW k \in 1 .. Len(cx) PROVE z[cx[k] + 2] = m[cx[k] + 2]
        <5>1. RecEnd(cx[k]) <= r.tos
          BY <1>2 DEF Layout
        <5>2. cx[k] \in Nat
          BY <1>2 DEF Records
        <5>3. r.tos <= F /\ F \in Nat /\ r.tos \in Nat
          BY ViewReaches
        <5>4. PICK x \in Nat : x = cx[k]
          BY <5>2
        <5>5. x + 6 <= r.tos
          BY <5>1, <5>4 DEF RecEnd, ImpFixSize
        <5>a. x + 2 \in 0 .. F - 1
          <6>1. PICK T \in Nat : T = r.tos
            BY <5>3
          <6>2. x + 6 <= T /\ T <= F /\ F \in Nat
            BY <5>3, <5>5, <6>1
          <6> HIDE <5>4
          <6> QED
            BY <6>2
        <5>6. cx[k] + 2 \in 0 .. F - 1
          BY <5>4, <5>a
        <5> QED
          BY <5>6
      <4> QED
        BY <4>1
    <3> QED
      BY <3>1 DEF Links
  <2>2. \A k \in 1 .. Len(c.ctx) : k \in 1 .. Len(cx)
    BY <1>3
  <2> QED
    BY <2>1, <2>2 DEF FromRecord
<1> QED
  BY <1>2, <1>7, <1>9, <1>10 DEF View, Running

-----------------------------------------------------------------------------
\* A record is what it is whatever comes after it in the context.
LEMMA RecordPrefix ==
    ASSUME NEW m, NEW cx, NEW cz, NEW k \in Nat, Record(m, cx, k), 0 < k,
           \A j \in 1 .. k : cz[j] = cx[j]
    PROVE  Record(m, cz, k)
<1> DEFINE x == cx[k]
<1>1. cz[k] = x /\ k \in 1 .. k
  OBVIOUS
<1>2. /\ RecEnd(x) <= StackEnd
      /\ m[x + 2].f = "pst" /\ m[x + 2].v \in DOMAIN Tables
      /\ FstCP < RecStart(m, x)
      /\ m[x + 4] = W("pip", IF k = 1 THEN StackBeg ELSE cx[k - 1])
      /\ \A j \in 1 .. k - 1 : RecEnd(cx[j]) <= RecStart(m, x)
      /\ \A y \in 1 .. Links(m, x) : NextClause(m, cx, k, y)
  BY DEF Record
<1> HIDE DEF x
<1>3. \A j \in 1 .. k - 1 : j \in 1 .. k /\ cz[j] = cx[j]
  OBVIOUS
<1>4. k # 1 => cz[k - 1] = cx[k - 1]
  OBVIOUS
<1>5. ASSUME NEW y \in 1 .. Links(m, x) PROVE NextClause(m, cz, k, y)
  <2>1. NextClause(m, cx, k, y) /\ cx[k] = x
    BY <1>2 DEF x
  <2> QED
    BY <2>1, <1>1, <1>3 DEF NextClause
<1> QED
  BY <1>1, <1>2, <1>3, <1>4, <1>5 DEF Record

\* A record is pushed, just above the frontier.
LEMMA ViewAddsRecord ==
    ASSUME WellShaped(prog), NEW m, NEW r, NEW n, NEW cs, NEW cx, NEW ps, NEW s,
           View(m, r, n, cs, cx, ps, s), NEW F, F = Frontier(r.e, n, r.tos),
           NEW z, \A a \in 0 .. F - 1 : z[a] = m[a],
           NEW x \in Nat, RecStart(z, x) = F, RecStart(z, x) <= RecEnd(x), RecEnd(x) \in Addr,
           Record(z, Append(cx, x), Len(cx) + 1),
           NEW q, q.e = r.e, q.cp = r.cp, q.ci = r.ci, q.b0 = r.b0, q.a1 = r.a1, q.uc = r.uc,
           q.tos = RecEnd(x), q.i = x,
           NEW t, t.own = s.own, t.n = s.n, t.slot = s.slot, t.univ = s.univ, t.cut = s.cut,
           t.a1 = s.a1, t.ext = s.ext, t.pushed = s.pushed + 1
    PROVE  View(z, q, n, cs, Append(cx, x), ps, t)
<1>1. /\ View(z, r, n, cs, cx, ps, s)
      /\ Reaches(Frames(r.e, n, cs), r.tos, F) /\ F \in Nat
  BY ViewBelow, ViewReaches
<1>2. PICK c : c = cs[Len(cs)]
  OBVIOUS
<1>3. /\ Calls(z, cs, cx, ps) /\ Records(z, cx) /\ Layout(z, Frames(r.e, n, cs), r.tos, cx, ps)
      /\ Running(z, r, n, c, cx, ps, s) /\ Len(cx) \in Nat
      /\ Len(c.ctx) \in Nat /\ Len(c.ctx) <= Len(cx)
  <2>1. Calls(z, cs, cx, ps) /\ Records(z, cx) /\ Layout(z, Frames(r.e, n, cs), r.tos, cx, ps)
    BY ONLY <1>1 DEF View
  <2>2. /\ Running(z, r, n, c, cx, ps, s) /\ Len(cx) \in Nat
        /\ Len(c.ctx) \in Nat /\ Len(c.ctx) <= Len(cx)
    BY ONLY <1>1, <1>2, CallerIs
  <2> QED
    BY <2>1, <2>2
<1> DEFINE cz == Append(cx, x)
<1>4. /\ cz \in Seq(Nat) /\ cz # <<>> /\ Len(cz) = Len(cx) + 1
      /\ \A k \in 1 .. Len(cx) : cz[k] = cx[k]
      /\ cz[Len(cx) + 1] = x /\ cx \in Seq(Nat) /\ cx # <<>> /\ cx[1] = ModuleIP
      /\ 1 \in 1 .. Len(cx)
  BY <1>3 DEF Records
<1> HIDE DEF cz
<1>5. \A k \in 1 .. Len(cz) : Record(z, cz, k)
  <2>1. ASSUME NEW k \in 1 .. Len(cx) PROVE Record(z, cz, k)
    <3>1. Record(z, cx, k) /\ k \in Nat /\ 0 < k
      BY <1>3 DEF Records
    <3>2. \A j \in 1 .. k : cz[j] = cx[j]
      BY <1>3, <1>4
    <3> QED
      BY <3>1, <3>2, RecordPrefix
  <2>2. Record(z, cz, Len(cx) + 1)
    BY DEF cz
  <2>3. \A k \in 1 .. Len(cz) : k \in 1 .. Len(cx) \/ k = Len(cx) + 1
    BY <1>3, <1>4
  <2> QED
    BY <2>1, <2>2, <2>3
<1>6. Records(z, cz)
  BY <1>4, <1>5 DEF Records
<1>7. Layout(z, Frames(q.e, n, cs), q.tos, cz, ps)
  <2>1. F <= RecStart(z, x) /\ RecStart(z, x) \in Nat
    BY <1>1
  <2>2. Layout(z, Frames(r.e, n, cs), RecEnd(x), cz, ps)
    BY <1>1, <1>3, <1>4, <2>1, LayoutAddsRecord DEF cz
  <2> QED
    BY <2>2
<1>8. Calls(z, cs, cz, ps)
  <2>1. Len(cz) \in Nat /\ Len(c.ctx) <= Len(cz)
    BY <1>3, <1>4
  <2>2. \A k \in 1 .. Len(c.ctx) : cz[k] = cx[k]
    BY <1>3, <1>4
  <2> QED
    BY <1>2, <1>3, <2>1, <2>2, CallsContext
<1>9. AtEnv(z, q, n, c, ps, t)
  BY <1>3 DEF Running, AtEnv, Environment, Levels
<1>10. InContext(q, c, cz, t)
  <2>1. /\ s.univ \in Nat /\ r.uc = c.uc + s.univ /\ r.uc \in 0 .. UCMax
        /\ s.pushed \in Nat /\ Len(cx) = Len(c.ctx) + s.pushed
    BY <1>3 DEF Running, InContext
  <2>2. s.pushed + 1 \in Nat /\ Len(cz) = Len(c.ctx) + (s.pushed + 1)
    <3>1. Len(c.ctx) \in Nat /\ Len(cz) = Len(cx) + 1
      BY <1>3, <1>4
    <3> QED
      BY ONLY <2>1, <3>1
  <2> QED
    BY <2>1, <2>2, <1>4 DEF InContext
<1>11. FromRecord(z, q, c, cz, t)
  <2>1. \A k \in 1 .. Len(c.ctx) : cz[k] = cx[k]
    BY <1>3, <1>4
  <2> QED
    BY <2>1, <1>3 DEF Running, FromRecord
<1>12. CutKnown(z, q, c, ps, t) /\ GoalKnown(z, q, t)
  BY <1>3 DEF Running, CutKnown, GoalKnown
<1> QED
  BY <1>2, <1>6, <1>7, <1>8, <1>9, <1>10, <1>11, <1>12 DEF View, Running, cz

\* The newest record is popped.
LEMMA ViewDropsRecord ==
    ASSUME WellShaped(prog), NEW m, NEW r, NEW n, NEW cs, NEW cx, NEW ps, NEW s,
           View(m, r, n, cs, cx, ps, s), Stacked(ps), s.pushed > 0,
           NEW q, q.e = r.e, q.cp = r.cp, q.ci = r.ci, q.b0 = r.b0, q.a1 = r.a1, q.uc = r.uc,
           q.i = m[r.i + 4].v, q.tos = TosFor(q.i, LastB(ps)),
           NEW t, t.own = s.own, t.n = s.n, t.slot = s.slot, t.univ = s.univ, t.cut = s.cut,
           t.a1 = s.a1, t.ext = s.ext, t.pushed = s.pushed - 1
    PROVE  /\ View(m, q, n, cs, SubSeq(cx, 1, Len(cx) - 1), ps, t)
           /\ q.tos \in Addr /\ LastB(ps) < q.tos /\ q.i \in Nat /\ RecEnd(q.i) <= StackEnd
<1>1. PICK c : c = cs[Len(cs)]
  OBVIOUS
<1>2. /\ Calls(m, cs, cx, ps) /\ Records(m, cx) /\ Layout(m, Frames(r.e, n, cs), r.tos, cx, ps)
      /\ Running(m, r, n, c, cx, ps, s) /\ Len(cx) \in Nat
      /\ Len(c.ctx) \in Nat /\ 1 <= Len(c.ctx) /\ Len(c.ctx) <= Len(cx)
  BY <1>1, CallerIs DEF View
<1>3. /\ s.univ \in Nat /\ r.uc = c.uc + s.univ /\ r.uc \in 0 .. UCMax
      /\ s.pushed \in Nat /\ Len(cx) = Len(c.ctx) + s.pushed /\ r.i = cx[Len(cx)]
  BY <1>2 DEF Running, InContext
<1> DEFINE L == Len(cx) - 1
           cz == SubSeq(cx, 1, Len(cx) - 1)
<1>4. L \in Nat /\ 1 <= L /\ L < Len(cx) /\ Len(c.ctx) <= L /\ L + 1 = Len(cx)
  BY <1>2, <1>3
<1>5. /\ cz \in Seq(Nat) /\ Len(cz) = L /\ \A k \in 1 .. L : cz[k] = cx[k]
  <2>1. cx \in Seq(Nat)
    BY <1>2 DEF Records
  <2> QED
    BY <2>1, <1>4
<1> HIDE DEF L, cz
<1>6. cz # <<>> /\ cz[1] = ModuleIP /\ L \in 1 .. Len(cx)
  BY <1>2, <1>4, <1>5 DEF Records
<1>7. \A k \in 1 .. Len(cz) : Record(m, cz, k)
  <2>1. ASSUME NEW k \in 1 .. L PROVE Record(m, cz, k)
    <3>1. Record(m, cx, k) /\ k \in Nat /\ 0 < k
      BY <1>2, <1>4 DEF Records
    <3>2. \A j \in 1 .. k : cz[j] = cx[j]
      BY <1>4, <1>5
    <3> QED
      BY <3>1, <3>2, RecordPrefix
  <2> QED
    BY <2>1, <1>5
<1>8. Records(m, cz)
  BY <1>5, <1>6, <1>7 DEF Records
<1>9. q.i = cz[L]
  <2>1. Len(cx) \in 1 .. Len(cx) /\ Len(cx) # 1 /\ L = Len(cx) - 1
    BY <1>2, <1>4
  <2>2. Record(m, cx, Len(cx))
    BY <2>1, <1>2 DEF Records
  <2>3. m[r.i + 4] = W("pip", cx[L])
    BY <2>1, <2>2, <1>3 DEF Record
  <2>4. cz[L] = cx[L]
    BY <1>4, <1>5
  <2> QED
    BY <2>3, <2>4 DEF W
<1>10. /\ Layout(m, Frames(q.e, n, cs), q.tos, cz, ps)
       /\ q.tos \in Addr /\ LastB(ps) < q.tos
  <2>1. /\ Len(cz) \in 1 .. Len(cx) /\ IsSeq(ps) /\ Len(ps) \in 0 .. Len(ps)
        /\ \A k \in 1 .. Len(cz) : cz[k] = cx[k]
    BY <1>5, <1>6, SeqIs DEF Stacked
  <2>2. /\ Layout(m, Frames(r.e, n, cs), TosFor(cz[Len(cz)], LastB(ps)), cz, ps)
        /\ LastB(ps) < TosFor(cz[Len(cz)], LastB(ps))
        /\ TosFor(cz[Len(cz)], LastB(ps)) \in Addr /\ LastB(ps) \in Addr
    <3>1. PICK pz : pz = ps
      OBVIOUS
    <3>2. IsSeq(pz) /\ Len(pz) \in 0 .. Len(ps) /\ \A k \in 1 .. Len(pz) : pz[k] = ps[k]
      BY <2>1, <3>1
    <3>3. /\ Layout(m, Frames(r.e, n, cs), TosFor(cz[Len(cz)], LastB(pz)), cz, pz)
          /\ LastB(pz) < TosFor(cz[Len(cz)], LastB(pz))
          /\ TosFor(cz[Len(cz)], LastB(pz)) \in Addr /\ LastB(pz) \in Addr
      <4>1. Layout(m, Frames(r.e, n, cs), r.tos, cx, ps) /\ Records(m, cx) /\ Stacked(ps)
        BY <1>2
      <4>2. Len(cz) \in 1 .. Len(cx) /\ \A k \in 1 .. Len(cz) : cz[k] = cx[k]
        BY <2>1
      <4> QED
        BY ONLY WellShaped(prog), <4>1, <4>2, <3>2, SetsTos
    <3> QED
      BY <3>1, <3>3
  <2> QED
    BY <2>2, <1>5, <1>9
<1>11. Calls(m, cs, cz, ps)
  <2>1. Len(cz) \in Nat /\ Len(c.ctx) <= Len(cz)
    BY <1>4, <1>5
  <2>2. \A k \in 1 .. Len(c.ctx) : cz[k] = cx[k]
    BY <1>2, <1>4, <1>5
  <2> QED
    BY <1>1, <1>2, <2>1, <2>2, CallsContext
<1>12. AtEnv(m, q, n, c, ps, t)
  BY <1>2 DEF Running, AtEnv, Environment, Levels
<1>13. InContext(q, c, cz, t)
  <2>a. s.pushed \in Nat /\ s.pushed > 0 /\ L + 1 = Len(c.ctx) + s.pushed
    BY <1>3, <1>4
  <2>1. s.pushed - 1 \in Nat /\ Len(cz) = Len(c.ctx) + (s.pushed - 1)
    <3>1. PICK d \in Nat, l \in Nat : d = s.pushed /\ l = Len(c.ctx)
      BY <1>2, <2>a
    <3>2. L = l + (d - 1) /\ d - 1 \in Nat
      BY <2>a, <3>1, <1>4
    <3> QED
      BY <3>1, <3>2, <1>5
  <2> QED
    BY <2>1, <1>3, <1>5, <1>9 DEF InContext
<1>14. FromRecord(m, q, c, cz, t)
  <2>1. \A k \in 1 .. Len(c.ctx) : cz[k] = cx[k]
    BY <1>2, <1>4, <1>5
  <2> QED
    BY <2>1, <1>2 DEF Running, FromRecord
<1>15. CutKnown(m, q, c, ps, t) /\ GoalKnown(m, q, t)
  BY <1>2 DEF Running, CutKnown, GoalKnown
<1>16. q.i \in Nat /\ RecEnd(q.i) <= StackEnd
  BY <1>2, <1>5, <1>6, <1>9, <1>4, RecordsOrder
<1> QED
  BY <1>1, <1>8, <1>10, <1>11, <1>12, <1>13, <1>14, <1>15, <1>16 DEF View, Running, cz

-----------------------------------------------------------------------------
\* Choice points are addresses of the stack, the newest one highest.
LEMMA PointsAre ==
    ASSUME NEW ps, Stacked(ps)
    PROVE  /\ Points(ps) \subseteq Nat /\ LastB(ps) \in Points(ps) /\ Len(ps) \in Nat
           /\ \A b \in Points(ps) : b <= LastB(ps) /\ FstCP <= b
<1>1. /\ Len(ps) \in Nat /\ (ps = <<>> <=> Len(ps) = 0)
      /\ \A k \in 1 .. Len(ps) : ps[k].base \in Nat /\ ps[k].b \in Nat /\ FstCP < ps[k].b
  <2>1. Len(ps) \in Nat /\ (ps = <<>> <=> Len(ps) = 0)
    BY SeqIs DEF Stacked
  <2>2. ASSUME NEW k \in 1 .. Len(ps) PROVE ps[k].base \in Nat /\ ps[k].b \in Nat /\ FstCP < ps[k].b
    <3>1. /\ ps[k].base \in Nat /\ ps[k].b \in Nat
          /\ FstCP < ps[k].base /\ ps[k].base <= ps[k].b
      BY DEF Stacked
    <3> QED
      BY <3>1 DEF FstCP
  <2> QED
    BY <2>1, <2>2
<1>2. Points(ps) \subseteq Nat
  BY <1>1 DEF Points, FstCP
<1>3. LastB(ps) \in Points(ps)
  <2>1. CASE Len(ps) = 0
    BY <1>1, <2>1 DEF LastB, Points
  <2>2. CASE Len(ps) # 0
    <3>1. Len(ps) \in 1 .. Len(ps)
      BY <1>1, <2>2
    <3> QED
      BY <1>1, <2>2, <3>1 DEF LastB, Points
  <2> QED
    BY <2>1, <2>2
<1>4. ASSUME NEW k \in 1 .. Len(ps) PROVE ps[k].b <= LastB(ps)
  <2>1. Len(ps) \in 1 .. Len(ps) /\ LastB(ps) = ps[Len(ps)].b /\ (k = Len(ps) \/ k < Len(ps))
    BY <1>1 DEF LastB
  <2>2. CASE k = Len(ps)
    <3>1. ps[Len(ps)].b <= ps[Len(ps)].b
      BY <2>1, <1>1
    <3> QED
      BY <3>1, <2>1, <2>2
  <2>3. CASE k < Len(ps)
    <3>1. ps[k].b < ps[Len(ps)].base /\ ps[Len(ps)].base <= ps[Len(ps)].b
      BY <2>1, <2>3 DEF Stacked
    <3> QED
      BY <3>1, <2>1, <1>1
  <2> QED
    BY <2>1, <2>2, <2>3
<1>5. FstCP <= LastB(ps) /\ FstCP <= FstCP
  <2>1. CASE Len(ps) = 0
    BY <1>1, <2>1 DEF LastB, FstCP
  <2>2. CASE Len(ps) # 0
    <3>1. Len(ps) \in 1 .. Len(ps) /\ LastB(ps) = ps[Len(ps)].b
      BY <1>1, <2>2 DEF LastB
    <3> QED
      BY <3>1, <1>1 DEF FstCP
  <2> QED
    BY <2>1, <2>2
<1>6. ASSUME NEW b \in Points(ps) PROVE b <= LastB(ps) /\ FstCP <= b
  <2>1. CASE b = FstCP
    BY <2>1, <1>5
  <2>2. CASE \E k \in 1 .. Len(ps) : b = ps[k].b
    <3>1. PICK k \in 1 .. Len(ps) : b = ps[k].b
      BY <2>2
    <3> QED
      BY <3>1, <1>1, <1>4 DEF FstCP
  <2> QED
    BY <2>1, <2>2 DEF Points
<1> QED
  BY <1>1, <1>2, <1>3, <1>6

\* A choice point is put just above the frontier.
LEMMA ViewAddsChoice ==
    ASSUME WellShaped(prog), NEW m, NEW r, NEW n, NEW cs, NEW cx, NEW ps, NEW s,
           View(m, r, n, cs, cx, ps, s), ~s.own, Stacked(ps), NEW F, F = Frontier(r.e, n, r.tos),
           NEW z, \A a \in 0 .. F - 1 : z[a] = m[a],
           NEW d, d.base = F, d.b \in Nat, d.base <= d.b, d.b + 1 \in Addr,
           NEW q, q.e = r.e, q.cp = r.cp, q.i = r.i, q.uc = r.uc, q.ci = r.ci, q.tos = d.b + 1,
           NEW t, ~t.own, t.univ = s.univ, t.pushed = s.pushed, t.ext \in 0 .. s.ext,
           \A c : c = cs[Len(cs)] => CutKnown(z, q, c, Append(ps, d), t),
           GoalKnown(z, q, t)
    PROVE  View(z, q, n, cs, cx, Append(ps, d), t)
<1> DEFINE pz == Append(ps, d)
<1>1. /\ View(z, r, n, cs, cx, ps, s)
      /\ Reaches(Frames(r.e, n, cs), r.tos, F) /\ F \in Nat
  BY ViewBelow, ViewReaches
<1>2. PICK c : c = cs[Len(cs)]
  OBVIOUS
<1>a. PICK u : u = [s EXCEPT !.ext = t.ext]
  OBVIOUS
<1>3. /\ Calls(z, cs, cx, ps) /\ Records(z, cx) /\ Layout(z, Frames(r.e, n, cs), r.tos, cx, ps)
      /\ Running(z, r, n, c, cx, ps, s) /\ Len(cx) \in Nat
      /\ Len(c.ctx) \in Nat /\ Len(c.ctx) <= Len(cx)
  <2>1. Calls(z, cs, cx, ps) /\ Records(z, cx) /\ Layout(z, Frames(r.e, n, cs), r.tos, cx, ps)
    BY ONLY <1>1 DEF View
  <2>2. /\ Running(z, r, n, c, cx, ps, s) /\ Len(cx) \in Nat
        /\ Len(c.ctx) \in Nat /\ Len(c.ctx) <= Len(cx)
    BY ONLY <1>1, <1>2, CallerIs
  <2> QED
    BY <2>1, <2>2
<1>4. IsSeq(ps) /\ Points(ps) \subseteq Nat /\ Points(pz) = Points(ps) \cup {d.b}
  BY PointsAre, PointsGrow DEF Stacked
<1>5. Layout(z, Frames(r.e, n, cs), d.b + 1, cx, pz)
  <2>1. F <= d.base /\ d.base \in Nat /\ d.base <= d.b + 1
    BY <1>1
  <2> QED
    BY <2>1, <1>1, <1>3, <1>4, LayoutAddsChoice
<1>6. Calls(z, cs, cx, pz)
  BY <1>2, <1>3, <1>4, CallsPoints
<1> HIDE DEF pz
<1>7. AtEnv(z, q, n, c, pz, t)
  BY <1>3 DEF Running, AtEnv
<1>8. InContext(q, c, cx, t)
  BY <1>3 DEF Running, InContext
<1>9. FromRecord(z, q, c, cx, t)
  <2>1. s.ext \in Nat /\ t.ext \in 0 .. s.ext
    BY <1>3 DEF Running, FromRecord
  <2>2. ASSUME NEW k \in 1 .. Len(c.ctx), s.ext <= Links(z, cx[k])
        PROVE  t.ext <= Links(z, cx[k])
    <3>1. k \in 1 .. Len(cx)
      BY <1>3
    <3>2. z[cx[k] + 2].v \in DOMAIN Tables
      BY <3>1, <1>3 DEF Records, Record
    <3>3. Links(z, cx[k]) \in Nat
      BY <3>2, Tabled DEF Links
    <3> QED
      BY <3>3, <2>1, <2>2
  <2> QED
    BY <2>1, <2>2, <1>3 DEF Running, FromRecord
<1>10. CutKnown(z, q, c, pz, t) /\ GoalKnown(z, q, t)
  BY <1>2 DEF pz
<1>11. Layout(z, Frames(q.e, n, cs), q.tos, cx, pz)
  BY <1>5
<1>12. View(z, q, n, cs, cx, pz, t)
  BY <1>2, <1>3, <1>6, <1>7, <1>8, <1>9, <1>10, <1>11 DEF View, Running
<1> QED
  BY <1>12 DEF pz

\* Choice points go, but none that a caller may still cut back to.
LEMMA ViewCuts ==
    ASSUME NEW m, NEW r, NEW n, NEW cs, NEW cx, NEW ps, NEW s,
           View(m, r, n, cs, cx, ps, s), Stacked(ps), NEW c, c = cs[Len(cs)],
           NEW pz, \A b \in Points(ps) : b <= c.floor => b \in Points(pz),
           NEW q, q.e = r.e, q.cp = r.cp, q.i = r.i, q.uc = r.uc, q.ci = r.ci, q.a1 = r.a1,
           q.b0 = r.b0, Layout(m, Frames(r.e, n, cs), q.tos, cx, pz),
           s.own => Levels(m, c, r.e, s, pz), CutKnown(m, q, c, pz, s)
    PROVE  View(m, q, n, cs, cx, pz, s)
<1>1. /\ Calls(m, cs, cx, ps) /\ Records(m, cx)
      /\ Running(m, r, n, c, cx, ps, s)
  BY DEF View
<1>2. Points(ps) \subseteq Nat
  BY PointsAre
<1>3. Calls(m, cs, cx, pz)
  BY <1>1, <1>2, CallsPoints
<1>4. AtEnv(m, q, n, c, pz, s)
  BY <1>1 DEF Running, AtEnv
<1>5. InContext(q, c, cx, s) /\ FromRecord(m, q, c, cx, s) /\ GoalKnown(m, q, s)
  BY <1>1 DEF Running, InContext, FromRecord, GoalKnown
<1> QED
  BY <1>1, <1>3, <1>4, <1>5 DEF View, Running

-----------------------------------------------------------------------------
\* A variable of the environment is set.
LEMMA EnvironmentSets ==
    ASSUME NEW m, NEW c, NEW e \in Nat, NEW s, IsShape(s), Environment(m, c, e, s),
           NEW x \in 1 .. s.n, s.slot[x] = "none",
           NEW w, NEW kind, \/ kind = "value" /\ w.f \in Values
                            \/ kind = "level" /\ w.f = "level",
           NEW z, z[e + 2 * x] = w, \A b : b # e + 2 * x => z[b] = m[b]
    PROVE  /\ Environment(z, c, e, Set(s, x, kind))
           /\ \A y \in 1 .. s.n : y # x => z[e + 2 * y] = m[e + 2 * y]
<1> DEFINE t == Set(s, x, kind)
<1>1. /\ t.n = s.n /\ t.slot[x] = kind
      /\ \A y \in 1 .. s.n : y # x => t.slot[y] = s.slot[y]
      /\ s.n \in Nat
  BY DEF Set, IsShape
<1> HIDE DEF t
<1>2. z[e + 2 * x] = w
  OBVIOUS
<1>3. \A b : b # e + 2 * x => z[b] = m[b]
  OBVIOUS
<1>4. \A y \in 1 .. s.n : y # x => e + 2 * y # e + 2 * x
  BY <1>1
<1>5. \A y \in 1 .. s.n : e + 2 * y + 1 # e + 2 * x
  BY <1>1
<1>6. e + 1 # e + 2 * x /\ e - 1 # e + 2 * x /\ e - 2 # e + 2 * x
  BY <1>1
<1>7. ASSUME NEW y \in 1 .. s.n PROVE Slot(z, e + 2 * y, t.slot[y])
  <2>1. Slot(m, e + 2 * y, s.slot[y])
    BY DEF Environment
  <2>2. z[e + 2 * y + 1] = m[e + 2 * y + 1]
    BY <1>3, <1>5
  <2>3. CASE y = x
    BY <2>1, <2>2, <2>3, <1>1, <1>2 DEF Slot
  <2>4. CASE y # x
    <3>1. z[e + 2 * y] = m[e + 2 * y] /\ t.slot[y] = s.slot[y]
      BY <2>4, <1>1, <1>3, <1>4
    <3> QED
      BY <2>1, <2>2, <3>1 DEF Slot
  <2> QED
    BY <2>3, <2>4
<1>8. ASSUME NEW y \in 1 .. s.n, t.slot[y] = "cut" PROVE t.slot[1] = "goal"
  <2>1. y # x
    BY <1>1, <1>8
  <2>2. s.slot[1] = "goal" /\ 1 \in 1 .. s.n
    BY <2>1, <1>1, <1>8 DEF Environment
  <2> QED
    BY <2>2, <1>1
<1>9. /\ z[e + 1] = m[e + 1] /\ z[e - 1] = m[e - 1] /\ z[e - 2] = m[e - 2]
  BY <1>3, <1>6
<1>10. Environment(z, c, e, t)
  BY <1>1, <1>7, <1>8, <1>9 DEF Environment
<1> QED
  BY <1>2, <1>3, <1>4, <1>10 DEF t

\* A variable of the environment without a value gets one.
LEMMA ViewSets ==
    ASSUME WellShaped(prog), NEW m, NEW r, NEW n, NEW cs, NEW cx, NEW ps, NEW s,
           View(m, r, n, cs, cx, ps, s), IsShape(s), s.own, DOMAIN m = Addr,
           NEW x \in 1 .. s.n, s.slot[x] = "none",
           NEW w, NEW kind, \/ kind = "value" /\ w.f \in Values
                            \/ kind = "level" /\ w.f = "level" /\ w.v = r.b0 /\ s.cut = "clause",
           NEW z, z = [m EXCEPT ![r.e + 2 * x] = w]
    PROVE  View(z, r, n, cs, cx, ps, Set(s, x, kind)) /\ r.e + 2 * x \in Addr
<1>1. PICK c : c = cs[Len(cs)]
  OBVIOUS
<1>2. /\ Calls(m, cs, cx, ps) /\ Records(m, cx) /\ Layout(m, Frames(r.e, n, cs), r.tos, cx, ps)
      /\ Running(m, r, n, c, cx, ps, s) /\ Len(cx) \in Nat /\ c.e \in Nat
      /\ Len(cs) \in Nat \ {0} /\ Len(c.ctx) \in Nat /\ Len(c.ctx) <= Len(cx)
  BY <1>1, CallerIs DEF View
<1>3. /\ n = s.n /\ n \in Nat /\ c.e < r.e /\ r.e \in Nat
      /\ Environment(m, c, r.e, s) /\ Levels(m, c, r.e, s, ps)
  BY <1>2 DEF Running, AtEnv
<1> DEFINE f == [e |-> r.e, n |-> n]
           a == r.e + 2 * x
           t == Set(s, x, kind)
<1>4. f \in Frames(r.e, n, cs) /\ r.e # StackBeg
  <2>1. r.e # StackBeg
    BY <1>2, <1>3 DEF StackBeg
  <2> QED
    BY <2>1 DEF Frames
<1>5. Placed(m, f, cx, ps)
  BY <1>2, <1>4 DEF Layout
<1>6. a \in Nat /\ r.e < a /\ a + 2 <= EnvEnd(f)
  BY <1>3 DEF EnvEnd
<1>7. a \in Addr
  <2>1. EnvEnd(f) <= StackEnd + 1 /\ StackEnd \in Nat /\ EnvEnd(f) \in Nat
    <3>1. EnvEnd(f) <= StackEnd + 1 /\ f.e \in Nat /\ f.n \in Nat
      BY ONLY <1>5 DEF Placed
    <3>2. StackEnd \in Nat
      BY Limits
    <3> HIDE DEF f
    <3> QED
      BY ONLY <3>1, <3>2 DEF EnvEnd
  <2> QED
    BY <2>1, <1>6 DEF Addr, StackBeg
<1>8. Untouched(m, z, cx)
  <2>1. ASSUME NEW k \in 1 .. Len(cx), NEW b \in RecStart(m, cx[k]) .. RecEnd(cx[k]) - 1
        PROVE  z[b] = m[b]
    <3>1. RecEnd(cx[k]) <= r.e - 2 \/ EnvEnd(f) <= RecStart(m, cx[k])
      BY <1>5 DEF Placed, Beside
    <3>2. EnvEnd(f) \in Nat
      BY <1>3 DEF EnvEnd
    <3> HIDE DEF f, a
    <3>3. RecEnd(cx[k]) \in Nat /\ RecStart(m, cx[k]) \in Nat
      BY <1>2 DEF Layout
    <3>4. b # a
      BY <3>1, <3>2, <3>3, <1>3, <1>6
    <3> QED
      BY <3>4 DEF a
  <2> QED
    BY <2>1 DEF Untouched, Intact
<1>9. CallsKept(m, z, cs)
  <2>1. ASSUME NEW j \in 2 .. Len(cs), NEW b \in cs[j].e - 2 .. cs[j].e + 1 + 2 * CallI1(cs[j].ret)
        PROVE  z[b] = m[b]
    <3> DEFINE g == [e |-> cs[j].e, n |-> CallI1(cs[j].ret)]
    <3>1. g \in Frames(r.e, n, cs)
      BY DEF Frames
    <3>2. cs[j].e <= c.e /\ cs[j].e \in Nat
      <4>1. j \in 1 .. Len(cs) /\ Len(cs) \in 1 .. Len(cs) /\ (j = Len(cs) \/ j < Len(cs))
        BY <1>2
      <4>2. cs[j].e \in Nat /\ (j = Len(cs) \/ cs[j].e < c.e)
        BY <4>1, <1>1, <1>2 DEF Calls, Called
      <4>3. CASE j = Len(cs)
        <5>1. c.e <= c.e
          BY <1>2
        <5> QED
          BY <5>1, <4>2, <4>3, <1>1
      <4> QED
        BY <4>2, <4>3, <1>2
    <3>3. g.e # f.e
      BY <3>2, <1>2, <1>3
    <3>4. Beside(f, g.e - 2, EnvEnd(g))
      BY <3>1, <3>3, <1>2, <1>4 DEF Layout
    <3>5. EnvEnd(g) <= r.e - 2 \/ EnvEnd(f) <= cs[j].e - 2
      BY <3>4 DEF Beside
    <3>6. CallI1(cs[j].ret) \in Nat
      BY <3>1, <1>2 DEF Layout, Placed
    <3>7. EnvEnd(g) = cs[j].e + 2 + 2 * CallI1(cs[j].ret) /\ EnvEnd(f) \in Nat
      BY <1>3 DEF EnvEnd
    <3>8. /\ b \in cs[j].e - 2 .. cs[j].e + 1 + 2 * CallI1(cs[j].ret)
          /\ r.e < a /\ a + 2 <= EnvEnd(f) /\ a \in Nat
      BY <1>6
    <3> HIDE DEF f, g, a
    <3>9. b # a
      <4>1. PICK e \in Nat, l \in Nat, E \in Nat, R \in Nat :
               e = cs[j].e /\ l = CallI1(cs[j].ret) /\ E = EnvEnd(f) /\ R = r.e
        BY <3>2, <3>6, <3>7, <1>3
      <4>2. /\ b \in e - 2 .. e + 1 + 2 * l /\ R < a /\ a + 2 <= E /\ a \in Nat
            /\ e + 2 + 2 * l <= R - 2 \/ E <= e - 2
        BY <3>5, <3>7, <3>8, <4>1
      <4> QED
        BY ONLY <4>2, e \in Nat, l \in Nat, E \in Nat, R \in Nat
    <3> QED
      BY <3>9 DEF a
  <2> QED
    BY <2>1 DEF CallsKept, EnvKept, Like
<1>10. /\ Records(z, cx)
       /\ \A k \in 1 .. Len(cx) : /\ RecStart(z, cx[k]) = RecStart(m, cx[k])
                                  /\ Links(z, cx[k]) = Links(m, cx[k])
  BY ONLY WellShaped(prog), <1>2, <1>8, RecordsAgree
<1>11. Layout(z, Frames(r.e, n, cs), r.tos, cx, ps)
  BY <1>2, <1>10, LayoutAgrees
<1>12. Calls(z, cs, cx, ps)
  BY <1>2, <1>9, CallsAgree
<1>13. /\ Environment(z, c, r.e, t) /\ z[a] = w
       /\ \A y \in 1 .. s.n : y # x => z[r.e + 2 * y] = m[r.e + 2 * y]
  <2>1. \/ kind = "value" /\ w.f \in Values
        \/ kind = "level" /\ w.f = "level"
    OBVIOUS
  <2>2. r.e \in Nat /\ Environment(m, c, r.e, s) /\ a \in Addr
    BY <1>3, <1>7
  <2>3. z[a] = w /\ \A b : b # a => z[b] = m[b]
    BY <2>2
  <2>4. z[r.e + 2 * x] = w /\ \A b : b # r.e + 2 * x => z[b] = m[b]
    BY <2>3
  <2> QED
    BY ONLY <2>1, <2>2, <2>4, IsShape(s), x \in 1 .. s.n, s.slot[x] = "none", EnvironmentSets
<1>14. /\ t.own = s.own /\ t.n = s.n /\ t.pushed = s.pushed /\ t.univ = s.univ
       /\ t.cut = s.cut /\ t.a1 = s.a1 /\ t.ext = s.ext /\ t.slot[x] = kind
       /\ \A y \in 1 .. s.n : y # x => t.slot[y] = s.slot[y]
       /\ s.n \in Nat /\ kind \in {"value", "level"}
  BY DEF Set, IsShape
<1> HIDE DEF f, a, t
<1>15. ASSUME s.cut = "clause"
       PROVE  /\ r.b0 \in Points(ps) /\ c.floor <= r.b0
              /\ \A y \in 1 .. s.n : t.slot[y] = "level" => z[r.e + 2 * y].v = r.b0
  <2>1. /\ r.b0 \in Points(ps) /\ c.floor <= r.b0
        /\ \A y \in 1 .. s.n : s.slot[y] = "level" => m[r.e + 2 * y].v = r.b0
    BY <1>2, <1>15 DEF Running, CutKnown
  <2>2. t.slot[x] = "level" => z[a].v = r.b0
    BY <1>13, <1>14
  <2> QED
    BY <2>1, <2>2, <1>13, <1>14 DEF a
<1>16. Levels(z, c, r.e, t, ps)
  <2>1. ASSUME NEW y \in 1 .. s.n, t.slot[y] = "level"
        PROVE  /\ z[r.e + 2 * y].v \in Points(ps) /\ c.floor <= z[r.e + 2 * y].v
               /\ \A i \in 1 .. s.n : t.slot[i] = "level" => z[r.e + 2 * i].v = z[r.e + 2 * y].v
    <3>1. CASE kind = "level"
      BY <2>1, <3>1, <1>15
    <3>2. CASE kind # "level"
      <4>1. \A i \in 1 .. s.n : t.slot[i] = "level" =>
               i # x /\ s.slot[i] = "level" /\ z[r.e + 2 * i] = m[r.e + 2 * i]
        BY <3>2, <1>13, <1>14
      <4> QED
        BY <2>1, <4>1, <1>3 DEF Levels
    <3> QED
      BY <3>1, <3>2
  <2>2. ASSUME NEW y \in 1 .. s.n, t.slot[y] = "cut"
        PROVE  CutPoint(ps, c, z[r.e + 2].v, z[r.e + 2 * y].v)
    <3>1. y # x /\ s.slot[y] = "cut"
      BY <2>2, <1>14
    <3>2. s.slot[1] = "goal" /\ 1 \in 1 .. s.n
      BY <3>1, <1>3, <1>14 DEF Environment
    <3>3. z[r.e + 2 * 1] = m[r.e + 2 * 1] /\ z[r.e + 2 * y] = m[r.e + 2 * y]
      BY <3>1, <3>2, <1>13
    <3>4. CutPoint(ps, c, m[r.e + 2].v, m[r.e + 2 * y].v)
      BY <3>1, <1>3 DEF Levels
    <3> QED
      BY <3>3, <3>4
  <2> QED
    BY <2>1, <2>2, <1>14 DEF Levels
<1>17. AtEnv(z, r, n, c, ps, t)
  BY <1>3, <1>13, <1>14, <1>16 DEF AtEnv
<1>18. InContext(r, c, cx, t)
  BY <1>2, <1>14 DEF Running, InContext
<1>19. FromRecord(z, r, c, cx, t)
  <2>1. \A k \in 1 .. Len(c.ctx) : k \in 1 .. Len(cx)
    BY <1>2
  <2> QED
    BY <2>1, <1>2, <1>10, <1>14 DEF Running, FromRecord
<1>20. CutKnown(z, r, c, ps, t)
  <2>1. s.cut = "goal" => CutPoint(ps, c, r.a1, r.b0)
    BY <1>2 DEF Running, CutKnown
  <2> QED
    BY <2>1, <1>14, <1>15 DEF CutKnown
<1>21. GoalKnown(z, r, t)
  <2>1. GoalKnown(m, r, s)
    BY <1>2 DEF Running
  <2>2. ASSUME s.a1 = "slot" PROVE t.slot[1] = "goal" /\ z[r.e + 2] = m[r.e + 2]
    <3>1. s.slot[1] = "goal" /\ 1 \in 1 .. s.n
      BY <2>1, <2>2, <1>14 DEF GoalKnown
    <3>2. 1 # x
      BY <3>1
    <3>3. z[r.e + 2 * 1] = m[r.e + 2 * 1]
      BY <3>1, <3>2, <1>13
    <3> QED
      BY <3>1, <3>2, <3>3, <1>14
  <2> QED
    BY <2>1, <2>2, <1>14 DEF GoalKnown
<1> QED
  BY <1>1, <1>7, <1>10, <1>11, <1>12, <1>17, <1>18, <1>19, <1>20, <1>21 DEF View, Running, a, t
=============================================================================
