---------------------------- MODULE ControlProofs ----------------------------
(***************************************************************************)
(* What remains of the proof that IInv of ControlInvariant is inductive,   *)
(* the steps that push a record, an environment of the interpreter or a    *)
(* choice point, those of a unification and of the driver; what follows    *)
(* from it in every state; and the theorems of Control.                    *)
(***************************************************************************)
EXTENDS ControlExtents

-----------------------------------------------------------------------------
\* A sequence given by its words.
LEMMA WordsAre ==
    ASSUME NEW n \in Nat, NEW s, DOMAIN s = 1 .. n, s = [k \in 1 .. n |-> s[k]]
    PROVE  IsSeq(s) /\ Len(s) = n
<1> DEFINE U == {s[k] : k \in 1 .. n}
<1>1. s \in [1 .. n -> U]
  OBVIOUS
<1>2. s \in Seq(U) /\ Len(s) = n
  BY ONLY <1>1
<1>3. U = {s[k] : k \in 1 .. Len(s)}
  BY <1>2
<1> HIDE DEF U
<1> QED
  BY <1>2, <1>3 DEF IsSeq

\* Even and odd numbers.
LEMMA HalvesAre ==
    ASSUME NEW z \in Nat \ {0}
    PROVE  /\ (2 * z) % 2 = 0 /\ (2 * z) \div 2 = z
           /\ (2 * z - 1) % 2 = 1 /\ (2 * z - 1 + 1) \div 2 = z
<1>1. (2 * z) % 2 = 0
  OBVIOUS
<1>2. (2 * z) \div 2 = z
  OBVIOUS
<1>3. (2 * z - 1) % 2 = 1
  OBVIOUS
<1>4. (2 * z - 1 + 1) \div 2 = z
  OBVIOUS
<1> QED
  BY <1>1, <1>2, <1>3, <1>4

\* Where the parts of a record are.
LEMMA PartsAre ==
    ASSUME NEW s \in Nat, NEW m \in Nat, NEW V, V = 2 * s + 2 * m
    PROVE  /\ \A k \in 1 .. V + 6 : k \in 1 .. 2 * s \/ k - 2 * s \in 1 .. 2 * m \/ k - V \in 1 .. 6
           /\ \A y \in 1 .. m : \A z : z = m + 1 - y =>
                 /\ V + 1 - 2 * y = 2 * s + (2 * z - 1) /\ V + 2 - 2 * y = 2 * s + 2 * z
                 /\ 2 * z - 1 \in 1 .. 2 * m /\ 2 * z \in 1 .. 2 * m
                 /\ V + 1 - 2 * y \in 1 .. V /\ V + 2 - 2 * y \in 1 .. V
<1>1. \A k \in 1 .. V + 6 : k \in 1 .. 2 * s \/ k - 2 * s \in 1 .. 2 * m \/ k - V \in 1 .. 6
  OBVIOUS
<1>2. ASSUME NEW y \in 1 .. m, NEW z, z = m + 1 - y
      PROVE /\ V + 1 - 2 * y = 2 * s + (2 * z - 1) /\ V + 2 - 2 * y = 2 * s + 2 * z
                 /\ 2 * z - 1 \in 1 .. 2 * m /\ 2 * z \in 1 .. 2 * m
                 /\ V + 1 - 2 * y \in 1 .. V /\ V + 2 - 2 * y \in 1 .. V
  BY <1>2
<1> QED
  BY <1>1, <1>2

\* Where the vector of next clauses of table t says what the predicates are that
\* its clauses extend: their code as found from the record i, or to fail.
NextWords(ws, V, i, t) ==
    \A y \in 1 .. Len(Tables[t].link) :
       LET ip == FindIP(i, Tables[t].link[y])
       IN  /\ ws[V + 1 - 2 * y] =
                 W("ncl", IF CodeAt(ip, Tables[t].link[y]) = 0 THEN FailCode
                          ELSE CodeAt(ip, Tables[t].link[y]))
           /\ ws[V + 2 - 2 * y] = W("nclip", ip)

\* The words of a new record, for table t.
LEMMA RecordWordsAre ==
    ASSUME WellShaped(prog), NEW r, NEW t \in DOMAIN Tables, NEW word0, NEW tag,
           NEW V, V = VectorSize(t), NEW ws, ws = RecordWords(r, t, word0, tag),
           word0.f \notin {"free", "bound", "junk"}
    PROVE  /\ DOMAIN ws = 1 .. V + 6 /\ V \in Nat
           /\ ws[V + 1] = word0 /\ ws[V + 2] = W("tag", tag) /\ ws[V + 3] = W("pst", t)
           /\ ws[V + 5] = W("pip", r.i)
           /\ \A k \in 1 .. V + 6 : ws[k].f \notin {"free", "bound", "junk"}
           /\ NextWords(ws, V, r.i, t)
<1> DEFINE T == Tables[t]
           m == Len(T.link)
           ip(k) == FindIP(r.i, T.link[m + 1 - k])
           ncl(k) == CodeAt(ip(k), T.link[m + 1 - k])
           A == [k \in 1 .. 2 * T.segs |-> IF k % 2 = 1 THEN W("bck", 0) ELSE W("mrcp", r.b)]
           B == [k \in 1 .. 2 * m |->
                   IF k % 2 = 0 THEN W("nclip", ip(k \div 2))
                   ELSE W("ncl", IF ncl((k + 1) \div 2) = 0 THEN FailCode
                                 ELSE ncl((k + 1) \div 2))]
           C == <<word0, W("tag", tag), W("pst", t), W("fc", 0), W("pip", r.i),
                  W("psts", Cardinality(DOMAIN T.code))>>
<1>1. T.segs \in Nat /\ m \in Nat /\ V = 2 * T.segs + 2 * m /\ V \in Nat
  BY Tabled
<1>2. ws = A \o B \o C
  BY DEF RecordWords
<1>3. /\ DOMAIN A = 1 .. 2 * T.segs /\ IsSeq(A) /\ Len(A) = 2 * T.segs
      /\ \A k \in 1 .. 2 * T.segs : A[k].f \notin {"free", "bound", "junk"}
  <2>1. A = [k \in 1 .. 2 * T.segs |-> A[k]] /\ DOMAIN A = 1 .. 2 * T.segs /\ 2 * T.segs \in Nat
    BY <1>1
  <2>2. \A k \in 1 .. 2 * T.segs : A[k].f \notin {"free", "bound", "junk"}
    BY DEF W
  <2> HIDE DEF A
  <2> QED
    BY <2>1, <2>2, WordsAre
<1>4. /\ DOMAIN B = 1 .. 2 * m /\ IsSeq(B) /\ Len(B) = 2 * m
      /\ \A k \in 1 .. 2 * m : B[k].f \notin {"free", "bound", "junk"}
  <2>1. B = [k \in 1 .. 2 * m |-> B[k]] /\ DOMAIN B = 1 .. 2 * m /\ 2 * m \in Nat
    BY <1>1
  <2>2. \A k \in 1 .. 2 * m : B[k].f \notin {"free", "bound", "junk"}
    <3> HIDE DEF ip, ncl
    <3> QED
      BY DEF W
  <2> HIDE DEF B
  <2> QED
    BY <2>1, <2>2, WordsAre
<1>5. \A z \in 1 .. m : /\ B[2 * z] = W("nclip", ip(z))
                        /\ B[2 * z - 1] = W("ncl", IF ncl(z) = 0 THEN FailCode ELSE ncl(z))
  <2> SUFFICES ASSUME NEW z \in 1 .. m
               PROVE  /\ B[2 * z] = W("nclip", ip(z))
                      /\ B[2 * z - 1] = W("ncl", IF ncl(z) = 0 THEN FailCode ELSE ncl(z))
    OBVIOUS
  <2>1. /\ 2 * z \in 1 .. 2 * m /\ (2 * z) % 2 = 0 /\ (2 * z) \div 2 = z
        /\ 2 * z - 1 \in 1 .. 2 * m /\ (2 * z - 1) % 2 # 0 /\ (2 * z - 1 + 1) \div 2 = z
    <3>1. z \in Nat \ {0} /\ 2 * z \in 1 .. 2 * m /\ 2 * z - 1 \in 1 .. 2 * m
      BY <1>1
    <3>2. /\ (2 * z) % 2 = 0 /\ (2 * z) \div 2 = z
          /\ (2 * z - 1) % 2 = 1 /\ (2 * z - 1 + 1) \div 2 = z
      BY ONLY <3>1, HalvesAre
    <3> QED
      BY <3>1, <3>2
  <2> HIDE DEF ip, ncl
  <2>2. B[2 * z] = W("nclip", ip((2 * z) \div 2))
    BY <2>1
  <2>3. B[2 * z - 1] = W("ncl", IF ncl((2 * z - 1 + 1) \div 2) = 0 THEN FailCode
                                ELSE ncl((2 * z - 1 + 1) \div 2))
    BY <2>1
  <2> QED
    BY <2>1, <2>2, <2>3
<1>6. /\ IsSeq(C) /\ Len(C) = 6 /\ C[1] = word0 /\ C[2] = W("tag", tag) /\ C[3] = W("pst", t)
      /\ C[5] = W("pip", r.i)
  BY DEF IsSeq
<1>7. \A k \in 1 .. 6 : C[k].f \notin {"free", "bound", "junk"}
  BY DEF W
<1> HIDE DEF A, B, C
<1> DEFINE D == A \o B
<1>8. /\ IsSeq(D) /\ Len(D) = V
      /\ (\A k \in 1 .. 2 * T.segs : D[k] = A[k])
      /\ (\A k \in 1 .. 2 * m : D[2 * T.segs + k] = B[k])
  <2>1. IsSeq(A) /\ IsSeq(B)
    BY <1>3, <1>4
  <2>2. D = A \o B
    OBVIOUS
  <2> HIDE DEF D
  <2>3. IsSeq(D) /\ Len(D) = Len(A) + Len(B)
    BY ONLY <2>1, <2>2, JoinIs
  <2>4. \A k \in 1 .. Len(A) : D[k] = A[k]
    BY ONLY <2>1, <2>2, JoinIs
  <2>5. \A k \in 1 .. Len(B) : D[Len(A) + k] = B[k]
    BY ONLY <2>1, <2>2, JoinIs
  <2> QED
    BY <1>1, <1>3, <1>4, <2>3, <2>4, <2>5
<1>9. ws = D \o C
  BY <1>2
<1> HIDE DEF D
<1>10. /\ DOMAIN ws = 1 .. V + 6
       /\ \A k \in 1 .. V : ws[k] = D[k]
       /\ \A k \in 1 .. 6 : ws[V + k] = C[k]
  <2>1. IsSeq(D) /\ IsSeq(C)
    BY <1>6, <1>8
  <2>3. DOMAIN ws = 1 .. Len(D) + Len(C)
    BY ONLY <2>1, <1>9, JoinIs
  <2>4. \A k \in 1 .. Len(D) : ws[k] = D[k]
    BY ONLY <2>1, <1>9, JoinIs
  <2>5. \A k \in 1 .. Len(C) : ws[Len(D) + k] = C[k]
    BY ONLY <2>1, <1>9, JoinIs
  <2> QED
    BY <1>6, <1>8, <2>3, <2>4, <2>5
<1>11. /\ ws[V + 1] = word0 /\ ws[V + 2] = W("tag", tag) /\ ws[V + 3] = W("pst", t)
       /\ ws[V + 5] = W("pip", r.i)
  <2>1. 1 \in 1 .. 6 /\ 2 \in 1 .. 6 /\ 3 \in 1 .. 6 /\ 5 \in 1 .. 6
    OBVIOUS
  <2> QED
    BY <2>1, <1>6, <1>10
<1>parts. /\ \A k \in 1 .. V + 6 : k \in 1 .. 2 * T.segs \/ k - 2 * T.segs \in 1 .. 2 * m \/ k - V \in 1 .. 6
       /\ \A y \in 1 .. m : \A z : z = m + 1 - y =>
            /\ V + 1 - 2 * y = 2 * T.segs + (2 * z - 1) /\ V + 2 - 2 * y = 2 * T.segs + 2 * z
            /\ 2 * z - 1 \in 1 .. 2 * m /\ 2 * z \in 1 .. 2 * m
            /\ V + 1 - 2 * y \in 1 .. V /\ V + 2 - 2 * y \in 1 .. V
  <2> DEFINE g == T.segs
  <2>1. g \in Nat /\ m \in Nat /\ V = 2 * g + 2 * m
    BY <1>1
  <2> HIDE DEF m, g
  <2>2. \A k \in 1 .. V + 6 : k \in 1 .. 2 * g \/ k - 2 * g \in 1 .. 2 * m \/ k - V \in 1 .. 6
    BY ONLY <2>1, PartsAre
  <2>3. \A y \in 1 .. m : \A z : z = m + 1 - y =>
            /\ V + 1 - 2 * y = 2 * g + (2 * z - 1) /\ V + 2 - 2 * y = 2 * g + 2 * z
            /\ 2 * z - 1 \in 1 .. 2 * m /\ 2 * z \in 1 .. 2 * m
            /\ V + 1 - 2 * y \in 1 .. V /\ V + 2 - 2 * y \in 1 .. V
    BY ONLY <2>1, PartsAre
  <2> QED
    BY <2>2, <2>3 DEF g
<1>12. \A k \in 1 .. V + 6 : ws[k].f \notin {"free", "bound", "junk"}
  <2> SUFFICES ASSUME NEW k \in 1 .. V + 6
               PROVE  ws[k].f \notin {"free", "bound", "junk"}
    OBVIOUS
  <2>1. CASE k \in 1 .. 2 * T.segs
    <3>1. k \in 1 .. V
      BY <2>1, <1>1
    <3> QED
      BY <2>1, <3>1, <1>3, <1>8, <1>10
  <2>2. CASE k - 2 * T.segs \in 1 .. 2 * m
    <3>1. k \in 1 .. V /\ 2 * T.segs + (k - 2 * T.segs) = k
      <4>1. k \in 1 .. V
        <5>1. PICK g : g = 2 * T.segs
          OBVIOUS
        <5>2. g \in Nat /\ m \in Nat /\ V = g + 2 * m /\ k \in Int /\ k - g \in 1 .. 2 * m
          BY <2>2, <1>1, <5>1
        <5> QED
          BY ONLY <5>2
      <4>2. k \in Nat /\ 2 * T.segs \in Nat
        BY <4>1, <1>1
      <4> QED
        BY ONLY <4>1, <4>2
    <3>2. ws[k] = B[k - 2 * T.segs]
      BY <2>2, <3>1, <1>8, <1>10
    <3> QED
      BY <2>2, <3>2, <1>4
  <2>3. CASE k - V \in 1 .. 6
    <3>1. V + (k - V) = k
      BY <1>1
    <3>2. ws[k] = C[k - V]
      BY <2>3, <3>1, <1>10
    <3> QED
      BY <2>3, <3>2, <1>7
  <2>4. k \in 1 .. 2 * T.segs \/ k - 2 * T.segs \in 1 .. 2 * m \/ k - V \in 1 .. 6
    BY <1>parts
  <2> QED
    BY <2>1, <2>2, <2>3, <2>4
<1>13. ASSUME NEW y \in 1 .. m
       PROVE  /\ ws[V + 1 - 2 * y] =
                    W("ncl", IF CodeAt(FindIP(r.i, T.link[y]), T.link[y]) = 0 THEN FailCode
                             ELSE CodeAt(FindIP(r.i, T.link[y]), T.link[y]))
              /\ ws[V + 2 - 2 * y] = W("nclip", FindIP(r.i, T.link[y]))
  <2> DEFINE z == m + 1 - y
  <2>1. z \in 1 .. m /\ m + 1 - z = y
    BY <1>1
  <2>2. /\ V + 1 - 2 * y = 2 * T.segs + (2 * z - 1) /\ V + 2 - 2 * y = 2 * T.segs + 2 * z
        /\ 2 * z - 1 \in 1 .. 2 * m /\ 2 * z \in 1 .. 2 * m
        /\ V + 1 - 2 * y \in 1 .. V /\ V + 2 - 2 * y \in 1 .. V
    BY <1>parts
  <2> HIDE DEF z
  <2>3. ws[V + 1 - 2 * y] = B[2 * z - 1] /\ ws[V + 2 - 2 * y] = B[2 * z]
    BY <2>2, <1>8, <1>10
  <2>4. ip(z) = FindIP(r.i, T.link[y]) /\ ncl(z) = CodeAt(FindIP(r.i, T.link[y]), T.link[y])
    BY <2>1
  <2> HIDE DEF ip, ncl
  <2> QED
    BY <2>1, <2>3, <2>4, <1>5
<1>14. NextWords(ws, V, r.i, t)
  BY <1>13 DEF NextWords
<1> QED
  BY <1>1, <1>10, <1>11, <1>12, <1>14

\* The n words ws lie from F on, and what is above and below is m's.
HasWords(m, F, n, ws, z) ==
    /\ DOMAIN z = Addr
    /\ \A a \in Addr : a < F \/ F + n <= a => z[a] = m[a]
    /\ \A k \in 1 .. n : F + k - 1 \in Addr /\ z[F + k - 1] = ws[k]
    /\ \A a \in Addr : z[a] = m[a] \/ z[a] = Junk \/ z[a].f \notin {"free", "bound", "junk"}

\* Words written from F on, none of them free.
LEMMA LaysWords ==
    ASSUME NEW m, Tidy(m), StackEnd \in Nat, NEW F \in Nat, NEW ws, NEW n \in Nat,
           DOMAIN ws = 1 .. n, F + n <= StackEnd + 1, NEW z, z = Write(m, F, ws),
           \A k \in 1 .. n : ws[k] = Junk \/ ws[k].f \notin {"free", "bound", "junk"}
    PROVE  HasWords(m, F, n, ws, z)
<1> USE DEF HasWords
<1>1. DOMAIN m = Addr /\ Addr \subseteq Int /\ F \in Int
  BY DEF Tidy, Addr
<1>2. DOMAIN m \subseteq Int
  BY <1>1
<1>3. /\ DOMAIN z = DOMAIN m
      /\ \A b \in DOMAIN m : b < F \/ F + n <= b => z[b] = m[b]
      /\ \A k \in 1 .. n : F + k - 1 \in DOMAIN m => z[F + k - 1] = ws[k]
  <2>1. z = Write(m, F, ws) /\ DOMAIN ws = 1 .. n /\ n \in Nat /\ F \in Int /\ DOMAIN m \subseteq Int
    BY <1>2
  <2>2. DOMAIN z = DOMAIN m
    BY ONLY <2>1, WriteIs
  <2>3. \A b \in DOMAIN m : b < F \/ F + n <= b => z[b] = m[b]
    BY ONLY <2>1, WriteIs
  <2>4. \A k \in 1 .. n : F + k - 1 \in DOMAIN m => z[F + k - 1] = ws[k]
    BY ONLY <2>1, WriteIs
  <2> QED
    BY <2>2, <2>3, <2>4
<1>4. \A k \in 1 .. n : F + k - 1 \in Addr
  BY DEF Addr, StackBeg
<1>5. ASSUME NEW a \in Addr, ~(a < F), ~(F + n <= a)
      PROVE  z[a] = Junk \/ z[a].f \notin {"free", "bound", "junk"}
  <2>1. a - F + 1 \in 1 .. n /\ F + (a - F + 1) - 1 = a
    BY <1>1, <1>5
  <2>2. z[a] = ws[a - F + 1]
    BY <1>1, <1>3, <2>1
  <2> QED
    BY <2>1, <2>2
<1> QED
  BY <1>1, <1>3, <1>4, <1>5

\* A record of the table t, laid at F, extends the program context.
LEMMA LaysRecord ==
    ASSUME WellShaped(prog), NEW cx, Records(stk, cx), NEW r, r.i = cx[Len(cx)],
           NEW t \in DOMAIN Tables, NEW word0, NEW tag, word0.f \notin {"free", "bound", "junk"},
           NEW F \in Nat, FstCP < F, \A k \in 1 .. Len(cx) : RecEnd(cx[k]) <= F,
           NEW x, x = F + VectorSize(t), RecEnd(x) <= StackEnd, Tidy(stk),
           NEW z, z = Write(stk, F, RecordWords(r, t, word0, tag))
    PROVE  /\ x \in Nat /\ RecStart(z, x) = F /\ F <= RecEnd(x) /\ RecEnd(x) \in Addr
           /\ Record(z, Append(cx, x), Len(cx) + 1)
           /\ DOMAIN z = Addr /\ \A a \in Addr : a < F => z[a] = stk[a]
           /\ \A a \in Addr : z[a] = stk[a] \/ z[a] = Junk \/ z[a].f \notin {"free", "bound", "junk"}
<1> DEFINE V == VectorSize(t)
           ws == RecordWords(r, t, word0, tag)
           cz == Append(cx, x)
           n == Len(cx)
<1>1. /\ V \in Nat /\ 2 * Len(Tables[t].link) <= V /\ Len(Tables[t].link) \in Nat
      /\ StackEnd \in Nat
  BY Tabled, Limits
<1>2. /\ x \in Nat /\ x = F + V /\ RecEnd(x) = x + 6 /\ F <= RecEnd(x) /\ RecEnd(x) \in Addr
      /\ F + (V + 6) <= StackEnd + 1 /\ V + 6 \in Nat
  BY <1>1 DEF RecEnd, ImpFixSize, Addr, StackBeg
<1>3. /\ DOMAIN ws = 1 .. V + 6
      /\ ws[V + 1] = word0 /\ ws[V + 2] = W("tag", tag) /\ ws[V + 3] = W("pst", t)
      /\ ws[V + 5] = W("pip", r.i)
      /\ \A k \in 1 .. V + 6 : ws[k].f \notin {"free", "bound", "junk"}
      /\ \A y \in 1 .. Len(Tables[t].link) :
            LET ip == FindIP(r.i, Tables[t].link[y])
            IN  /\ ws[V + 1 - 2 * y] =
                      W("ncl", IF CodeAt(ip, Tables[t].link[y]) = 0 THEN FailCode
                               ELSE CodeAt(ip, Tables[t].link[y]))
                /\ ws[V + 2 - 2 * y] = W("nclip", ip)
  <2> HIDE DEF V, ws
  <2>1. V = VectorSize(t) /\ ws = RecordWords(r, t, word0, tag)
    BY DEF V, ws
  <2>2. NextWords(ws, V, r.i, t)
    BY <2>1, RecordWordsAre
  <2>3. DOMAIN ws = 1 .. V + 6 /\ \A k \in 1 .. V + 6 : ws[k].f \notin {"free", "bound", "junk"}
    BY <2>1, RecordWordsAre
  <2>4. /\ ws[V + 1] = word0 /\ ws[V + 2] = W("tag", tag) /\ ws[V + 3] = W("pst", t)
        /\ ws[V + 5] = W("pip", r.i)
    BY <2>1, RecordWordsAre
  <2> QED
    BY ONLY <2>2, <2>3, <2>4 DEF NextWords
<1>4. z = Write(stk, F, ws)
  OBVIOUS
<1> HIDE DEF V, ws
<1>5. /\ DOMAIN z = Addr
      /\ \A a \in Addr : a < F \/ F + (V + 6) <= a => z[a] = stk[a]
      /\ \A k \in 1 .. V + 6 : F + k - 1 \in Addr /\ z[F + k - 1] = ws[k]
      /\ \A a \in Addr : z[a] = stk[a] \/ z[a] = Junk \/ z[a].f \notin {"free", "bound", "junk"}
  <2>1. Tidy(stk) /\ StackEnd \in Nat /\ F \in Nat /\ V + 6 \in Nat
    BY <1>1, <1>2
  <2>2. DOMAIN ws = 1 .. V + 6 /\ F + (V + 6) <= StackEnd + 1
        /\ \A k \in 1 .. V + 6 : ws[k] = Junk \/ ws[k].f \notin {"free", "bound", "junk"}
    BY <1>2, <1>3
  <2>3. HasWords(stk, F, V + 6, ws, z)
    BY ONLY <2>1, <2>2, <1>4, LaysWords
  <2> QED
    BY <2>3 DEF HasWords
<1>6. z[x + 2] = W("pst", t) /\ z[x + 4] = W("pip", r.i)
  <2>1. /\ V + 3 \in 1 .. V + 6 /\ F + (V + 3) - 1 = x + 2
        /\ V + 5 \in 1 .. V + 6 /\ F + (V + 5) - 1 = x + 4
    BY <1>1, <1>2
  <2> QED
    BY <1>3, <1>5, <2>1
<1>7. RecStart(z, x) = F /\ Links(z, x) = Len(Tables[t].link)
  <2>1. z[x + 2].v = t
    BY <1>6 DEF W
  <2>2. x - V = F
    BY <1>1, <1>2
  <2> QED
    BY <2>1, <2>2 DEF RecStart, Links, V
<1>8. /\ n \in Nat \ {0} /\ cz[n + 1] = x /\ Len(cz) = n + 1
      /\ \A k \in 1 .. n : cz[k] = cx[k]
  <2>1. cx \in Seq(Nat) /\ cx # <<>>
    BY DEF Records
  <2>2. n \in Nat \ {0}
    BY <2>1
  <2>3. cz[n + 1] = x /\ Len(cz) = n + 1
    BY <2>1
  <2>4. \A k \in 1 .. n : cz[k] = cx[k]
    BY <2>1
  <2> QED
    BY <2>2, <2>3, <2>4
<1> HIDE DEF cz
<1>9. \A k \in 1 .. n : z[cx[k] + 2] = stk[cx[k] + 2] /\ Links(z, cx[k]) = Links(stk, cx[k])
  <2> SUFFICES ASSUME NEW k \in 1 .. n
               PROVE  z[cx[k] + 2] = stk[cx[k] + 2]
    BY DEF Links
  <2>1. cx[k] \in Nat /\ RecEnd(cx[k]) <= F
    BY RecordsOrder
  <2>2. cx[k] + 2 \in Addr /\ cx[k] + 2 < F
    <3>1. F \in Nat /\ StackEnd \in Nat /\ F <= StackEnd + 1
      BY <1>1, <1>2
    <3>2. cx[k] \in Nat /\ cx[k] + 6 <= F
      BY ONLY <2>1 DEF RecEnd, ImpFixSize
    <3> QED
      BY ONLY <3>1, <3>2 DEF Addr, StackBeg
  <2> QED
    BY <1>5, <2>2
<1>10. ASSUME NEW y \in 1 .. Links(z, cz[n + 1])
       PROVE  NextClause(z, cz, n + 1, y)
  <2> DEFINE pr == Tables[t].link[y]
             ip == FindIP(r.i, pr)
             l == IF CodeAt(ip, pr) = 0 THEN FailCode ELSE CodeAt(ip, pr)
  <2>1. y \in 1 .. Len(Tables[t].link)
    BY <1>7, <1>8, <1>10
  <2>2. ws[V + 1 - 2 * y] = W("ncl", l) /\ ws[V + 2 - 2 * y] = W("nclip", ip)
    BY <1>3, <2>1
  <2>3. /\ V + 1 - 2 * y \in 1 .. V + 6 /\ V + 2 - 2 * y \in 1 .. V + 6
        /\ F + (V + 1 - 2 * y) - 1 = x - 2 * y /\ F + (V + 2 - 2 * y) - 1 = x - 2 * y + 1
    <3>1. y \in Nat /\ 1 <= y /\ 2 * y <= V /\ V \in Nat /\ F \in Nat /\ x = F + V
      BY <1>1, <1>2, <2>1
    <3>2. V + 1 - 2 * y \in 1 .. V + 6 /\ V + 2 - 2 * y \in 1 .. V + 6
      BY ONLY <3>1
    <3>3. F + (V + 1 - 2 * y) - 1 = x - 2 * y /\ F + (V + 2 - 2 * y) - 1 = x - 2 * y + 1
      BY ONLY <3>1
    <3> QED
      BY <3>2, <3>3
  <2>4. ip = FindIP(cx[n], pr)
    OBVIOUS
  <2>5. l = FailCode \/ \E j \in 1 .. n : ip = cx[j] /\ Goes(Extended(Links(stk, cx[j])), l)
    <3>1. CASE CodeAt(ip, pr) = 0
      BY <3>1
    <3>2. CASE CodeAt(ip, pr) # 0
      <4>1. n \in 1 .. Len(cx) /\ l = CodeAt(ip, pr)
        BY <1>8, <3>2
      <4> HIDE DEF pr, ip, l
      <4>2. \E k \in 1 .. n : ip = cx[k] /\ Goes(Extended(Links(stk, cx[k])), CodeAt(ip, pr))
        BY ONLY WellShaped(prog), Records(stk, cx), <4>1, <2>4, <3>2, NamedGoes
      <4> QED
        BY <4>1, <4>2
    <3> QED
      BY <3>1, <3>2
  <2> HIDE DEF pr, ip, l
  <2>6. z[x - 2 * y] = W("ncl", l) /\ z[x - 2 * y + 1] = W("nclip", ip)
    BY <1>5, <2>2, <2>3
  <2>7. \A j \in 1 .. n + 1 - 1 : j \in 1 .. n
    BY <1>8
  <2>8. \A j \in 1 .. n : j \in 1 .. n + 1 - 1
    BY <1>8
  <2>9. l = FailCode \/ \E j \in 1 .. n + 1 - 1 :
                           ip = cz[j] /\ Goes(Extended(Links(z, cz[j])), l)
    BY <1>8, <1>9, <2>5, <2>8
  <2>10. z[cz[n + 1] - 2 * y] = W("ncl", l) /\ z[cz[n + 1] - 2 * y + 1] = W("nclip", ip)
    BY <1>8, <2>6
  <2> QED
    BY <2>9, <2>10 DEF NextClause, W
<1>11. Record(z, cz, n + 1)
  <2>1. RecEnd(cz[n + 1]) <= StackEnd /\ FstCP < RecStart(z, cz[n + 1])
    BY <1>7, <1>8
  <2>2. z[cz[n + 1] + 2].f = "pst" /\ z[cz[n + 1] + 2].v \in DOMAIN Tables
    BY <1>6, <1>8 DEF W
  <2>3. n + 1 # 1 /\ n + 1 - 1 = n
    BY <1>8
  <2>4. z[cz[n + 1] + 4] = W("pip", cz[n + 1 - 1])
    BY <1>6, <1>8, <2>3
  <2>5. \A j \in 1 .. n + 1 - 1 : RecEnd(cz[j]) <= RecStart(z, cz[n + 1])
    BY <1>7, <1>8, <2>3
  <2> QED
    BY <1>10, <2>1, <2>2, <2>3, <2>4, <2>5 DEF Record
<1> QED
  BY <1>2, <1>5, <1>7, <1>11 DEF cz

\* An implication adds a record, and trims the environment.
LEMMA PushImplPointStep ==
    ASSUME WellShaped(prog), IInv, PushImplPoint
    PROVE  IInv'
<1> DEFINE s == ShapeAt(reg.p)
           u == Trimmed(s, I.n)
           t == After(s, I)
           F == findtos(reg, I.n)
           x == F + VectorSize(I.t)
           word0 == W("ce", reg.e)
           z == Write(stk, F, RecordWords(reg, I.t, word0, TagImpl))
           r == Next1([reg EXCEPT !.tos = x + 6, !.i = x, !.uc = reg.uc])
<1>1. status = "run" /\ I.op = "push_impl_point"
  BY DEF PushImplPoint, Is
<1>2. Here(s)
  BY <1>1, ComesHere DEF Alternatives, Halting
<1> HIDE DEF s
<1>3. /\ View(stk, reg, live, calls, ctx, snaps, s) /\ Memory(stk, trail, snaps)
      /\ Registers(reg, snaps) /\ Loaded /\ live \in Nat /\ Stacked(snaps)
      /\ Finds(prog, CodeShapes, reg.p, s, I) /\ IsShape(s)
  BY <1>2 DEF Here
<1>4. s.own /\ I.n \in 0 .. s.n /\ I.t \in DOMAIN Tables /\ s.a1 # "slot"
  BY <1>1, <1>3 DEF Finds, Tables
<1>5. Goes(t, reg.p + 1)
  BY <1>1, <1>2, NextGoes DEF Straight
<1>6. DOMAIN u = DOMAIN s /\ DOMAIN s = {"own", "n", "slot", "pushed", "univ", "cut", "a1", "ext"}
  BY <1>3 DEF IsShape, Trimmed
<1>7. t = [u EXCEPT !.pushed = @ + 1]
  BY <1>1 DEF After, ValueOps, CallOps
<1> HIDE DEF t
<1>8. View(stk, reg, I.n, calls, ctx, snaps, u)
  BY <1>3, <1>4, ViewTrims
<1> HIDE DEF u
<1>9. /\ t.own = u.own /\ t.n = u.n /\ t.slot = u.slot /\ t.univ = u.univ /\ t.cut = u.cut
      /\ t.a1 = u.a1 /\ t.ext = u.ext /\ t.pushed = u.pushed + 1
  BY <1>6, <1>7
<1>10. F = Frontier(reg.e, I.n, reg.tos)
  BY FindsLive
<1> HIDE DEF F
<1>11. /\ F \in Nat /\ F <= StackEnd + 1 /\ StackEnd \in Nat /\ FstCP < F /\ reg.tos <= F
       /\ reg.tos \in Nat
  BY <1>8, <1>10, ViewReaches
<1>12. VectorSize(I.t) \in Nat /\ x \in Nat
  BY <1>4, <1>11, Tabled
<1>13. PushRecord(F, I.t, word0, TagImpl, reg.uc, I.n)
  BY DEF PushImplPoint, F
<1>14. CASE stackError(x + 6) \/ reg.uc > UCMax
  <2>1. Overflow
    BY <1>13, <1>14 DEF PushRecord, ImpFixSize
  <2> QED
    BY <2>1, OverflowStep
<1>15. CASE ~stackError(x + 6) /\ ~(reg.uc > UCMax)
  <2>1. /\ stk' = z /\ reg' = r /\ ctx' = Append(ctx, x) /\ live' = I.n
        /\ UNCHANGED <<trail, prog, status, calls, snaps>>
    BY <1>13, <1>15 DEF PushRecord, ImpFixSize
  <2>2. RecEnd(x) <= StackEnd /\ RecEnd(x) = x + 6
    BY <1>11, <1>12, <1>15 DEF stackError, RecEnd, ImpFixSize
  <2>3. SameBut(reg, r, {"p", "i", "tos", "uc"}) /\ r.p = reg.p + 1 /\ r.i = x /\ r.tos = RecEnd(x)
        /\ r.uc = reg.uc
    BY <1>3, <2>2 DEF Registers, SameBut, Next1
  <2> HIDE DEF r
  <2>4. /\ Records(stk, ctx) /\ Tidy(stk) /\ reg.i = ctx[Len(ctx)]
        /\ \A k \in 1 .. Len(ctx) : RecEnd(ctx[k]) \in Nat /\ RecEnd(ctx[k]) <= reg.tos
    BY <1>3 DEF View, Memory, Running, InContext, Layout
  <2>5. \A k \in 1 .. Len(ctx) : RecEnd(ctx[k]) <= F
    BY <1>11, <2>4
  <2>6. word0.f \notin {"free", "bound", "junk"}
    BY DEF W
  <2> HIDE DEF word0
  <2>7. /\ x \in Nat /\ RecStart(z, x) = F /\ F <= RecEnd(x) /\ RecEnd(x) \in Addr
        /\ Record(z, Append(ctx, x), Len(ctx) + 1)
        /\ DOMAIN z = Addr /\ \A a \in Addr : a < F => z[a] = stk[a]
        /\ \A a \in Addr : z[a] = stk[a] \/ z[a] = Junk \/ z[a].f \notin {"free", "bound", "junk"}
    BY <1>4, <1>11, <2>2, <2>4, <2>5, <2>6, LaysRecord
  <2> HIDE DEF z
  <2>8. Memory(z, trail, snaps) /\ \A a \in 0 .. F - 1 : z[a] = stk[a]
    <3>1. LastB(snaps) < reg.tos
      BY <1>3 DEF Registers
    <3> QED
      BY ONLY WellShaped(prog), <1>3, <1>8, <1>10, <2>7, <3>1, WritesAbove
  <2>9. /\ r.e = reg.e /\ r.cp = reg.cp /\ r.ci = reg.ci /\ r.b0 = reg.b0 /\ r.a1 = reg.a1
        /\ r.b = reg.b
    BY <1>3, <2>3, SameFields
  <2>10. RecStart(z, x) <= RecEnd(x)
    BY <2>7
  <2> HIDE DEF x
  <2>11. View(z, r, I.n, calls, Append(ctx, x), snaps, t)
    BY ONLY WellShaped(prog), <1>8, <1>9, <1>10, <2>3, <2>7, <2>8, <2>9, <2>10, ViewAddsRecord
  <2>12. r.tos \in Addr /\ r.i \in Addr /\ snaps' = snaps /\ r.b < r.tos /\ RecEnd(r.i) <= StackEnd
    <3>1. reg.b < reg.tos /\ reg.b \in Addr
      BY <1>3 DEF Registers
    <3>2. x \in Addr /\ reg.tos <= RecEnd(x)
      BY <1>11, <2>2, <2>7 DEF Addr, StackBeg
    <3> QED
      BY <1>11, <2>1, <2>2, <2>3, <2>7, <2>9, <3>1, <3>2 DEF Addr
  <2>13. Registers(r, snaps)
    <3>1. r.p \in DOMAIN Code /\ I.n \in Nat
      BY <1>4, <1>3, <1>5, <2>3, GoesToCode DEF IsShape
    <3> QED
      BY <1>3, <2>3, <2>9, <2>12, <3>1 DEF Registers, SameBut
  <2>14. /\ Memory(stk', trail', snaps') /\ Registers(reg', snaps')
         /\ View(stk', reg', live', calls', ctx', snaps', t) /\ Goes(t, reg'.p) /\ live' \in Nat
         /\ status' = "run" /\ prog' = prog
    <3>1. I.n \in Nat
      BY <1>4, <1>3 DEF IsShape
    <3> QED
      BY <1>1, <1>5, <2>1, <2>3, <2>8, <2>11, <2>13, <3>1
  <2>15. Heir(Frames(r.e, I.n, calls), Append(ctx, x), snaps)
    <3>1. live = s.n /\ live \in Nat /\ I.n \in Nat /\ I.n <= live
      BY <1>3, <1>4 DEF View, Running, AtEnv, IsShape
    <3>2. Heir(Frames(reg.e, live, calls), ctx, snaps) /\ ctx \in Seq(Nat)
      BY <1>2, <2>4 DEF Here, Records
    <3>3. Heir(Frames(reg.e, I.n, calls), ctx, snaps)
      BY ONLY <1>3, <3>1, <3>2, HeirTrims
    <3>4. LastB(snaps) < x
      <4>1. reg.b = LastB(snaps) /\ reg.b < reg.tos /\ reg.b \in Nat
        BY <1>3 DEF Registers, Addr, StackBeg
      <4>2. F <= x
        BY <1>11, <1>12 DEF x
      <4> QED
        BY <1>11, <2>7, <4>1, <4>2
    <3>5. Heir(Frames(reg.e, I.n, calls), Append(ctx, x), snaps)
      BY ONLY <1>3, <2>7, <3>2, <3>3, <3>4, HeirAddsRecord
    <3> QED
      BY <2>9, <3>5
  <2>16. Heir(Frames(reg'.e, live', calls'), ctx', snaps')
    BY <2>1, <2>15
  <2> QED
    BY ONLY WellShaped(prog), <1>3, <2>14, <2>16, LiveStep
<1> QED
  BY <1>14, <1>15

\* The registers of a view are within their bounds.
LEMMA ViewBounds ==
    ASSUME WellShaped(prog), NEW m, NEW r, NEW n, NEW cs, NEW cx, NEW ps, NEW s,
           View(m, r, n, cs, cx, ps, s), Stacked(ps)
    PROVE  /\ r.tos \in Addr /\ LastB(ps) < r.tos /\ r.i \in Nat /\ RecEnd(r.i) <= StackEnd
           /\ r.i \in Addr /\ r.uc \in 0 .. UCMax
<1>1. /\ Layout(m, Frames(r.e, n, cs), r.tos, cx, ps) /\ Records(m, cx)
      /\ InContext(r, cs[Len(cs)], cx, s) /\ IsSeq(ps) /\ StackEnd \in Nat
  BY Limits DEF View, Running, Stacked
<1>2. r.tos \in Addr /\ FstCP < r.tos
  <2>1. FstCP < r.tos
    BY ViewReaches
  <2> QED
    BY <1>1, <2>1 DEF Layout
<1>3. LastB(ps) < r.tos
  <2>1. CASE ps = <<>>
    BY <1>2, <2>1 DEF LastB
  <2>2. CASE ps # <<>>
    <3>1. Len(ps) \in 1 .. Len(ps)
      BY <1>1, <2>2, SeqIs
    <3> QED
      BY <1>1, <2>2, <3>1 DEF LastB, Layout
  <2> QED
    BY <2>1, <2>2
<1>4. r.i \in Nat /\ RecEnd(r.i) <= StackEnd
  <2>1. Len(cx) \in 1 .. Len(cx) /\ r.i = cx[Len(cx)]
    BY <1>1 DEF Records, InContext
  <2> QED
    BY <1>1, <2>1, RecordsOrder
<1>5. r.i \in Addr
  BY <1>1, <1>4 DEF RecEnd, ImpFixSize, Addr, StackBeg
<1> QED
  BY <1>1, <1>2, <1>3, <1>4, <1>5 DEF InContext

\* The newest record goes.
LEMMA PopImplPointStep ==
    ASSUME WellShaped(prog), IInv, PopImplPoint
    PROVE  IInv'
<1> DEFINE s == ShapeAt(reg.p)
           t == After(s, I)
           j == v(reg.i + 4)
           q == settosreg([reg EXCEPT !.i = j])
           r == Next1(q)
           cz == SubSeq(ctx, 1, Len(ctx) - 1)
<1>1. status = "run" /\ I.op = "pop_impl_point"
  BY DEF PopImplPoint, Is
<1>2. Here(s)
  BY <1>1, ComesHere DEF Alternatives, Halting
<1> HIDE DEF s
<1>3. /\ View(stk, reg, live, calls, ctx, snaps, s) /\ Memory(stk, trail, snaps)
      /\ Registers(reg, snaps) /\ Loaded /\ live \in Nat /\ Stacked(snaps)
      /\ Finds(prog, CodeShapes, reg.p, s, I) /\ IsShape(s)
  BY <1>2 DEF Here
<1>4. s.own /\ s.pushed > 0
  BY <1>1, <1>3 DEF Finds
<1>5. Goes(t, reg.p + 1)
  BY <1>1, <1>2, NextGoes DEF Straight
<1>6. t = [s EXCEPT !.pushed = @ - 1]
  BY <1>1 DEF After, ValueOps, CallOps
<1> HIDE DEF t
<1>7. /\ t.own = s.own /\ t.n = s.n /\ t.slot = s.slot /\ t.univ = s.univ /\ t.cut = s.cut
      /\ t.a1 = s.a1 /\ t.ext = s.ext /\ t.pushed = s.pushed - 1
  BY <1>3, <1>6 DEF IsShape
<1>8. /\ reg' = r /\ ctx' = cz /\ UNCHANGED <<stk, trail, prog, status, calls, snaps, live>>
  BY DEF PopImplPoint, PopTo
<1>9. /\ SameBut(reg, r, {"p", "i", "tos"}) /\ r.p = reg.p + 1 /\ r.i = j
      /\ r.tos = TosFor(r.i, reg.b)
  BY <1>3 DEF Registers, SameBut, Next1, settosreg, TosFor, RecEnd
<1> HIDE DEF r
<1>10. /\ r.e = reg.e /\ r.cp = reg.cp /\ r.ci = reg.ci /\ r.b0 = reg.b0 /\ r.a1 = reg.a1
       /\ r.b = reg.b /\ r.uc = reg.uc /\ reg.b = LastB(snaps)
  BY <1>3, <1>9, SameFields DEF Registers
<1>11. r.i = stk[reg.i + 4].v /\ r.tos = TosFor(r.i, LastB(snaps))
  BY <1>9, <1>10 DEF v
<1>12. View(stk, r, live, calls, cz, snaps, t)
  BY ONLY WellShaped(prog), <1>3, <1>4, <1>7, <1>10, <1>11, ViewDropsRecord
<1>13. r.tos \in Addr /\ LastB(snaps) < r.tos /\ r.i \in Nat /\ RecEnd(r.i) <= StackEnd
  BY <1>3, <1>12, ViewBounds
<1>14. Registers(r, snaps)
  <2>1. r.p \in DOMAIN Code
    BY <1>5, <1>9, GoesToCode
  <2>2. r.i \in Addr
    BY <1>13, Limits DEF RecEnd, ImpFixSize, Addr, StackBeg
  <2> QED
    BY <1>3, <1>9, <1>10, <1>13, <2>1, <2>2 DEF Registers, SameBut
<1>15. /\ Memory(stk', trail', snaps') /\ Registers(reg', snaps')
       /\ View(stk', reg', live', calls', ctx', snaps', t) /\ Goes(t, reg'.p) /\ live' \in Nat
       /\ status' = "run" /\ prog' = prog
  BY <1>1, <1>3, <1>5, <1>8, <1>9, <1>12, <1>14
<1>16. Heir(Frames(reg'.e, live', calls'), ctx', snaps')
  <2>1. Heir(Frames(reg.e, live, calls), ctx, snaps) /\ ctx \in Seq(Nat) /\ ctx # <<>>
    BY <1>2, <1>3 DEF Here, View, Records
  <2>2. Heir(Frames(reg.e, live, calls), cz, snaps)
    BY ONLY <1>3, <2>1, HeirDropsRecord
  <2> QED
    BY <1>8, <1>10, <2>2
<1> QED
  BY ONLY WellShaped(prog), <1>3, <1>15, <1>16, LiveStep

-----------------------------------------------------------------------------
\* The words of a choice point with n argument registers, at and below the
\* last one.
LEMMA CPWordsAre ==
    ASSUME NEW r, NEW n \in Nat, NEW ncl, NEW ws, ws = CPWords(r, n, ncl),
           NEW N, N = 2 * n + 11
    PROVE  /\ DOMAIN ws = 1 .. N
           /\ ws[N - 1] = W("cpncl", ncl) /\ ws[N - 2] = W("cptr", Len(trail))
           /\ ws[N - 4] = W("cpb0", r.b0) /\ ws[N - 5] = W("cpb", r.b)
           /\ ws[N - 6] = W("cpci", r.ci) /\ ws[N - 7] = W("cpi", r.i)
           /\ ws[N - 8] = W("cpcp", r.cp) /\ ws[N - 9] = W("cpe", r.e)
           /\ ws[N - 10] = W("cpuc", r.uc)
           /\ n > 0 => ws[N - 12] = W("a1", r.a1)
           /\ \A d \in 0 .. 10 : ws[N - d].f \notin {"free", "bound", "junk"}
           /\ \A k \in 1 .. N : ws[k] = Junk \/ ws[k].f \notin {"free", "bound", "junk"}
<1> DEFINE A == [k \in 1 .. 2 * n |-> IF k = 2 * n - 1 THEN W("a1", r.a1) ELSE Junk]
           B == <<W("cpuc", r.uc), W("cpe", r.e), W("cpcp", r.cp), W("cpi", r.i),
                  W("cpci", r.ci), W("cpb", r.b), W("cpb0", r.b0), W("cpll", 0),
                  W("cptr", Len(trail)), W("cpncl", ncl), W("cph", 0)>>
<1>1. ws = A \o B
  BY DEF CPWords
<1>2. /\ IsSeq(A) /\ Len(A) = 2 * n
      /\ \A k \in 1 .. 2 * n : A[k] = Junk \/ A[k].f \notin {"free", "bound", "junk"}
      /\ n > 0 => A[2 * n - 1] = W("a1", r.a1)
  <2>1. A = [k \in 1 .. 2 * n |-> A[k]] /\ DOMAIN A = 1 .. 2 * n /\ 2 * n \in Nat
    OBVIOUS
  <2>2. \A k \in 1 .. 2 * n : A[k] = Junk \/ A[k].f \notin {"free", "bound", "junk"}
    BY DEF W
  <2>3. n > 0 => A[2 * n - 1] = W("a1", r.a1)
    <3>1. n > 0 => 2 * n - 1 \in 1 .. 2 * n
      OBVIOUS
    <3> QED
      BY <3>1
  <2> HIDE DEF A
  <2> QED
    BY <2>1, <2>2, <2>3, WordsAre
<1>3. /\ IsSeq(B) /\ Len(B) = 11
      /\ B[1] = W("cpuc", r.uc) /\ B[2] = W("cpe", r.e) /\ B[3] = W("cpcp", r.cp)
      /\ B[4] = W("cpi", r.i) /\ B[5] = W("cpci", r.ci) /\ B[6] = W("cpb", r.b)
      /\ B[7] = W("cpb0", r.b0) /\ B[9] = W("cptr", Len(trail)) /\ B[10] = W("cpncl", ncl)
  BY DEF IsSeq
<1>4. \A k \in 1 .. 11 : B[k].f \notin {"free", "bound", "junk"}
  BY DEF W
<1> HIDE DEF A, B
<1>seqs. IsSeq(A) /\ IsSeq(B)
  BY <1>2, <1>3
<1>5. DOMAIN ws = 1 .. Len(A) + Len(B)
  BY ONLY <1>1, <1>seqs, JoinIs
<1>6. \A k \in 1 .. Len(A) : ws[k] = A[k]
  BY ONLY <1>1, <1>seqs, JoinIs
<1>7. \A k \in 1 .. Len(B) : ws[Len(A) + k] = B[k]
  BY ONLY <1>1, <1>seqs, JoinIs
<1>8. \A k \in 1 .. 11 : ws[2 * n + k] = B[k]
  BY <1>2, <1>3, <1>7
<1>9. DOMAIN ws = 1 .. N
  BY <1>2, <1>3, <1>5
<1>10. /\ N - 1 = 2 * n + 10 /\ N - 2 = 2 * n + 9 /\ N - 4 = 2 * n + 7 /\ N - 5 = 2 * n + 6
       /\ N - 6 = 2 * n + 5 /\ N - 7 = 2 * n + 4 /\ N - 8 = 2 * n + 3 /\ N - 9 = 2 * n + 2
       /\ N - 10 = 2 * n + 1 /\ N - 12 = 2 * n - 1
  OBVIOUS
<1>11. {1, 2, 3, 4, 5, 6, 7, 9, 10} \subseteq 1 .. 11
  OBVIOUS
<1>12. \A d \in 0 .. 10 : ws[N - d].f \notin {"free", "bound", "junk"}
  <2> SUFFICES ASSUME NEW d \in 0 .. 10
               PROVE  ws[N - d].f \notin {"free", "bound", "junk"}
    OBVIOUS
  <2>1. 11 - d \in 1 .. 11 /\ 2 * n + (11 - d) = N - d
    OBVIOUS
  <2> QED
    BY <1>4, <1>8, <2>1
<1>13. ASSUME NEW k \in 1 .. N
       PROVE  ws[k] = Junk \/ ws[k].f \notin {"free", "bound", "junk"}
  <2>1. CASE k \in 1 .. 2 * n
    BY <1>2, <1>6, <2>1
  <2>2. CASE k - 2 * n \in 1 .. 11 /\ 2 * n + (k - 2 * n) = k
    BY <1>4, <1>8, <2>2
  <2>3. k \in 1 .. 2 * n \/ (k - 2 * n \in 1 .. 11 /\ 2 * n + (k - 2 * n) = k)
    OBVIOUS
  <2> QED
    BY <2>1, <2>2, <2>3
<1>14. n > 0 => ws[N - 12] = W("a1", r.a1)
  <2>1. n > 0 => 2 * n - 1 \in 1 .. Len(A)
    BY <1>2
  <2> QED
    BY <1>2, <1>6, <1>10, <2>1
<1>15. /\ ws[N - 1] = W("cpncl", ncl) /\ ws[N - 2] = W("cptr", Len(trail))
       /\ ws[N - 4] = W("cpb0", r.b0) /\ ws[N - 5] = W("cpb", r.b)
       /\ ws[N - 6] = W("cpci", r.ci) /\ ws[N - 7] = W("cpi", r.i)
       /\ ws[N - 8] = W("cpcp", r.cp) /\ ws[N - 9] = W("cpe", r.e)
       /\ ws[N - 10] = W("cpuc", r.uc)
  <2>1. \A k \in {1, 2, 3, 4, 5, 6, 7, 9, 10} : ws[2 * n + k] = B[k]
    BY <1>8, <1>11
  <2>2. /\ ws[N - 1] = B[10] /\ ws[N - 2] = B[9] /\ ws[N - 4] = B[7] /\ ws[N - 5] = B[6]
        /\ ws[N - 6] = B[5]
    BY ONLY <2>1, <1>10
  <2>3. ws[N - 7] = B[4] /\ ws[N - 8] = B[3] /\ ws[N - 9] = B[2] /\ ws[N - 10] = B[1]
    BY ONLY <2>1, <1>10
  <2> QED
    BY ONLY <2>2, <2>3, <1>3
<1> QED
  BY <1>9, <1>12, <1>13, <1>14, <1>15

\* A choice point laid at the end of what is seen of q, for the alternative
\* at ncl and with the registers of r.
LEMMA LaysChoice ==
    ASSUME WellShaped(prog), NEW r, NEW live0, NEW cs, NEW u,
           View(stk, r, live0, cs, ctx, snaps, u), ~u.own,
           Memory(stk, trail, snaps), LastB(snaps) < r.tos, r.b = LastB(snaps),
           {r.e, r.b0, r.i, r.ci} \subseteq Addr, r.cp \in DOMAIN Code,
           NEW ncl \in DOMAIN Code, Code[ncl].op \in Alternatives, u = ShapeAt(ncl),
           NEW n \in Nat, u.cut = "goal" \/ u.a1 # "any" => n > 0,
           NEW F, F = Frontier(r.e, live0, r.tos),
           NEW b, b = F + 10 + 2 * n, b + 1 <= StackEnd,
           NEW z, z = Write(stk, F, CPWords(r, n, ncl)),
           NEW d, d.b = b, d.base = F, d.stk = z, d.calls = cs, d.ctx = ctx,
           Heir(Frames(r.e, live0, cs), ctx, snaps)
    PROVE  /\ Memory(z, trail, Append(snaps, d)) /\ KeptFrames(d) = Frames(r.e, live0, cs)
           /\ \A a \in 0 .. F - 1 : z[a] = stk[a]
<1> DEFINE N == 2 * n + 11
           ws == CPWords(r, n, ncl)
           q == SavedRegs(d)
<1>1. /\ F \in Nat /\ F <= StackEnd + 1 /\ StackEnd \in Nat /\ FstCP < F /\ r.tos <= F
      /\ r.tos \in Nat /\ Reaches(Frames(r.e, live0, cs), r.tos, F)
  BY ViewReaches
<1>2. N \in Nat /\ b \in Nat /\ b = F + N - 1 /\ F + N <= StackEnd + 1 /\ b + 1 \in Addr /\ b \in Addr
  BY <1>1 DEF Addr, StackBeg
<1>3. /\ DOMAIN ws = 1 .. N
      /\ ws[N - 1] = W("cpncl", ncl) /\ ws[N - 2] = W("cptr", Len(trail))
      /\ ws[N - 4] = W("cpb0", r.b0) /\ ws[N - 5] = W("cpb", r.b)
      /\ ws[N - 6] = W("cpci", r.ci) /\ ws[N - 7] = W("cpi", r.i)
      /\ ws[N - 8] = W("cpcp", r.cp) /\ ws[N - 9] = W("cpe", r.e)
      /\ ws[N - 10] = W("cpuc", r.uc)
      /\ n > 0 => ws[N - 12] = W("a1", r.a1)
      /\ \A k \in 0 .. 10 : ws[N - k].f \notin {"free", "bound", "junk"}
      /\ \A k \in 1 .. N : ws[k] = Junk \/ ws[k].f \notin {"free", "bound", "junk"}
  BY CPWordsAre
<1>4. z = Write(stk, F, ws)
  OBVIOUS
<1> HIDE DEF ws
<1>5. /\ DOMAIN z = Addr
      /\ \A a \in Addr : a < F \/ F + N <= a => z[a] = stk[a]
      /\ \A k \in 1 .. N : F + k - 1 \in Addr /\ z[F + k - 1] = ws[k]
      /\ \A a \in Addr : z[a] = stk[a] \/ z[a] = Junk \/ z[a].f \notin {"free", "bound", "junk"}
  <2>1. Tidy(stk) /\ StackEnd \in Nat /\ F \in Nat /\ N \in Nat
    BY <1>1, <1>2 DEF Memory
  <2>2. DOMAIN ws = 1 .. N /\ F + N <= StackEnd + 1
        /\ \A k \in 1 .. N : ws[k] = Junk \/ ws[k].f \notin {"free", "bound", "junk"}
    BY <1>2, <1>3
  <2> HIDE DEF N
  <2>3. HasWords(stk, F, N, ws, z)
    BY ONLY <2>1, <2>2, <1>4, LaysWords
  <2> QED
    BY <2>3 DEF HasWords
<1>6. \A k \in 0 .. 10 : z[b - k] = ws[N - k]
  <2> SUFFICES ASSUME NEW k \in 0 .. 10
               PROVE  z[b - k] = ws[N - k]
    OBVIOUS
  <2>1. N - k \in 1 .. N /\ F + (N - k) - 1 = b - k
    BY <1>1, <1>2
  <2> QED
    BY <1>5, <2>1
<1>7. /\ z[b - 1] = W("cpncl", ncl) /\ z[b - 2] = W("cptr", Len(trail))
      /\ q.b0 = r.b0 /\ q.b = r.b /\ q.ci = r.ci /\ q.i = r.i /\ q.cp = r.cp /\ q.e = r.e
      /\ q.uc = r.uc /\ q.tos = F
  <2>1. {1, 2, 4, 5, 6, 7, 8, 9, 10} \subseteq 0 .. 10
    OBVIOUS
  <2>2. /\ z[b - 4].v = r.b0 /\ z[b - 5].v = r.b /\ z[b - 6].v = r.ci /\ z[b - 7].v = r.i
        /\ z[b - 8].v = r.cp /\ z[b - 9].v = r.e /\ z[b - 10].v = r.uc
    <3>1. /\ z[b - 4] = W("cpb0", r.b0) /\ z[b - 5] = W("cpb", r.b) /\ z[b - 6] = W("cpci", r.ci)
          /\ z[b - 7] = W("cpi", r.i)
      BY <1>3, <1>6, <2>1
    <3>2. /\ z[b - 8] = W("cpcp", r.cp) /\ z[b - 9] = W("cpe", r.e) /\ z[b - 10] = W("cpuc", r.uc)
      BY <1>3, <1>6, <2>1
    <3> QED
      BY <3>1, <3>2 DEF W
  <2>3. z[b - 1] = W("cpncl", ncl) /\ z[b - 2] = W("cptr", Len(trail))
    BY <1>3, <1>6, <2>1
  <2> QED
    BY <2>2, <2>3 DEF SavedRegs
<1>8. n > 0 => q.a1 = r.a1
  <2>1. n > 0 => N - 12 \in 1 .. N /\ F + (N - 12) - 1 = b - 12
    BY <1>1, <1>2
  <2>2. n > 0 => z[b - 12] = W("a1", r.a1)
    BY <1>3, <1>5, <2>1
  <2> QED
    BY <2>2 DEF SavedRegs, W
<1>9. \A k \in 0 .. 10 : z[b - k].f \notin {"junk", "free", "bound"}
  BY <1>3, <1>6
<1>10. Memory(z, trail, snaps) /\ \A a \in 0 .. F - 1 : z[a] = stk[a]
  <2>1. \A a \in Addr : a < F => z[a] = stk[a]
    BY <1>5
  <2> QED
    BY ONLY WellShaped(prog), View(stk, r, live0, cs, ctx, snaps, u), Memory(stk, trail, snaps),
            LastB(snaps) < r.tos, F = Frontier(r.e, live0, r.tos), <1>5, <2>1, WritesAbove
<1>11. live0 \in Nat /\ r.e \in Nat /\ live0 = LiveAt(r.e, r.cp) /\ r.e < F
  <2>1. Running(stk, r, live0, cs[Len(cs)], ctx, snaps, u) /\ Calls(stk, cs, ctx, snaps)
    BY DEF View
  <2>2. live0 \in Nat /\ live0 = LiveAt(r.e, r.cp)
    BY <2>1 DEF Running, AtEnv
  <2>3. r.e \in Nat
    BY <2>1, FramesAre
  <2> QED
    BY <1>1, <2>2, <2>3 DEF Frontier
<1>12. View(z, r, live0, cs, ctx, snaps, u)
  BY <1>10, ViewBelow
<1> HIDE DEF q, N
<1>13. View(z, q, live0, cs, ctx, snaps, u)
  <2> DEFINE o == [r EXCEPT !.tos = F]
             p == [tos |-> F, uc |-> r.uc, e |-> r.e, cp |-> r.cp, i |-> r.i, ci |-> r.ci,
                   b0 |-> r.b0, a1 |-> r.a1]
  <2>1. /\ p.e = r.e /\ p.cp = r.cp /\ p.i = r.i /\ p.uc = r.uc /\ p.ci = r.ci /\ p.a1 = r.a1
        /\ p.b0 = r.b0 /\ p.tos = F
    OBVIOUS
  <2> HIDE DEF p
  <2>2. Layout(z, Frames(r.e, live0, cs), p.tos, ctx, snaps)
    <3>1. F \in Addr
      BY <1>1, <1>2 DEF Addr, StackBeg, N
    <3>2. Layout(z, Frames(r.e, live0, cs), r.tos, ctx, snaps)
      BY <1>12 DEF View
    <3> QED
      BY <1>1, <2>1, <3>1, <3>2, LayoutEndsAt
  <2>3. View(z, p, live0, cs, ctx, snaps, u)
    BY <1>12, <2>1, <2>2, ViewEnds
  <2>4. Running(z, p, live0, cs[Len(cs)], ctx, snaps, u)
    BY <2>3 DEF View
  <2>5. u.cut = "goal" \/ u.a1 # "any" => q.a1 = p.a1
    BY <1>8, <2>1
  <2>6. \A c : c = cs[Len(cs)] =>
           InContext(q, c, ctx, u) /\ FromRecord(z, q, c, ctx, u) /\ CutKnown(z, q, c, snaps, u)
    BY <1>7, <2>1, <2>4, <2>5 DEF Running, InContext, FromRecord, CutKnown
  <2>7. GoalKnown(z, q, u)
    BY <2>1, <2>4, <2>5 DEF Running, GoalKnown
  <2>8. q.e = p.e /\ q.cp = p.cp /\ q.tos = p.tos
    BY <1>7, <2>1
  <2> QED
    BY <2>3, <2>6, <2>7, <2>8, ViewRegs
<1>14. Mark(d) = Len(trail) /\ SavedLive(d) = live0
  BY <1>7, <1>11 DEF Mark, W, SavedLive, q
<1>15. Waits(Append(snaps, d), Len(snaps) + 1, z[d.b - 1].v)
  <2>1. IsSeq(snaps)
    BY DEF Memory
  <2>2. Append(snaps, d)[Len(snaps) + 1] = d
    BY <2>1, AppendIs
  <2>3. Below(Append(snaps, d), Len(snaps) + 1) = snaps
    <3> DEFINE ps == Append(snaps, d)
    <3>1. /\ IsSeq(ps) /\ Len(ps) = Len(snaps) + 1 /\ Len(snaps) \in Nat
          /\ \A i \in 1 .. Len(snaps) : ps[i] = snaps[i]
      BY <2>1, AppendIs, SeqIs
    <3>2. Len(snaps) + 1 - 1 = Len(snaps) /\ Len(snaps) \in 0 .. Len(ps)
      BY <3>1
    <3> HIDE DEF ps
    <3>3. /\ IsSeq(SubSeq(ps, 1, Len(snaps))) /\ Len(SubSeq(ps, 1, Len(snaps))) = Len(snaps)
          /\ \A i \in 1 .. Len(snaps) : SubSeq(ps, 1, Len(snaps))[i] = ps[i]
      BY <3>1, <3>2, PrefixIs
    <3>4. SubSeq(ps, 1, Len(snaps)) = snaps
      BY <2>1, <3>1, <3>3 DEF IsSeq
    <3> QED
      BY <3>2, <3>4 DEF Below, ps
  <2>4. z[d.b - 1].v = ncl
    BY <1>7 DEF W
  <2>5. u.cut = "goal" \/ u.a1 # "any" => d.base + CPFixSize + 1 <= d.b
    BY <1>1 DEF CPFixSize
  <2> QED
    BY <1>13, <1>14, <2>2, <2>3, <2>4, <2>5 DEF Waits, q
<1>17. KeptFrames(d) = Frames(r.e, live0, cs)
  BY <1>7, <1>14 DEF KeptFrames, q
<1>16. Memory(z, trail, Append(snaps, d))
  <2>1. /\ d.b \in Addr /\ d.base \in Nat /\ LastB(snaps) < d.base /\ FstCP < d.base
        /\ d.base + CPFixSize - 1 <= d.b
    <3>1. LastB(snaps) \in Nat
      BY MemoryStacks, PointsAre
    <3> QED
      BY <1>1, <1>2, <3>1 DEF CPFixSize
  <2>2. /\ z[d.b - 1].f = "cpncl"
        /\ \A k \in 0 .. CPFixSize - 1 : z[d.b - k].f \notin {"junk", "free", "bound"}
    <3>1. z[d.b - 1].f = "cpncl"
      BY <1>7 DEF W
    <3>2. CPFixSize - 1 = 10
      BY DEF CPFixSize
    <3> QED
      BY <1>9, <3>1, <3>2
  <2>3. /\ {SavedRegs(d).e, SavedRegs(d).b0, SavedRegs(d).i, SavedRegs(d).ci} \subseteq Addr
        /\ SavedRegs(d).cp \in DOMAIN Code /\ SavedRegs(d).e < d.base
        /\ SavedRegs(d).b = LastB(snaps)
    BY <1>7, <1>11 DEF q
  <2>4. d.stk = z /\ Mark(d) = Len(trail)
    BY <1>14
  <2>5. Heir(KeptFrames(d), d.ctx, snaps)
    BY <1>17
  <2> QED
    BY ONLY WellShaped(prog), <1>10, <1>15, <2>1, <2>2, <2>3, <2>4, <2>5, MemoryPushes
<1> QED
  BY <1>10, <1>16, <1>17

\* Older choice points remain.
LEMMA CutPointGrows ==
    ASSUME NEW ps, IsSeq(ps), NEW d, NEW c, NEW g, NEW b, CutPoint(ps, c, g, b)
    PROVE  CutPoint(Append(ps, d), c, g, b)
  BY PointsGrow DEF CutPoint

\* A choice point d laid at the end of what is seen of r, for the alternative
\* at ncl, of shape u.
Lays(r, n0, cs, u, ncl, n, d) ==
    /\ View(stk, r, n0, cs, ctx, snaps, u) /\ ~u.own
    /\ Memory(stk, trail, snaps) /\ Registers(r, snaps)
    /\ ncl \in DOMAIN Code /\ Code[ncl].op \in Alternatives /\ u = ShapeAt(ncl)
    /\ n \in Nat /\ (u.cut = "goal" \/ u.a1 # "any" => n > 0)
    /\ d.base = Frontier(r.e, n0, r.tos)
    /\ d.b = d.base + 10 + 2 * n /\ d.b + 1 <= StackEnd
    /\ d.stk = Write(stk, d.base, CPWords(r, n, ncl)) /\ d.calls = cs /\ d.ctx = ctx
    /\ Heir(Frames(r.e, n0, cs), ctx, snaps)

\* The machine goes on from it, with q.
LEMMA ChoiceStep ==
    ASSUME WellShaped(prog), Loaded, NEW r, NEW n0, NEW cs, NEW u, NEW ncl, NEW n, NEW d,
           Lays(r, n0, cs, u, ncl, n, d),
           NEW s, View(stk, r, n0, cs, ctx, snaps, s), ~s.own,
           NEW q, SameBut(r, q, {"p", "tos", "b", "b0", "a1", "ce"}), q.tos = d.b + 1, q.b = d.b,
           q.b0 \in Addr,
           NEW t, ~t.own, t.univ = s.univ, t.pushed = s.pushed, t.ext \in 0 .. s.ext,
           \A c : c = cs[Len(cs)] => CutKnown(d.stk, q, c, Append(snaps, d), t),
           GoalKnown(d.stk, q, t), Goes(t, q.p),
           stk' = d.stk, reg' = q, snaps' = Append(snaps, d), calls' = cs, live' = n0,
           status' = "run", UNCHANGED <<trail, prog, ctx>>
    PROVE  IInv'
<1> DEFINE F == d.base
           b == d.b
           z == d.stk
<1>lay. /\ View(stk, r, n0, cs, ctx, snaps, u) /\ ~u.own
        /\ Memory(stk, trail, snaps) /\ Registers(r, snaps)
        /\ ncl \in DOMAIN Code /\ Code[ncl].op \in Alternatives /\ u = ShapeAt(ncl)
        /\ n \in Nat /\ (u.cut = "goal" \/ u.a1 # "any" => n > 0)
        /\ F = Frontier(r.e, n0, r.tos) /\ b = F + 10 + 2 * n /\ b + 1 <= StackEnd
        /\ z = Write(stk, F, CPWords(r, n, ncl)) /\ d.calls = cs /\ d.ctx = ctx
        /\ d.base = F /\ d.b = b /\ d.stk = z /\ Heir(Frames(r.e, n0, cs), ctx, snaps)
  BY DEF Lays
<1>go. /\ q.tos = b + 1 /\ q.b = b /\ GoalKnown(z, q, t) /\ stk' = z
       /\ \A c : c = cs[Len(cs)] => CutKnown(z, q, c, Append(snaps, d), t)
  OBVIOUS
<1> HIDE DEF F, b, z
<1>1. /\ F \in Nat /\ F <= StackEnd + 1 /\ StackEnd \in Nat /\ FstCP < F /\ r.tos <= F
      /\ r.tos \in Nat
  BY <1>lay, ViewReaches
<1>2. b \in Nat /\ F <= b /\ b + 1 \in Addr /\ b \in Addr /\ b < b + 1
  <2>0. n \in Nat /\ b = F + 10 + 2 * n /\ b + 1 <= StackEnd
    BY <1>lay
  <2>1. b \in Nat /\ F <= b /\ b < b + 1
    BY ONLY <1>1, <2>0
  <2> QED
    BY ONLY <1>1, <2>0, <2>1 DEF Addr, StackBeg
<1>3. /\ r.b = LastB(snaps) /\ LastB(snaps) < r.tos /\ r.cp \in DOMAIN Code
      /\ {r.e, r.b0, r.i, r.ci} \subseteq Addr
  BY <1>lay DEF Registers
<1>4. /\ Memory(z, trail, Append(snaps, d)) /\ KeptFrames(d) = Frames(r.e, n0, cs)
      /\ \A a \in 0 .. F - 1 : z[a] = stk[a]
  <2>1. Memory(z, trail, Append(snaps, d)) /\ KeptFrames(d) = Frames(r.e, n0, cs)
    BY ONLY WellShaped(prog), <1>3, <1>lay, LaysChoice
  <2>2. \A a \in 0 .. F - 1 : z[a] = stk[a]
    BY ONLY WellShaped(prog), <1>3, <1>lay, LaysChoice
  <2> QED
    BY <2>1, <2>2
<1>5. /\ q.e = r.e /\ q.cp = r.cp /\ q.i = r.i /\ q.uc = r.uc /\ q.ci = r.ci
      /\ DOMAIN q = {"tos", "e", "b", "b0", "i", "ci", "ce", "uc", "p", "cp", "a1"}
  <2>1. Registers(r, snaps) /\ SameBut(r, q, {"p", "tos", "b", "b0", "a1", "ce"})
    BY <1>lay
  <2> QED
    BY ONLY <2>1, SameFields
<1>6. View(z, q, n0, cs, ctx, Append(snaps, d), t)
  <2>1. Stacked(snaps)
    BY <1>lay, MemoryStacks
  <2>2. d.base = F /\ d.b \in Nat /\ d.base <= d.b /\ d.b + 1 \in Addr /\ q.tos = d.b + 1
    BY <1>1, <1>2, <1>lay
  <2>3. View(stk, r, n0, cs, ctx, snaps, s) /\ ~s.own /\ F = Frontier(r.e, n0, r.tos)
    BY <1>lay
  <2>4. /\ ~t.own /\ t.univ = s.univ /\ t.pushed = s.pushed /\ t.ext \in 0 .. s.ext
        /\ GoalKnown(z, q, t)
    BY <1>go
  <2>5. \A c : c = cs[Len(cs)] => CutKnown(z, q, c, Append(snaps, d), t)
    BY <1>go
  <2> QED
    BY ONLY WellShaped(prog), <1>4, <1>5, <2>1, <2>2, <2>3, <2>4, <2>5, ViewAddsChoice
<1>7. Registers(q, Append(snaps, d))
  <2>1. LastB(Append(snaps, d)) = b
    BY <1>lay, PointsGrow DEF Memory
  <2>2. q.p \in DOMAIN Code
    BY GoesToCode
  <2> QED
    BY <1>lay, <1>go, <1>2, <1>5, <2>1, <2>2 DEF Registers
<1>8. n0 \in Nat
  BY <1>6 DEF View, Running, AtEnv
<1>9. /\ Memory(stk', trail', snaps') /\ Registers(reg', snaps')
      /\ View(stk', reg', live', calls', ctx', snaps', t) /\ Goes(t, reg'.p) /\ live' \in Nat
      /\ status' = "run" /\ prog' = prog
  BY <1>go, <1>4, <1>6, <1>7, <1>8
<1>10. Heir(Frames(reg'.e, live', calls'), ctx', snaps')
  <2> DEFINE fs == Frames(r.e, n0, cs)
             pz == Append(snaps, d)
  <2>1. \A f \in fs : f.n \in Nat
    BY <1>lay DEF View, Layout, Placed
  <2>2. /\ Len(snaps) \in Nat /\ Len(pz) = Len(snaps) + 1 /\ pz[Len(snaps) + 1] = d
        /\ \A k \in 1 .. Len(snaps) : pz[k] = snaps[k]
    BY <1>lay, AppendIs, SeqIs DEF Memory
  <2>3. Heir(fs, ctx, snaps) /\ d.ctx = ctx /\ fs \subseteq KeptFrames(d)
    BY <1>lay, <1>4
  <2> HIDE DEF fs, pz
  <2>4. Heir(fs, ctx, pz)
    BY ONLY <2>1, <2>2, <2>3, HeirPushes
  <2> QED
    BY <1>go, <1>5, <2>4 DEF fs, pz
<1> QED
  BY ONLY WellShaped(prog), Loaded, <1>9, <1>10, LiveStep

\* A clause makes a choice point and goes on at l.
LEMMA PushStep ==
    ASSUME IInv, NEW s, Here(s), status = "run", InClause(s), NEW n \in Nat,
           NEW ncl, MayResume(prog.code, CodeShapes, s, ncl),
           NEW l, Goes(s, l), NEW r, SameBut(reg, r, {"p"}), r.p = l, Push(r, n, ncl)
    PROVE  IInv'
<1> DEFINE F == findtosEnv(reg)
           u == ShapeAt(ncl)
           b == F + 10 + 2 * n
           z == Write(stk, F, CPWords(reg, n, ncl))
           d == [b |-> b, base |-> F, stk |-> z, calls |-> calls, ctx |-> ctx]
           q == [r EXCEPT !.tos = b + 1, !.b = b]
<1>1. /\ View(stk, reg, live, calls, ctx, snaps, s) /\ Memory(stk, trail, snaps)
      /\ Registers(reg, snaps) /\ Loaded /\ live \in Nat /\ Stacked(snaps) /\ IsShape(s)
      /\ WellShaped(prog) /\ ~s.own
  BY DEF Here, InClause
<1>2. ncl \in DOMAIN Code /\ Code[ncl].op \in Alternatives /\ Fits(s, u) /\ ~u.own
  BY DEF MayResume, Code, ShapeAt
<1>3. u.cut # "goal" /\ u.a1 = "any"
  BY DEF MayResume, Code, ShapeAt
<1> HIDE DEF u
<1>4. View(stk, reg, live, calls, ctx, snaps, u)
  BY <1>1, <1>2, ViewFits
<1>5. F = Frontier(reg.e, live, reg.tos)
  BY <1>1, FrontierIs
<1>6. F \in Nat /\ StackEnd \in Nat
  BY <1>1, <1>5, ViewReaches
<1>7. CASE stackError(F + CPFixSize + 2 * n)
  <2>1. Overflow
    BY <1>7 DEF Push
  <2> QED
    BY <2>1, OverflowStep
<1>8. CASE ~stackError(F + CPFixSize + 2 * n)
  <2>1. F + CPFixSize + 2 * n = b + 1 /\ b + 1 - 1 = b /\ b + 1 <= StackEnd
    BY <1>6, <1>8 DEF CPFixSize, stackError
  <2>2. /\ stk' = z /\ reg' = q /\ snaps' = Append(snaps, d)
        /\ UNCHANGED <<trail, prog, status, calls, live, ctx>>
    <3> DEFINE tos == F + CPFixSize + 2 * n
    <3>1. /\ stk' = z /\ reg' = [r EXCEPT !.tos = tos, !.b = tos - 1]
          /\ snaps' = Append(snaps, [b |-> tos - 1, base |-> F, stk |-> stk',
                                     calls |-> calls, ctx |-> ctx])
          /\ UNCHANGED <<trail, prog, status, calls, live, ctx>>
      BY <1>8 DEF Push
    <3>2. tos = b + 1 /\ tos - 1 = b
      BY <1>6 DEF CPFixSize
    <3> HIDE DEF tos, z
    <3> QED
      BY <3>1, <3>2
  <2>3. Lays(reg, live, calls, u, ncl, n, d)
    <3>1. /\ d.b = b /\ d.base = F /\ d.stk = Write(stk, d.base, CPWords(reg, n, ncl))
          /\ d.calls = calls /\ d.ctx = ctx /\ d.b = d.base + 10 + 2 * n /\ d.b + 1 <= StackEnd
      BY <2>1
    <3>2. u = ShapeAt(ncl)
      BY DEF u
    <3>3. Heir(Frames(reg.e, live, calls), ctx, snaps)
      BY DEF Here
    <3> HIDE DEF d
    <3> QED
      BY <1>1, <1>2, <1>3, <1>4, <1>5, <3>1, <3>2, <3>3 DEF Lays
  <2>stk. d.stk = z /\ d.b = b
    OBVIOUS
  <2> HIDE DEF d, z
  <2>4. /\ SameBut(reg, q, {"p", "tos", "b", "b0", "a1", "ce"}) /\ q.tos = d.b + 1 /\ q.b = d.b
        /\ q.b0 = reg.b0 /\ q.a1 = reg.a1 /\ q.p = l
    BY <1>1, <2>stk, SameFields DEF SameBut
  <2> HIDE DEF q
  <2>5. Running(stk, reg, live, calls[Len(calls)], ctx, snaps, s) /\ reg.b0 \in Addr
    BY <1>1 DEF View, Registers
  <2>6. \A c : c = calls[Len(calls)] => CutKnown(d.stk, q, c, Append(snaps, d), s)
    <3>1. IsSeq(snaps)
      BY <1>1 DEF Memory
    <3> QED
      BY <1>1, <2>4, <2>5, <3>1, PointsGrow, CutPointGrows DEF Running, CutKnown
  <2>7. GoalKnown(d.stk, q, s)
    BY <1>1, <2>4, <2>5 DEF Running, GoalKnown
  <2>9. s.ext \in 0 .. s.ext
    <3>1. s.ext \in Nat
      BY <2>5 DEF Running, FromRecord
    <3> QED
      BY <3>1
  <2>10. /\ stk' = d.stk /\ reg' = q /\ snaps' = Append(snaps, d) /\ calls' = calls /\ live' = live
         /\ status' = "run" /\ UNCHANGED <<trail, prog, ctx>>
    BY <2>2, <2>stk
  <2>11. Goes(s, q.p) /\ q.b0 \in Addr
    BY <2>4, <2>5
  <2> QED
    BY ONLY <1>1, <2>3, <2>4, <2>6, <2>7, <2>9, <2>10, <2>11, ChoiceStep
<1> QED
  BY <1>7, <1>8

\* The first of the clauses to be tried.
LEMMA TryStep ==
    ASSUME WellShaped(prog), IInv, TryMeElse \/ TryElse \/ Try
    PROVE  IInv'
<1> DEFINE s == ShapeAt(reg.p)
<1>1. status = "run" /\ I.op \in {"try_me_else", "try_else", "try"}
  BY DEF TryMeElse, TryElse, Try, Is
<1>2. Here(s)
  BY <1>1, ComesHere DEF Alternatives, Halting
<1> HIDE DEF s
<1>3. /\ Finds(prog, CodeShapes, reg.p, s, I) /\ Registers(reg, snaps)
  BY <1>2 DEF Here
<1>4. InClause(s) /\ I.n \in Nat
  BY <1>1, <1>3 DEF Finds, MeOps, ToOps, ElseOps
<1>5. CASE TryMeElse
  <2>1. I.op = "try_me_else" /\ Push(Next1(reg), I.n, I.l)
    BY <1>5 DEF TryMeElse, Is
  <2>2. Goes(s, reg.p + 1)
    <3>1. After(s, I) = s
      BY <2>1 DEF After, ValueOps, CallOps
    <3>2. Goes(After(s, I), reg.p + 1)
      BY <1>2, <2>1, NextGoes DEF Straight, MeOps
    <3> QED
      BY <3>1, <3>2
  <2>3. MayResume(prog.code, CodeShapes, s, I.l)
    BY <1>3, <2>1 DEF Finds, ElseOps
  <2>4. SameBut(reg, Next1(reg), {"p"}) /\ Next1(reg).p = reg.p + 1
    BY <1>3, <2>2, NextRegs
  <2> QED
    BY <1>1, <1>2, <1>4, <2>1, <2>2, <2>3, <2>4, PushStep
<1>6. CASE TryElse
  <2> DEFINE r == [reg EXCEPT !.p = I.k]
  <2>1. I.op = "try_else" /\ Push(r, I.n, I.l)
    BY <1>6 DEF TryElse, Is
  <2>2. Goes(s, I.k)
    BY <1>3, <2>1 DEF Finds, ElseOps, Code, Goes
  <2>3. MayResume(prog.code, CodeShapes, s, I.l)
    BY <1>3, <2>1 DEF Finds, ElseOps
  <2>4. SameBut(reg, r, {"p"}) /\ r.p = I.k
    BY <1>3 DEF Registers, SameBut
  <2> HIDE DEF r
  <2> QED
    BY <1>1, <1>2, <1>4, <2>1, <2>2, <2>3, <2>4, PushStep
<1>7. CASE Try
  <2> DEFINE r == [reg EXCEPT !.p = I.l]
  <2>1. I.op = "try" /\ Push(r, I.n, reg.p + 1)
    BY <1>7 DEF Try, Is
  <2>2. Goes(s, I.l)
    BY <1>3, <2>1 DEF Finds, ToOps, Code, Goes
  <2>3. MayResume(prog.code, CodeShapes, s, reg.p + 1)
    BY <1>3, <2>1 DEF Finds
  <2>4. SameBut(reg, r, {"p"}) /\ r.p = I.l
    BY <1>3 DEF Registers, SameBut
  <2> HIDE DEF r
  <2> QED
    BY <1>1, <1>2, <1>4, <2>1, <2>2, <2>3, <2>4, PushStep
<1> QED
  BY <1>5, <1>6, <1>7

\* The interpreter makes a choice point d, to come back to ncl with goal g,
\* and goes on with r.
LEMMA SolvePushStep ==
    ASSUME WellShaped(prog), IInv, SolvesAt(SolveReg), NEW g, NEW y,
           y = [SolveReg EXCEPT !.a1 = g, !.p = SolveCode],
           NEW ncl \in DOMAIN Code, Code[ncl].op \in Alternatives, NEW u, u = ShapeAt(ncl),
           ~u.own, u.univ = 0, u.pushed = 0, u.ext = 0,
           View(stk, y, LiveAt(y.e, y.cp), SolveCalls, ctx, snaps, u),
           NEW n \in Nat, u.cut = "goal" \/ u.a1 # "any" => n > 0,
           NEW F, F = findtosEnv(SolveReg), NEW b, b = F + 10 + 2 * n,
           NEW d, d = [b |-> b, base |-> F, stk |-> Write(stk, F, CPWords(y, n, ncl)),
                       calls |-> SolveCalls, ctx |-> ctx],
           NEW r, SameBut(y, r, {"p", "b0", "a1"}), SolvePush(r, n, g, ncl),
           b \in Nat /\ b + 1 \in Addr => r.b0 \in Addr,
           NEW t, ~t.own, t.univ = 0, t.pushed = 0, t.ext = 0, Goes(t, r.p),
           \A c : c = SolveCalls[Len(SolveCalls)] => CutKnown(d.stk, r, c, Append(snaps, d), t),
           GoalKnown(d.stk, r, t)
    PROVE  IInv'
<1> DEFINE o == SolveReg
           cs == SolveCalls
           z == Write(stk, F, CPWords(y, n, ncl))
           q == [r EXCEPT !.tos = b + 1, !.b = b]
<1>1. /\ Registers(y, snaps) /\ Memory(stk, trail, snaps) /\ Stacked(snaps) /\ Loaded
      /\ status = "run"
  <2>1. Registers([o EXCEPT !.p = SolveCode], snaps) /\ Memory(stk, trail, snaps) /\ Stacked(snaps)
        /\ Loaded /\ status = "run"
    BY DEF SolvesAt
  <2>2. Registers(y, snaps)
    BY <2>1 DEF Registers
  <2> QED
    BY <2>1, <2>2
<1>2. /\ y.e = o.e /\ y.cp = o.cp /\ y.tos = o.tos /\ y.i = o.i /\ y.uc = o.uc /\ y.ci = o.ci
      /\ y.b0 = o.b0 /\ y.b = o.b /\ y.a1 = g
  BY <1>1 DEF Registers
<1>3. findtosEnv(y) = F
  BY <1>2 DEF findtosEnv
<1>4. CPWords([o EXCEPT !.a1 = g], n, ncl) = CPWords(y, n, ncl)
  <2> DEFINE x == [o EXCEPT !.a1 = g]
  <2>1. x.e = y.e /\ x.cp = y.cp /\ x.i = y.i /\ x.uc = y.uc /\ x.ci = y.ci /\ x.b0 = y.b0
        /\ x.b = y.b /\ x.a1 = y.a1
    BY <1>1, <1>2 DEF Registers
  <2> HIDE DEF x
  <2>2. CPWords(x, n, ncl) = CPWords(y, n, ncl)
    BY <2>1 DEF CPWords
  <2> QED
    BY <2>2 DEF x
<1>5. F = Frontier(y.e, LiveAt(y.e, y.cp), y.tos)
  BY <1>3, FrontierIs
<1>6. F \in Nat /\ StackEnd \in Nat /\ FstCP < F
  BY <1>5, ViewReaches
<1>7. CASE stackError(F + CPFixSize + 2 * n)
  <2>1. Overflow
    BY <1>7 DEF SolvePush
  <2> QED
    BY <2>1, OverflowStep
<1>8. CASE ~stackError(F + CPFixSize + 2 * n)
  <2>1. F + CPFixSize + 2 * n = b + 1 /\ b + 1 - 1 = b /\ b + 1 <= StackEnd
        /\ b \in Nat /\ b + 1 \in Addr
    BY <1>6, <1>8 DEF CPFixSize, stackError, Addr, StackBeg
  <2>2. /\ stk' = z /\ reg' = q /\ snaps' = Append(snaps, d) /\ calls' = cs
        /\ live' = LiveAt(r.e, r.cp) /\ UNCHANGED <<trail, prog, status, ctx>>
    <3> DEFINE tos == F + CPFixSize + 2 * n
    <3>1. /\ stk' = Write(stk, F, CPWords([o EXCEPT !.a1 = g], n, ncl))
          /\ reg' = [r EXCEPT !.tos = tos, !.b = tos - 1]
          /\ calls' = cs
          /\ snaps' = Append(snaps, [b |-> tos - 1, base |-> F, stk |-> stk',
                                     calls |-> calls', ctx |-> ctx])
          /\ live' = LiveAt(r.e, r.cp) /\ UNCHANGED <<trail, prog, status, ctx>>
      BY <1>8 DEF SolvePush
    <3>2. tos = b + 1 /\ tos - 1 = b
      BY <1>6 DEF CPFixSize
    <3>3. stk' = z
      BY <1>4, <3>1
    <3> HIDE DEF tos, z
    <3>4. d = [b |-> b, base |-> F, stk |-> z, calls |-> cs, ctx |-> ctx]
      BY DEF z
    <3> QED
      BY <3>1, <3>2, <3>3, <3>4
  <2>3. Lays(y, LiveAt(y.e, y.cp), cs, u, ncl, n, d)
    <3>1. /\ d.b = b /\ d.base = F /\ d.stk = Write(stk, d.base, CPWords(y, n, ncl))
          /\ d.calls = cs /\ d.ctx = ctx /\ d.b = d.base + 10 + 2 * n /\ d.b + 1 <= StackEnd
      BY <2>1
    <3>2. Heir(Frames(y.e, LiveAt(y.e, y.cp), cs), ctx, snaps)
      BY <1>2 DEF SolvesAt, cs
    <3> QED
      BY <1>1, <1>5, <3>1, <3>2 DEF Lays
  <2>stk. d.stk = z /\ d.b = b
    OBVIOUS
  <2>regs. /\ SameBut(y, q, {"p", "tos", "b", "b0", "a1", "ce"}) /\ q.tos = d.b + 1 /\ q.b = d.b
           /\ q.b0 = r.b0 /\ q.a1 = r.a1 /\ q.p = r.p /\ q.e = r.e
    <3>1. DOMAIN r = {"tos", "e", "b", "b0", "i", "ci", "ce", "uc", "p", "cp", "a1"}
      BY <1>1, SameFields
    <3> QED
      BY <3>1, <2>stk DEF SameBut
  <2>same. r.e = y.e /\ r.cp = y.cp
    <3>1. Registers(y, snaps) /\ SameBut(y, r, {"p", "b0", "a1"})
      BY <1>1
    <3> QED
      BY ONLY <3>1, SameFields
  <2> HIDE DEF q, z, cs
  <2>6. \A c : c = cs[Len(cs)] => CutKnown(d.stk, q, c, Append(snaps, d), t)
    BY <2>regs DEF CutKnown, cs
  <2>7. GoalKnown(d.stk, q, t)
    BY <2>regs DEF GoalKnown
  <2>9. t.univ = u.univ /\ t.pushed = u.pushed /\ t.ext \in 0 .. u.ext /\ ~u.own /\ ~t.own
    OBVIOUS
  <2>10. /\ stk' = d.stk /\ reg' = q /\ snaps' = Append(snaps, d) /\ calls' = cs
         /\ live' = LiveAt(y.e, y.cp) /\ status' = "run" /\ UNCHANGED <<trail, prog, ctx>>
    BY <1>1, <2>2, <2>stk, <2>same
  <2>11. Goes(t, q.p) /\ q.b0 \in Addr
    BY <2>1, <2>regs
  <2>12. View(stk, y, LiveAt(y.e, y.cp), cs, ctx, snaps, u)
    BY DEF cs
  <2> QED
    BY ONLY WellShaped(prog), <1>1, <2>3, <2>regs, <2>6, <2>7, <2>9, <2>10, <2>11, <2>12, ChoiceStep
<1> QED
  BY <1>7, <1>8

\* Either disjunct may be tried: the first one now, the second one at orCode.
LEMMA SolveOrStep ==
    ASSUME WellShaped(prog), IInv, SolveOr
    PROVE  IInv'
<1> DEFINE o == SolveReg
           g == Goal.r
           y == [SolveReg EXCEPT !.a1 = g, !.p = SolveCode]
           F == findtosEnv(SolveReg)
           b == F + 10 + 2 * 1
           d == [b |-> b, base |-> F, stk |-> Write(stk, F, CPWords(y, 1, OrCode)),
                 calls |-> SolveCalls, ctx |-> ctx]
           r == [SolveReg EXCEPT !.a1 = Goal.l, !.p = SolveCode,
                                 !.b0 = findtosEnv(SolveReg) + CPFixSize + 1]
<1>1. Solves("or") /\ SolvePush(r, 1, g, OrCode)
  BY DEF SolveOr
<1>2. SolvesAt(o) /\ Goal.kind = "or"
  BY <1>1, ComesToSolve
<1>3. /\ Registers([o EXCEPT !.p = SolveCode], snaps) /\ Stacked(snaps) /\ Memory(stk, trail, snaps)
      /\ View(stk, o, LiveAt(o.e, o.cp), SolveCalls, ctx, snaps, Solving)
      /\ reg.a1 \in DOMAIN prog.goals /\ o.a1 = reg.a1 /\ GoalShaped(prog.goals, reg.a1)
  BY <1>2 DEF SolvesAt
<1>4. /\ y.e = o.e /\ y.cp = o.cp /\ y.tos = o.tos /\ y.i = o.i /\ y.uc = o.uc /\ y.b0 = o.b0
      /\ y.a1 = g
  BY <1>3 DEF Registers
<1>5. F \in Nat /\ FstCP < F /\ o.tos <= F /\ LastB(snaps) < o.tos /\ o.tos \in Nat
  <2>1. F = Frontier(o.e, LiveAt(o.e, o.cp), o.tos)
    <3>1. ~Solving.own
      BY DEF Solving, Shape
    <3> QED
      BY <1>3, <3>1, FrontierIs
  <2> HIDE DEF F, o
  <2>2. F \in Nat /\ FstCP < F /\ o.tos <= F /\ o.tos \in Nat
    BY <1>3, <2>1, ViewReaches
  <2>3. LastB(snaps) < o.tos
    BY <1>3, ViewBounds
  <2> QED
    BY <2>2, <2>3
<1>6. /\ SameBut(y, r, {"p", "b0", "a1"}) /\ r.a1 = Goal.l /\ r.p = SolveCode /\ r.b0 = b
  <2>1. F + CPFixSize + 1 = b
    BY <1>5 DEF CPFixSize
  <2> HIDE DEF F, b
  <2> QED
    BY <1>3, <2>1 DEF Registers, SameBut, F
<1>7. Goal.l \in DOMAIN prog.goals /\ g \in DOMAIN prog.goals
  BY <1>2, <1>3 DEF GoalShaped, Goal
<1>8. \A c : c = SolveCalls[Len(SolveCalls)] => CutPoint(snaps, c, y.a1, y.b0)
  <2>1. \A c : c = SolveCalls[Len(SolveCalls)] => CutPoint(snaps, c, o.a1, o.b0)
    BY <1>3, SolvedCut
  <2> HIDE DEF o, y
  <2> QED
    BY <2>1, <1>2, <1>3, <1>4, CutPointOfPart DEF Goal, g
<1>9. OrCode \in DOMAIN Code /\ Code[OrCode].op \in Alternatives /\ Solving = ShapeAt(OrCode)
      /\ Goes(Solving, SolveCode)
  BY FixedCode
<1>10. /\ ~Solving.own /\ Solving.univ = 0 /\ Solving.pushed = 0 /\ Solving.ext = 0
       /\ Solving.cut = "goal" /\ Solving.a1 = "goal"
  BY DEF Solving, Shape
<1>def. y = [SolveReg EXCEPT !.a1 = g, !.p = SolveCode]
  OBVIOUS
<1> HIDE DEF y, r, o
<1>11. View(stk, y, LiveAt(y.e, y.cp), SolveCalls, ctx, snaps, Solving)
  <2>1. View(stk, y, LiveAt(o.e, o.cp), SolveCalls, ctx, snaps, Solving)
    BY <1>3, <1>4, <1>7, <1>8, ViewSolves
  <2> QED
    BY <1>4, <2>1
<1>12. \A c : c = SolveCalls[Len(SolveCalls)] => CutKnown(d.stk, r, c, Append(snaps, d), Solving)
  <2> SUFFICES ASSUME NEW c, c = SolveCalls[Len(SolveCalls)]
               PROVE  CutPoint(Append(snaps, d), c, r.a1, r.b0)
    BY <1>10 DEF CutKnown
  <2>1. c.floor \in Points(snaps) /\ c.floor \in Nat
    <3>1. Called(c, ctx, snaps)
      BY <1>3, CallerIs
    <3> QED
      BY <3>1 DEF Called
  <2>2. c.floor <= LastB(snaps) /\ LastB(snaps) \in Nat
    BY <1>3, <2>1, PointsAre
  <2>3. b \in Points(Append(snaps, d))
    <3>1. IsSeq(snaps) /\ d.b = b
      BY <1>3 DEF Memory
    <3> HIDE DEF d
    <3> QED
      BY <3>1, PointsGrow
  <2>4. c.floor <= b
    BY <1>5, <2>1, <2>2
  <2> QED
    BY <1>6, <2>3, <2>4 DEF CutPoint
<1>13. GoalKnown(d.stk, r, Solving)
  BY <1>6, <1>7, <1>10 DEF GoalKnown
<1>14. b \in Nat /\ b + 1 \in Addr => r.b0 \in Addr
  BY <1>6, Limits DEF Addr, StackBeg
<1>15. Goes(Solving, r.p)
  BY <1>6, <1>9
<1>16. /\ F = findtosEnv(SolveReg) /\ b = F + 10 + 2 * 1 /\ SolvesAt(SolveReg)
       /\ d = [b |-> b, base |-> F, stk |-> Write(stk, F, CPWords(y, 1, OrCode)),
               calls |-> SolveCalls, ctx |-> ctx]
       /\ 1 \in Nat /\ 1 > 0
  BY <1>2 DEF o
<1> HIDE DEF d, b, F, g
<1> QED
  BY ONLY WellShaped(prog), IInv, <1>1, <1>6, <1>9, <1>10, <1>def, <1>11, <1>12, <1>13, <1>14, <1>15, <1>16,
          SolvePushStep

\* Negation: the goal is tried from notCode1, with a choice point that
\* succeeds.
LEMMA SolveNotStep ==
    ASSUME WellShaped(prog), IInv, SolveNot
    PROVE  IInv'
<1> DEFINE o == SolveReg
           y == [SolveReg EXCEPT !.a1 = 0, !.p = SolveCode]
           F == findtosEnv(SolveReg)
           b == F + 10 + 2 * 0
           d == [b |-> b, base |-> F, stk |-> Write(stk, F, CPWords(y, 0, NotCode2)),
                 calls |-> SolveCalls, ctx |-> ctx]
           r == [SolveReg EXCEPT !.a1 = Goal.l, !.p = NotCode1, !.b0 = reg.b]
           t == BootShape(NotCode1)
<1>1. Solves("not") /\ SolvePush(r, 0, 0, NotCode2)
  BY DEF SolveNot
<1>2. SolvesAt(o) /\ Goal.kind = "not"
  BY <1>1, ComesToSolve
<1>3. /\ Registers([o EXCEPT !.p = SolveCode], snaps) /\ Stacked(snaps) /\ Memory(stk, trail, snaps)
      /\ View(stk, o, LiveAt(o.e, o.cp), SolveCalls, ctx, snaps, Solving)
      /\ reg.a1 \in DOMAIN prog.goals /\ GoalShaped(prog.goals, reg.a1) /\ Registers(reg, snaps)
  BY <1>2 DEF SolvesAt
<1>4. /\ y.e = o.e /\ y.cp = o.cp /\ y.tos = o.tos /\ y.i = o.i /\ y.uc = o.uc /\ y.ci = o.ci
  BY <1>3 DEF Registers
<1>6. /\ SameBut(y, r, {"p", "b0", "a1"}) /\ r.a1 = Goal.l /\ r.p = NotCode1 /\ r.b0 = reg.b
  BY <1>3 DEF Registers, SameBut
<1>7. Goal.l \in DOMAIN prog.goals
  BY <1>2, <1>3 DEF GoalShaped, Goal
<1>9. NotCode2 \in DOMAIN Code /\ Code[NotCode2].op \in Alternatives /\ Returned = ShapeAt(NotCode2)
      /\ Goes(t, NotCode1)
  BY FixedCode
<1>10. /\ ~Returned.own /\ Returned.univ = 0 /\ Returned.pushed = 0 /\ Returned.ext = 0
       /\ Returned.cut = "none" /\ Returned.a1 = "any"
  BY DEF Returned, Shape
<1>t. /\ ~t.own /\ t.univ = 0 /\ t.pushed = 0 /\ t.ext = 0 /\ t.cut = "clause" /\ t.a1 = "goal"
  BY DEF BootShape, Shape, NotCode1, AndCode, SolveCode, OrCode, AllCode
<1>def. y = [SolveReg EXCEPT !.a1 = 0, !.p = SolveCode]
  OBVIOUS
<1> HIDE DEF y, r, o, t
<1>11. View(stk, y, LiveAt(y.e, y.cp), SolveCalls, ctx, snaps, Returned)
  <2>1. Running(stk, o, LiveAt(o.e, o.cp), SolveCalls[Len(SolveCalls)], ctx, snaps, Solving)
    BY <1>3 DEF View
  <2>2. /\ ~Solving.own /\ Solving.univ = 0 /\ Solving.pushed = 0
    BY DEF Solving, Shape
  <2>3. \A c : c = SolveCalls[Len(SolveCalls)] =>
           /\ InContext(y, c, ctx, Returned) /\ FromRecord(stk, y, c, ctx, Returned)
           /\ CutKnown(stk, y, c, snaps, Returned)
    BY <1>4, <1>10, <2>1, <2>2 DEF Running, InContext, FromRecord, CutKnown
  <2>4. GoalKnown(stk, y, Returned)
    BY <1>10 DEF GoalKnown
  <2>5. View(stk, y, LiveAt(o.e, o.cp), SolveCalls, ctx, snaps, Returned)
    BY <1>3, <1>4, <1>10, <2>2, <2>3, <2>4, ViewRegs
  <2> QED
    BY <1>4, <2>5
<1>12. \A c : c = SolveCalls[Len(SolveCalls)] => CutKnown(d.stk, r, c, Append(snaps, d), t)
  <2> SUFFICES ASSUME NEW c, c = SolveCalls[Len(SolveCalls)]
               PROVE  r.b0 \in Points(Append(snaps, d)) /\ c.floor <= r.b0
    BY <1>t DEF CutKnown
  <2>1. c.floor \in Points(snaps) /\ c.floor \in Nat
    <3>1. Called(c, ctx, snaps)
      BY <1>3, CallerIs
    <3> QED
      BY <3>1 DEF Called
  <2>2. c.floor <= LastB(snaps) /\ LastB(snaps) \in Points(snaps) /\ reg.b = LastB(snaps)
    BY <1>3, <2>1, PointsAre DEF Registers
  <2>3. Points(snaps) \subseteq Points(Append(snaps, d))
    <3>1. IsSeq(snaps)
      BY <1>3 DEF Memory
    <3> HIDE DEF d
    <3> QED
      BY <3>1, PointsGrow
  <2> QED
    BY <1>6, <2>1, <2>2, <2>3
<1>13. GoalKnown(d.stk, r, t)
  BY <1>6, <1>7, <1>t DEF GoalKnown
<1>14. r.b0 \in Addr
  BY <1>3, <1>6 DEF Registers
<1>15. Goes(t, r.p)
  BY <1>6, <1>9
<1>16. /\ F = findtosEnv(SolveReg) /\ b = F + 10 + 2 * 0 /\ SolvesAt(SolveReg)
       /\ d = [b |-> b, base |-> F, stk |-> Write(stk, F, CPWords(y, 0, NotCode2)),
               calls |-> SolveCalls, ctx |-> ctx]
       /\ 0 \in Nat /\ ~(Returned.cut = "goal" \/ Returned.a1 # "any")
  BY <1>2, <1>10 DEF o
<1> HIDE DEF d, b, F
<1> QED
  BY ONLY WellShaped(prog), IInv, <1>1, <1>6, <1>9, <1>10, <1>t, <1>def, <1>11, <1>12, <1>13, <1>14, <1>15, <1>16,
          SolvePushStep

-----------------------------------------------------------------------------
\* The first words of an environment, when there are no variables to clear.
LEMMA NoWords ==
    ASSUME NEW r, NEW uc, NEW A, A = EnvWords(r, 0, uc)
    PROVE  /\ IsSeq(A) /\ Len(A) = 4
           /\ A[1] = W("ci", r.ci) /\ A[2] = W("ce", r.e) /\ A[3] = uc /\ A[4] = W("cp", r.cp)
<1>1. [k \in 1 .. 2 * 0 |-> Junk] = <<>>
  OBVIOUS
<1>2. A = <<W("ci", r.ci), W("ce", r.e), uc, W("cp", r.cp)>> \o [k \in 1 .. 2 * 0 |-> Junk]
  BY DEF EnvWords
<1>3. A = <<W("ci", r.ci), W("ce", r.e), uc, W("cp", r.cp)>>
  BY <1>1, <1>2
<1> QED
  BY <1>3 DEF IsSeq

\* The words for k variables: none is a free or a bound one.
Fills(vars2, k) ==
    /\ IsSeq(vars2) /\ Len(vars2) = 2 * k
    /\ \A j \in 1 .. 2 * k : vars2[j] = Junk \/ vars2[j].f \notin {"free", "bound", "junk"}

\* The environment that the interpreter lays above F.
LaidEnv(m, F, r, vars2, z) == z = Write(m, F + 1, EnvWords(r, 0, m[F + 3]) \o vars2)

\* Then it is there, and nothing below is changed.
HasEnv(m, F, r, k, vars2, z) ==
    /\ DOMAIN z = Addr /\ \A a \in Addr : a < F => z[a] = m[a]
    /\ z[F + 1] = W("ci", r.ci) /\ z[F + 2] = W("ce", r.e) /\ z[F + 4] = W("cp", r.cp)
    /\ \A j \in 1 .. 2 * k : z[F + 4 + j] = vars2[j]
    /\ \A a \in Addr : z[a] = m[a] \/ z[a] = Junk \/ z[a].f \notin {"free", "bound", "junk"}

\* An environment that the interpreter lays for a continuation: its UC field
\* is what it was, and its variables are given by vars2.
LEMMA LaysEnv ==
    ASSUME NEW m, Tidy(m), StackEnd \in Nat, NEW F \in Nat, NEW r, NEW k \in Nat,
           F + 4 + 2 * k <= StackEnd, NEW vars2, Fills(vars2, k),
           NEW z, LaidEnv(m, F, r, vars2, z)
    PROVE  HasEnv(m, F, r, k, vars2, z)
<1> USE DEF Fills, HasEnv
<1> DEFINE A == EnvWords(r, 0, m[F + 3])
           ws == A \o vars2
           N == 4 + 2 * k
<1>1. /\ IsSeq(A) /\ Len(A) = 4
      /\ A[1] = W("ci", r.ci) /\ A[2] = W("ce", r.e) /\ A[3] = m[F + 3] /\ A[4] = W("cp", r.cp)
  BY NoWords
<1>2. z = Write(m, F + 1, ws)
  BY DEF LaidEnv
<1> HIDE DEF A
<1>3. IsSeq(A) /\ IsSeq(vars2) /\ ws = A \o vars2
  BY <1>1
<1> HIDE DEF ws
<1>4. /\ DOMAIN ws = 1 .. Len(A) + Len(vars2)
      /\ \A i \in 1 .. Len(A) : ws[i] = A[i]
  <2>1. DOMAIN ws = 1 .. Len(A) + Len(vars2)
    BY ONLY <1>3, JoinIs
  <2>2. \A i \in 1 .. Len(A) : ws[i] = A[i]
    BY ONLY <1>3, JoinIs
  <2> QED
    BY <2>1, <2>2
<1>5. \A i \in 1 .. Len(vars2) : ws[Len(A) + i] = vars2[i]
  BY ONLY <1>3, JoinIs
<1>6. DOMAIN ws = 1 .. N /\ N \in Nat
  BY <1>1, <1>4
<1>7. DOMAIN m = Addr /\ Addr \subseteq Int /\ F + 1 \in Int
  BY DEF Tidy, Addr
<1>8. /\ DOMAIN z = Addr
      /\ \A b \in Addr : b < F + 1 \/ F + 1 + N <= b => z[b] = m[b]
      /\ \A i \in 1 .. N : F + 1 + i - 1 \in Addr => z[F + 1 + i - 1] = ws[i]
  <2>1. F + 1 \in Int /\ N \in Nat /\ DOMAIN ws = 1 .. N /\ DOMAIN m \subseteq Int
    BY <1>6, <1>7
  <2> HIDE DEF N
  <2>2. DOMAIN z = DOMAIN m
    BY <1>2 DEF Write
  <2> DEFINE G == F + 1
  <2>a. G \in Int /\ z = Write(m, G, ws)
    BY <2>1, <1>2
  <2> HIDE DEF G
  <2>b. \A b \in DOMAIN m : b < G \/ G + N <= b => z[b] = m[b]
    BY ONLY <2>1, <2>a, WriteIs
  <2>3. \A b \in DOMAIN m : b < F + 1 \/ F + 1 + N <= b => z[b] = m[b]
    BY <2>b DEF G
  <2>4. \A i \in 1 .. N : F + 1 + i - 1 \in DOMAIN m => z[F + 1 + i - 1] = ws[i]
    BY ONLY <2>1, <1>2, WriteIs
  <2> QED
    BY <1>7, <2>2, <2>3, <2>4
<1>9. \A i \in 1 .. N : F + i \in Addr /\ z[F + i] = ws[i]
  <2> SUFFICES ASSUME NEW i \in 1 .. N
               PROVE  F + i \in Addr /\ z[F + i] = ws[i]
    OBVIOUS
  <2>1. F + i \in Addr /\ F + 1 + i - 1 = F + i
    BY DEF Addr, StackBeg
  <2> QED
    BY <1>8, <2>1
<1>10. /\ z[F + 1] = W("ci", r.ci) /\ z[F + 2] = W("ce", r.e) /\ z[F + 3] = m[F + 3]
       /\ z[F + 4] = W("cp", r.cp)
  <2>1. {1, 2, 3, 4} \subseteq 1 .. N /\ {1, 2, 3, 4} \subseteq 1 .. Len(A)
    BY <1>1
  <2> QED
    BY <1>1, <1>4, <1>9, <2>1
<1>11. \A j \in 1 .. 2 * k : z[F + 4 + j] = vars2[j]
  <2> SUFFICES ASSUME NEW j \in 1 .. 2 * k
               PROVE  z[F + 4 + j] = vars2[j]
    OBVIOUS
  <2>1. 4 + j \in 1 .. N /\ F + (4 + j) = F + 4 + j /\ j \in 1 .. Len(vars2)
    OBVIOUS
  <2>2. ws[4 + j] = vars2[j]
    BY <1>1, <1>5, <2>1
  <2> QED
    BY <1>9, <2>1, <2>2
<1>12. ASSUME NEW a \in Addr, ~(a < F + 1), ~(F + 1 + N <= a)
       PROVE  z[a] = m[a] \/ z[a] = Junk \/ z[a].f \notin {"free", "bound", "junk"}
  <2>1. a - F \in 1 .. N /\ F + (a - F) = a
    BY <1>6, <1>7, <1>12
  <2>2. a - F \in {1, 2, 3, 4} \/ (a - F - 4 \in 1 .. 2 * k /\ F + 4 + (a - F - 4) = a)
    BY <2>1
  <2>3. CASE a - F \in {1, 2, 3, 4}
    BY <1>10, <2>1, <2>3 DEF W
  <2>4. CASE a - F - 4 \in 1 .. 2 * k /\ F + 4 + (a - F - 4) = a
    BY <1>11, <2>4
  <2> QED
    BY <2>2, <2>3, <2>4
<1> QED
  BY <1>7, <1>8, <1>10, <1>11, <1>12

\* What a continuation at cp finds in its environment, at e in z: what is left
\* of the goal, and its cut point b.
Continues(z, e, u, h, b) ==
    \A y \in 1 .. u.n : /\ u.slot[y] # "level" /\ Slot(z, e + 2 * y, u.slot[y])
                        /\ u.slot[y] = "cut" => /\ u.slot[1] = "goal"
                                                /\ z[e + 2 * y].v = b /\ z[e + 2].v = h

\* The interpreter solves g, to go on at cp in an environment of its own.
LEMMA SolveInStep ==
    ASSUME WellShaped(prog), IInv, NEW o, o = SolveReg, SolvesAt(o),
           NEW cp \in DOMAIN Code, NEW u, u = ShapeAt(cp), ReturnsTo(u, cp), IsShape(u),
           u.pushed = 0, u.univ \in Nat,
           NEW g \in DOMAIN prog.goals, NEW h, NEW n \in Nat, u.n <= n,
           NEW vars2, Fills(vars2, u.n),
           NEW F, F = findtosEnv(o),
           \A z : (\A j \in 1 .. 2 * u.n : z[F + 4 + j] = vars2[j]) =>
                     Continues(z, F + 3, u, h, o.b0),
           \A c : c = SolveCalls[Len(SolveCalls)] =>
                     CutPoint(snaps, c, g, o.b0) /\ CutPoint(snaps, c, h, o.b0),
           SolveIn(o, cp, g, n, vars2, o.uc + u.univ)
    PROVE  IInv'
<1> DEFINE cs == SolveCalls
           c == cs[Len(cs)]
           e == F + 3
           z == Write(stk, F + 1, EnvWords(o, 0, stk[F + 3]) \o vars2)
           uc == o.uc + u.univ
           r == [o EXCEPT !.e = e, !.cp = cp, !.a1 = g, !.uc = uc, !.p = SolveCode]
           d == Caller(r)
           q == [tos |-> o.tos, e |-> e, i |-> o.i, uc |-> uc]
<1>1. /\ Registers([o EXCEPT !.p = SolveCode], snaps) /\ Stacked(snaps) /\ Memory(stk, trail, snaps)
      /\ View(stk, o, LiveAt(o.e, o.cp), cs, ctx, snaps, Solving) /\ Loaded /\ status = "run"
  BY DEF SolvesAt
<1>sol. /\ ~Solving.own /\ Solving.univ = 0 /\ Solving.pushed = 0 /\ Solving.ext = 0
        /\ Solving.cut = "goal" /\ Solving.a1 = "goal"
  BY DEF Solving, Shape
<1>2. F = Frontier(o.e, LiveAt(o.e, o.cp), o.tos)
  BY <1>1, <1>sol, FrontierIs
<1>3. /\ F \in Nat /\ StackEnd \in Nat /\ FstCP < F /\ o.tos <= F /\ o.tos \in Nat
      /\ LastB(snaps) < o.tos /\ o.tos \in Addr
  BY <1>1, <1>2, ViewReaches, ViewBounds
<1>4. u.n \in Nat /\ u.own /\ u.cut = "none" /\ u.a1 = "any" /\ u.ext = 0 /\ CallI1(cp) = u.n
      /\ Code[cp].op \notin Alternatives
  BY DEF ReturnsTo
<1>5. CASE stackError(F + EnvFixSize + 2 * n) \/ uc > UCMax
  <2>1. Overflow
    BY <1>5 DEF SolveIn
  <2> QED
    BY <2>1, OverflowStep
<1>6. CASE ~stackError(F + EnvFixSize + 2 * n) /\ ~(uc > UCMax)
  <2>1. /\ reg' = r /\ stk' = z /\ calls' = Append(cs, d) /\ live' = LiveAt(r.e, cp)
        /\ UNCHANGED <<trail, prog, status, snaps, ctx>>
    <3> DEFINE ep == F + EnvFixSize
    <3>1. /\ reg' = [o EXCEPT !.e = ep - 1, !.cp = cp, !.a1 = g, !.uc = uc, !.p = SolveCode]
          /\ stk' = Write(stk, ep - 3, EnvWords(o, 0, stk[ep - 1]) \o vars2)
          /\ calls' = Append(cs, Caller(reg')) /\ live' = LiveAt(reg'.e, cp)
          /\ UNCHANGED <<trail, prog, status, snaps, ctx>>
      BY <1>6 DEF SolveIn
    <3>2. ep - 1 = e /\ ep - 3 = F + 1 /\ ep - 1 = F + 3
      BY <1>3 DEF EnvFixSize
    <3> HIDE DEF ep, d
    <3>3. reg' = r
      BY <3>1, <3>2
    <3>4. stk' = z
      BY <3>1, <3>2
    <3> QED
      BY <3>1, <3>3, <3>4 DEF d
  <2>2. F + 4 + 2 * n <= StackEnd /\ F + 4 + 2 * u.n <= StackEnd
    <3>1. F + 4 + 2 * n <= StackEnd
      BY <1>3, <1>6 DEF stackError, EnvFixSize
    <3> QED
      BY <1>3, <1>4, <3>1
  <2>3. /\ DOMAIN z = Addr /\ \A a \in Addr : a < F => z[a] = stk[a]
        /\ z[F + 1] = W("ci", o.ci) /\ z[F + 2] = W("ce", o.e) /\ z[F + 4] = W("cp", o.cp)
        /\ \A j \in 1 .. 2 * u.n : z[F + 4 + j] = vars2[j]
        /\ \A a \in Addr : z[a] = stk[a] \/ z[a] = Junk \/ z[a].f \notin {"free", "bound", "junk"}
    <3> PICK k \in Nat : k = u.n
      BY <1>4
    <3>1. /\ Tidy(stk) /\ StackEnd \in Nat /\ F \in Nat /\ k \in Nat
          /\ F + 4 + 2 * k <= StackEnd /\ Fills(vars2, k) /\ LaidEnv(stk, F, o, vars2, z)
      <4>1. Tidy(stk) /\ StackEnd \in Nat /\ F \in Nat /\ k \in Nat
        BY <1>1, <1>3 DEF Memory
      <4>2. F + 4 + 2 * k <= StackEnd
        BY <2>2
      <4>3. Fills(vars2, k) /\ LaidEnv(stk, F, o, vars2, z)
        BY DEF LaidEnv
      <4> QED
        BY <4>1, <4>2, <4>3
    <3> HIDE DEF z
    <3>2. HasEnv(stk, F, o, k, vars2, z)
      BY ONLY <3>1, LaysEnv
    <3> QED
      BY <3>2 DEF HasEnv
  <2> HIDE DEF z
  <2>4. Continues(z, e, u, h, o.b0)
    BY <2>3
  <2>5. Memory(z, trail, snaps) /\ \A a \in 0 .. F - 1 : z[a] = stk[a]
    BY ONLY WellShaped(prog), <1>1, <1>2, <1>3, <2>3, WritesAbove
  <2>6. /\ Called(c, ctx, snaps) /\ Running(stk, o, LiveAt(o.e, o.cp), c, ctx, snaps, Solving)
        /\ c.floor \in Nat /\ c.floor \in Points(snaps) /\ c.e \in Nat
    BY <1>1, CallerIs DEF Called
  <2>7. c.e = o.e /\ c.ret = o.cp /\ o.uc = c.uc /\ o.i = ctx[Len(ctx)] /\ Len(ctx) = Len(c.ctx)
        /\ c.uc \in 0 .. UCMax /\ Len(c.ctx) \in Nat /\ o.uc \in Nat
    <3>1. Len(c.ctx) \in Nat /\ Len(ctx) \in Nat
      BY <1>1, CallerIs
    <3>2. c.uc \in 0 .. UCMax /\ UCMax \in Nat
      BY <2>6, Limits DEF Called
    <3>3. c.e = o.e /\ c.ret = o.cp
      BY <1>sol, <2>6 DEF Running, AtEnv
    <3>4. o.uc = c.uc + 0 /\ o.i = ctx[Len(ctx)] /\ Len(ctx) = Len(c.ctx) + 0
      BY <1>sol, <2>6 DEF Running, InContext
    <3> QED
      BY <3>1, <3>2, <3>3, <3>4
  <2>8. CutPoint(snaps, c, g, o.b0) /\ CutPoint(snaps, c, h, o.b0)
    OBVIOUS
  <2>regs. /\ r.e = e /\ r.cp = cp /\ r.a1 = g /\ r.uc = uc /\ r.p = SolveCode /\ r.tos = o.tos
           /\ r.i = o.i /\ r.b0 = o.b0 /\ r.b = o.b /\ r.ci = o.ci
           /\ SameBut([o EXCEPT !.p = SolveCode], r, {"e", "cp", "a1", "uc"})
    BY <1>1 DEF Registers, SameBut
  <2> HIDE DEF r
  <2>9. /\ d.ret = cp /\ d.e = e /\ d.i = o.i /\ d.uc = uc /\ d.ctx = ctx
        /\ d.floor = IF o.b0 \in Points(snaps) THEN o.b0 ELSE FstCP
    BY <2>regs DEF Caller, Floor, ChoicePoints, Points
  <2>fl. d.floor \in Points(snaps) /\ d.floor \in Nat /\ c.floor <= d.floor
    <3>1. Points(snaps) \subseteq Nat /\ FstCP \in Points(snaps)
      BY <1>1, PointsAre DEF Points
    <3>2. CASE o.b0 \in Points(snaps)
      <4>1. c.floor <= o.b0
        <5>1. CASE c.floor = FstCP
          BY <1>1, <3>2, <5>1, PointsAre
        <5> QED
          BY <2>8, <5>1 DEF CutPoint
      <4> QED
        BY <2>9, <3>1, <3>2, <4>1
    <3>3. CASE o.b0 \notin Points(snaps)
      BY <2>6, <2>8, <2>9, <3>1, <3>3 DEF CutPoint
    <3> QED
      BY <3>2, <3>3
  <2>qs. q.tos = o.tos /\ q.e = e /\ q.i = o.i /\ q.uc = uc
    OBVIOUS
  <2> HIDE DEF q, d
  <2>10. Environment(z, c, q.e, u)
    <3>1. q.e + 1 = F + 4 /\ q.e - 1 = F + 2 /\ q.e - 2 = F + 1
      BY <1>3, <2>qs
    <3>2. o.ci \in Addr
      BY <1>1 DEF Registers
    <3> QED
      BY <2>3, <2>4, <2>7, <2>qs, <3>1, <3>2 DEF Environment, Continues, W
  <2>11. Levels(z, c, q.e, u, snaps)
    BY <2>4, <2>8, <2>qs DEF Levels, Continues
  <2>12. InContext(q, c, ctx, u)
    <3>1. uc = c.uc + u.univ /\ uc \in 0 .. UCMax
      BY <1>6, <2>7, Limits
    <3>2. Len(ctx) = Len(c.ctx) + u.pushed /\ u.pushed \in Nat
      BY <2>7
    <3> QED
      BY <2>7, <2>qs, <3>1, <3>2 DEF InContext
  <2>13. FromRecord(stk, q, c, ctx, u) /\ CutKnown(z, q, c, snaps, u) /\ GoalKnown(z, q, u)
    BY <1>4 DEF FromRecord, CutKnown, GoalKnown
  <2>14. View(z, q, u.n, cs, ctx, snaps, u)
    <3>1. u.own /\ u.n \in Nat /\ q.e + 2 + 2 * u.n <= StackEnd + 1 /\ q.e = F + 3 /\ q.tos = o.tos
      <4>1. u.own /\ u.n \in Nat /\ q.e = F + 3 /\ q.tos = o.tos
        BY <1>4, <2>qs
      <4>2. F + 3 + 2 + 2 * u.n <= StackEnd + 1
        BY ONLY <1>3, <1>4, <2>2
      <4> QED
        BY <4>1, <4>2
    <3>2. c = cs[Len(cs)]
      OBVIOUS
    <3> HIDE DEF c, cs
    <3> QED
      BY ONLY WellShaped(prog), <1>1, <1>2, <1>sol, <2>5, <2>10, <2>11, <2>12, <2>13, <3>1, <3>2, ViewAllocates
  <2>15. View(z, r, LiveAt(r.e, r.cp), Append(cs, d), ctx, snaps, Solving)
    <3>1. Spared(z, c, d, u)
      <4> SUFFICES ASSUME NEW y \in 1 .. u.n, u.slot[y] = "cut"
                   PROVE  \/ z[d.e + 2 * y].v <= d.floor
                          \/ z[d.e + 2].v \notin Cutters /\ c.floor = FstCP
        BY <2>4 DEF Spared, Continues
      <4>1. z[d.e + 2 * y].v = o.b0 /\ z[d.e + 2].v = h
        BY <2>4, <2>9 DEF Continues
      <4>2. CASE o.b0 \in Points(snaps)
        BY <2>9, <2>fl, <4>1, <4>2
      <4>3. CASE o.b0 \notin Points(snaps)
        BY <2>8, <4>1, <4>3 DEF CutPoint
      <4> QED
        BY <4>2, <4>3
    <3>2. CutKnown(z, r, d, snaps, Solving)
      <4>1. CASE o.b0 \in Points(snaps)
        BY <1>sol, <2>9, <2>fl, <2>regs, <4>1 DEF CutKnown, CutPoint
      <4>2. CASE o.b0 \notin Points(snaps)
        BY <1>sol, <2>8, <2>9, <2>regs, <4>2 DEF CutKnown, CutPoint
      <4> QED
        BY <4>1, <4>2
    <3>3. FromRecord(z, r, d, ctx, Solving) /\ GoalKnown(z, r, Solving)
      BY <1>sol, <2>regs DEF FromRecord, GoalKnown
    <3>4. /\ d.e = q.e /\ d.uc = q.uc /\ d.i = q.i /\ d.ctx = ctx /\ d.ret \in DOMAIN Code
          /\ u = ShapeAt(d.ret) /\ ReturnsTo(u, d.ret) /\ u.n \in 0 .. u.n /\ u.own
          /\ r.e = q.e /\ r.cp = d.ret /\ r.tos = q.tos /\ r.i = q.i /\ r.uc = q.uc
      BY <1>4, <2>9, <2>qs, <2>regs
    <3>5. c = cs[Len(cs)] /\ \A y \in 1 .. u.n : u.slot[y] = u.slot[y]
      OBVIOUS
    <3> HIDE DEF c, cs
    <3> QED
      BY ONLY WellShaped(prog), <1>sol, <2>14, <2>fl, <3>1, <3>2, <3>3, <3>4, <3>5, ViewCalls
  <2>16. Registers(r, snaps)
    <3>1. e \in Addr
      <4>1. F + 4 + 2 * u.n <= StackEnd /\ F \in Nat /\ u.n \in Nat /\ StackEnd \in Nat
        BY <1>3, <1>4, <2>2
      <4>2. F + 3 \in 0 .. StackEnd
        BY ONLY <4>1
      <4> QED
        BY <4>2 DEF Addr, StackBeg
    <3>3. uc \in 0 .. UCMax
      <4>1. o.uc \in Nat /\ u.univ \in Nat /\ UCMax \in Nat /\ ~(uc > UCMax)
        BY <1>6, <2>7, Limits
      <4> QED
        BY <4>1
    <3>2. DOMAIN r = {"tos", "e", "b", "b0", "i", "ci", "ce", "uc", "p", "cp", "a1"}
      BY <1>1, <2>regs, SameFields
    <3> QED
      BY <1>1, <2>regs, <3>1, <3>2, <3>3, FixedCode DEF Registers
  <2>17. Goes(Solving, r.p)
    BY <2>regs, FixedCode
  <2>18. LiveAt(r.e, r.cp) \in Nat
    BY <2>15 DEF View, Running, AtEnv
  <2>19. /\ Memory(stk', trail', snaps') /\ Registers(reg', snaps')
         /\ View(stk', reg', live', calls', ctx', snaps', Solving) /\ Goes(Solving, reg'.p)
         /\ live' \in Nat /\ status' = "run" /\ prog' = prog /\ Loaded
    BY <1>1, <2>1, <2>5, <2>15, <2>16, <2>17, <2>18, <2>regs
  <2>20. Heir(Frames(r.e, LiveAt(r.e, r.cp), Append(cs, d)), ctx, snaps)
    <3>1. LastB(snaps) < F + 3 /\ F + 3 \in Nat
      <4>1. LastB(snaps) \in Nat
        BY <1>1, MemoryStacks, PointsAre
      <4> QED
        BY <1>3, <4>1
    <3>2. Heir(Frames(o.e, LiveAt(o.e, o.cp), cs), ctx, snaps)
      BY DEF SolvesAt
    <3> HIDE DEF cs
    <3>3. Heir(Frames(F + 3, u.n, cs), ctx, snaps)
      BY ONLY <1>1, <3>1, <3>2, HeirAllocates
    <3>4. Heir(Frames(q.e, u.n, cs), ctx, snaps)
      BY <2>qs, <3>3
    <3>5. d.e = q.e /\ ReturnsTo(u, d.ret) /\ u.n \in 0 .. u.n /\ u.own
      BY <1>4, <2>9, <2>qs
    <3>6. Heir(Frames(q.e, LiveAt(q.e, d.ret), Append(cs, d)), ctx, snaps)
      BY ONLY <2>5, <2>14, <3>4, <3>5, HeirCalls
    <3> QED
      BY <2>9, <2>qs, <2>regs, <3>6
  <2>21. Heir(Frames(reg'.e, live', calls'), ctx', snaps')
    <3>1. reg'.e = r.e /\ live' = LiveAt(r.e, r.cp) /\ calls' = Append(cs, d) /\ ctx' = ctx
          /\ snaps' = snaps
      BY <2>1, <2>regs
    <3> QED
      BY <2>20, <3>1
  <2> QED
    BY ONLY WellShaped(prog), <2>19, <2>21, LiveStep
<1> QED
  BY <1>5, <1>6

\* What the environment for the second part of a conjunction holds.
LEMMA ContinuesAnd ==
    ASSUME NEW F \in Nat, NEW h \in DOMAIN prog.goals, NEW b \in Addr,
           NEW u, u.n = 2, u.slot = <<"goal", "cut">>,
           NEW vars2, vars2 = <<W("goal", h), Junk, W("level", b), Junk>>,
           NEW z, \A j \in 1 .. 2 * u.n : z[F + 4 + j] = vars2[j]
    PROVE  Continues(z, F + 3, u, h, b)
<1>1. z[F + 5] = W("goal", h) /\ z[F + 6] = Junk /\ z[F + 7] = W("level", b) /\ z[F + 8] = Junk
  <2>1. \A j \in 1 .. 4 : z[F + 4 + j] = vars2[j]
    OBVIOUS
  <2>2. F + 5 = F + 4 + 1 /\ F + 6 = F + 4 + 2 /\ F + 7 = F + 4 + 3 /\ F + 8 = F + 4 + 4
    OBVIOUS
  <2>3. z[F + 4 + 1] = vars2[1] /\ z[F + 4 + 2] = vars2[2]
    BY <2>1
  <2>4. z[F + 4 + 3] = vars2[3] /\ z[F + 4 + 4] = vars2[4]
    BY <2>1
  <2>5. /\ vars2[1] = W("goal", h) /\ vars2[2] = Junk /\ vars2[3] = W("level", b)
        /\ vars2[4] = Junk
    OBVIOUS
  <2> QED
    BY ONLY <2>2, <2>3, <2>4, <2>5
<1>2. ASSUME NEW y \in 1 .. u.n
      PROVE  /\ u.slot[y] # "level" /\ Slot(z, F + 3 + 2 * y, u.slot[y])
             /\ u.slot[y] = "cut" => /\ u.slot[1] = "goal"
                                     /\ z[F + 3 + 2 * y].v = b /\ z[F + 3 + 2].v = h
  <2>1. CASE y = 1
    <3>1. F + 3 + 2 * y = F + 5 /\ F + 3 + 2 * y + 1 = F + 6 /\ u.slot[y] = "goal"
      BY <2>1
    <3>2. z[F + 5].f = "goal" /\ z[F + 5].v = h /\ z[F + 6].f = "junk"
      BY <1>1 DEF W, Junk
    <3> QED
      BY <3>1, <3>2 DEF Slot
  <2>2. CASE y = 2
    <3>1. /\ F + 3 + 2 * y = F + 7 /\ F + 3 + 2 * y + 1 = F + 8 /\ F + 3 + 2 = F + 5
          /\ u.slot[y] = "cut" /\ u.slot[1] = "goal"
      BY <2>2
    <3>2. z[F + 7].f = "level" /\ z[F + 7].v = b /\ z[F + 8].f = "junk" /\ z[F + 5].v = h
      BY <1>1 DEF W, Junk
    <3> QED
      BY <3>1, <3>2 DEF Slot
  <2> QED
    BY <2>1, <2>2
<1> QED
  BY <1>2 DEF Continues

\* BIMETA_solve on a conjunction.
LEMMA SolveAndStep ==
    ASSUME WellShaped(prog), IInv, SolveAnd
    PROVE  IInv'
<1> DEFINE u == Shape(TRUE, <<"goal", "cut">>, 0, "none", "any")
           F == findtosEnv(SolveReg)
           g == Goal.l
           h == Goal.r
           vars2 == <<W("goal", h), Junk, W("level", reg.b0), Junk>>
<1>1. /\ SolvesAt(SolveReg) /\ Goal.kind = "and" /\ reg.a1 \in DOMAIN prog.goals
      /\ SolveIn(SolveReg, AndCode, g, 3, vars2, reg.uc)
  BY ComesToSolve DEF SolveAnd, SolvesAt
<1>2. g \in DOMAIN prog.goals /\ h \in DOMAIN prog.goals
  BY <1>1 DEF SolvesAt, GoalShaped, Goal
<1>u. u.own /\ u.n = 2 /\ u.slot = <<"goal", "cut">> /\ u.univ = 0 /\ u.cut = "none" /\ u.a1 = "any"
      /\ u.ext = 0 /\ u.pushed = 0 /\ IsShape(u)
  BY DEF Shape, IsShape
<1> HIDE DEF u
<1>3. /\ AndCode \in DOMAIN Code /\ u = ShapeAt(AndCode) /\ ReturnsTo(u, AndCode)
  <2>1. AndCode \in DOMAIN Code /\ u = ShapeAt(AndCode) /\ CallI1(AndCode) = u.n
    BY <1>u, FixedCode DEF u
  <2>2. Code[AndCode].op \notin Alternatives
    BY FixedCode
  <2> QED
    BY <1>u, <2>1, <2>2 DEF ReturnsTo
<1>4. Fills(vars2, u.n)
  <2>1. IsSeq(vars2) /\ Len(vars2) = 4
    BY DEF IsSeq
  <2>2. \A j \in 1 .. 4 : vars2[j] = Junk \/ vars2[j].f \notin {"free", "bound", "junk"}
    BY DEF W
  <2> HIDE DEF vars2
  <2> QED
    BY <1>u, <2>1, <2>2 DEF Fills
<1>5. SolveReg.b0 = reg.b0 /\ SolveReg.uc = reg.uc /\ reg.b0 \in Addr /\ reg.uc + u.univ = reg.uc
  <2>1. reg.uc \in 0 .. UCMax /\ UCMax \in Nat /\ reg.b0 \in Addr
    BY <1>1, Limits DEF SolvesAt, Registers
  <2> QED
    BY <1>1, <1>u, <2>1 DEF SolvesAt
<1>6. F \in Nat
  <2>1. /\ View(stk, SolveReg, LiveAt(SolveReg.e, SolveReg.cp), SolveCalls, ctx, snaps, Solving)
        /\ ~Solving.own
    BY <1>1 DEF SolvesAt, Solving, Shape
  <2>2. F = Frontier(SolveReg.e, LiveAt(SolveReg.e, SolveReg.cp), SolveReg.tos)
    BY <2>1, FrontierIs
  <2> HIDE DEF F
  <2> QED
    BY <2>1, <2>2, ViewReaches
<1>7. \A c : c = SolveCalls[Len(SolveCalls)] =>
                CutPoint(snaps, c, g, SolveReg.b0) /\ CutPoint(snaps, c, h, SolveReg.b0)
  <2> SUFFICES ASSUME NEW c, c = SolveCalls[Len(SolveCalls)]
               PROVE  CutPoint(snaps, c, g, SolveReg.b0) /\ CutPoint(snaps, c, h, SolveReg.b0)
    OBVIOUS
  <2>1. CutPoint(snaps, c, reg.a1, SolveReg.b0)
    <3>1. SolveReg.a1 = reg.a1
      BY <1>1 DEF SolvesAt
    <3>2. View(stk, SolveReg, LiveAt(SolveReg.e, SolveReg.cp), SolveCalls, ctx, snaps, Solving)
      BY <1>1 DEF SolvesAt
    <3>3. CutPoint(snaps, c, SolveReg.a1, SolveReg.b0)
      BY <3>2, SolvedCut
    <3> QED
      BY <3>1, <3>3
  <2>2. /\ prog.goals[reg.a1].kind = "and" /\ g \in {prog.goals[reg.a1].l, prog.goals[reg.a1].r}
        /\ h \in {prog.goals[reg.a1].l, prog.goals[reg.a1].r}
    BY <1>1 DEF Goal
  <2> HIDE DEF g, h
  <2> QED
    BY <1>1, <2>1, <2>2, CutPointOfPart
<1>8. \A z : (\A j \in 1 .. 2 * u.n : z[F + 4 + j] = vars2[j]) => Continues(z, F + 3, u, h, SolveReg.b0)
  <2> SUFFICES ASSUME NEW z, \A j \in 1 .. 2 * u.n : z[F + 4 + j] = vars2[j]
               PROVE  Continues(z, F + 3, u, h, SolveReg.b0)
    OBVIOUS
  <2> PICK b \in Addr : b = SolveReg.b0
    BY <1>5
  <2>1. vars2 = <<W("goal", h), Junk, W("level", b), Junk>>
    BY <1>5
  <2> HIDE DEF F, h, vars2
  <2>2. Continues(z, F + 3, u, h, b)
    BY ONLY <1>2, <1>6, <1>u, <2>1, \A j \in 1 .. 2 * u.n : z[F + 4 + j] = vars2[j], ContinuesAnd
  <2> QED
    BY <2>2
<1>9. SolveIn(SolveReg, AndCode, g, 3, vars2, SolveReg.uc + u.univ)
  BY <1>1, <1>5
<1>10. F = findtosEnv(SolveReg) /\ 3 \in Nat /\ u.n <= 3 /\ u.univ \in Nat /\ SolveReg = SolveReg
  BY <1>u
<1> HIDE DEF F, g, h, vars2
<1> QED
  BY ONLY WellShaped(prog), IInv, <1>1, <1>2, <1>u, <1>3, <1>4, <1>7, <1>8, <1>9, <1>10, SolveInStep

\* BIMETA_solve on a universal goal.
LEMMA SolveAllStep ==
    ASSUME WellShaped(prog), IInv, SolveAll
    PROVE  IInv'
<1> DEFINE u == Shape(TRUE, <<>>, 1, "none", "any")
           F == findtosEnv(SolveReg)
           g == Goal.l
<1>1. /\ SolvesAt(SolveReg) /\ Goal.kind = "all" /\ reg.a1 \in DOMAIN prog.goals
      /\ SolveIn(SolveReg, AllCode, g, 1, <<>>, reg.uc + 1)
  BY ComesToSolve DEF SolveAll, SolvesAt
<1>2. g \in DOMAIN prog.goals
  BY <1>1 DEF SolvesAt, GoalShaped, Goal
<1>u. u.own /\ u.n = 0 /\ u.univ = 1 /\ u.cut = "none" /\ u.a1 = "any"
      /\ u.ext = 0 /\ u.pushed = 0 /\ IsShape(u)
  BY DEF Shape, IsShape
<1> HIDE DEF u
<1>3. /\ AllCode \in DOMAIN Code /\ u = ShapeAt(AllCode) /\ ReturnsTo(u, AllCode)
  <2>1. AllCode \in DOMAIN Code /\ u = ShapeAt(AllCode) /\ CallI1(AllCode) = u.n
    BY <1>u, FixedCode DEF u
  <2>2. Code[AllCode].op \notin Alternatives
    BY FixedCode
  <2> QED
    BY <1>u, <2>1, <2>2 DEF ReturnsTo
<1>4. Fills(<<>>, u.n)
  BY <1>u DEF Fills, IsSeq
<1>5. SolveReg.uc = reg.uc
  BY <1>1 DEF SolvesAt
<1>7. \A c : c = SolveCalls[Len(SolveCalls)] => CutPoint(snaps, c, g, SolveReg.b0)
  <2> SUFFICES ASSUME NEW c, c = SolveCalls[Len(SolveCalls)]
               PROVE  CutPoint(snaps, c, g, SolveReg.b0)
    OBVIOUS
  <2>1. CutPoint(snaps, c, reg.a1, SolveReg.b0)
    <3>1. SolveReg.a1 = reg.a1
      BY <1>1 DEF SolvesAt
    <3>2. View(stk, SolveReg, LiveAt(SolveReg.e, SolveReg.cp), SolveCalls, ctx, snaps, Solving)
      BY <1>1 DEF SolvesAt
    <3>3. CutPoint(snaps, c, SolveReg.a1, SolveReg.b0)
      BY <3>2, SolvedCut
    <3> QED
      BY <3>1, <3>3
  <2>2. prog.goals[reg.a1].kind \in {"some", "all"} /\ g = prog.goals[reg.a1].l
    BY <1>1 DEF Goal
  <2> HIDE DEF g
  <2> QED
    BY <1>1, <2>1, <2>2, CutPointOfPart
<1>8. \A z : (\A j \in 1 .. 2 * u.n : z[F + 4 + j] = <<>>[j]) => Continues(z, F + 3, u, g, SolveReg.b0)
  BY <1>u DEF Continues
<1>9. SolveIn(SolveReg, AllCode, g, 1, <<>>, SolveReg.uc + u.univ)
  BY <1>1, <1>5, <1>u
<1>10. F = findtosEnv(SolveReg) /\ 1 \in Nat /\ u.n <= 1 /\ u.univ \in Nat /\ SolveReg = SolveReg
  BY <1>u
<1> HIDE DEF F, g
<1> QED
  BY ONLY WellShaped(prog), IInv, <1>1, <1>2, <1>u, <1>3, <1>4, <1>7, <1>8, <1>9, <1>10, SolveInStep

\* Binding a free variable of the stack changes nothing that is known of it.
LEMMA ViewBinds ==
    ASSUME WellShaped(prog), NEW m, NEW r, NEW n, NEW cs, NEW cx, NEW ps, NEW s,
           View(m, r, n, cs, cx, ps, s), DOMAIN m = Addr, NEW a \in Addr, m[a].f = "free",
           NEW z, z = [m EXCEPT ![a] = W("bound", 0)]
    PROVE  View(z, r, n, cs, cx, ps, s)
<1>1. \A x \in Addr : x = a \/ z[x] = m[x]
  OBVIOUS
<1>2. z[a].f = "bound"
  BY DEF W
<1>3. StackEnd \in Nat
  BY Limits
<1>4. Records(m, cx) /\ Layout(m, Frames(r.e, n, cs), r.tos, cx, ps)
  BY DEF View
<1>5. Untouched(m, z, cx)
  <2> SUFFICES ASSUME NEW k \in 1 .. Len(cx), NEW x \in RecStart(m, cx[k]) .. RecEnd(cx[k]) - 1
               PROVE  Soft(m[x]) \/ z[x] = m[x]
    BY DEF Untouched, Intact
  <2>1. /\ RecEnd(cx[k]) \in Nat /\ RecEnd(cx[k]) <= StackEnd
        /\ RecStart(m, cx[k]) \in Nat
    BY <1>4, RecordsOrder
  <2>2. x \in Addr
    <3>1. StackEnd \in Nat
      BY <1>3
    <3> QED
      BY ONLY <2>1, <3>1, x \in RecStart(m, cx[k]) .. RecEnd(cx[k]) - 1 DEF Addr, StackBeg
  <2> QED
    BY <1>1, <2>2 DEF Soft
<1>6. FramesKept(m, z, Frames(r.e, n, cs))
  <2> SUFFICES ASSUME NEW f \in Frames(r.e, n, cs), NEW x \in f.e - 2 .. f.e + 1 + 2 * f.n
               PROVE  Like(m[x], z[x])
    BY DEF FramesKept, EnvKept
  <2>1. /\ f.e \in Nat /\ f.n \in Nat /\ FstCP < f.e - 2 /\ f.e + 2 + 2 * f.n <= StackEnd + 1
    BY <1>4 DEF Layout, Placed, EnvEnd
  <2>2. x \in Addr
    <3>1. PICK e, g : e = f.e /\ g = f.n
      OBVIOUS
    <3>2. x \in e - 2 .. e + 1 + 2 * g /\ e \in Nat /\ g \in Nat /\ FstCP < e - 2
      BY <2>1, <3>1
    <3>3. e + 2 + 2 * g <= StackEnd + 1 /\ StackEnd \in Nat
      BY <1>3, <2>1, <3>1
    <3> QED
      BY ONLY <3>2, <3>3 DEF Addr, StackBeg, FstCP
  <2> QED
    BY <1>1, <1>2, <2>2 DEF Like
<1> QED
  BY <1>5, <1>6, ViewAgrees

\* Unification fails, goes on, or binds a variable.
LEMMA UnifyStep ==
    ASSUME WellShaped(prog), IInv, Unify
    PROVE  IInv'
<1> DEFINE s == ShapeAt(reg.p)
<1>1. status = "run" /\ I.op = "unify"
  BY DEF Unify, Is
<1>2. Here(s)
  BY <1>1, ComesHere DEF Alternatives, Halting
<1>3. Goes(s, reg.p + 1)
  <2>1. Goes(After(s, I), reg.p + 1)
    BY <1>1, <1>2, NextGoes DEF Straight
  <2>2. After(s, I) = s
    BY <1>1 DEF After, ValueOps, CallOps
  <2> QED
    BY <2>1, <2>2
<1> HIDE DEF s
<1>4. CASE Fails
  BY <1>4, StillStep DEF Fails, hist, Statuses
<1>5. CASE Regs(Next1(reg))
  <2>1. Next1(reg) = [reg EXCEPT !.p = reg.p + 1]
    BY DEF Next1
  <2> QED
    BY <1>1, <1>2, <1>3, <1>5, <2>1, JumpStep
<1>6. ASSUME NEW a \in FreeVars, Bind(a)
      PROVE  IInv'
  <2> DEFINE z == [stk EXCEPT ![a] = W("bound", 0)]
             t == IF a < LastB(snaps)
                  THEN Append(trail, [addr |-> a, old |-> <<stk[a], stk[a + 1]>>]) ELSE trail
  <2>1. a \in Addr /\ stk[a].f = "free"
    BY DEF FreeVars
  <2>2. /\ View(stk, reg, live, calls, ctx, snaps, s) /\ Memory(stk, trail, snaps)
        /\ Registers(reg, snaps) /\ live \in Nat /\ Loaded
    BY <1>2 DEF Here
  <2>3. /\ stk' = z /\ trail' = t /\ reg' = Next1(reg) /\ status' = "run" /\ prog' = prog
        /\ snaps' = snaps /\ calls' = calls /\ live' = live /\ ctx' = ctx
    BY <1>1, <1>6, <2>2 DEF Bind, hist, Registers
  <2>4. Tidy(stk) /\ Rooted(stk) /\ DOMAIN stk = Addr
    BY <2>2 DEF Memory, Tidy
  <2>5. View(z, reg, live, calls, ctx, snaps, s)
    <3>1. z = [stk EXCEPT ![a] = W("bound", 0)]
      OBVIOUS
    <3> HIDE DEF z
    <3> QED
      BY <2>1, <2>2, <2>4, <3>1, ViewBinds
  <2>6. Rooted(z)
    <3>1. stk[ModuleIP + 2].f = "pst"
      BY <2>4 DEF Rooted, Record
    <3>2. ModuleIP + 2 \in Addr
      <4>1. ModuleIP \in Nat /\ RecEnd(ModuleIP) <= StackEnd /\ StackEnd \in Nat
        <5>1. Records(stk, ctx)
          BY <2>2 DEF View
        <5>2. 1 \in 1 .. Len(ctx) /\ ctx[1] = ModuleIP
          BY <2>2, CallerIs DEF View, Records
        <5> QED
          BY <5>1, <5>2, RecordsOrder, Limits
      <4> QED
        BY <4>1 DEF RecEnd, ImpFixSize, Addr, StackBeg
    <3>3. z[ModuleIP + 2] = stk[ModuleIP + 2]
      BY <2>1, <2>4, <3>1, <3>2
    <3>4. Records(z, ctx)
      BY <2>5 DEF View
    <3> HIDE DEF z
    <3> QED
      BY <2>4, <3>3, <3>4, RootedStays
  <2>7. Memory(z, t, snaps)
    <3>1. z = [stk EXCEPT ![a] = W("bound", 0)]
      OBVIOUS
    <3>2. t = IF a < LastB(snaps)
              THEN Append(trail, [addr |-> a, old |-> <<stk[a], stk[a + 1]>>]) ELSE trail
      OBVIOUS
    <3> HIDE DEF z, t
    <3> QED
      BY <2>1, <2>2, <2>6, <3>1, <3>2, MemoryBinds
  <2> HIDE DEF z, t
  <2>8. /\ SameBut(reg, Next1(reg), {"p"}) /\ Next1(reg).p = reg.p + 1
        /\ Registers(Next1(reg), snaps)
    BY <1>3, <2>2, NextRegs
  <2>9. View(z, Next1(reg), live, calls, ctx, snaps, s)
    <3> DEFINE q == Next1(reg)
    <3>1. /\ q.e = reg.e /\ q.cp = reg.cp /\ q.tos = reg.tos /\ q.i = reg.i /\ q.uc = reg.uc
          /\ q.ci = reg.ci /\ q.b0 = reg.b0 /\ q.a1 = reg.a1
      BY <2>2, <2>8, SameFields
    <3> HIDE DEF q
    <3>2. Layout(z, Frames(reg.e, live, calls), q.tos, ctx, snaps)
      BY <2>5, <3>1 DEF View
    <3>3. View(z, q, live, calls, ctx, snaps, s)
      BY <2>5, <3>1, <3>2, ViewEnds
    <3> QED
      BY <3>3 DEF q
  <2>10. Heir(Frames(reg'.e, live', calls'), ctx', snaps')
    <3>1. Next1(reg).e = reg.e
      BY <2>2, <2>8, SameFields
    <3> QED
      BY <1>2, <2>3, <3>1 DEF Here
  <2> QED
    BY <1>3, <2>2, <2>3, <2>7, <2>8, <2>9, <2>10, LiveStep
<1> QED
  BY <1>4, <1>5, <1>6 DEF Unify

-----------------------------------------------------------------------------
\* The record of the module that queries are put to lies at the bottom.
LEMMA TopIs ==
    ASSUME WellShaped(prog)
    PROVE  /\ Top \in DOMAIN Tables /\ Tables[Top].segs \in Nat /\ Len(Tables[Top].link) \in Nat
           /\ VectorSize(Top) = 2 * Tables[Top].segs + 2 * Len(Tables[Top].link)
           /\ VectorSize(Top) \in Nat
           /\ ModuleIP \in Nat /\ ModuleIP = FstCP + 1 + VectorSize(Top)
           /\ RecEnd(ModuleIP) <= StackEnd /\ RecEnd(ModuleIP) \in Addr /\ ModuleIP \in Addr
           /\ FstCP < RecEnd(ModuleIP) /\ TopUC \in 0 .. UCMax
<1>1. /\ Top \in DOMAIN Tables
      /\ FstCP + 1 + 2 * Tables[Top].segs + 2 * Len(Tables[Top].link) + ImpFixSize <= StackEnd
      /\ (IF Tables[Top].locals THEN 1 ELSE 0) <= UCMax
  BY DEF WellShaped, Top, Tables, StackEnd, UCMax
<1>2. /\ Tables[Top].segs \in Nat /\ Len(Tables[Top].link) \in Nat
      /\ VectorSize(Top) = 2 * Tables[Top].segs + 2 * Len(Tables[Top].link)
      /\ VectorSize(Top) \in Nat
  BY <1>1, Tabled
<1>3. ModuleIP = FstCP + 1 + VectorSize(Top) /\ ModuleIP \in Nat
  BY <1>2 DEF ModuleIP, FstCP
<1>4. StackEnd \in Nat /\ UCMax \in Nat
  BY Limits
<1>5. RecEnd(ModuleIP) <= StackEnd /\ RecEnd(ModuleIP) \in Nat /\ FstCP < RecEnd(ModuleIP)
  <2>1. PICK x, V : x = ModuleIP /\ V = VectorSize(Top)
    OBVIOUS
  <2>2. V \in Nat /\ x = FstCP + 1 + V /\ FstCP + 1 + V + ImpFixSize <= StackEnd
    <3>1. PICK g, l : g = 2 * Tables[Top].segs /\ l = 2 * Len(Tables[Top].link)
      OBVIOUS
    <3>2. V \in Nat /\ x = FstCP + 1 + V /\ V = g + l
      BY <1>2, <1>3, <2>1, <3>1
    <3>3. FstCP + 1 + g + l + ImpFixSize <= StackEnd /\ g \in Nat /\ l \in Nat
      BY <1>1, <1>2, <3>1
    <3> QED
      BY ONLY <3>2, <3>3 DEF FstCP, ImpFixSize
  <2>3. RecEnd(x) <= StackEnd /\ RecEnd(x) \in Nat /\ FstCP < RecEnd(x)
    BY ONLY <2>2, <1>4 DEF RecEnd, ImpFixSize, FstCP
  <2> QED
    BY ONLY <2>1, <2>3
<1>6. RecEnd(ModuleIP) \in Addr /\ ModuleIP \in Addr
  BY <1>3, <1>4, <1>5 DEF Addr, StackBeg, RecEnd, ImpFixSize
<1>7. TopUC \in 0 .. UCMax
  BY <1>1, <1>4 DEF TopUC
<1> QED
  BY <1>1, <1>2, <1>3, <1>5, <1>6, <1>7

\* FRONT_initModuleContext writes the backchained vector alone.
LEMMA BCKIs ==
    ASSUME WellShaped(prog), NEW m, DOMAIN m = Addr, NEW z, z = InitBCK(m)
    PROVE  /\ DOMAIN z = Addr
           /\ \A a \in Addr : FstCP + 1 + 2 * Tables[Top].segs <= a => z[a] = m[a]
           /\ \A a \in Addr : z[a] = m[a] \/ z[a].f \notin {"free", "bound", "junk"}
<1> DEFINE n == 2 * Tables[Top].segs
           ws == [k \in 1 .. n |-> IF k % 2 = 1 THEN W("bck", 0) ELSE W("mrcp", FstCP)]
           x == FstCP + 1
<1>1. n \in Nat /\ x \in Nat
  BY TopIs DEF FstCP
<1>2. DOMAIN ws = 1 .. n /\ \A k \in 1 .. n : ws[k].f \notin {"free", "bound", "junk"}
  BY DEF W
<1>3. z = Write(m, x, ws)
  BY DEF InitBCK
<1> HIDE DEF ws, n, x
<1>4. /\ DOMAIN z = DOMAIN m
      /\ \A a \in DOMAIN m : a < x \/ x + n <= a => z[a] = m[a]
      /\ \A k \in 1 .. n : x + k - 1 \in DOMAIN m => z[x + k - 1] = ws[k]
  <2>1. x \in Int /\ n \in Nat /\ DOMAIN ws = 1 .. n /\ DOMAIN m \subseteq Int /\ z = Write(m, x, ws)
    BY <1>1, <1>2, <1>3 DEF Addr
  <2>2. DOMAIN z = DOMAIN m
    BY ONLY <2>1, WriteIs
  <2>3. \A a \in DOMAIN m : a < x \/ x + n <= a => z[a] = m[a]
    BY ONLY <2>1, WriteIs
  <2>4. \A k \in 1 .. n : x + k - 1 \in DOMAIN m => z[x + k - 1] = ws[k]
    BY ONLY <2>1, WriteIs
  <2> QED
    BY <2>2, <2>3, <2>4
<1>5. ASSUME NEW a \in Addr, ~(a < x), ~(x + n <= a)
      PROVE  z[a].f \notin {"free", "bound", "junk"}
  <2>1. a - x + 1 \in 1 .. n /\ x + (a - x + 1) - 1 = a
    BY <1>1, <1>5 DEF Addr
  <2> QED
    BY <1>2, <1>4, <2>1
<1> QED
  BY <1>1, <1>4, <1>5 DEF n, x

\* The record of the module, when its next clauses are none.
LEMMA RootedIs ==
    ASSUME WellShaped(prog), NEW z, NEW x, x = ModuleIP,
           z[x + 2] = W("pst", Top), z[x + 4] = W("pip", StackBeg),
           \A y \in 1 .. Len(Tables[Top].link) :
              z[x - 2 * y].f = "ncl" /\ z[x - 2 * y].v = FailCode /\ z[x - 2 * y + 1].f = "nclip"
    PROVE  Rooted(z)
<1> DEFINE cx == <<ModuleIP>>
<1>1. cx[1] = x /\ Len(cx) = 1
  OBVIOUS
<1>2. z[x + 2].f = "pst" /\ z[x + 2].v = Top
  BY DEF W
<1>3. Links(z, x) = Len(Tables[Top].link) /\ RecStart(z, x) = x - VectorSize(Top)
  BY <1>2 DEF Links, RecStart
<1>4. RecEnd(x) <= StackEnd /\ FstCP < RecStart(z, x) /\ Top \in DOMAIN Tables
  <2>1. RecEnd(x) <= StackEnd /\ Top \in DOMAIN Tables
    BY TopIs
  <2>2. x = FstCP + 1 + VectorSize(Top) /\ VectorSize(Top) \in Nat
    BY TopIs
  <2> QED
    BY <1>3, <2>1, <2>2 DEF FstCP
<1> HIDE DEF cx
<1>5. Record(z, cx, 1)
  <2>1. \A y \in 1 .. Links(z, x) : NextClause(z, cx, 1, y)
    BY <1>1, <1>3 DEF NextClause
  <2>2. \A j \in 1 .. 1 - 1 : RecEnd(cx[j]) <= RecStart(z, x)
    OBVIOUS
  <2> QED
    BY <1>1, <1>2, <1>4, <2>1, <2>2 DEF Record
<1> QED
  BY <1>2, <1>5 DEF Rooted, cx

\* It keeps its place when the backchained vector starts anew.
LEMMA RootedBCK ==
    ASSUME WellShaped(prog), NEW m, DOMAIN m = Addr, Rooted(m), NEW z, z = InitBCK(m)
    PROVE  Rooted(z)
<1> DEFINE x == ModuleIP
           cx == <<ModuleIP>>
           F == FstCP + 1 + 2 * Tables[Top].segs
<1>1. \A a \in Addr : FstCP + 1 + 2 * Tables[Top].segs <= a => z[a] = m[a]
  BY BCKIs
<1>2. /\ Tables[Top].segs \in Nat /\ Len(Tables[Top].link) \in Nat
      /\ x = FstCP + 1 + (2 * Tables[Top].segs + 2 * Len(Tables[Top].link)) /\ x \in Nat
      /\ RecEnd(x) <= StackEnd /\ StackEnd \in Nat
  BY TopIs, Limits
<1>3. cx[1] = x
  OBVIOUS
<1>4. m[x + 2].v = Top /\ Record(m, cx, 1)
  BY DEF Rooted
<1> HIDE DEF x, cx
<1>F. F \in Nat /\ Len(Tables[Top].link) \in Nat /\ x = F + 2 * Len(Tables[Top].link) /\ x \in Nat
  <2>1. PICK g, l : g = Tables[Top].segs /\ l = Len(Tables[Top].link)
    OBVIOUS
  <2>2. F = FstCP + 1 + 2 * g
    BY <2>1
  <2> HIDE DEF F
  <2>3. g \in Nat /\ l \in Nat /\ x = FstCP + 1 + (2 * g + 2 * l) /\ x \in Nat
    BY <1>2, <2>1
  <2>4. F \in Nat /\ x = F + 2 * l
    BY ONLY <2>2, <2>3 DEF FstCP
  <2> QED
    BY <2>1, <2>3, <2>4
<1> HIDE DEF F
<1>5. \A a \in Nat : F <= a /\ a < RecEnd(x) => a \in Addr /\ z[a] = m[a]
  BY <1>1, <1>2 DEF Addr, StackBeg, RecEnd, ImpFixSize, F
<1>6. z[x + 2] = m[x + 2] /\ z[x + 4] = m[x + 4]
  <2>1. /\ x + 2 \in Nat /\ F <= x + 2 /\ x + 2 < RecEnd(x)
        /\ x + 4 \in Nat /\ F <= x + 4 /\ x + 4 < RecEnd(x)
    <3>1. RecEnd(x) = x + 6
      BY ONLY <1>F DEF RecEnd, ImpFixSize
    <3>2. F <= x
      BY ONLY <1>F
    <3> QED
      BY ONLY <1>F, <3>1, <3>2
  <2> QED
    BY <1>5, <2>1
<1>7. ASSUME NEW y \in 1 .. Len(Tables[Top].link)
      PROVE  NextClause(z, cx, 1, y)
  <2>1. /\ x - 2 * y \in Nat /\ x - 2 * y + 1 \in Nat
        /\ F <= x - 2 * y /\ F <= x - 2 * y + 1
        /\ x - 2 * y < x + 6 /\ x - 2 * y + 1 < x + 6
    <3> PICK L \in Nat : L = Len(Tables[Top].link)
      BY <1>F
    <3>1. x = F + 2 * L /\ F \in Nat /\ L \in Nat /\ x \in Nat /\ y \in Nat /\ 1 <= y /\ y <= L
      BY <1>F
    <3>2. x - 2 * y \in Nat /\ x - 2 * y + 1 \in Nat
      BY ONLY <3>1
    <3>3. F <= x - 2 * y /\ F <= x - 2 * y + 1
      BY ONLY <3>1
    <3>4. x - 2 * y < x + 6 /\ x - 2 * y + 1 < x + 6
      BY ONLY <3>1
    <3> QED
      BY <3>2, <3>3, <3>4
  <2>2. z[x - 2 * y] = m[x - 2 * y] /\ z[x - 2 * y + 1] = m[x - 2 * y + 1]
    BY <1>5, <2>1 DEF RecEnd, ImpFixSize
  <2>3. NextClause(m, cx, 1, y)
    BY <1>3, <1>4 DEF Record, Links
  <2>4. \A j \in 1 .. 1 - 1 : FALSE
    OBVIOUS
  <2> QED
    BY <1>3, <2>2, <2>3, <2>4 DEF NextClause
<1>8. Record(z, cx, 1)
  <2>1. \A j \in 1 .. 1 - 1 : FALSE
    OBVIOUS
  <2>2. Links(z, x) = Len(Tables[Top].link) /\ RecStart(z, x) = RecStart(m, x)
    BY <1>4, <1>6 DEF Links, RecStart
  <2> QED
    BY <1>3, <1>4, <1>6, <1>7, <2>1, <2>2 DEF Record
<1> QED
  BY <1>4, <1>6, <1>8 DEF Rooted, x, cx

\* With no choice point there is nothing to keep.
LEMMA MemoryEmpty ==
    ASSUME NEW z, Tidy(z), Rooted(z)
    PROVE  Memory(z, <<>>, <<>>)
  BY DEF Memory, IsSeq

\* FRONT_cleanModule and what goes with it, after a query.
LEMMA EndQueryStep ==
    ASSUME WellShaped(prog), IInv, EndQuery
    PROVE  IInv'
<1> DEFINE z == InitBCK(stk)
           r == [reg EXCEPT !.i = ModuleIP, !.tos = ModuleIP + ImpFixSize,
                            !.e = StackBeg, !.b = FstCP, !.uc = TopUC]
<1>1. /\ Loaded /\ Memory(stk, trail, snaps) /\ Registers(reg, snaps)
  BY DEF IInv
<1>2. /\ status' = "idle" /\ reg' = r /\ trail' = <<>> /\ prog' = prog /\ stk' = z /\ calls' = <<>>
      /\ snaps' = <<>> /\ live' = 0 /\ ctx' = <<ModuleIP>>
  BY DEF EndQuery
<1>3. Tidy(stk) /\ Rooted(stk) /\ DOMAIN stk = Addr
  BY <1>1 DEF Memory, Tidy
<1>4. Tidy(z) /\ Rooted(z)
  <2>1. z = InitBCK(stk)
    OBVIOUS
  <2> HIDE DEF z
  <2>2. DOMAIN z = Addr /\ \A a \in Addr : z[a] = stk[a] \/ z[a].f \notin {"free", "bound", "junk"}
    BY <1>3, <2>1, BCKIs
  <2>3. Tidy(z)
    BY <1>3, <2>2, TidyWrites
  <2> QED
    BY <1>3, <2>1, <2>3, RootedBCK
<1>5. /\ r.i = ModuleIP /\ r.tos = RecEnd(ModuleIP) /\ r.e = StackBeg /\ r.b = FstCP /\ r.uc = TopUC
      /\ r.b0 = reg.b0 /\ r.ci = reg.ci /\ r.p = reg.p /\ r.cp = reg.cp /\ DOMAIN r = DOMAIN reg
  BY <1>1 DEF Registers, RecEnd
<1> HIDE DEF z, r
<1>6. Memory(z, <<>>, <<>>)
  BY <1>4, MemoryEmpty
<1>7. Registers(r, <<>>)
  <2>1. {r.tos, r.e, r.b, r.b0, r.i, r.ci} \subseteq Addr
    <3>1. StackBeg \in Addr /\ FstCP \in Addr
      BY TopIs, Limits DEF Addr, StackBeg, FstCP
    <3> QED
      BY <1>1, <1>5, <3>1, TopIs DEF Registers
  <2>2. r.b = LastB(<<>>) /\ r.b < r.tos /\ RecEnd(r.i) <= StackEnd /\ r.uc \in 0 .. UCMax
    BY <1>5, TopIs DEF LastB
  <2> QED
    BY <1>1, <1>5, <2>1, <2>2 DEF Registers
<1>9. /\ Memory(stk, trail, snaps)' /\ Registers(reg, snaps)' /\ Loaded' /\ status' \in Statuses
      /\ live' \in Nat
  <2>1. Memory(stk, trail, snaps)'
    BY <1>2, <1>6, StaysMemory
  <2>2. Registers(reg, snaps)'
    BY <1>2, <1>7, StaysRegisters
  <2>3. Loaded'
    BY <1>1, <1>2 DEF Loaded
  <2> QED
    BY <1>2, <2>1, <2>2, <2>3 DEF Statuses
<1>10. Joined(stk, calls)'
  BY <1>2 DEF Joined
<1>11. Idle'
  <2>1. ModuleIP' = ModuleIP /\ TopUC' = TopUC
    BY <1>2, StaysRecord
  <2> QED
    BY <1>2, <1>5, <2>1 DEF Idle, RecEnd
<1>12. ~IsLive' /\ status' # "run" /\ ~Using'
  BY <1>2 DEF IsLive, Using
<1> QED
  BY <1>2, <1>9, <1>10, <1>11, <1>12 DEF IInv

\* QUERY_solveQuery, on a new query: nothing is to be returned to.
LEMMA ViewOfQuery ==
    ASSUME WellShaped(prog), NEW m, Rooted(m), NEW r, r.e = StackBeg, r.tos = RecEnd(ModuleIP),
           r.cp = ProceedCode, r.i = ModuleIP, r.uc = TopUC,
           r.a1 \in DOMAIN prog.goals, r.a1 \notin Cutters,
           NEW d, d.ret = ProceedCode, d.e = StackBeg, d.i = ModuleIP, d.uc = TopUC,
           d.ctx = <<ModuleIP>>, d.floor = FstCP
    PROVE  View(m, r, 0, <<d>>, <<ModuleIP>>, <<>>, Solving)
<1> DEFINE cs == <<d>>
           cx == <<ModuleIP>>
           ps == <<>>
           s == Solving
<1>1. Len(cs) = 1 /\ cs[1] = d /\ Len(cx) = 1 /\ cx[1] = ModuleIP /\ Len(ps) = 0 /\ IsSeq(cs)
      /\ cs # <<>> /\ cx # <<>> /\ cx \in Seq(Nat)
  BY TopIs DEF IsSeq
<1>2. Record(m, cx, 1)
  BY DEF Rooted
<1>s. /\ ~s.own /\ s.univ = 0 /\ s.pushed = 0 /\ s.ext = 0
      /\ s.cut = "goal" /\ s.a1 = "goal"
  BY DEF Solving, Shape
<1>3. ProceedCode \in DOMAIN Code /\ TopUC \in 0 .. UCMax
  BY FixedCode, TopIs
<1>p. FstCP \in Points(ps) /\ FstCP \in Nat
  BY DEF Points, FstCP
<1> HIDE DEF cs, cx, ps, s
<1>4. Records(m, cx)
  BY <1>1, <1>2 DEF Records
<1>5. Layout(m, Frames(r.e, 0, cs), r.tos, cx, ps)
  <2>1. Frames(r.e, 0, cs) = {}
    <3>1. \A j \in 2 .. Len(cs) : FALSE
      BY <1>1
    <3> QED
      BY <3>1 DEF Frames
  <2>2. RecStart(m, cx[1]) \in Nat /\ RecEnd(cx[1]) \in Nat
    BY <1>1, <1>4, RecordsOrder
  <2>3. \A k \in 1 .. Len(cx) : k = 1
    BY <1>1
  <2>4. \A k \in 1 .. Len(ps) : FALSE
    BY <1>1
  <2>5. RecEnd(cx[1]) <= r.tos /\ r.tos \in Addr
    BY <1>1, <2>2, TopIs
  <2> QED
    BY <2>1, <2>2, <2>3, <2>4, <2>5 DEF Layout
<1>6. Called(d, cx, ps)
  <2>1. Len(d.ctx) = 1 /\ d.e \in Nat
    BY DEF StackBeg
  <2> QED
    BY <1>1, <1>3, <1>p, <2>1 DEF Called
<1>7. Calls(m, cs, cx, ps)
  <2>1. \A j \in 2 .. Len(cs) : FALSE
    BY <1>1
  <2>2. \A j \in 1 .. Len(cs), i \in 1 .. Len(cs) : ~(i < j)
    BY <1>1
  <2>3. \A j \in 1 .. Len(cs) : j = 1
    BY <1>1
  <2> QED
    BY <1>1, <1>6, <2>1, <2>2, <2>3 DEF Calls
<1>8. Running(m, r, 0, d, cx, ps, s)
  <2>1. AtEnv(m, r, 0, d, ps, s)
    BY <1>s DEF AtEnv, LiveAt
  <2>2. InContext(r, d, cx, s)
    <3>1. Len(d.ctx) = 1 /\ TopUC \in Nat
      BY <1>3, Limits
    <3> QED
      BY <1>1, <1>3, <1>s, <3>1 DEF InContext
  <2>3. FromRecord(m, r, d, cx, s) /\ GoalKnown(m, r, s)
    BY <1>s DEF FromRecord, GoalKnown
  <2>4. CutKnown(m, r, d, ps, s)
    BY <1>s DEF CutKnown, CutPoint
  <2> QED
    BY <2>1, <2>2, <2>3, <2>4 DEF Running
<1>9. View(m, r, 0, cs, cx, ps, s)
  BY <1>1, <1>4, <1>5, <1>7, <1>8 DEF View
<1> QED
  BY <1>9 DEF cs, cx, ps, s

\* A query starts with a goal without a cut that leaves it, in the context of
\* its module.
LEMMA StartQueryStep ==
    ASSUME WellShaped(prog), IInv, NEW g \in prog.queries, StartQuery(g)
    PROVE  IInv'
<1> DEFINE r == [reg EXCEPT !.p = SolveCode, !.cp = ProceedCode, !.a1 = g]
           d == Caller(r)
<1>1. /\ Loaded /\ Memory(stk, trail, snaps) /\ Registers(reg, snaps) /\ Idle
  BY DEF IInv, StartQuery
<1>2. /\ status' = "run" /\ reg' = r /\ calls' = <<d>> /\ stk' = stk /\ trail' = <<>>
      /\ prog' = prog /\ snaps' = <<>> /\ live' = 0 /\ ctx' = <<ModuleIP>>
      /\ trail = <<>> /\ snaps = <<>> /\ ctx = <<ModuleIP>>
  BY <1>1 DEF StartQuery, Idle
<1>3. g \in DOMAIN prog.goals
  <2>1. PICK s \in Systems : prog = [s EXCEPT !.code = Boot \o @]
    BY <1>1 DEF Loaded
  <2>2. /\ s.queries \subseteq DOMAIN s.goals
        /\ DOMAIN s = {"code", "tables", "top", "goals", "queries", "stackEnd", "ucMax", "merged"}
    BY <2>1, SystemAssumption
  <2>3. prog.queries = s.queries /\ prog.goals = s.goals
    BY <2>1, <2>2
  <2> QED
    BY <2>2, <2>3
<1>4. g \notin Cutters
  BY CuttersAre
<1>5. /\ r.e = StackBeg /\ r.tos = RecEnd(ModuleIP) /\ r.cp = ProceedCode /\ r.i = ModuleIP
      /\ r.uc = TopUC /\ r.a1 = g /\ r.p = SolveCode /\ r.b = reg.b /\ r.b0 = reg.b0 /\ r.ci = reg.ci
      /\ DOMAIN r = DOMAIN reg /\ reg.tos = r.tos /\ reg.i = r.i /\ reg.e = r.e /\ reg.uc = r.uc
  BY <1>1 DEF Registers, Idle
<1> HIDE DEF r
<1>6. /\ d.ret = ProceedCode /\ d.e = StackBeg /\ d.i = ModuleIP /\ d.uc = TopUC
      /\ d.ctx = <<ModuleIP>> /\ d.floor = FstCP
  <2>1. ChoicePoints = {FstCP}
    BY <1>2 DEF ChoicePoints
  <2>2. Floor(r) = FstCP
    BY <2>1 DEF Floor
  <2> QED
    BY <1>2, <1>5, <2>2 DEF Caller
<1> HIDE DEF d
<1>7. View(stk, r, 0, <<d>>, <<ModuleIP>>, <<>>, Solving)
  <2>1. Rooted(stk)
    BY <1>1 DEF Memory
  <2> QED
    BY <1>3, <1>4, <1>5, <1>6, <2>1, ViewOfQuery
<1>8. Registers(r, <<>>)
  <2>1. {r.tos, r.e, r.b, r.b0, r.i, r.ci} \subseteq Addr
    BY <1>1, <1>5 DEF Registers
  <2>2. /\ r.p \in DOMAIN Code /\ r.cp \in DOMAIN Code
    BY <1>5, FixedCode
  <2> QED
    BY <1>1, <1>2, <1>5, <2>1, <2>2 DEF Registers
<1>9. Goes(Solving, r.p)
  BY <1>5, FixedCode
<1>10. Heir(Frames(reg'.e, live', calls'), ctx', snaps')
  BY <1>2 DEF Heir
<1> QED
  BY <1>1, <1>2, <1>7, <1>8, <1>9, <1>10, LiveStep

\* What the simulator and the driver start with.
LEMMA InitIInv ==
    ASSUME WellShaped(prog), Init
    PROVE  IInv
<1> DEFINE blank == [a \in StackBeg .. StackEnd |-> Junk]
           w3 == <<W("npreds", 0), W("tag", TagImptWOL), W("cph", 0)>>
           bare == Write(blank, StackBeg, w3)
           tag == IF Tables[Top].locals THEN TagImptWL ELSE TagImptWOL
           r == [tos |-> ModuleIP + ImpFixSize, e |-> StackBeg, b |-> FstCP,
                 b0 |-> FstCP, i |-> StackBeg, ci |-> StackBeg, ce |-> StackBeg,
                 uc |-> TopUC, p |-> FailCode, cp |-> ProceedCode, a1 |-> 0]
           ws == RecordWords(r, Top, NPreds(Top), tag)
           F == FstCP + 1
           y == Write(bare, F, ws)
           z == InitBCK(y)
           q == [r EXCEPT !.i = ModuleIP]
           V == VectorSize(Top)
<1>1. /\ Loaded /\ stk = z /\ reg = q /\ trail = <<>> /\ status = "idle" /\ calls = <<>>
      /\ snaps = <<>> /\ live = 0 /\ ctx = <<ModuleIP>>
  BY DEF Init, Loaded
<1>2. /\ Top \in DOMAIN Tables /\ V \in Nat /\ ModuleIP = F + V /\ F \in Nat
      /\ F + (V + 6) <= StackEnd + 1 /\ StackEnd \in Nat
      /\ Len(Tables[Top].link) \in Nat /\ 2 * Len(Tables[Top].link) <= V
  <2>1. /\ Top \in DOMAIN Tables /\ V \in Nat /\ ModuleIP = F + V /\ F \in Nat
        /\ RecEnd(ModuleIP) <= StackEnd /\ StackEnd \in Nat
    BY TopIs, Limits DEF FstCP
  <2>2. F + (V + 6) <= StackEnd + 1
    BY <2>1 DEF RecEnd, ImpFixSize
  <2>3. Len(Tables[Top].link) \in Nat /\ 2 * Len(Tables[Top].link) <= V
    BY <2>1, Tabled
  <2> QED
    BY <2>1, <2>2, <2>3
<1>3. Tidy(blank)
  BY DEF Tidy, Spaced, Addr, Junk, W
<1>4. Tidy(bare)
  <2>1. DOMAIN w3 = 1 .. 3 /\ \A k \in 1 .. 3 : w3[k] = Junk \/ w3[k].f \notin {"free", "bound", "junk"}
    BY DEF W
  <2>2. 0 + 3 <= StackEnd + 1
    BY <1>2 DEF FstCP
  <2>3. StackBeg = 0 /\ bare = Write(blank, StackBeg, w3)
    BY DEF StackBeg
  <2> HIDE DEF blank, w3, bare
  <2>4. /\ DOMAIN bare = Addr
        /\ \A a \in Addr : bare[a] = blank[a] \/ bare[a] = Junk \/ bare[a].f \notin {"free", "bound", "junk"}
    <3> PICK o \in Nat : o = StackBeg
      BY <2>3
    <3> PICK n \in Nat : n = 3
      OBVIOUS
    <3>1. /\ Tidy(blank) /\ StackEnd \in Nat /\ o \in Nat /\ n \in Nat /\ DOMAIN w3 = 1 .. n
          /\ o + n <= StackEnd + 1 /\ bare = Write(blank, o, w3)
          /\ \A k \in 1 .. n : w3[k] = Junk \/ w3[k].f \notin {"free", "bound", "junk"}
      BY <1>2, <1>3, <2>1, <2>2, <2>3
    <3>2. HasWords(blank, o, n, w3, bare)
      BY ONLY <3>1, LaysWords
    <3> QED
      BY <3>2 DEF HasWords
  <2> QED
    BY <1>3, <2>4, TidyWrites
<1>5. /\ r.i = StackBeg /\ ws = RecordWords(r, Top, NPreds(Top), tag)
      /\ NPreds(Top).f \notin {"free", "bound", "junk"} /\ y = Write(bare, F, ws) /\ z = InitBCK(y)
  BY DEF NPreds, W
<1>6. /\ q.tos = RecEnd(ModuleIP) /\ q.e = StackBeg /\ q.b = FstCP /\ q.b0 = FstCP /\ q.i = ModuleIP
      /\ q.ci = StackBeg /\ q.uc = TopUC /\ q.p = FailCode /\ q.cp = ProceedCode
      /\ DOMAIN q = {"tos", "e", "b", "b0", "i", "ci", "ce", "uc", "p", "cp", "a1"}
  BY DEF RecEnd
<1> HIDE DEF blank, bare, tag, r, ws, F, y, z, q, V
<1>7. /\ DOMAIN ws = 1 .. V + 6 /\ ws[V + 3] = W("pst", Top) /\ ws[V + 5] = W("pip", StackBeg)
      /\ \A k \in 1 .. V + 6 : ws[k].f \notin {"free", "bound", "junk"}
      /\ \A x \in 1 .. Len(Tables[Top].link) :
            LET ip == FindIP(StackBeg, Tables[Top].link[x])
            IN  /\ ws[V + 1 - 2 * x] =
                      W("ncl", IF CodeAt(ip, Tables[Top].link[x]) = 0 THEN FailCode
                               ELSE CodeAt(ip, Tables[Top].link[x]))
                /\ ws[V + 2 - 2 * x] = W("nclip", ip)
  <2>1. /\ Top \in DOMAIN Tables /\ V = VectorSize(Top) /\ ws = RecordWords(r, Top, NPreds(Top), tag)
        /\ NPreds(Top).f \notin {"free", "bound", "junk"} /\ r.i = StackBeg
    BY <1>2, <1>5 DEF V
  <2>2. DOMAIN ws = 1 .. V + 6
    BY ONLY WellShaped(prog), <2>1, RecordWordsAre
  <2>3. ws[V + 3] = W("pst", Top)
    BY ONLY WellShaped(prog), <2>1, RecordWordsAre
  <2>4. ws[V + 5] = W("pip", r.i)
    BY ONLY WellShaped(prog), <2>1, RecordWordsAre
  <2>5. \A k \in 1 .. V + 6 : ws[k].f \notin {"free", "bound", "junk"}
    BY ONLY WellShaped(prog), <2>1, RecordWordsAre
  <2>6. \A x \in 1 .. Len(Tables[Top].link) :
            LET ip == FindIP(r.i, Tables[Top].link[x])
            IN  /\ ws[V + 1 - 2 * x] =
                      W("ncl", IF CodeAt(ip, Tables[Top].link[x]) = 0 THEN FailCode
                               ELSE CodeAt(ip, Tables[Top].link[x]))
                /\ ws[V + 2 - 2 * x] = W("nclip", ip)
    <3>1. NextWords(ws, V, r.i, Top)
      BY ONLY WellShaped(prog), <2>1, RecordWordsAre
    <3> QED
      BY ONLY <3>1 DEF NextWords
  <2> QED
    BY <2>1, <2>2, <2>3, <2>4, <2>5, <2>6
<1>8. \A c : FindIP(StackBeg, c) = StackBeg /\ CodeAt(StackBeg, c) = 0
  <2> SUFFICES ASSUME NEW c
               PROVE  FindIP(StackBeg, c) = StackBeg /\ CodeAt(StackBeg, c) = 0
    OBVIOUS
  <2>1. PICK g : /\ \A i \in StackBeg .. StackEnd : g[i] = Outwards(g, c, i)
                 /\ \A i : FindIP(i, c) = g[i]
    BY FindsOutwards
  <2>2. StackBeg \in StackBeg .. StackEnd
    BY <1>2 DEF StackBeg
  <2>3. g[StackBeg] = StackBeg
    BY <2>1, <2>2 DEF Outwards
  <2> QED
    BY <2>1, <2>3 DEF CodeAt
<1>9. /\ DOMAIN y = Addr
      /\ \A k \in 1 .. V + 6 : F + k - 1 \in Addr /\ y[F + k - 1] = ws[k]
      /\ \A a \in Addr : y[a] = bare[a] \/ y[a] = Junk \/ y[a].f \notin {"free", "bound", "junk"}
  <2> PICK n \in Nat : n = V + 6
    BY <1>2
  <2>1. /\ Tidy(bare) /\ StackEnd \in Nat /\ F \in Nat /\ n \in Nat /\ DOMAIN ws = 1 .. n
        /\ F + n <= StackEnd + 1 /\ y = Write(bare, F, ws)
        /\ \A k \in 1 .. n : ws[k] = Junk \/ ws[k].f \notin {"free", "bound", "junk"}
    BY <1>2, <1>4, <1>5, <1>7
  <2>2. HasWords(bare, F, n, ws, y)
    BY ONLY <2>1, LaysWords
  <2> QED
    BY <2>2 DEF HasWords
<1>10. Tidy(y)
  BY <1>4, <1>9, TidyWrites
<1>11. Rooted(y)
  <2> DEFINE x == ModuleIP
  <2>1. y[x + 2] = W("pst", Top) /\ y[x + 4] = W("pip", StackBeg)
    <3>1. /\ V + 3 \in 1 .. V + 6 /\ F + (V + 3) - 1 = x + 2
          /\ V + 5 \in 1 .. V + 6 /\ F + (V + 5) - 1 = x + 4
      BY <1>2
    <3> HIDE DEF x
    <3> QED
      BY <1>7, <1>9, <3>1
  <2>2. ASSUME NEW j \in 1 .. Len(Tables[Top].link)
        PROVE  y[x - 2 * j].f = "ncl" /\ y[x - 2 * j].v = FailCode /\ y[x - 2 * j + 1].f = "nclip"
    <3>1. /\ V + 1 - 2 * j \in 1 .. V + 6 /\ V + 2 - 2 * j \in 1 .. V + 6
          /\ F + (V + 1 - 2 * j) - 1 = x - 2 * j /\ F + (V + 2 - 2 * j) - 1 = x - 2 * j + 1
      BY <1>2
    <3> HIDE DEF x
    <3>2. y[x - 2 * j] = ws[V + 1 - 2 * j] /\ y[x - 2 * j + 1] = ws[V + 2 - 2 * j]
      BY <1>9, <3>1
    <3>3. ws[V + 1 - 2 * j] = W("ncl", FailCode) /\ ws[V + 2 - 2 * j] = W("nclip", StackBeg)
      BY <1>7, <1>8
    <3> QED
      BY <3>2, <3>3 DEF W
  <2>3. x = ModuleIP
    OBVIOUS
  <2> HIDE DEF x
  <2> QED
    BY <2>1, <2>2, <2>3, RootedIs
<1>12. Tidy(z) /\ Rooted(z)
  <2>1. DOMAIN z = Addr /\ \A a \in Addr : z[a] = y[a] \/ z[a].f \notin {"free", "bound", "junk"}
    BY <1>5, <1>9, BCKIs
  <2>2. Tidy(z)
    BY <1>10, <2>1, TidyWrites
  <2> QED
    BY <1>5, <1>9, <1>11, <2>2, RootedBCK
<1>13. Memory(z, <<>>, <<>>)
  BY <1>12, MemoryEmpty
<1>14. Registers(q, <<>>)
  <2>1. StackBeg \in Addr /\ FstCP \in Addr
    BY TopIs, Limits DEF Addr, StackBeg, FstCP
  <2>2. FailCode \in DOMAIN Code /\ ProceedCode \in DOMAIN Code
    BY FixedCode, Limits DEF FailCode, Boot
  <2>3. LastB(<<>>) = FstCP
    BY DEF LastB
  <2> QED
    BY <1>6, <2>1, <2>2, <2>3, TopIs DEF Registers
<1>15. Joined(stk, calls)
  BY <1>1 DEF Joined
<1>16. Idle
  BY <1>1, <1>6 DEF Idle
<1>17. ~IsLive /\ status # "run" /\ ~Using /\ status \in Statuses /\ live \in Nat
  BY <1>1 DEF IsLive, Using, Statuses
<1> QED
  BY <1>1, <1>13, <1>14, <1>15, <1>16, <1>17 DEF IInv

-----------------------------------------------------------------------------
\* Well shaped code has no imports: their instructions are in none of the
\* kinds that Finds allows.
LEMMA NoImports ==
    ASSUME WellShaped(prog), IInv
    PROVE  ~(AddImports \/ RemoveImports \/ PushImport \/ PopImports)
<1> SUFFICES ASSUME AddImports \/ RemoveImports \/ PushImport \/ PopImports
             PROVE  FALSE
  OBVIOUS
<1>1. status = "run" /\ I.op \in {"add_imports", "remove_imports", "push_import", "pop_imports"}
  BY DEF AddImports, RemoveImports, PushImport, PopImports, Is
<1>2. Here(ShapeAt(reg.p))
  BY <1>1, ComesHere DEF Alternatives, Halting
<1>3. I.op \in Straight \cup ToOps \cup ElseOps \cup Switches \cup Leaving \cup Halting \cup {"trust_ext"}
  BY <1>2 DEF Here, Finds
<1> QED
  BY <1>1, <1>3
     DEF Straight, SlotOps, ValueOps, CallOps, MeOps, ToOps, ElseOps, Switches, Leaving, Halting

\* The interpreter's steps keep the invariant.
LEMMA SolvesStep ==
    ASSUME WellShaped(prog), IInv,
           \/ SolveAnd \/ SolveOr \/ SolveSome \/ SolveAll \/ SolveTrue
           \/ SolveCut \/ SolveNot \/ SolveAtom \/ SolveFail \/ SolveStop
    PROVE  IInv'
<1>1. CASE SolveAnd
  BY <1>1, SolveAndStep
<1>2. CASE SolveOr
  BY <1>2, SolveOrStep
<1>3. CASE SolveSome
  BY <1>3, SolveSomeStep
<1>4. CASE SolveAll
  BY <1>4, SolveAllStep
<1>5. CASE SolveTrue
  BY <1>5, SolveTrueStep
<1>6. CASE SolveCut
  BY <1>6, SolveCutStep
<1>7. CASE SolveNot
  BY <1>7, SolveNotStep
<1>8. CASE SolveAtom
  BY <1>8, SolveAtomStep
<1>9. CASE SolveFail
  BY <1>9, SolveFailStep
<1>10. CASE SolveStop
  BY <1>10, SolveStopStep
<1> QED
  BY <1>1, <1>2, <1>3, <1>4, <1>5, <1>6, <1>7, <1>8, <1>9, <1>10

\* So do the instructions for clauses.
LEMMA ClausesStep ==
    ASSUME WellShaped(prog), IInv,
           \/ TryMeElse \/ TryElse \/ Try
           \/ RetryMeElse \/ RetryElse \/ Retry
           \/ TrustMe \/ Trust \/ TrustExt
           \/ SwitchOnReg \/ SwitchOnTerm \/ SwitchOnConstant \/ Fail \/ Backtrack
           \/ NeckCut \/ Cut \/ Unify
    PROVE  IInv'
<1>1. CASE TryMeElse \/ TryElse \/ Try
  BY <1>1, TryStep
<1>2. CASE RetryMeElse
  BY <1>2, RetryMeElseStep
<1>3. CASE RetryElse
  BY <1>3, RetryElseStep
<1>4. CASE Retry
  BY <1>4, RetryToStep
<1>5. CASE TrustMe
  BY <1>5, TrustMeStep
<1>6. CASE Trust
  BY <1>6, TrustToStep
<1>7. CASE TrustExt
  BY <1>7, TrustExtStep
<1>8. CASE SwitchOnReg
  BY <1>8, SwitchOnRegStep
<1>9. CASE SwitchOnTerm
  BY <1>9, SwitchOnTermStep
<1>10. CASE SwitchOnConstant
  BY <1>10, SwitchOnConstantStep
<1>11. CASE Fail
  BY <1>11, FailStep
<1>12. CASE Backtrack
  BY <1>12, BacktrackStep
<1>13. CASE NeckCut
  BY <1>13, NeckCutStep
<1>14. CASE Cut
  BY <1>14, CutsStep
<1>15. CASE Unify
  BY <1>15, UnifyStep
<1> QED
  BY <1>1, <1>2, <1>3, <1>4, <1>5, <1>6, <1>7, <1>8, <1>9, <1>10, <1>11, <1>12, <1>13, <1>14, <1>15

\* So do all steps.
LEMMA StepsKeep ==
    ASSUME WellShaped(prog), IInv, [Next]_vars
    PROVE  IInv'
<1>1. CASE UNCHANGED vars
  <2>1. UNCHANGED <<prog, reg, stk, trail, status, calls, snaps, live, ctx>>
    BY <1>1 DEF vars
  <2>2. Loaded' /\ live' \in Nat /\ status' \in Statuses
    BY <2>1 DEF IInv, Loaded
  <2>3. Memory(stk, trail, snaps)' /\ Registers(reg, snaps)' /\ Joined(stk, calls)'
    BY <2>1, StaysMemory, StaysRegisters DEF IInv, Joined
  <2>4. (status = "idle" => Idle)'
    <3>1. ModuleIP' = ModuleIP /\ TopUC' = TopUC
      BY <2>1, StaysRecord
    <3> QED
      BY <2>1, <3>1 DEF IInv, Idle, RecEnd
  <2>5. I' = I
    BY <2>1 DEF I, Code
  <2>6. IsLive' => View(stk, reg, live, calls, ctx, snaps, ShapeAt(reg.p))'
    <3>1. IsLive' => IsLive
      BY <2>1, <2>5 DEF IsLive, Alternatives, Halting
    <3>2. ShapeAt(reg.p)' = ShapeAt(reg.p)
      BY <2>1, StaysRecord
    <3> QED
      BY <2>1, <3>1, <3>2, StaysView DEF IInv
  <2>7. (status = "run" /\ I.op \in Alternatives => Resumed)'
    <3>1. SavedLive(Newest)' = SavedLive(Newest) /\ Newest' = Newest
      BY <2>1, StaysMemory DEF Newest
    <3>2. Resumed => Resumed'
      BY <2>1, <3>1 DEF Resumed, Unknown
    <3> QED
      BY <2>1, <2>5, <3>2 DEF IInv, Alternatives
  <2>8. Using' => InUse'
    <3>1. Using' => Using
      BY <2>1, <2>5 DEF Using, Alternatives
    <3>2. InUse => InUse'
      BY <2>1, StaysView, StaysLayout, StaysMemory DEF InUse
    <3> QED
      BY <3>1, <3>2 DEF IInv
  <2> QED
    BY <2>2, <2>3, <2>4, <2>6, <2>7, <2>8 DEF IInv
<1>2. ASSUME NEW g \in prog.queries, StartQuery(g)
      PROVE  IInv'
  BY <1>2, StartQueryStep
<1>3. CASE MoreAnswers
  BY <1>3, MoreAnswersStep
<1>4. CASE EndQuery
  BY <1>4, EndQueryStep
<1>5. CASE Step
  <2>1. CASE Allocate
    BY <2>1, AllocateStep
  <2>2. CASE Deallocate
    BY <2>2, DeallocateStep
  <2>3. CASE PutVariable \/ TagVariable \/ TagExists \/ SetUnivTag \/ GetVariable \/ InitVariable
    BY <2>3, WriteVariableStep
  <2>4. CASE ToRegister
    BY <2>4, ToRegisterStep
  <2>5. CASE GetLevel
    BY <2>5, GetLevelStep
  <2>6. CASE PutLevel
    BY <2>6, PutLevelStep
  <2>7. CASE PutGoal
    BY <2>7, PutGoalStep
  <2>8. CASE PushImplPoint
    BY <2>8, PushImplPointStep
  <2>9. CASE PopImplPoint
    BY <2>9, PopImplPointStep
  <2>10. CASE IncrUniverse
    BY <2>10, IncrUniverseStep
  <2>11. CASE DecrUniverse
    BY <2>11, DecrUniverseStep
  <2>12. CASE CallLabel
    BY <2>12, CallLabelStep
  <2>13. CASE CallName
    BY <2>13, CallNameStep
  <2>14. CASE Execute
    BY <2>14, ExecuteStep
  <2>15. CASE ExecuteName
    BY <2>15, ExecuteNameStep
  <2>16. CASE Proceed
    BY <2>16, ProceedStep
  <2>17. CASE \/ TryMeElse \/ TryElse \/ Try
              \/ RetryMeElse \/ RetryElse \/ Retry
              \/ TrustMe \/ Trust \/ TrustExt
              \/ SwitchOnReg \/ SwitchOnTerm \/ SwitchOnConstant \/ Fail \/ Backtrack
              \/ NeckCut \/ Cut \/ Unify
    BY <2>17, ClausesStep
  <2>18. CASE \/ SolveAnd \/ SolveOr \/ SolveSome \/ SolveAll \/ SolveTrue
              \/ SolveCut \/ SolveNot \/ SolveAtom \/ SolveFail \/ SolveStop
    BY <2>18, SolvesStep
  <2>19. CASE Stop
    BY <2>19, FailStep
  <2> QED
    BY <1>5, <2>1, <2>2, <2>3, <2>4, <2>5, <2>6, <2>7, <2>8, <2>9, <2>10, <2>11, <2>12, <2>13,
       <2>14, <2>15, <2>16, <2>17, <2>18, <2>19, NoImports DEF Step
<1> QED
  BY <1>1, <1>2, <1>3, <1>4, <1>5 DEF Next

\* The program is never written to: first, the steps that run it,
LEMMA RunsKeepProg ==
    ASSUME \/ Allocate \/ Deallocate
           \/ PutVariable \/ TagVariable \/ TagExists \/ SetUnivTag
           \/ GetVariable \/ InitVariable \/ ToRegister \/ GetLevel \/ PutLevel \/ PutGoal
           \/ PushImplPoint \/ PopImplPoint
           \/ AddImports \/ RemoveImports \/ PushImport \/ PopImports
           \/ IncrUniverse \/ DecrUniverse
           \/ CallLabel \/ CallName \/ Execute \/ ExecuteName \/ Proceed
    PROVE  prog' = prog
<1>1. CASE Allocate
  BY <1>1 DEF Allocate, Overflow
<1>2. CASE Deallocate
  BY <1>2 DEF Deallocate
<1>3. CASE PutVariable \/ TagVariable \/ TagExists \/ SetUnivTag
  BY <1>3 DEF PutVariable, TagVariable, TagExists, SetUnivTag, SetVar
<1>4. CASE GetVariable \/ InitVariable \/ ToRegister \/ GetLevel \/ PutLevel \/ PutGoal
  BY <1>4 DEF GetVariable, InitVariable, ToRegister, GetLevel, PutLevel, PutGoal, SetVar, Regs
<1>5. CASE PushImplPoint
  BY <1>5 DEF PushImplPoint, PushRecord, Overflow
<1>6. CASE PushImport
  BY <1>6 DEF PushImport, PushRecord, Overflow
<1>7. CASE PopImplPoint \/ PopImports
  BY <1>7 DEF PopImplPoint, PopImports, PopTo
<1>8. CASE AddImports \/ RemoveImports
  BY <1>8 DEF AddImports, RemoveImports
<1>9. CASE IncrUniverse \/ DecrUniverse
  BY <1>9 DEF IncrUniverse, DecrUniverse, Regs, Overflow
<1>10. CASE CallLabel \/ CallName
  BY <1>10 DEF CallLabel, CallName, Calling, Fails
<1>11. CASE Execute \/ ExecuteName \/ Proceed
  BY <1>11 DEF Execute, ExecuteName, Proceed, Returning, Regs, Fails
<1> QED
  BY <1>1, <1>2, <1>3, <1>4, <1>5, <1>6, <1>7, <1>8, <1>9, <1>10, <1>11

\* those that try clauses and take other ones,
LEMMA TriesKeepProg ==
    ASSUME \/ TryMeElse \/ TryElse \/ Try
           \/ RetryMeElse \/ RetryElse \/ Retry
           \/ TrustMe \/ Trust \/ TrustExt
           \/ SwitchOnReg \/ SwitchOnTerm \/ SwitchOnConstant \/ Fail \/ Backtrack
           \/ NeckCut \/ Cut \/ Unify
    PROVE  prog' = prog
<1>1. CASE TryMeElse \/ TryElse \/ Try
  BY <1>1 DEF TryMeElse, TryElse, Try, Push, Overflow
<1>2. CASE RetryMeElse \/ RetryElse \/ Retry
  BY <1>2 DEF RetryMeElse, RetryElse, Retry, Retrying
<1>3. CASE TrustMe \/ Trust
  BY <1>3 DEF TrustMe, Trust, Trusting
<1>4. CASE TrustExt
  BY <1>4 DEF TrustExt, Trusting
<1>5. CASE SwitchOnReg \/ SwitchOnTerm \/ SwitchOnConstant \/ Fail
  BY <1>5 DEF SwitchOnReg, SwitchOnTerm, SwitchOnConstant, Fail, Regs, Fails
<1>6. CASE Backtrack
  BY <1>6 DEF Backtrack
<1>7. CASE NeckCut \/ Cut
  BY <1>7 DEF NeckCut, Cut, CutTo
<1>8. CASE Unify
  BY <1>8 DEF Unify, Fails, Regs, Bind
<1> QED
  BY <1>1, <1>2, <1>3, <1>4, <1>5, <1>6, <1>7, <1>8

\* those of the interpreter,
LEMMA SolvesKeepProg ==
    ASSUME \/ SolveAnd \/ SolveOr \/ SolveSome \/ SolveAll \/ SolveTrue
           \/ SolveCut \/ SolveNot \/ SolveAtom \/ SolveFail \/ SolveStop
           \/ Stop
    PROVE  prog' = prog
<1>1. CASE SolveAnd \/ SolveAll
  BY <1>1 DEF SolveAnd, SolveAll, SolveIn, Overflow
<1>2. CASE SolveOr \/ SolveNot
  BY <1>2 DEF SolveOr, SolveNot, SolvePush, Overflow
<1>3. CASE SolveSome \/ SolveTrue \/ SolveCut \/ SolveStop
  BY <1>3 DEF SolveSome, SolveTrue, SolveCut, SolveStop, SolveStep
<1>4. CASE SolveAtom \/ SolveFail \/ Stop
  BY <1>4 DEF SolveAtom, SolveFail, SolveStep, Stop, Fails
<1> QED
  BY <1>1, <1>2, <1>3, <1>4

\* and those of the driver.
LEMMA KeepsProg ==
    ASSUME [Next]_vars
    PROVE  prog' = prog
<1>1. CASE Step
  BY <1>1, RunsKeepProg, TriesKeepProg, SolvesKeepProg DEF Step
<1>2. CASE UNCHANGED vars
  BY <1>2 DEF vars
<1>3. CASE MoreAnswers \/ EndQuery \/ \E g \in prog.queries : StartQuery(g)
  BY <1>3 DEF MoreAnswers, EndQuery, StartQuery
<1> QED
  BY <1>1, <1>2, <1>3 DEF Next

\* The inductive invariant, for programs whose code is well shaped.
THEOREM Invariant == Spec => [](WellShaped(prog) => IInv)
<1> DEFINE J == WellShaped(prog) => IInv
<1>1. Init => J
  BY InitIInv
<1>2. J /\ [Next]_vars => J'
  <2> SUFFICES ASSUME J, [Next]_vars, WellShaped(prog)'
               PROVE  IInv'
    OBVIOUS
  <2>1. WellShaped(prog)' <=> WellShaped(prog)
    BY KeepsProg DEF WellShaped
  <2> QED
    BY <2>1, StepsKeep
<1> HIDE DEF J
<1>3. Spec => []J
  BY <1>1, <1>2, PTL DEF Spec
<1> QED
  BY <1>3 DEF J

-----------------------------------------------------------------------------
\* What follows from the invariant.  First, that the registers, the stack and
\* the trail are what TypeOK says.
LEMMA TypeHolds ==
    ASSUME WellShaped(prog), IInv
    PROVE  TypeOK
<1>1. DOMAIN stk = Addr /\ \A k \in 1 .. Len(trail) : trail[k].addr \in Addr
  BY DEF IInv, Memory, Tidy
<1>2. /\ {reg.tos, reg.e, reg.b, reg.b0, reg.i, reg.ci} \subseteq Addr
      /\ reg.p \in DOMAIN Code /\ reg.cp \in DOMAIN Code /\ reg.uc \in 0 .. UCMax
  BY DEF IInv, Registers
<1>3. DOMAIN Code = 1 .. Len(Code)
  BY Limits
<1> QED
  BY <1>1, <1>2, <1>3 DEF IInv, TypeOK

\* The calls of the machine, and those kept by each choice point, are linked.
LEMMA ContinuationsHold ==
    ASSUME WellShaped(prog), IInv
    PROVE  ContinuationsIntact
<1>1. Linked(calls)
  BY DEF IInv, Joined, Linked
<1> QED
  BY <1>1, LinksKept DEF ContinuationsIntact

\* At a return the clause has left its environment, taken its records away and
\* left its universes: the shape says so, and the view what that means.
LEMMA HomeHolds ==
    ASSUME WellShaped(prog), IInv
    PROVE  ReturnsHome
<1> SUFFICES ASSUME Is("proceed"), NEW c, c = calls[Len(calls)]
             PROVE  reg.cp = c.ret /\ reg.e = c.e /\ reg.i = c.i /\ reg.uc = c.uc
  BY DEF ReturnsHome
<1> DEFINE s == ShapeAt(reg.p)
<1>1. status = "run" /\ I.op = "proceed"
  BY DEF Is
<1>2. Here(s)
  BY <1>1, ComesHere DEF Alternatives, Halting
<1>3. ~s.own /\ s.pushed = 0 /\ s.univ = 0
  BY <1>1, <1>2 DEF Here, Finds, Leaving, InClause
<1>4. /\ View(stk, reg, live, calls, ctx, snaps, s)
      /\ Registers(reg, snaps)
  BY <1>2 DEF Here
<1> HIDE DEF s
<1>5. /\ Called(c, ctx, snaps) /\ Running(stk, reg, live, c, ctx, snaps, s)
      /\ Len(ctx) \in Nat /\ Len(c.ctx) \in Nat
  BY <1>4, CallerIs
<1>6. reg.cp = c.ret /\ reg.e = c.e
  BY <1>3, <1>5 DEF Running, AtEnv
<1>7. reg.uc = c.uc
  <2>1. reg.uc = c.uc + 0 /\ c.uc \in 0 .. UCMax /\ UCMax \in Nat
    BY <1>3, <1>5, Limits DEF Running, InContext, Called
  <2> QED
    BY <2>1
<1>8. reg.i = c.i
  <2>1. Len(ctx) = Len(c.ctx) + 0 /\ reg.i = ctx[Len(ctx)] /\ c.i = ctx[Len(c.ctx)]
    BY <1>3, <1>5 DEF Running, InContext, Called
  <2> QED
    BY <1>5, <2>1
<1> QED
  BY <1>6, <1>7, <1>8

\* No cut drops a choice point that the call it works for was made under: the
\* floor of a call is the newest choice point at the time, and for a goal given
\* to solve the one its cuts may go back to.
Callee(cs) == cs[Len(cs)]
CutsStayInCalls ==
    /\ Is("neck_cut") \/ Is("get_level") => Callee(calls).floor <= reg.b0
    /\ Is("cut") => Callee(calls).floor <= v(Y(I.y))
    /\ Solves("cut") => Callee(SolveCalls).floor <= reg.b0

\* A clause that cuts has the cut point it was entered with, or kept; so has a
\* goal with a cut.
LEMMA CutsHold ==
    ASSUME WellShaped(prog), IInv
    PROVE  CutsToLive /\ CutsStayInCalls
<1> DEFINE s == ShapeAt(reg.p)
           c == calls[Len(calls)]
<1>p. Points(snaps) = ChoicePoints
  BY DEF Points, ChoicePoints
<1>h. ASSUME status = "run", I.op \in {"neck_cut", "get_level", "cut"}
      PROVE  /\ Here(s) /\ Running(stk, reg, live, c, ctx, snaps, s)
             /\ View(stk, reg, live, calls, ctx, snaps, s)
  <2>1. Here(s)
    BY <1>h, ComesHere DEF Alternatives, Halting
  <2>2. View(stk, reg, live, calls, ctx, snaps, s)
    BY <2>1 DEF Here
  <2> HIDE DEF s
  <2> QED
    BY <2>1, <2>2, CallerIs
<1> HIDE DEF c
<1>1. ASSUME Is("neck_cut") \/ Is("get_level")
      PROVE  reg.b0 \in ChoicePoints /\ Callee(calls).floor <= reg.b0
  <2>1. status = "run" /\ I.op \in {"neck_cut", "get_level"}
    BY <1>1 DEF Is
  <2>2. s.cut = "clause"
    BY <1>h, <2>1 DEF Here, Finds
  <2>3. CutKnown(stk, reg, c, snaps, s)
    BY <1>h, <2>1 DEF Running
  <2> QED
    BY <1>p, <2>2, <2>3 DEF CutKnown, Callee, c
<1>2. ASSUME Solves("cut")
      PROVE  reg.b0 \in ChoicePoints /\ Callee(SolveCalls).floor <= reg.b0
  <2>1. SolvesAt(SolveReg) /\ Goal.kind = "cut"
    BY <1>2, ComesToSolve
  <2>2. /\ View(stk, SolveReg, LiveAt(SolveReg.e, SolveReg.cp), SolveCalls, ctx, snaps, Solving)
        /\ SolveReg.b0 = reg.b0 /\ SolveReg.a1 = reg.a1 /\ reg.a1 \in DOMAIN prog.goals
    BY <2>1 DEF SolvesAt
  <2>3. reg.a1 \in Cutters
    BY <2>1, <2>2, CuttersAre DEF Cutting, Goal
  <2>4. \A d : d = SolveCalls[Len(SolveCalls)] => CutPoint(snaps, d, SolveReg.a1, SolveReg.b0)
    BY <2>2, SolvedCut
  <2> QED
    BY <1>p, <2>2, <2>3, <2>4 DEF CutPoint, Callee
<1>3. ASSUME Is("cut")
      PROVE  /\ stk[Y(I.y)].f = "level" /\ v(Y(I.y)) \in ChoicePoints
             /\ Callee(calls).floor <= v(Y(I.y))
  <2>1. status = "run" /\ I.op = "cut"
    BY <1>3 DEF Is
  <2>2. s.own /\ I.y \in 1 .. s.n /\ s.slot[I.y] = "level"
    BY <1>h, <2>1 DEF Here, Finds, SlotOps
  <2>3. Environment(stk, c, reg.e, s) /\ Levels(stk, c, reg.e, s, snaps)
    BY <1>h, <2>1, <2>2 DEF Running, AtEnv
  <2>4. stk[reg.e + 2 * I.y].f = "level"
    BY <2>2, <2>3 DEF Environment, Slot
  <2>5. stk[reg.e + 2 * I.y].v \in Points(snaps) /\ c.floor <= stk[reg.e + 2 * I.y].v
    BY <2>2, <2>3 DEF Levels
  <2> QED
    BY <1>p, <2>4, <2>5 DEF Y, v, Callee, c
<1> QED
  BY <1>1, <1>2, <1>3 DEF CutsToLive, CutsStayInCalls

\* The variables that the code still uses are within the environment as it
\* was trimmed, and hold what the shape says.
LEMMA SlotsHold ==
    ASSUME WellShaped(prog), IInv
    PROVE  SlotsAlive
<1> DEFINE s == ShapeAt(reg.p)
<1>1. reg.p \in DOMAIN Code
  BY DEF IInv, Registers
<1>2. ASSUME status = "run", I.op \in SlotOps
      PROVE  /\ s.own /\ I.y \in 1 .. s.n /\ live = s.n /\ s.n \in Nat
             /\ Environment(stk, calls[Len(calls)], reg.e, s)
             /\ I.op = "put_value" => s.slot[I.y] = "value"
  <2>1. Here(s)
    BY <1>2, ComesHere DEF SlotOps, ValueOps, Alternatives, Halting
  <2>2. /\ s.own /\ I.y \in 1 .. s.n /\ s.n \in Nat
        /\ I.op = "put_value" => s.slot[I.y] = "value"
    BY <1>2, <2>1 DEF Here, Finds, IsShape
  <2>3. View(stk, reg, live, calls, ctx, snaps, s)
    BY <2>1 DEF Here
  <2> HIDE DEF s
  <2>4. Running(stk, reg, live, calls[Len(calls)], ctx, snaps, s)
    BY <2>3, CallerIs
  <2> QED
    BY <2>2, <2>4 DEF Running, AtEnv
<1> HIDE DEF s
<1>3. ASSUME status = "run", "y" \in DOMAIN I
      PROVE  I.y <= live
  <2>1. I.op \in SlotOps
    BY <1>1, <1>3 DEF WellShaped, I, Code
  <2> QED
    BY <1>2, <1>3, <2>1
<1>4. ASSUME Is("put_value")
      PROVE  HasValue(Y(I.y))
  <2>1. status = "run" /\ I.op = "put_value"
    BY <1>4 DEF Is
  <2>2. Slot(stk, reg.e + 2 * I.y, "value")
    BY <1>2, <2>1 DEF SlotOps, Environment
  <2> QED
    BY <2>2 DEF Slot, HasValue, Y
<1> QED
  BY <1>3, <1>4 DEF SlotsAlive

\* Only backtracking leads to the second and later clauses.
LEMMA AlternativesHold ==
    ASSUME WellShaped(prog), IInv
    PROVE  AlternativesByBacktracking
<1> SUFFICES ASSUME status = "run", I.op \in Alternatives
             PROVE  ~botCP(reg.b) /\ cpNCL(reg.b) = reg.p
  BY DEF AlternativesByBacktracking
<1>1. Back(ShapeAt(reg.p))
  BY ComesBack
<1>2. reg.b = Newest.b /\ Newest.b \in Nat /\ Newest.base \in Nat /\ FstCP < Newest.base
      /\ Newest.base + 10 <= Newest.b
  BY <1>1 DEF Back
<1>3. reg.p = stk[Newest.b - 1].v
  BY DEF IInv, Resumed
<1> QED
  BY <1>2, <1>3 DEF botCP, cpNCL, v, FstCP

\* Unwinding the trail down to the mark of a choice point brings back all that
\* was known when it was made.
LEMMA RestoredHolds ==
    ASSUME WellShaped(prog), IInv
    PROVE  Restored /\ CountsRestored
<1> SUFFICES ASSUME NEW k \in 1 .. Len(snaps), NEW s, s = snaps[k],
                    NEW U, U = UnwoundTo(cpTR(s.b))
             PROVE  /\ \A a \in FstCP + 1 .. s.b :
                          s.stk[a].f = "junk" \/ a = s.b - 1 \/ U[a] = s.stk[a]
                    /\ \A a \in FstCP + 1 .. s.base - 1 :
                          s.stk[a].f \in {"bck", "mrcp"} => U[a] = s.stk[a]
  BY DEF Restored, CountsRestored
<1>1. Memory(stk, trail, snaps) /\ Keeps(s, stk)
  BY DEF IInv, Memory, Kept
<1>2. s.b \in Nat /\ s.base + 10 <= s.b /\ s.base \in Nat
  BY <1>1, MemoryStacks
<1>3. s.stk[s.b - 2].f \notin {"junk", "free", "bound"}
  <2>1. \A d \in 0 .. CPFixSize - 1 : s.stk[s.b - d].f \notin {"junk", "free", "bound"}
    BY <1>1 DEF Memory, Made
  <2> QED
    BY <2>1 DEF CPFixSize
<1>4. cpTR(s.b) = Mark(s)
  <2>1. s.b - 2 \in StackBeg .. s.b /\ s.b - 2 # s.b - 1
    BY <1>2 DEF StackBeg
  <2>2. stk[s.b - 2] = s.stk[s.b - 2]
    BY <1>1, <1>3, <2>1 DEF Keeps, Unknown
  <2> QED
    BY <2>2 DEF cpTR, Mark, v
<1>5. \A a \in StackBeg .. s.b : a = s.b - 1 \/ Unknown(s, a) \/ U[a] = s.stk[a]
  BY <1>1, <1>4, Unwinds
<1>6. \A a \in FstCP + 1 .. s.b : a \in StackBeg .. s.b
  BY <1>2 DEF FstCP, StackBeg
<1>7. \A a \in FstCP + 1 .. s.base - 1 : a \in FstCP + 1 .. s.b /\ a # s.b - 1
  BY <1>2 DEF FstCP
<1> QED
  BY <1>5, <1>6, <1>7 DEF Unknown

-----------------------------------------------------------------------------
\* The theorems: of every program whose code is well shaped, whatever its
\* queries, its tables, its stack and its universes.  Well shaped leaves aside
\* queries with a cut that no predicate encloses (control_cut_again shows what
\* they do), code with imports, and procedures the linker has merged.

\* The registers stay within the stack and the code, and what the trail holds
\* are addresses of the stack: the checks of AM_stackError are enough.
THEOREM RegistersInBounds == Spec => [](WellShaped(prog) => TypeOK)
<1>1. WellShaped(prog) /\ IInv => TypeOK
  BY TypeHolds
<1> QED
  BY <1>1, Invariant, PTL

\* Every call still to return, from here or after backtracking to any choice
\* point, finds the environment of its caller as the caller left it: neither
\* trimming, nor the last call of a clause, nor a cut that lowers TOS lets a
\* record be laid over an environment that is needed.
THEOREM CallersKept == Spec => [](WellShaped(prog) => ContinuationsIntact)
<1>1. WellShaped(prog) /\ IInv => ContinuationsIntact
  BY ContinuationsHold
<1> QED
  BY <1>1, Invariant, PTL

\* A predicate that succeeds returns to the call it was entered for, with the
\* program context and the universe count of that call: the implications and
\* universal goals in its body are taken away again on every way through it.
THEOREM EachReturnIsHome == Spec => [](WellShaped(prog) => ReturnsHome)
<1>1. WellShaped(prog) /\ IInv => ReturnsHome
  BY HomeHolds
<1> QED
  BY <1>1, Invariant, PTL

\* In well-shaped code (no query that itself cuts, no imports, nothing merged) a
\* cut, of a clause or of a goal given to solve, goes back to a choice point
\* that still exists, though others may have been cut since the cut point was
\* kept, and to none older than the call it works for allows: no cut leaves B
\* in the middle of other data or takes alternatives from a caller.
THEOREM CutsAreLive == Spec => [](WellShaped(prog) => CutsToLive /\ CutsStayInCalls)
<1>1. WellShaped(prog) /\ IInv => CutsToLive /\ CutsStayInCalls
  BY CutsHold
<1> QED
  BY <1>1, Invariant, PTL

\* A variable of an environment is not trimmed away while an instruction of
\* its clause has still to use it, and has a value by the time it is read.
THEOREM VariablesKept == Spec => [](WellShaped(prog) => SlotsAlive)
<1>1. WellShaped(prog) /\ IInv => SlotsAlive
  BY SlotsHold
<1> QED
  BY <1>1, Invariant, PTL

\* The instructions for the later clauses of a predicate are come to by
\* backtracking alone, to the choice point that names them.
THEOREM LaterClausesByBacktracking ==
    Spec => [](WellShaped(prog) => AlternativesByBacktracking)
<1>1. WellShaped(prog) /\ IInv => AlternativesByBacktracking
  BY AlternativesHold
<1> QED
  BY <1>1, Invariant, PTL

\* Backtracking to any choice point brings back every word of the stack that
\* was known when it was made, whatever was bound, pushed, trimmed or cut
\* since; the trail records enough, and a cut leaves it enough.
THEOREM BacktrackingRestores == Spec => [](WellShaped(prog) => Restored)
<1>1. WellShaped(prog) /\ IInv => Restored
  BY RestoredHolds
<1> QED
  BY <1>1, Invariant, PTL

\* The environments, context records and choice points that the machine, or
\* any choice point it may come back to, still reads never share a word, and
\* the next record is put above them all: what findtos, settosreg and a cut
\* make of TOS never lets one be laid over another.
THEOREM RecordsStayApart == Spec => [](WellShaped(prog) => RecordsApart)
<1>1. WellShaped(prog) /\ IInv => RecordsApart
  BY ApartHolds
<1> QED
  BY <1>1, Invariant, PTL
=============================================================================
