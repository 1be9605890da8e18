--------------------------- MODULE IndexingProofs ---------------------------
(***************************************************************************)
(* The clauses of a definition are tried in the order of the source, and   *)
(* none that could match is passed over, whatever the argument and the     *)
(* number of clauses: it is enough that every instruction of the code goes *)
(* on as IndexedPrograms says, which can be seen without running it.  Set  *)
(* apart are shared definitions: those the linker has merged, with two     *)
(* clauses for one key in one of them, whose code passes clauses over.     *)
(***************************************************************************)
EXTENDS Indexing, TLAPS

\* The clauses ahead of address q, in the run that goes on.
Ahead(q) == IF q = 0 THEN {} ELSE ClausesFrom(prg, arg, outer, q)
On(q) == Goes(prg, q, arg, outer)
Left(q) == Leaves(prg, q)
Precede(S, T) == \A j \in S, k \in T : Before(j, k)

\* A choice point that is being resumed still is the newest: the others.
Resumed == p # 0 /\ IsAlternative(prg, p)
Others == IF Resumed THEN Rest ELSE ncl
Indices == 1 .. Len(Others)

Given == prg \in Programs /\ arg \in Args /\ outer \in BOOLEAN

InPlace ==
    /\ p \in Reachable(prg, arg, outer) \cup {0}
    /\ p = 0 => ncl = <<>>
    /\ ncl \in Seq({q \in Reachable(prg, arg, outer) : IsAlternative(prg, q)})
    /\ Resumed => ncl # <<>> /\ p = ncl[Last]

\* What has been tried precedes what is being tried, and that what is left;
\* of what is left the newer comes first.
InOrder ==
    /\ tried \in Seq(Nat)
    /\ SourceOrder
    /\ Precede(Tried, Ahead(p))
    /\ \A j \in Indices : /\ Precede(Tried, Ahead(Others[j]))
                          /\ Precede(Ahead(p), Ahead(Others[j]))
                          /\ \A i \in 1 .. j - 1 : Precede(Ahead(Others[j]), Ahead(Others[i]))

\* Nothing is lost.
Covered ==
    Ahead(prg.entry) = Tried \cup Ahead(p) \cup UNION {Ahead(Others[j]) : j \in Indices}

IInv == Given /\ (~prg.shared => InPlace /\ InOrder /\ Covered)


-----------------------------------------------------------------------------
\* What IndexedPrograms says of an instruction that is come to.
LEMMA Graph ==
    ASSUME Given, ~prg.shared
    PROVE  /\ prg.entry \in Reachable(prg, arg, outer)
           /\ ~IsAlternative(prg, prg.entry)
           /\ Ahead(prg.entry) \subseteq Nat
           /\ 0 \notin Reachable(prg, arg, outer)
           /\ Expected \subseteq Ahead(prg.entry)
           /\ 0 \notin Clauses
           /\ IsKeyed => \A q \in Reachable(prg, arg, outer) :
                            IsAlternative(prg, q) => Ahead(q) \cap Clauses # {}
<1>1. Indexed(prg, arg, outer)
  BY IndexedPrograms DEF Given
<1> QED
  BY <1>1 DEF Indexed, Complete, Lean, Ahead, Expected, IsKeyed, Clauses, ClausesFor

\* From any instruction, what is gone on with comes before what is left for
\* backtracking.
LEMMA Ways ==
    ASSUME Given, ~prg.shared, NEW q \in Reachable(prg, arg, outer)
    PROVE  /\ \A r \in On(q) : r \in Reachable(prg, arg, outer) /\ ~IsAlternative(prg, r)
           /\ \A l \in Left(q) : l \in Reachable(prg, arg, outer) /\ IsAlternative(prg, l)
           /\ \A r \in On(q), l \in Left(q) : Precede(Ahead(r), Ahead(l))
           /\ Ahead(q) = ClauseAt(prg, q) \cup UNION {Ahead(r) : r \in On(q) \cup Left(q)}
<1>1. /\ WaysOn(prg, q, arg, outer) \subseteq Reachable(prg, arg, outer)
      /\ Sequential(prg, arg, outer, q) /\ q # 0
  BY IndexedPrograms DEF Given, Indexed
<1>2. From(prg, arg, outer)[q]
         = {q} \cup UNION {From(prg, arg, outer)[r] : r \in WaysOn(prg, q, arg, outer)}
  BY <1>1 DEF Sequential
<1>3. WaysOn(prg, q, arg, outer) = On(q) \cup Left(q)
  BY DEF WaysOn, On, Left
<1>4. ClausesFrom(prg, arg, outer, q)
         = ClauseAt(prg, q) \cup UNION {ClausesFrom(prg, arg, outer, r) :
                                           r \in WaysOn(prg, q, arg, outer)}
  BY <1>2 DEF ClausesFrom
<1>5. \A r \in WaysOn(prg, q, arg, outer) : r # 0
  BY <1>1, Graph
<1>6. Ahead(q) = ClauseAt(prg, q) \cup UNION {Ahead(r) : r \in On(q) \cup Left(q)}
  BY <1>1, <1>3, <1>4, <1>5 DEF Ahead
<1>7. /\ \A r \in On(q) : r \in Reachable(prg, arg, outer) /\ ~IsAlternative(prg, r)
      /\ \A l \in Left(q) : l \in Reachable(prg, arg, outer) /\ IsAlternative(prg, l)
  BY <1>1, <1>3 DEF Sequential, On, Left
<1>8. \A r \in On(q), l \in Left(q) : Precede(Ahead(r), Ahead(l))
  <2>1. \A r \in On(q), l \in Left(q) :
           /\ Ahead(r) = ClausesFrom(prg, arg, outer, r)
           /\ Ahead(l) = ClausesFrom(prg, arg, outer, l)
    BY <1>3, <1>5 DEF Ahead
  <2> QED
    BY <1>1, <2>1 DEF Sequential, On, Left, Precede
<1> QED
  BY <1>6, <1>7, <1>8

-----------------------------------------------------------------------------
\* The two kinds of step.

\* The later clauses that are left, as a sequence; none of them before the
\* first is tried.
LEMMA OthersAre ==
    ASSUME Given, ~prg.shared, InPlace
    PROVE  /\ Others \in Seq({q \in Reachable(prg, arg, outer) : IsAlternative(prg, q)})
           /\ ~Resumed => Others = ncl
           /\ p = 0 => Others = <<>>
  <1> DEFINE R == {q \in Reachable(prg, arg, outer) : IsAlternative(prg, q)}
  <1>1. ncl \in Seq(R)
    BY DEF InPlace
  <1>2. CASE Resumed
    <2>1. Last \in Nat \ {0}
      BY <1>1, <1>2 DEF InPlace, Last
    <2> HIDE DEF R
    <2>2. SubSeq(ncl, 1, Last - 1) \in Seq(R)
      BY <1>1, <2>1 DEF Last
    <2> QED
      BY <1>2, <2>2 DEF Others, Rest, Resumed, R
  <1>3. CASE ~Resumed
    BY <1>1, <1>3 DEF Others, InPlace
  <1> QED
    BY <1>2, <1>3

\* Going on leaves at most one alternative, behind what it goes on with.
LEMMA GoingOn ==
    ASSUME IInv, ~prg.shared, p # 0, UNCHANGED <<prg, arg, outer, tried>>,
           NEW r, On(p) = {r}, p' = r,
           \/ Left(p) = {} /\ ncl' = Others
           \/ \E l : Left(p) = {l} /\ ncl' = Append(Others, l)
    PROVE  InPlace' /\ InOrder' /\ Covered'
  <1> DEFINE R == {q \in Reachable(prg, arg, outer) : IsAlternative(prg, q)}
  <1>0. Given /\ InPlace /\ InOrder /\ Covered
    BY DEF IInv
  <1>1. p \in Reachable(prg, arg, outer) /\ 0 \notin Reachable(prg, arg, outer)
    BY <1>0, Graph DEF InPlace
  <1>a. PICK l : \/ l = 0 /\ Left(p) = {} /\ ncl' = Others
                 \/ l # 0 /\ Left(p) = {l} /\ ncl' = Append(Others, l)
    <2>1. \A x \in Left(p) : x # 0
      BY <1>0, <1>1, Ways
    <2> QED
      BY <2>1
  <1>2. /\ r \in Reachable(prg, arg, outer)
        /\ ~IsAlternative(prg, r)
        /\ l # 0 => l \in R /\ Precede(Ahead(r), Ahead(l))
        /\ Ahead(p) = ClauseAt(prg, p) \cup Ahead(r) \cup Ahead(l)
    <2>1. /\ \A x \in Left(p) : x \in Reachable(prg, arg, outer) /\ IsAlternative(prg, x)
          /\ \A x \in Left(p) : Precede(Ahead(r), Ahead(x))
          /\ r \in Reachable(prg, arg, outer) /\ ~IsAlternative(prg, r)
          /\ Ahead(p) = ClauseAt(prg, p) \cup UNION {Ahead(x) : x \in {r} \cup Left(p)}
      BY <1>0, <1>1, Ways
    <2>2. Ahead(l) = UNION {Ahead(x) : x \in Left(p)}
      BY <1>a DEF Ahead
    <2>3. UNION {Ahead(x) : x \in {r} \cup Left(p)}
             = Ahead(r) \cup UNION {Ahead(x) : x \in Left(p)}
      OBVIOUS
    <2>4. l # 0 => l \in R /\ Precede(Ahead(r), Ahead(l))
      BY <1>a, <2>1
    <2>5. Ahead(p) = ClauseAt(prg, p) \cup Ahead(r) \cup Ahead(l)
      BY <2>1, <2>2, <2>3
    <2> QED
      BY <2>1, <2>4, <2>5
  <1>3. Others \in Seq(R)
    BY <1>0, OthersAre
  <1> HIDE DEF R
  <1>4. ncl' \in Seq(R)
    BY <1>a, <1>2, <1>3
  <1>5. ~Resumed'
    BY <1>2 DEF Resumed
  <1>6. Others' = ncl' /\ Indices' = 1 .. Len(ncl')
    BY <1>5 DEF Others, Indices
  <1>7. /\ \A q : Ahead(q)' = Ahead(q)
        /\ Tried' = Tried /\ SourceOrder' = SourceOrder
        /\ R' = R /\ prg' = prg /\ tried' = tried
    BY DEF Ahead, Tried, SourceOrder, R
  <1>8. InPlace'
    <2>1. p' \in Reachable(prg, arg, outer) /\ p' # 0
      BY <1>1, <1>2
    <2> QED
      BY <1>4, <1>5, <1>7, <2>1 DEF InPlace, R
  <1>9. ClauseAt(prg, p) = {}
    BY DEF ClauseAt, On, Goes
  <1> DEFINE n == Len(Others)
  <1>10. /\ n \in Nat /\ Len(ncl') = IF l = 0 THEN n ELSE n + 1
         /\ \A j \in 1 .. n : ncl'[j] = Others[j]
         /\ l # 0 => ncl'[n + 1] = l
    BY <1>a, <1>3
  <1>11. /\ Ahead(r) \subseteq Ahead(p) /\ Ahead(l) \subseteq Ahead(p)
    BY <1>2
  <1>12. \A j \in Indices' :
            \/ j \in Indices /\ Others'[j] = Others[j]
            \/ l # 0 /\ j = n + 1 /\ Others'[j] = l
    BY <1>6, <1>10 DEF Indices
  <1> HIDE DEF n
  <1>13. InOrder'
    <2>1. tried' \in Seq(Nat) /\ SourceOrder'
      BY <1>0, <1>7 DEF InOrder
    <2>2. Precede(Tried, Ahead(r))
      BY <1>0, <1>11 DEF InOrder, Precede
    <2>3. ASSUME NEW j \in Indices'
          PROVE  /\ Precede(Tried, Ahead(Others'[j]))
                 /\ Precede(Ahead(r), Ahead(Others'[j]))
                 /\ \A i \in 1 .. j - 1 : Precede(Ahead(Others'[j]), Ahead(Others'[i]))
      <3>1. CASE j \in Indices /\ Others'[j] = Others[j]
        <4>1. \A i \in 1 .. j - 1 : Others'[i] = Others[i]
          BY <1>6, <1>10, <3>1 DEF Indices, n
        <4> QED
          BY <1>0, <1>11, <3>1, <4>1 DEF InOrder, Precede
      <3>2. CASE l # 0 /\ j = n + 1 /\ Others'[j] = l
        <4>1. \A i \in 1 .. j - 1 : i \in Indices /\ Others'[i] = Others[i]
          BY <1>6, <1>10, <3>2 DEF Indices, n
        <4> QED
          BY <1>0, <1>2, <1>11, <3>2, <4>1 DEF InOrder, Precede
      <3> QED
        BY <1>12, <2>3, <3>1, <3>2
    <2> QED
      BY <1>7, <2>1, <2>2, <2>3 DEF InOrder, Precede
  <1>14. Covered'
    <2>1. UNION {Ahead(Others'[j]) : j \in Indices'}
             = Ahead(l) \cup UNION {Ahead(Others[j]) : j \in Indices}
      <3>1. CASE l = 0
        <4>1. Ahead(l) = {} /\ Others' = Others /\ Indices' = Indices
          BY <1>a, <1>6, <3>1 DEF Ahead, Indices
        <4> QED
          BY <4>1
      <3>2. CASE l # 0
        <4>1. n + 1 \in Indices' /\ Others'[n + 1] = l
          BY <1>6, <1>10, <3>2 DEF n
        <4>2. \A j \in Indices : j \in Indices' /\ Others'[j] = Others[j]
          BY <1>6, <1>10, <3>2 DEF n, Indices
        <4> QED
          BY <1>12, <4>1, <4>2
      <3> QED
        BY <3>1, <3>2
    <2> QED
      BY <1>0, <1>2, <1>7, <1>9, <2>1 DEF Covered
  <1> QED
    BY <1>8, <1>13, <1>14

\* Failing comes back to the newest alternative, if any.
LEMMA FallingBack ==
    ASSUME IInv, ~prg.shared, p # 0, On(p) = {}, Left(p) = {},
           UNCHANGED <<prg, arg, outer>>,
           ncl' = Others,
           p' = IF Others = <<>> THEN 0 ELSE Others[Len(Others)],
           \/ ClauseAt(prg, p) = {} /\ tried' = tried
           \/ \E k : ClauseAt(prg, p) = {k} /\ tried' = Append(tried, k)
    PROVE  InPlace' /\ InOrder' /\ Covered'
  <1> DEFINE R == {q \in Reachable(prg, arg, outer) : IsAlternative(prg, q)}
             n == Len(Others)
  <1>0. Given /\ InPlace /\ InOrder /\ Covered
    BY DEF IInv
  <1>1. p \in Reachable(prg, arg, outer) /\ 0 \notin Reachable(prg, arg, outer)
    BY <1>0, Graph DEF InPlace
  <1>2. Ahead(p) = ClauseAt(prg, p)
    BY <1>0, <1>1, Ways
  <1>3. Others \in Seq(R)
    BY <1>0, OthersAre
  <1>4. 0 \notin R /\ \A q \in R : IsAlternative(prg, q) /\ q \in Reachable(prg, arg, outer)
    BY <1>1
  <1> HIDE DEF R
  <1>5. /\ n \in Nat /\ \A j \in 1 .. n : Others[j] \in R
        /\ Others = <<>> <=> n = 0
    BY <1>3
  <1>6. /\ \A q : Ahead(q)' = Ahead(q)
        /\ R' = R /\ prg' = prg
    BY DEF Ahead, R
  <1>7. /\ Resumed' <=> Others # <<>>
        /\ p' # 0 <=> Others # <<>>
        /\ Others # <<>> => p' = Others[n] /\ p' \in R
    BY <1>4, <1>5, <1>6 DEF Resumed
  <1>8. InPlace'
    BY <1>3, <1>4, <1>6, <1>7 DEF InPlace, R, Last
  <1>9. /\ Others # <<>> => /\ Len(Others') = n - 1
                            /\ \A j \in 1 .. n - 1 : Others'[j] = Others[j]
        /\ Others = <<>> => Others' = <<>>
    BY <1>3, <1>5, <1>7 DEF Others, Rest, Last
  <1>10. \A j \in Indices' : j \in Indices /\ j < n /\ Others'[j] = Others[j]
    BY <1>5, <1>9 DEF Indices
  <1>11. tried' \in Seq(Nat) /\ SourceOrder' /\ Tried' = Tried \cup Ahead(p)
    <2>1. tried \in Seq(Nat) /\ SourceOrder /\ Precede(Tried, Ahead(p))
      BY <1>0 DEF InOrder
    <2>2. CASE ClauseAt(prg, p) = {} /\ tried' = tried
      BY <1>2, <2>1, <2>2 DEF Tried, SourceOrder
    <2>3. ASSUME NEW k, ClauseAt(prg, p) = {k}, tried' = Append(tried, k)
          PROVE  tried' \in Seq(Nat) /\ SourceOrder' /\ Tried' = Tried \cup Ahead(p)
      <3>1. k \in Ahead(prg.entry) /\ k \in Ahead(p)
        BY <1>0, <1>2, <2>3 DEF Covered
      <3>2. k \in Nat
        BY <1>0, <3>1, Graph
      <3>3. /\ Len(tried) \in Nat /\ Len(tried') = Len(tried) + 1
            /\ tried' \in Seq(Nat)
            /\ \A i \in 1 .. Len(tried) : tried'[i] = tried[i] /\ Before(tried[i], k)
            /\ tried'[Len(tried) + 1] = k
        BY <2>1, <2>3, <3>1, <3>2 DEF Precede, Tried
      <3>4. ASSUME NEW i \in 1 .. Len(tried'), NEW j \in 1 .. Len(tried'), i < j
            PROVE  Before(tried'[i], tried'[j])
        <4>1. i \in 1 .. Len(tried) /\ (j \in 1 .. Len(tried) \/ j = Len(tried) + 1)
          BY <3>3, <3>4
        <4>2. CASE j \in 1 .. Len(tried)
          BY <2>1, <3>3, <3>4, <4>1, <4>2 DEF SourceOrder
        <4>3. CASE j = Len(tried) + 1
          BY <3>3, <4>1, <4>3
        <4> QED
          BY <4>1, <4>2, <4>3
      <3>5. Tried' = Tried \cup {k}
        <4>1. 1 .. Len(tried') = (1 .. Len(tried)) \cup {Len(tried) + 1}
          BY <3>3
        <4>2. {tried'[j] : j \in 1 .. Len(tried)} = Tried
          BY <3>3 DEF Tried
        <4> QED
          BY <3>3, <4>1, <4>2 DEF Tried
      <3> QED
        BY <1>2, <2>3, <3>3, <3>4, <3>5 DEF SourceOrder
    <2> QED
      BY <2>2, <2>3
  <1>12. InOrder'
    <2>1. CASE Others = <<>>
      <3>1. Ahead(p') = {} /\ Indices' = {}
        BY <1>7, <1>9, <2>1 DEF Ahead, Indices
      <3> QED
        BY <1>6, <1>11, <3>1 DEF InOrder, Precede
    <2>2. CASE Others # <<>>
      <3>1. n \in Indices
        BY <1>5, <2>2 DEF Indices
      <3>2. Precede(Tried \cup Ahead(p), Ahead(p'))
        BY <1>0, <1>7, <2>2, <3>1 DEF InOrder, Precede
      <3>3. ASSUME NEW j \in Indices'
            PROVE  /\ Precede(Tried \cup Ahead(p), Ahead(Others'[j]))
                   /\ Precede(Ahead(p'), Ahead(Others'[j]))
                   /\ \A i \in 1 .. j - 1 : Precede(Ahead(Others'[j]), Ahead(Others'[i]))
        <4>1. j \in Indices /\ Others'[j] = Others[j] /\ j \in 1 .. n - 1
          BY <1>5, <1>10 DEF Indices
        <4>2. \A i \in 1 .. j - 1 : Others'[i] = Others[i]
          BY <1>5, <1>9, <2>2, <4>1
        <4>3. Precede(Ahead(Others[n]), Ahead(Others[j]))
          BY <1>0, <3>1, <4>1 DEF InOrder
        <4> QED
          BY <1>0, <1>7, <2>2, <4>1, <4>2, <4>3 DEF InOrder, Precede
      <3> QED
        BY <1>6, <1>11, <3>2, <3>3 DEF InOrder, Precede
    <2> QED
      BY <2>1, <2>2
  <1>13. Covered'
    <2>1. UNION {Ahead(Others[j]) : j \in Indices}
             = Ahead(p') \cup UNION {Ahead(Others'[j]) : j \in Indices'}
      <3>1. CASE Others = <<>>
        BY <1>5, <1>7, <1>9, <3>1 DEF Ahead, Indices
      <3>2. CASE Others # <<>>
        <4>1. \A j \in Indices : \/ j = n /\ Others[j] = p'
                                 \/ j \in Indices' /\ Others'[j] = Others[j]
          BY <1>5, <1>7, <1>9, <3>2 DEF Indices
        <4>2. n \in Indices /\ Others[n] = p'
          BY <1>5, <1>7, <3>2 DEF Indices
        <4> QED
          BY <1>10, <4>1, <4>2
      <3> QED
        BY <3>1, <3>2
    <2> QED
      BY <1>0, <1>6, <1>11, <2>1 DEF Covered
  <1> QED
    BY <1>8, <1>12, <1>13

-----------------------------------------------------------------------------
\* The search begins at the entry of the definition.
LEMMA InitIInv == Init => IInv
  <1> SUFFICES ASSUME Init, ~prg.shared PROVE InPlace /\ InOrder /\ Covered
    BY DEF Init, IInv, Given
  <1>1. Given
    BY DEF Init, Given
  <1>2. /\ p \in Reachable(prg, arg, outer) /\ p # 0
        /\ ~Resumed /\ p = prg.entry
    BY <1>1, Graph DEF Init, Resumed
  <1>3. ncl = <<>> /\ tried = <<>> /\ Others = <<>> /\ Indices = {} /\ Tried = {}
    BY <1>2 DEF Init, Others, Indices, Tried
  <1> QED
    BY <1>2, <1>3 DEF InPlace, InOrder, Covered, SourceOrder, Precede

\* Every instruction goes on or falls back.
LEMMA NextIInv == IInv /\ [Next]_vars => IInv'
  <1> SUFFICES ASSUME IInv, [Next]_vars, ~prg'.shared
               PROVE  InPlace' /\ InOrder' /\ Covered'
    BY DEF IInv, Given, Next, Step, vars, Go, Failing, Done, TryMeElse, TryElse, Try,
           RetryMeElse, RetryElse, Retry, TrustMe, Trust, TrustExt, SwitchOnReg,
           SwitchOnTerm, SwitchOnConstant, Fail, Clause
  <1>1. UNCHANGED vars => InPlace' /\ InOrder' /\ Covered'
    <2> SUFFICES ASSUME UNCHANGED vars PROVE InPlace' /\ InOrder' /\ Covered'
      OBVIOUS
    <2>1. ~prg.shared
      BY DEF vars
    <2>2. InPlace /\ InOrder /\ Covered
      BY <2>1 DEF IInv
    <2>3. /\ prg' = prg /\ arg' = arg /\ outer' = outer /\ p' = p /\ ncl' = ncl
          /\ tried' = tried
      BY DEF vars
    <2>4. /\ Resumed' = Resumed /\ Last' = Last /\ Tried' = Tried
          /\ SourceOrder' = SourceOrder /\ \A q : Ahead(q)' = Ahead(q)
      BY <2>3 DEF Resumed, Last, Tried, SourceOrder, Ahead
    <2>5. Others' = Others /\ Indices' = Indices
      BY <2>3, <2>4 DEF Others, Rest, Indices
    <2>6. InPlace'
      BY <2>2, <2>3, <2>4 DEF InPlace
    <2>7. InOrder'
      BY <2>2, <2>3, <2>4, <2>5 DEF InOrder
    <2>8. Covered'
      BY <2>2, <2>3, <2>4, <2>5 DEF Covered
    <2> QED
      BY <2>6, <2>7, <2>8
  <1>2. CASE Step
    <2>1. UNCHANGED <<prg, arg, outer>> /\ p # 0
      BY <1>2 DEF Step, Go, Failing, TryMeElse, TryElse, Try, RetryMeElse, RetryElse, Retry,
           TrustMe, Trust, TrustExt, SwitchOnReg, SwitchOnTerm, SwitchOnConstant, Fail,
           Clause, Is
    <2>2. ~prg.shared /\ Given /\ InPlace
      BY <2>1 DEF IInv
    <2>3. Others = IF IsAlternative(prg, p) THEN Rest ELSE ncl
      BY <2>1 DEF Others, Resumed
    <2>4. CASE TryMeElse
      <3>1. /\ On(p) = {p + 1} /\ Left(p) = {I.l}
            /\ ~IsAlternative(prg, p)
        BY <2>4 DEF TryMeElse, Is, I, On, Left, Goes, Leaves, IsAlternative, Alternatives
      <3> QED
        BY <2>1, <2>2, <2>3, <2>4, <3>1, GoingOn DEF TryMeElse, Go
    <2>5. CASE TryElse
      <3>1. /\ On(p) = {I.k} /\ Left(p) = {I.l}
            /\ ~IsAlternative(prg, p)
        BY <2>5 DEF TryElse, Is, I, On, Left, Goes, Leaves, IsAlternative, Alternatives
      <3> QED
        BY <2>1, <2>2, <2>3, <2>5, <3>1, GoingOn DEF TryElse, Go
    <2>6. CASE Try
      <3>1. /\ On(p) = {I.l} /\ Left(p) = {p + 1}
            /\ ~IsAlternative(prg, p)
        BY <2>6 DEF Try, Is, I, On, Left, Goes, Leaves, IsAlternative, Alternatives
      <3> QED
        BY <2>1, <2>2, <2>3, <2>6, <3>1, GoingOn DEF Try, Go
    <2>7. CASE RetryMeElse
      <3>1. /\ On(p) = {p + 1} /\ Left(p) = {I.l}
            /\ IsAlternative(prg, p)
        BY <2>7 DEF RetryMeElse, Is, I, On, Left, Goes, Leaves, IsAlternative, Alternatives
      <3> QED
        BY <2>1, <2>2, <2>3, <2>7, <3>1, GoingOn DEF RetryMeElse, Go
    <2>8. CASE RetryElse
      <3>1. /\ On(p) = {I.k} /\ Left(p) = {I.l}
            /\ IsAlternative(prg, p)
        BY <2>8 DEF RetryElse, Is, I, On, Left, Goes, Leaves, IsAlternative, Alternatives
      <3> QED
        BY <2>1, <2>2, <2>3, <2>8, <3>1, GoingOn DEF RetryElse, Go
    <2>9. CASE Retry
      <3>1. /\ On(p) = {I.l} /\ Left(p) = {p + 1}
            /\ IsAlternative(prg, p)
        BY <2>9 DEF Retry, Is, I, On, Left, Goes, Leaves, IsAlternative, Alternatives
      <3> QED
        BY <2>1, <2>2, <2>3, <2>9, <3>1, GoingOn DEF Retry, Go
    <2>10. CASE TrustMe
      <3>1. /\ On(p) = {p + 1} /\ Left(p) = {}
            /\ IsAlternative(prg, p)
        BY <2>10 DEF TrustMe, Is, I, On, Left, Goes, Leaves, IsAlternative, Alternatives
      <3> QED
        BY <2>1, <2>2, <2>3, <2>10, <3>1, GoingOn DEF TrustMe, Go
    <2>11. CASE Trust
      <3>1. /\ On(p) = {I.l} /\ Left(p) = {}
            /\ IsAlternative(prg, p)
        BY <2>11 DEF Trust, Is, I, On, Left, Goes, Leaves, IsAlternative, Alternatives
      <3> QED
        BY <2>1, <2>2, <2>3, <2>11, <3>1, GoingOn DEF Trust, Go
    <2>12. CASE SwitchOnReg
      <3>1. /\ On(p) = {IF outer THEN I.l ELSE I.k} /\ Left(p) = {}
            /\ ~IsAlternative(prg, p)
        BY <2>12 DEF SwitchOnReg, Is, I, On, Left, Goes, Leaves, IsAlternative, Alternatives
      <3> QED
        BY <2>1, <2>2, <2>3, <2>12, <3>1, GoingOn DEF SwitchOnReg, Go
    <2>13. CASE SwitchOnTerm
      <3>1. /\ On(p) = {TermLabel(I, arg)} /\ Left(p) = {}
            /\ ~IsAlternative(prg, p)
        BY <2>13 DEF SwitchOnTerm, Is, I, On, Left, Goes, Leaves, IsAlternative, Alternatives
      <3> QED
        BY <2>1, <2>2, <2>3, <2>13, <3>1, GoingOn DEF SwitchOnTerm, Go
    <2>14. CASE SwitchOnConstant
      <3>1. /\ On(p) = {I.tab[c] : c \in {arg} \cap DOMAIN I.tab} /\ Left(p) = {}
            /\ ClauseAt(prg, p) = {} /\ ~IsAlternative(prg, p)
        BY <2>14 DEF SwitchOnConstant, Is, I, On, Left, Goes, Leaves, ClauseAt, IsAlternative,
             Alternatives
      <3>2. CASE arg \in DOMAIN I.tab
        BY <2>1, <2>2, <2>3, <2>14, <3>1, <3>2, GoingOn DEF SwitchOnConstant, Go
      <3>3. CASE arg \notin DOMAIN I.tab
        BY <2>1, <2>2, <2>3, <2>14, <3>1, <3>3, FallingBack DEF SwitchOnConstant, Failing, Last
      <3> QED
        BY <3>2, <3>3
    <2>15. CASE Fail
      <3>1. /\ On(p) = {} /\ Left(p) = {} /\ ClauseAt(prg, p) = {}
            /\ ~IsAlternative(prg, p)
        BY <2>15 DEF Fail, Is, I, On, Left, Goes, Leaves, ClauseAt, IsAlternative,
             Alternatives
      <3> QED
        BY <2>1, <2>2, <2>3, <2>15, <3>1, FallingBack DEF Fail, Failing, Last
    <2>16. CASE Clause
      <3>1. /\ On(p) = {} /\ Left(p) = {} /\ ClauseAt(prg, p) = {I.c}
            /\ ~IsAlternative(prg, p)
        BY <2>16 DEF Clause, Is, I, On, Left, Goes, Leaves, ClauseAt, IsAlternative,
             Alternatives
      <3> QED
        BY <2>1, <2>2, <2>3, <2>16, <3>1, FallingBack DEF Clause, Failing, Last
    <2>17. CASE TrustExt
      <3>1. /\ On(p) = {} /\ Left(p) = {} /\ ClauseAt(prg, p) = {0}
            /\ IsAlternative(prg, p)
        BY <2>17 DEF TrustExt, Is, I, On, Left, Goes, Leaves, ClauseAt, IsAlternative,
             Alternatives
      <3> QED
        BY <2>1, <2>2, <2>3, <2>17, <3>1, FallingBack DEF TrustExt, Failing, Last
    <2> QED
      BY <1>2, <2>4, <2>5, <2>6, <2>7, <2>8, <2>9, <2>10, <2>11, <2>12, <2>13, <2>14, <2>15, <2>16, <2>17 DEF Step
  <1> QED
    BY <1>1, <1>2 DEF Next, Done

\* The invariant holds of every run.
THEOREM Sound == Spec => []IInv
  BY InitIInv, NextIInv, PTL DEF Spec

-----------------------------------------------------------------------------
\* No clause is tried twice, or before one that precedes it: for every
\* definition that the linker has not merged on a key with two clauses.
THEOREM TriedInOrder == Spec => [](~prg.shared => SourceOrder)
  <1>1. IInv => (~prg.shared => SourceOrder)
    BY DEF IInv, InOrder
  <1> QED
    BY <1>1, Sound, PTL

\* A clause that could match and has not been tried is ahead of P, or of a
\* choice point: the alternatives kept are enough.
LeftToTry ==
    \A k \in Expected : \/ k \in Tried
                        \/ k \in Ahead(p)
                        \/ \E j \in Indices : k \in Ahead(Others[j])

\* In a definition that is not shared (the linker has not merged it from
\* clauses of which two have one key; linking_skips shows what is lost then) no
\* clause that could match is passed over: when one is tried, and when the call
\* fails, all that could match and precede it have been; and at any time what
\* has not been tried can still be come to, from P or through a choice point.
THEOREM NonePassedOver == Spec => [](NoneSkippedApart /\ (~prg.shared => LeftToTry))
  <1>1. IInv => NoneSkippedApart
    <2> SUFFICES ASSUME IInv, ~prg.shared, NEW k \in Expected,
                        p = 0 \/ (\E j \in Tried : Before(k, j))
                 PROVE  k \in Tried
      BY DEF NoneSkippedApart, NoneSkipped
    <2>1. Given /\ InPlace /\ InOrder /\ Covered
      BY DEF IInv
    <2>2. k \in Ahead(prg.entry) /\ Ahead(prg.entry) \subseteq Nat
      BY <2>1, Graph
    <2>3. CASE p = 0
      <3>1. Others = <<>> /\ Ahead(p) = {}
        BY <2>1, <2>3, OthersAre DEF Ahead
      <3>2. Indices = {}
        BY <3>1 DEF Indices
      <3> QED
        BY <2>1, <2>2, <3>1, <3>2 DEF Covered
    <2>4. ASSUME NEW j \in Tried, Before(k, j), k \notin Tried
          PROVE  FALSE
      <3>1. j \in Nat /\ k \in Nat
        BY <2>1, <2>2, <2>4 DEF InOrder, Tried
      <3>2. Before(j, k)
        BY <2>1, <2>2, <2>4 DEF Covered, InOrder, Precede
      <3> QED
        BY <2>4, <3>1, <3>2 DEF Before
    <2> QED
      BY <2>3, <2>4
  <1>2. IInv => (~prg.shared => LeftToTry)
    <2> SUFFICES ASSUME IInv, ~prg.shared, NEW k \in Expected, k \notin Tried, k \notin Ahead(p)
                 PROVE  \E j \in Indices : k \in Ahead(Others[j])
      BY DEF LeftToTry
    <2>1. Covered /\ k \in Ahead(prg.entry)
      BY Graph DEF IInv
    <2> QED
      BY <2>1 DEF Covered
  <1> QED
    BY <1>1, <1>2, Sound, PTL

\* A call that the index makes deterministic has no choice point left when it
\* comes to the last clause that could match.
THEOREM LastHasNoChoicePoint == Spec => []LastIsDeterministic
  <1>1. IInv => LastIsDeterministic
    <2> SUFFICES ASSUME IInv, IsKeyed, Is("execute_name"), I.c \in Clauses,
                        \A k \in Clauses : k <= I.c, ncl # <<>>
                 PROVE  FALSE
      BY DEF LastIsDeterministic
    <2>0. ~prg.shared
      BY SharedByLinking DEF IInv, Given, IsKeyed, Keyed
    <2>1. Given /\ InPlace /\ InOrder /\ Covered
      BY <2>0 DEF IInv
    <2>2. p # 0 /\ ~IsAlternative(prg, p) /\ ClauseAt(prg, p) = {I.c}
      BY DEF Is, I, IsAlternative, Alternatives, ClauseAt
    <2>3. Others = ncl
      BY <2>2 DEF Others, Resumed
    <2>4. 1 \in Indices /\ ncl[1] \in Reachable(prg, arg, outer) /\ IsAlternative(prg, ncl[1])
      BY <2>1, <2>3 DEF InPlace, Indices
    <2>5. PICK k \in Clauses : k \in Ahead(ncl[1])
      BY <2>0, <2>1, <2>4, Graph
    <2>6. I.c \in Ahead(p)
      BY <2>0, <2>1, <2>2, Ways DEF InPlace
    <2>7. Before(I.c, k)
      BY <2>1, <2>3, <2>4, <2>5, <2>6 DEF InOrder, Precede
    <2>8. k \in Nat \ {0} /\ I.c \in Nat
      BY <2>0, <2>1, <2>3, <2>4, <2>5, <2>6, Graph DEF Covered
    <2> QED
      BY <2>5, <2>7, <2>8 DEF Before
  <1> QED
    BY <1>1, Sound, PTL
=============================================================================
