----------------------------- MODULE DataLemmas -----------------------------
(***************************************************************************)
(* What the model's operators on data compute, for data of any size:       *)
(* sequences of a set's elements, functions defined by recursion, and what *)
(* Validate, IncompleteContent and ReleasePayloadFromEncounter make of     *)
(* lists of content.                                                       *)
(***************************************************************************)
EXTENDS Hoard, FiniteSetTheorems, SequenceTheorems, WellFoundedInduction, TLAPS

-----------------------------------------------------------------------------
(* Sets in order.                                                          *)

\* In a finite set with a strict total order, each element has a rank of its
\* own, and every number below the set's size is the rank of one: Ranked lists
\* the set's elements, each once, in that order.
LEMMA RankedIsInOrder ==
  ASSUME NEW S, IsFiniteSet(S), NEW before \in [S -> SUBSET S],
         \A e \in S : e \notin before[e],
         \A e, f \in S : f \in before[e] => before[f] \subseteq before[e],
         \A e, f \in S : e # f => e \in before[f] \/ f \in before[e]
  PROVE  /\ Cardinality(S) \in Nat
         /\ Ranked(before) \in [1 .. Cardinality(S) -> S]
         /\ \A n \in 1 .. Cardinality(S) : Cardinality(before[Ranked(before)[n]]) = n - 1
         /\ \A e \in S : \E n \in 1 .. Cardinality(S) : Ranked(before)[n] = e
         /\ \A m, n \in 1 .. Cardinality(S) :
              m < n <=> Ranked(before)[m] \in before[Ranked(before)[n]]
<1> DEFINE N == Cardinality(S)
           rank == [e \in S |-> Cardinality(before[e])]
           r == Ranked(before)
<1>1. N \in Nat
  BY FS_CardinalityType
<1>2. \A e \in S : IsFiniteSet(before[e]) /\ rank[e] \in 0 .. N - 1
  <2> TAKE e \in S
  <2>1. /\ IsFiniteSet(before[e])
        /\ Cardinality(before[e]) <= N
        /\ Cardinality(before[e]) # N
    BY FS_Subset
  <2>2. Cardinality(before[e]) \in Nat
    BY <2>1, FS_CardinalityType
  <2> QED
    BY <1>1, <2>1, <2>2
<1>3. ASSUME NEW e \in S, NEW f \in before[e] PROVE rank[f] < rank[e]
  <2>1. before[f] \in SUBSET before[e] /\ before[f] # before[e]
    OBVIOUS
  <2>2. Cardinality(before[f]) <= Cardinality(before[e])
        /\ Cardinality(before[f]) # Cardinality(before[e])
    BY <1>2, <2>1, FS_Subset
  <2>3. rank[e] \in 0 .. N - 1 /\ rank[f] \in 0 .. N - 1
    BY <1>2
  <2> QED
    BY <1>1, <2>2, <2>3
<1>4. \A e, f \in S : rank[e] = rank[f] => e = f
  <2> SUFFICES ASSUME NEW e \in S, NEW f \in S, rank[e] = rank[f], e # f PROVE FALSE
    OBVIOUS
  <2>1. rank[e] < rank[f] \/ rank[f] < rank[e]
    BY <1>3
  <2>2. rank[e] \in 0 .. N - 1 /\ rank[f] \in 0 .. N - 1
    BY <1>2
  <2> QED
    BY <1>1, <2>1, <2>2
<1>5. \A n \in 0 .. N - 1 : \E e \in S : rank[e] = n
  <2>1. rank \in Injection(S, 0 .. N - 1)
    BY <1>2, <1>4 DEF Injection, IsInjective
  <2>2. IsFiniteSet(0 .. N - 1) /\ Cardinality(0 .. N - 1) = N
    <3>1. 0 \in Int /\ N - 1 \in Int
      BY <1>1
    <3> QED
      BY <1>1, <3>1, FS_Interval
  <2>3. rank \in Surjection(S, 0 .. N - 1)
    BY <2>1, <2>2, FS_Injection
  <2> QED
    BY <2>3 DEF Surjection
<1>6. ASSUME NEW n \in 1 .. N PROVE r[n] \in S /\ rank[r[n]] = n - 1
  <2>1. PICK e \in S : rank[e] = n - 1
    BY <1>1, <1>5
  <2>2. r[n] = CHOOSE d \in S : Cardinality(before[d]) = n - 1
    BY DEF Ranked
  <2> QED
    BY <2>1, <2>2
<1>7. r \in [1 .. N -> S]
  <2>1. r = [n \in 1 .. N |-> r[n]]
    BY DEF Ranked
  <2> QED
    BY <1>6, <2>1
<1>8. ASSUME NEW e \in S PROVE \E n \in 1 .. N : r[n] = e
  <2>1. rank[e] + 1 \in 1 .. N /\ rank[e] \in Nat
    BY <1>1, <1>2
  <2>2. rank[r[rank[e] + 1]] = rank[e] /\ r[rank[e] + 1] \in S
    BY <1>6, <2>1
  <2> QED
    BY <1>4, <2>1, <2>2
<1>9. ASSUME NEW m \in 1 .. N, NEW n \in 1 .. N PROVE m < n <=> r[m] \in before[r[n]]
  <2>1. /\ r[m] \in S /\ rank[r[m]] = m - 1
        /\ r[n] \in S /\ rank[r[n]] = n - 1
    BY <1>6
  <2>2. CASE r[m] \in before[r[n]]
    <3>1. rank[r[m]] < rank[r[n]]
      BY <1>3, <2>1, <2>2
    <3> HIDE DEF rank
    <3> QED
      BY <1>1, <2>1, <2>2, <3>1
  <2>3. CASE r[n] \in before[r[m]]
    <3>1. rank[r[n]] < rank[r[m]]
      BY <1>3, <2>1, <2>3
    <3>2. ~(r[m] \in before[r[n]])
      BY <2>1, <2>3
    <3> HIDE DEF rank
    <3> QED
      BY <1>1, <2>1, <3>1, <3>2
  <2>4. CASE r[m] = r[n]
    <3>1. m - 1 = n - 1
      BY <2>1, <2>4
    <3>2. ~(r[m] \in before[r[n]])
      BY <2>1, <2>4
    <3> QED
      BY <1>1, <3>1, <3>2
  <2> QED
    BY <2>1, <2>2, <2>3, <2>4
<1> QED
  BY <1>1, <1>6, <1>7, <1>8, <1>9

\* Positions are ranked by their number.
LEMMA AscendingPositions ==
  ASSUME NEW keep \in SUBSET Nat, IsFiniteSet(keep)
  PROVE  /\ Cardinality(keep) \in Nat
         /\ Ascending(keep) \in [1 .. Cardinality(keep) -> keep]
         /\ \A n \in 1 .. Cardinality(keep) :
              Cardinality({m \in keep : m < Ascending(keep)[n]}) = n - 1
         /\ \A k \in keep : \E n \in 1 .. Cardinality(keep) : Ascending(keep)[n] = k
         /\ \A m, n \in 1 .. Cardinality(keep) :
              m < n <=> Ascending(keep)[m] < Ascending(keep)[n]
<1> DEFINE before == [n \in keep |-> {m \in keep : m < n}]
           at == Ranked(before)
<1>1. before \in [keep -> SUBSET keep]
  OBVIOUS
<1>2. \A k \in keep : k \notin before[k]
  OBVIOUS
<1>3. ASSUME NEW k \in keep, NEW l \in before[k], NEW m \in before[l]
      PROVE  m \in before[k]
  <2>1. /\ k \in Nat /\ l \in Nat /\ m \in Nat
        /\ m \in keep /\ l < k /\ m < l
    OBVIOUS
  <2>2. m < k
    BY <2>1
  <2> QED
    BY <2>1, <2>2
<1>4. \A k, l \in keep : k # l => k \in before[l] \/ l \in before[k]
  OBVIOUS
<1>5. at = Ascending(keep)
  BY DEF Ascending
<1>6. \A k, l \in keep : l \in before[k] <=> l < k
  OBVIOUS
<1>7. \A k \in keep : before[k] = {m \in keep : m < k}
  OBVIOUS
<1> HIDE DEF before
<1>8. /\ Cardinality(keep) \in Nat
      /\ at \in [1 .. Cardinality(keep) -> keep]
      /\ \A n \in 1 .. Cardinality(keep) : Cardinality(before[at[n]]) = n - 1
      /\ \A k \in keep : \E n \in 1 .. Cardinality(keep) : at[n] = k
      /\ \A m, n \in 1 .. Cardinality(keep) : m < n <=> at[m] \in before[at[n]]
  BY <1>1, <1>2, <1>3, <1>4, RankedIsInOrder
<1> QED
  BY <1>5, <1>6, <1>7, <1>8

\* What is picked is a sequence of the rows at those positions and of no
\* others, as long as there are positions.
LEMMA PickedRows ==
  ASSUME NEW rows, NEW keep \in SUBSET Nat, IsFiniteSet(keep),
         NEW T, \A k \in keep : rows[k] \in T
  PROVE  /\ Picked(rows, keep) \in Seq(T)
         /\ DOMAIN Picked(rows, keep) = 1 .. Cardinality(keep)
         /\ \A n \in DOMAIN Picked(rows, keep) :
              \E k \in keep : Picked(rows, keep)[n] = rows[k]
         /\ \A k \in keep :
              \E n \in DOMAIN Picked(rows, keep) : Picked(rows, keep)[n] = rows[k]
         /\ Picked(rows, keep) = << >> <=> keep = {}
<1> DEFINE N == Cardinality(keep)
           at == Ascending(keep)
           s == Picked(rows, keep)
<1>1. /\ N \in Nat
      /\ at \in [1 .. N -> keep]
      /\ \A k \in keep : \E n \in 1 .. N : at[n] = k
  BY AscendingPositions
<1>2. s = [n \in 1 .. N |-> rows[at[n]]]
  BY <1>1 DEF Picked
<1>3. s \in [1 .. N -> T]
  BY <1>1, <1>2
<1>4. s \in Seq(T)
  BY <1>1, <1>3, SeqDef
<1>5. s = << >> <=> keep = {}
  <2>1. N = 0 <=> keep = {}
    BY FS_EmptySet
  <2>2. Len(s) = N
    BY <1>1, <1>3, <1>4, LenProperties
  <2>3. s = << >> <=> N = 0
    BY <1>4, <2>2, EmptySeq
  <2> QED
    BY <2>1, <2>3
<1>6. DOMAIN s = 1 .. N /\ \A n \in 1 .. N : s[n] = rows[at[n]] /\ at[n] \in keep
  BY <1>1, <1>2
<1>7. \A k \in keep : \E n \in 1 .. N : s[n] = rows[k]
  BY <1>1, <1>6
<1> HIDE DEF at, s, N
<1>8. /\ DOMAIN s = 1 .. N
      /\ \A n \in DOMAIN s : \E k \in keep : s[n] = rows[k]
      /\ \A k \in keep : \E n \in DOMAIN s : s[n] = rows[k]
  BY <1>6, <1>7
<1> QED
  BY <1>4, <1>5, <1>8 DEF s, N
\* The n-th position is the one that n - 1 others precede.
LEMMA AscendingIs ==
  ASSUME NEW keep \in SUBSET Nat, IsFiniteSet(keep), NEW k \in keep,
         NEW n \in 1 .. Cardinality(keep), Cardinality({m \in keep : m < k}) = n - 1
  PROVE  Ascending(keep)[n] = k
<1> DEFINE at == Ascending(keep)
           N == Cardinality(keep)
           rank(i) == Cardinality({m \in keep : m < i})
<1>1. /\ N \in Nat
      /\ \A i \in 1 .. N : rank(at[i]) = i - 1
      /\ \E i \in 1 .. N : at[i] = k
  BY AscendingPositions
<1>2. PICK i \in 1 .. N : at[i] = k
  BY <1>1
<1>3. rank(k) = i - 1 /\ rank(k) = n - 1
  BY <1>1, <1>2
<1>4. i = n
  <2> HIDE DEF rank
  <2> QED
    BY <1>1, <1>3
<1> QED
  BY <1>2, <1>4

\* Numbers moved up stay as many as they were.
LEMMA MovedUp ==
  ASSUME NEW R \in SUBSET Nat, IsFiniteSet(R), NEW d \in Nat
  PROVE  /\ IsFiniteSet({d + k : k \in R})
         /\ Cardinality({d + k : k \in R}) = Cardinality(R)
<1> DEFINE Up == {d + k : k \in R}
           f == [k \in R |-> d + k]
<1>1. f \in [R -> Up]
  OBVIOUS
<1>2. \A k, l \in R : f[k] = f[l] => k = l
  OBVIOUS
<1>3. \A u \in Up : \E k \in R : f[k] = u
  OBVIOUS
<1>4. f \in Bijection(R, Up)
  BY <1>1, <1>2, <1>3 DEF Bijection, Injection, Surjection, IsInjective
<1>5. ExistsBijection(R, Up)
  BY <1>4 DEF ExistsBijection
<1> QED
  BY <1>5, FS_Bijection

\* ab is a and then b; as an operator, for the provers to leave it alone.
Joins(ab, a, b) == ab = a \o b

\* The positions in a and in b that are kept of a \o b.
InFirst(a, keep)     == keep \cap DOMAIN a
InSecond(a, b, keep) == {k \in DOMAIN b : Len(a) + k \in keep}


\* What is picked of two lists in a row is what is picked of the one and then
\* what is picked of the other.
LEMMA PickedConcat ==
  ASSUME NEW T, NEW a \in Seq(T), NEW b \in Seq(T), NEW ab, Joins(ab, a, b),
         NEW keep \in SUBSET DOMAIN ab
  PROVE  Picked(ab, keep) = Picked(a, InFirst(a, keep)) \o Picked(b, InSecond(a, b, keep))
<1> DEFINE la == Len(a)
           lb == Len(b)
           L == keep \cap DOMAIN a
           R == {k \in DOMAIN b : la + k \in keep}
           Up == {la + k : k \in R}
<1>0. ab = a \o b
  BY DEF Joins
<1>1. /\ la \in Nat /\ DOMAIN a = 1 .. la
      /\ lb \in Nat /\ DOMAIN b = 1 .. lb
      /\ ab \in Seq(T) /\ DOMAIN ab = 1 .. la + lb
      /\ \A i \in 1 .. la : ab[i] = a[i]
      /\ \A i \in 1 .. lb : ab[la + i] = b[i]
  <2>1. /\ la \in Nat /\ DOMAIN a = 1 .. la
        /\ lb \in Nat /\ DOMAIN b = 1 .. lb
    BY LenProperties
  <2>2. /\ ab \in Seq(T) /\ Len(ab) = la + lb
        /\ \A i \in 1 .. la + lb : ab[i] = IF i <= la THEN a[i] ELSE b[i - la]
    BY <1>0, ConcatProperties
  <2>3. DOMAIN ab = 1 .. la + lb
    BY <2>2, LenProperties
  <2>4. \A i \in 1 .. la : i \in 1 .. la + lb /\ i <= la
    BY <2>1
  <2>5. \A i \in 1 .. lb : la + i \in 1 .. la + lb /\ ~(la + i <= la) /\ (la + i) - la = i
    BY <2>1
  <2> HIDE DEF la, lb
  <2>6. \A i \in 1 .. la : ab[i] = a[i]
    BY <2>2, <2>4
  <2>7. \A i \in 1 .. lb : ab[la + i] = b[i]
    BY <2>2, <2>5
  <2> QED
    BY <2>1, <2>2, <2>3, <2>6, <2>7
<1> HIDE DEF la, lb
<1>2. keep \in SUBSET (1 .. la + lb)
  BY <1>1
<1>3. /\ IsFiniteSet(keep) /\ IsFiniteSet(L) /\ IsFiniteSet(R)
      /\ keep \in SUBSET Nat /\ L \in SUBSET Nat /\ R \in SUBSET Nat
  <2>1. /\ 1 \in Int /\ la + lb \in Int /\ lb \in Int
        /\ 1 .. la + lb \in SUBSET Nat /\ 1 .. lb \in SUBSET Nat
    BY <1>1
  <2>2. IsFiniteSet(1 .. la + lb) /\ IsFiniteSet(1 .. lb)
    BY <2>1, FS_Interval
  <2>3. L \in SUBSET (1 .. la + lb) /\ R \in SUBSET (1 .. lb)
    BY <1>1, <1>2
  <2> QED
    BY <1>2, <2>1, <2>2, <2>3, FS_Subset
<1>4. keep = L \cup Up /\ L \cap Up = {}
  <2>1. \A i \in 1 .. la + lb : i \in 1 .. la \/ (i - la \in 1 .. lb /\ la + (i - la) = i)
    BY <1>1
  <2>2. \A i \in keep : i \in L \/ (i - la \in R /\ la + (i - la) = i)
    BY <1>1, <1>2, <2>1
  <2>3. \A k \in 1 .. lb : la + k \notin 1 .. la
    BY <1>1
  <2> QED
    BY <1>1, <2>2, <2>3
<1>5. /\ Cardinality(L) \in Nat /\ Cardinality(R) \in Nat
      /\ Cardinality(keep) = Cardinality(L) + Cardinality(R)
  <2>1. IsFiniteSet(Up) /\ Cardinality(Up) = Cardinality(R)
    BY <1>1, <1>3, MovedUp
  <2>2. Cardinality(L \cup Up) = Cardinality(L) + Cardinality(Up) - Cardinality(L \cap Up)
    BY <1>3, <2>1, FS_Union
  <2>3. Cardinality(L) \in Nat /\ Cardinality(R) \in Nat /\ Cardinality({}) = 0
    BY <1>3, FS_CardinalityType, FS_EmptySet
  <2> DEFINE common == L \cap Up
             both == L \cup Up
  <2>4. common = {} /\ both = keep
    BY <1>4
  <2> HIDE DEF L, R, Up, common, both
  <2>5. Cardinality(common) = 0
    BY <2>3, <2>4
  <2>6. Cardinality(both) = Cardinality(L) + Cardinality(Up) - Cardinality(common)
    BY <2>2 DEF common, both
  <2> QED
    BY <2>1, <2>3, <2>4, <2>5, <2>6
<1> DEFINE nL == Cardinality(L)
           nR == Cardinality(R)
<1>6. ASSUME NEW n \in 1 .. nL
      PROVE  Ascending(L)[n] \in L /\ Ascending(keep)[n] = Ascending(L)[n]
  <2> DEFINE k == Ascending(L)[n]
  <2>1. k \in L /\ Cardinality({m \in L : m < k}) = n - 1
    BY <1>3, AscendingPositions
  <2>2. {m \in keep : m < k} = {m \in L : m < k}
    <3>1. k \in 1 .. la
      BY <1>1, <2>1
    <3>2. ASSUME NEW m \in keep, m < k PROVE m \in 1 .. la
      BY <1>1, <1>2, <3>1, <3>2
    <3> QED
      BY <1>1, <3>2
  <2>3. k \in keep /\ n \in 1 .. Cardinality(keep)
    BY <1>5, <2>1
  <2> HIDE DEF k
  <2>4. Ascending(keep)[n] = k
    BY <1>3, <2>1, <2>2, <2>3, AscendingIs
  <2> QED
    BY <2>1, <2>4 DEF k
<1>7. ASSUME NEW n \in 1 .. nR
      PROVE  Ascending(R)[n] \in R /\ Ascending(keep)[nL + n] = la + Ascending(R)[n]
  <2> DEFINE k == Ascending(R)[n]
             Before == {m \in R : m < k}
             UpBefore == {la + m : m \in Before}
  <2>1. k \in R /\ Cardinality(Before) = n - 1
    BY <1>3, AscendingPositions
  <2> HIDE DEF k
  <2>2. {m \in keep : m < la + k} = L \cup UpBefore /\ L \cap UpBefore = {}
    <3>1. k \in Nat /\ k > 0 /\ \A m \in R : m \in Nat
      BY <1>1, <1>3, <2>1
    <3>2. \A m \in L : m < la + k
      BY <1>1, <3>1
    <3>3. \A m \in R : la + m < la + k <=> m < k
      BY <1>1, <3>1
    <3>4. {m \in Up : m < la + k} = UpBefore
      BY <3>3
    <3>5. UpBefore \subseteq Up
      OBVIOUS
    <3>6. {m \in keep : m < la + k} = {m \in L : m < la + k} \cup {m \in Up : m < la + k}
      BY <1>4
    <3> HIDE DEF L, Up, UpBefore
    <3> QED
      BY <1>4, <3>2, <3>4, <3>5, <3>6
  <2>3. Cardinality(L \cup UpBefore) = nL + (n - 1)
    <3>1. Before \in SUBSET Nat /\ IsFiniteSet(Before)
      <4>1. Before \in SUBSET R
        OBVIOUS
      <4> HIDE DEF Before
      <4> QED
        BY <1>3, <4>1, FS_Subset
    <3>2. IsFiniteSet(UpBefore) /\ Cardinality(UpBefore) = n - 1
      <4> HIDE DEF Before
      <4> QED
        BY <1>1, <2>1, <3>1, MovedUp
    <3>3. Cardinality(L \cup UpBefore) = nL + Cardinality(UpBefore) - Cardinality(L \cap UpBefore)
      BY <1>3, <3>2, FS_Union
    <3>4. Cardinality(L \cap UpBefore) = 0
      BY <2>2, FS_EmptySet
    <3> HIDE DEF L, UpBefore, nR
    <3> QED
      BY <1>5, <3>2, <3>3, <3>4
  <2>4. la + k \in keep
    BY <1>4, <2>1
  <2>5. nL + n \in 1 .. Cardinality(keep) /\ (nL + n) - 1 = nL + (n - 1)
    <3> HIDE DEF L, R
    <3> QED
      BY <1>5
  <2>6. Cardinality({m \in keep : m < la + k}) = (nL + n) - 1
    <3> HIDE DEF L, UpBefore
    <3> QED
      BY <2>2, <2>3, <2>5
  <2> DEFINE i == la + k
             j == nL + n
  <2> HIDE DEF L, i, j
  <2>7. Ascending(keep)[nL + n] = la + k
    <3>1. /\ i \in keep /\ j \in 1 .. Cardinality(keep)
          /\ Cardinality({m \in keep : m < i}) = j - 1
      BY <2>4, <2>5, <2>6 DEF i, j
    <3>2. Ascending(keep)[j] = i
      BY <1>3, <3>1, AscendingIs
    <3> QED
      BY <3>2 DEF i, j
  <2> QED
    BY <2>1, <2>7 DEF k
<1> DEFINE pick == Picked(ab, keep)
           pa == Picked(a, L)
           pb == Picked(b, R)
<1>8. /\ pick = [n \in 1 .. Cardinality(keep) |-> ab[Ascending(keep)[n]]]
      /\ pa = [n \in 1 .. nL |-> a[Ascending(L)[n]]]
      /\ pb = [n \in 1 .. nR |-> b[Ascending(R)[n]]]
  <2> HIDE DEF L, R
  <2> QED
    BY <1>3, AscendingPositions DEF Picked
<1>9. /\ pick \in Seq(T) /\ pa \in Seq(T) /\ pb \in Seq(T)
      /\ Len(pick) = Cardinality(keep) /\ Len(pa) = nL /\ Len(pb) = nR
  <2>1. \A k \in keep : ab[k] \in T
    BY <1>1, <1>2, ElementOfSeq, LenProperties
  <2>2. (\A k \in L : a[k] \in T) /\ (\A k \in R : b[k] \in T)
    <3>1. \A k \in 1 .. la : a[k] \in T
      BY ElementOfSeq DEF la
    <3>2. \A k \in 1 .. lb : b[k] \in T
      BY ElementOfSeq DEF lb
    <3> QED
      BY <1>1, <3>1, <3>2
  <2> HIDE DEF L, R
  <2>3. pick \in Seq(T) /\ pa \in Seq(T) /\ pb \in Seq(T)
    BY <1>3, <2>1, <2>2, PickedRows
  <2>4. /\ DOMAIN pick = 1 .. Cardinality(keep)
        /\ DOMAIN pa = 1 .. nL
        /\ DOMAIN pb = 1 .. nR
    BY <1>8
  <2> HIDE DEF pick, pa, pb
  <2> QED
    BY <1>5, <2>3, <2>4, LenProperties
<1>10. ASSUME NEW n \in 1 .. nL PROVE pick[n] = pa[n]
  <2>1. Ascending(L)[n] \in 1 .. la
    BY <1>1, <1>6
  <2>2. pick[n] = ab[Ascending(keep)[n]] /\ pa[n] = a[Ascending(L)[n]]
    <3> HIDE DEF L, R
    <3>1. n \in 1 .. Cardinality(keep)
      BY <1>5
    <3> QED
      BY <1>8, <3>1
  <2> QED
    BY <1>1, <1>6, <2>1, <2>2
<1>11. ASSUME NEW n \in 1 .. nR PROVE pick[nL + n] = pb[n]
  <2>1. nL + n \in 1 .. Cardinality(keep) /\ Ascending(R)[n] \in 1 .. lb
    BY <1>1, <1>5, <1>7
  <2>2. pick[nL + n] = ab[Ascending(keep)[nL + n]] /\ pb[n] = b[Ascending(R)[n]]
    BY <1>8, <2>1
  <2> QED
    BY <1>1, <1>7, <2>1, <2>2
<1> HIDE DEF L, R, nL, nR, pick, pa, pb
<1>12. /\ pa \o pb \in Seq(T)
       /\ Len(pa \o pb) = nL + nR
       /\ \A i \in 1 .. nL + nR : (pa \o pb)[i] = IF i <= nL THEN pa[i] ELSE pb[i - nL]
  BY <1>9, ConcatProperties
<1>13. ASSUME NEW i \in 1 .. nL + nR PROVE pick[i] = (pa \o pb)[i]
  <2>1. nL \in Nat /\ nR \in Nat
    BY <1>5 DEF nL, nR
  <2>2. CASE i <= nL
    BY <1>10, <1>12, <2>1, <2>2
  <2>3. CASE ~(i <= nL)
    <3>1. i - nL \in 1 .. nR /\ nL + (i - nL) = i
      BY <2>1, <2>3
    <3> QED
      BY <1>11, <1>12, <2>3, <3>1
  <2> QED
    BY <2>2, <2>3
<1>14. Len(pick) = nL + nR
  BY <1>5, <1>9 DEF nL, nR
<1>15. pick = pa \o pb
  BY <1>9, <1>12, <1>13, <1>14, SeqEqual
<1> QED
  BY <1>15 DEF pick, pa, pb, L, R, la, InFirst, InSecond

-----------------------------------------------------------------------------
(* Functions defined by recursion.                                         *)

\* Every non-empty set of natural numbers has a least one.
LEMMA LeastNumber ==
  ASSUME NEW T \in SUBSET Nat, T # {}
  PROVE  \E m \in T : \A k \in T : m <= k
<1>1. PICK n \in T : TRUE
  OBVIOUS
<1> DEFINE Down == {0 .. m : m \in {k \in T : k <= n}}
           Order == StrictSubsetOrdering(0 .. n)
<1>2. IsWellFoundedOn(Order, SUBSET (0 .. n))
  <2>1. 0 \in Int /\ n \in Int
    OBVIOUS
  <2>2. IsFiniteSet(0 .. n)
    BY <2>1, FS_Interval
  <2>3. FiniteSubsetsOf(0 .. n) = SUBSET (0 .. n)
    BY <2>2, FS_FiniteSubsetsOfFinite
  <2>4. IsWellFoundedOn(Order, FiniteSubsetsOf(0 .. n))
    BY FS_StrictSubsetOrderingWellFounded
  <2> QED
    BY <2>3, <2>4
<1>3. Down \in SUBSET (SUBSET (0 .. n))
  OBVIOUS
<1>4. Down # {}
  OBVIOUS
<1>5. PICK x \in Down : \A y \in Down : ~(<<y, x>> \in Order)
  <2> HIDE DEF Down, Order
  <2> QED
    BY <1>2, <1>3, <1>4, WFMin
<1>6. PICK m \in T : m <= n /\ x = 0 .. m
  OBVIOUS
<1>7. ASSUME NEW k \in T, k < m PROVE FALSE
  <2>1. 0 .. k \in Down
    BY <1>6, <1>7
  <2>2. <<0 .. k, x>> \in Order
    BY <1>6, <1>7 DEF StrictSubsetOrdering
  <2> QED
    BY <1>5, <2>1, <2>2
<1> QED
  BY <1>6, <1>7

\* Induction, for a set of numbers.
LEMMA Counting ==
  ASSUME NEW S \in SUBSET Nat, 0 \in S, \A n \in S : n + 1 \in S
  PROVE  S = Nat
<1> SUFFICES ASSUME Nat \ S # {} PROVE FALSE
  OBVIOUS
<1>1. PICK m \in Nat \ S : \A k \in Nat \ S : m <= k
  BY LeastNumber
<1> QED
  BY <1>1

\* The values of a function defined by recursion.
Follows(f, v0, m, step) == f[0] = v0 /\ \A n \in 1 .. m : f[n] = step[n][f[n - 1]]

\* A function may be defined by its value at 0 and by what a step makes of the
\* value before.
LEMMA Recursion ==
  ASSUME NEW V, NEW v0 \in V, NEW m \in Nat, NEW step \in [Nat -> [V -> V]]
  PROVE  \E f \in [0 .. m -> V] : Follows(f, v0, m, step)
<1> DEFINE Solves(f, l) == f = [n \in 0 .. l |-> IF n = 0 THEN v0 ELSE step[n][f[n - 1]]]
           S == {l \in Nat : \E f \in [0 .. l -> V] : Solves(f, l)}
<1>1. 0 \in S
  <2> DEFINE f == [n \in 0 .. 0 |-> v0]
  <2>1. f \in [0 .. 0 -> V]
    OBVIOUS
  <2>2. Solves(f, 0)
    OBVIOUS
  <2> QED
    BY <2>1, <2>2
<1>2. ASSUME NEW l \in Nat, NEW f \in [0 .. l -> V], Solves(f, l)
      PROVE  \E g \in [0 .. l + 1 -> V] : Solves(g, l + 1)
  <2>1. f[0] = v0 /\ \A n \in 0 .. l : n # 0 => f[n] = step[n][f[n - 1]]
    <3>1. 0 \in 0 .. l
      OBVIOUS
    <3> QED
      BY <1>2, <3>1
  <2> HIDE DEF S, Solves
  <2> DEFINE g == [n \in 0 .. l + 1 |-> IF n <= l THEN f[n] ELSE step[n][f[l]]]
  <2>2. g \in [0 .. l + 1 -> V]
    <3>1. ASSUME NEW n \in 0 .. l + 1 PROVE g[n] \in V
      <4>1. CASE n <= l
        <5>1. n \in 0 .. l
          BY <4>1
        <5> QED
          BY <4>1, <5>1
      <4>2. CASE ~(n <= l)
        <5>1. n \in Nat /\ f[l] \in V
          OBVIOUS
        <5> QED
          BY <4>2, <5>1
      <4> QED
        BY <4>1, <4>2
    <3> QED
      BY <3>1
  <2>3. ASSUME NEW n \in 0 .. l + 1
        PROVE  g[n] = IF n = 0 THEN v0 ELSE step[n][g[n - 1]]
    <3>1. CASE n = 0
      <4>1. 0 <= l
        OBVIOUS
      <4> QED
        BY <2>1, <3>1, <4>1
    <3>2. CASE n # 0 /\ n <= l
      <4>1. n \in 0 .. l /\ n - 1 \in 0 .. l + 1 /\ n - 1 <= l
        BY <3>2
      <4>2. f[n] = step[n][f[n - 1]]
        BY <2>1, <3>2, <4>1
      <4>3. g[n] = f[n] /\ g[n - 1] = f[n - 1]
        BY <3>2, <4>1
      <4> QED
        BY <3>2, <4>2, <4>3
    <3>3. CASE ~(n <= l)
      <4>1. n = l + 1 /\ n - 1 = l /\ n # 0
        BY <3>3
      <4>2. g[n] = step[n][f[l]]
        BY <3>3
      <4>3. l \in 0 .. l + 1 /\ l <= l
        OBVIOUS
      <4>4. g[l] = f[l]
        BY <4>3
      <4> HIDE DEF g
      <4> QED
        BY <4>1, <4>2, <4>4
    <3> QED
      BY <3>1, <3>2, <3>3
  <2>4. Solves(g, l + 1)
    <3>1. g = [n \in 0 .. l + 1 |-> g[n]]
      BY <2>2
    <3> HIDE DEF g
    <3> QED
      BY <2>3, <3>1 DEF Solves
  <2> HIDE DEF g
  <2> QED
    BY <2>2, <2>4
<1>3. S = Nat
  <2> HIDE DEF Solves
  <2>1. S \in SUBSET Nat /\ \A l \in S : l + 1 \in S
    BY <1>2
  <2> HIDE DEF S
  <2> QED
    BY <1>1, <2>1, Counting
<1>4. PICK f \in [0 .. m -> V] : Solves(f, m)
  <2> HIDE DEF Solves
  <2> QED
    BY <1>3
<1>5. f[0] = v0
  <2>1. 0 \in 0 .. m
    OBVIOUS
  <2> QED
    BY <1>4, <2>1
<1>6. ASSUME NEW n \in 1 .. m PROVE f[n] = step[n][f[n - 1]]
  <2>1. n \in 0 .. m /\ n # 0
    OBVIOUS
  <2> QED
    BY <1>4, <2>1
<1> QED
  BY <1>5, <1>6 DEF Follows

\* The running total of numbers.
LEMMA RunningTotal ==
  ASSUME NEW m \in Nat, NEW a \in [1 .. m -> Nat]
  PROVE  \E f \in [0 .. m -> Nat] :
           /\ f[0] = 0
           /\ \A n \in 1 .. m : f[n] = f[n - 1] + a[n]
           /\ \A n \in 0 .. m : f[n] <= f[m]
<1> DEFINE V == Nat
           v0 == 0
           step == [n \in Nat |-> [v \in Nat |-> IF n \in 1 .. m THEN v + a[n] ELSE v]]
<1>1. v0 \in V /\ step \in [Nat -> [V -> V]]
  OBVIOUS
<1>2. PICK f \in [0 .. m -> Nat] : Follows(f, 0, m, step)
  <2> HIDE DEF V, v0, step
  <2>1. \E f \in [0 .. m -> V] : Follows(f, v0, m, step)
    BY <1>1, Recursion
  <2> QED
    BY <2>1 DEF V, v0
<1>3. f[0] = 0
  BY <1>2 DEF Follows
<1>4. ASSUME NEW n \in 1 .. m PROVE f[n] = f[n - 1] + a[n]
  <2>1. f[n] = step[n][f[n - 1]]
    BY <1>2 DEF Follows
  <2>2. n \in Nat /\ f[n - 1] \in Nat
    <3>1. n - 1 \in 0 .. m
      OBVIOUS
    <3> QED
      BY <3>1
  <2> QED
    BY <2>1, <2>2
<1> DEFINE S == {d \in Nat : d <= m => f[m - d] <= f[m]}
<1>5. 0 \in S
  BY <1>2
<1>6. ASSUME NEW d \in S PROVE d + 1 \in S
  <2>1. CASE d + 1 <= m
    <3>1. d \in Nat /\ d <= m /\ m - d \in 1 .. m /\ m - (d + 1) \in 0 .. m
          /\ (m - d) - 1 = m - (d + 1)
      BY <2>1
    <3>2. f[m - d] = f[m - (d + 1)] + a[m - d]
      BY <1>4, <3>1
    <3>3. f[m - d] <= f[m]
      BY <3>1
    <3>4. f[m] \in Nat /\ f[m - (d + 1)] \in Nat /\ a[m - d] \in Nat
      <4>1. m \in 0 .. m
        OBVIOUS
      <4> QED
        BY <3>1, <4>1
    <3>5. f[m - (d + 1)] <= f[m]
      BY <3>2, <3>3, <3>4
    <3> QED
      BY <3>1, <3>5
  <2> QED
    BY <2>1
<1>7. S = Nat
  <2>1. S \in SUBSET Nat
    OBVIOUS
  <2> HIDE DEF S
  <2> QED
    BY <1>5, <1>6, <2>1, Counting
<1>8. ASSUME NEW n \in 0 .. m PROVE f[n] <= f[m]
  <2>1. m - n \in Nat /\ m - n <= m /\ m - (m - n) = n
    OBVIOUS
  <2>2. m - n \in S
    <3> HIDE DEF S
    <3> QED
      BY <1>7, <2>1
  <2> QED
    BY <2>1, <2>2
<1> QED
  BY <1>3, <1>4, <1>8

\* A number below the modulus is its own remainder.
LEMMA SmallRemainder ==
  ASSUME NEW w \in Nat, NEW n \in Nat, n < w
  PROVE  n % w = n
  OBVIOUS

\* What it is to be three lists, one after the other.
JoinsThree(all, a, b, c) ==
  /\ \A n \in DOMAIN all :
       \/ n \in DOMAIN a /\ all[n] = a[n]
       \/ \E k \in DOMAIN b : n = Len(a) + k /\ all[n] = b[k]
       \/ \E k \in DOMAIN c : n = Len(a) + Len(b) + k /\ all[n] = c[k]
  /\ \A n \in DOMAIN a : n \in DOMAIN all /\ all[n] = a[n]
  /\ \A k \in DOMAIN b : Len(a) + k \in DOMAIN all /\ all[Len(a) + k] = b[k]
  /\ \A k \in DOMAIN c : /\ Len(a) + Len(b) + k \in DOMAIN all
                         /\ all[Len(a) + Len(b) + k] = c[k]

\* The rows of three lists, one after the other.
LEMMA ThreeLists ==
  ASSUME NEW T, NEW a \in Seq(T), NEW b \in Seq(T), NEW c \in Seq(T),
         NEW ab, Joins(ab, a, b), NEW all, Joins(all, ab, c)
  PROVE  all \in Seq(T) /\ JoinsThree(all, a, b, c)
<1> DEFINE abc == ab \o c
<1>0. ab = a \o b /\ all = abc
  BY DEF Joins
<1>1. /\ Len(a) \in Nat /\ DOMAIN a = 1 .. Len(a)
      /\ Len(b) \in Nat /\ DOMAIN b = 1 .. Len(b)
      /\ Len(c) \in Nat /\ DOMAIN c = 1 .. Len(c)
  BY LenProperties
<1>2. /\ ab \in Seq(T) /\ Len(ab) = Len(a) + Len(b)
      /\ \A n \in 1 .. Len(a) + Len(b) :
           ab[n] = IF n <= Len(a) THEN a[n] ELSE b[n - Len(a)]
  BY <1>0, ConcatProperties
<1>3. /\ abc \in Seq(T) /\ Len(abc) = Len(ab) + Len(c)
      /\ \A n \in 1 .. Len(ab) + Len(c) :
           abc[n] = IF n <= Len(ab) THEN ab[n] ELSE c[n - Len(ab)]
  <2>1. ab \in Seq(T) /\ c \in Seq(T)
    BY <1>2
  <2> QED
    BY <2>1, ConcatProperties
<1>4. DOMAIN abc = 1 .. Len(a) + Len(b) + Len(c)
  BY <1>1, <1>2, <1>3, LenProperties
<1> HIDE DEF abc
<1>5. \A n \in 1 .. Len(a) + Len(b) : abc[n] = ab[n]
  BY <1>1, <1>2, <1>3
<1>6. ASSUME NEW n \in DOMAIN a PROVE n \in DOMAIN abc /\ abc[n] = a[n]
  <2>1. n \in 1 .. Len(a) + Len(b) /\ n <= Len(a)
    BY <1>1
  <2>2. ab[n] = a[n]
    BY <1>2, <2>1
  <2> QED
    BY <1>1, <1>4, <1>5, <2>1, <2>2
<1>7. \A k \in DOMAIN b : Len(a) + k \in DOMAIN abc /\ abc[Len(a) + k] = b[k]
  <2> SUFFICES ASSUME NEW k \in DOMAIN b
               PROVE  Len(a) + k \in DOMAIN abc /\ abc[Len(a) + k] = b[k]
    OBVIOUS
  <2>1. /\ Len(a) + k \in 1 .. Len(a) + Len(b) /\ ~(Len(a) + k <= Len(a))
        /\ (Len(a) + k) - Len(a) = k
    BY <1>1
  <2>2. ab[Len(a) + k] = b[k]
    BY <1>2, <2>1
  <2> QED
    BY <1>1, <1>4, <1>5, <2>1, <2>2
<1>8. \A k \in DOMAIN c : /\ Len(a) + Len(b) + k \in DOMAIN abc
                          /\ abc[Len(a) + Len(b) + k] = c[k]
  <2> SUFFICES ASSUME NEW k \in DOMAIN c
               PROVE  /\ Len(a) + Len(b) + k \in DOMAIN abc
                      /\ abc[Len(a) + Len(b) + k] = c[k]
    OBVIOUS
  <2>1. /\ Len(a) + Len(b) + k \in 1 .. Len(ab) + Len(c) /\ ~(Len(a) + Len(b) + k <= Len(ab))
        /\ (Len(a) + Len(b) + k) - Len(ab) = k
    BY <1>1, <1>2
  <2> QED
    BY <1>1, <1>2, <1>3, <1>4, <2>1
<1>9. ASSUME NEW n \in DOMAIN abc
      PROVE  \/ n \in DOMAIN a
             \/ \E k \in DOMAIN b : n = Len(a) + k
             \/ \E k \in DOMAIN c : n = Len(a) + Len(b) + k
  <2>1. CASE n <= Len(a)
    BY <1>1, <1>4, <2>1
  <2>2. CASE n > Len(a) /\ n <= Len(a) + Len(b)
    <3>1. n - Len(a) \in DOMAIN b /\ n = Len(a) + (n - Len(a))
      BY <1>1, <1>4, <2>2
    <3> QED
      BY <3>1
  <2>3. CASE n > Len(a) + Len(b)
    <3>1. /\ n - (Len(a) + Len(b)) \in DOMAIN c
          /\ n = Len(a) + Len(b) + (n - (Len(a) + Len(b)))
      BY <1>1, <1>4, <2>3
    <3> QED
      BY <3>1
  <2> QED
    BY <1>1, <1>4, <2>1, <2>2, <2>3
<1>10. all = abc
  BY <1>0 DEF abc
<1> QED
  BY <1>3, <1>6, <1>7, <1>8, <1>9, <1>10 DEF JoinsThree

-----------------------------------------------------------------------------
(* Rows of content.                                                        *)

\* A row's payload is nil or of the kind its type names.
LEMMA RowFields ==
  ASSUME NEW row \in Row
  PROVE  /\ row = [type |-> row.type, payload |-> row.payload]
         /\ row.payload # None =>
              /\ row.type \in ContentTypes
              /\ row.type \in CreatureTypes => row.payload \in MonsterEntry
              /\ row.type \in TextTypes => row.payload \in Text
              /\ row.type = "skill_check" => row.payload \in SkillCheck
              /\ row.type = "pool" => row.payload \in Pool
              /\ row.type = "treasure" => row.payload \in TreasureLine
              /\ row.type = "coin" => row.payload \in Currency
              /\ row.type = "xp_award" => row.payload \in XPAward
              /\ row.type = "reward" => row.payload \in Reward
<1>1. \/ row \in OfType(CreatureTypes, MonsterEntry)
      \/ row \in OfType(TextTypes, Text)
      \/ row \in OfType({"skill_check"}, SkillCheck)
      \/ row \in OfType({"pool"}, Pool)
      \/ row \in OfType({"treasure"}, TreasureLine)
      \/ row \in OfType({"coin"}, Currency)
      \/ row \in OfType({"xp_award"}, XPAward)
      \/ row \in OfType({"reward"}, Reward)
      \/ row \in OfType(STRING \ ContentTypes, {})
  BY DEF Row
<1>2. /\ CreatureTypes = {"monster", "hazard", "affliction"}
      /\ TextTypes = {"markdown", "box_text"}
      /\ ContentTypes = CreatureTypes \cup TextTypes
           \cup {"skill_check", "pool", "treasure", "coin", "xp_award", "reward"}
  BY DEF CreatureTypes, TextTypes, ContentTypes
<1>3. CASE row \in OfType(CreatureTypes, MonsterEntry)
  <2>1. /\ row = [type |-> row.type, payload |-> row.payload]
        /\ row.type \in CreatureTypes
        /\ row.payload # None => row.payload \in MonsterEntry
    BY <1>3 DEF OfType
  <2> QED
    BY <1>2, <2>1
<1>4. CASE row \in OfType(TextTypes, Text)
  <2>1. /\ row = [type |-> row.type, payload |-> row.payload]
        /\ row.type \in TextTypes
        /\ row.payload # None => row.payload \in Text
    BY <1>4 DEF OfType
  <2> QED
    BY <1>2, <2>1
<1>5. CASE row \in OfType({"skill_check"}, SkillCheck)
  <2>1. /\ row = [type |-> row.type, payload |-> row.payload]
        /\ row.type \in {"skill_check"}
        /\ row.payload # None => row.payload \in SkillCheck
    BY <1>5 DEF OfType
  <2> QED
    BY <1>2, <2>1
<1>6. CASE row \in OfType({"pool"}, Pool)
  <2>1. /\ row = [type |-> row.type, payload |-> row.payload]
        /\ row.type \in {"pool"}
        /\ row.payload # None => row.payload \in Pool
    BY <1>6 DEF OfType
  <2> QED
    BY <1>2, <2>1
<1>7. CASE row \in OfType({"treasure"}, TreasureLine)
  <2>1. /\ row = [type |-> row.type, payload |-> row.payload]
        /\ row.type \in {"treasure"}
        /\ row.payload # None => row.payload \in TreasureLine
    BY <1>7 DEF OfType
  <2> QED
    BY <1>2, <2>1
<1>8. CASE row \in OfType({"coin"}, Currency)
  <2>1. /\ row = [type |-> row.type, payload |-> row.payload]
        /\ row.type \in {"coin"}
        /\ row.payload # None => row.payload \in Currency
    BY <1>8 DEF OfType
  <2> QED
    BY <1>2, <2>1
<1>9. CASE row \in OfType({"xp_award"}, XPAward)
  <2>1. /\ row = [type |-> row.type, payload |-> row.payload]
        /\ row.type \in {"xp_award"}
        /\ row.payload # None => row.payload \in XPAward
    BY <1>9 DEF OfType
  <2> QED
    BY <1>2, <2>1
<1>10. CASE row \in OfType({"reward"}, Reward)
  <2>1. /\ row = [type |-> row.type, payload |-> row.payload]
        /\ row.type \in {"reward"}
        /\ row.payload # None => row.payload \in Reward
    BY <1>10 DEF OfType
  <2> QED
    BY <1>2, <2>1
<1>11. CASE row \in OfType(STRING \ ContentTypes, {})
  <2>1. /\ row = [type |-> row.type, payload |-> row.payload]
        /\ row.type \in STRING \ ContentTypes
        /\ row.payload # None => row.payload \in {}
    BY <1>11 DEF OfType
  <2> QED
    BY <1>2, <2>1
<1> QED
  BY <1>1, <1>3, <1>4, <1>5, <1>6, <1>7, <1>8, <1>9, <1>10, <1>11

\* No payload is nil.
LEMMA PayloadsAreThere ==
  /\ None \notin MonsterEntry /\ None \notin Text /\ None \notin SkillCheck
  /\ None \notin Pool /\ None \notin TreasureLine /\ None \notin Currency
  /\ None \notin XPAward /\ None \notin Reward
  BY PayloadAssumption

LEMMA TypesApart ==
  /\ CreatureTypes = {"monster", "hazard", "affliction"}
  /\ TextTypes = {"markdown", "box_text"}
  /\ ContentTypes = CreatureTypes \cup TextTypes
       \cup {"skill_check", "pool", "treasure", "coin", "xp_award", "reward"}
  BY DEF CreatureTypes, TextTypes, ContentTypes

-----------------------------------------------------------------------------
(* What Validate leaves of a row, and of a list.                           *)

\* A creature keeps everything but its template.
LEMMA NormalCreature ==
  ASSUME NEW row \in Row, row.type \in CreatureTypes, row.payload # None
  PROVE  /\ NormalRow(row) = [type |-> row.type, payload |-> NormalRow(row).payload]
         /\ NormalRow(row).payload =
              [row.payload EXCEPT !.adjustment =
                 IF row.type = "monster" THEN Default(row.payload.adjustment, "none") ELSE "none"]
         /\ NormalRow(row).payload \in MonsterEntry
<1>1. /\ row = [type |-> row.type, payload |-> row.payload]
      /\ row.payload \in MonsterEntry
  BY RowFields
<1>2. NormalRow(row) =
        [row EXCEPT !.payload = [row.payload EXCEPT !.adjustment =
           IF row.type = "monster" THEN Default(row.payload.adjustment, "none") ELSE "none"]]
  <2>1. CASE row.type = "monster"
    BY <2>1 DEF NormalRow
  <2>2. CASE row.type # "monster"
    <3>1. row.type \in {"hazard", "affliction"}
      BY <2>2, TypesApart
    <3> QED
      BY <2>2, <3>1 DEF NormalRow
  <2> QED
    BY <2>1, <2>2
<1>3. row.payload.adjustment \in STRING /\ "none" \in STRING
  BY <1>1, StringAssumption DEF MonsterEntry, Adjustments
<1>4. [row.payload EXCEPT !.adjustment =
        IF row.type = "monster" THEN Default(row.payload.adjustment, "none") ELSE "none"]
      \in MonsterEntry
  BY <1>1, <1>3 DEF MonsterEntry, Default
<1> QED
  BY <1>1, <1>2, <1>4

\* A treasure line keeps everything but the enums that were left out.
LEMMA NormalTreasure ==
  ASSUME NEW row \in Row, row.type = "treasure", row.payload # None
  PROVE  /\ NormalRow(row) = [type |-> row.type, payload |-> NormalRow(row).payload]
         /\ NormalRow(row).payload =
              [row.payload EXCEPT !.sale_class = Default(row.payload.sale_class, "normal"),
                                  !.state = Default(row.payload.state, "intact")]
         /\ NormalRow(row).payload \in TreasureLine
<1>1. /\ row = [type |-> row.type, payload |-> row.payload]
      /\ row.payload \in TreasureLine
  BY RowFields
<1>2. NormalRow(row) =
        [row EXCEPT !.payload =
           [row.payload EXCEPT !.sale_class = Default(row.payload.sale_class, "normal"),
                               !.state = Default(row.payload.state, "intact")]]
  BY <1>1 DEF NormalRow, TreasureLine
<1>3. /\ row.payload.sale_class \in STRING /\ row.payload.state \in STRING
      /\ "normal" \in STRING /\ "intact" \in STRING
  BY <1>1, StringAssumption DEF TreasureLine, SaleClasses, States
<1>4. [row.payload EXCEPT !.sale_class = Default(row.payload.sale_class, "normal"),
                          !.state = Default(row.payload.state, "intact")]
      \in TreasureLine
  BY <1>1, <1>3 DEF TreasureLine, Default
<1> QED
  BY <1>1, <1>2, <1>4

\* Other rows stay as they are.
LEMMA NormalOther ==
  ASSUME NEW row, row.type \notin CreatureTypes \cup {"treasure"}
  PROVE  NormalRow(row) = row
  BY TypesApart DEF NormalRow

\* A row that is there stays there, keeps its type, and is left alone by
\* another save.
LEMMA NormalStable ==
  ASSUME NEW row \in Row, row.payload # None
  PROVE  /\ NormalRow(row) \in Row
         /\ NormalRow(row).type = row.type
         /\ NormalRow(row).payload # None
         /\ NormalRow(NormalRow(row)) = NormalRow(row)
<1> DEFINE n == NormalRow(row)
<1>1. CASE row.type \in CreatureTypes
  <2>1. /\ n = [type |-> row.type, payload |-> n.payload]
        /\ n.payload = [row.payload EXCEPT !.adjustment =
              IF row.type = "monster" THEN Default(row.payload.adjustment, "none") ELSE "none"]
        /\ n.payload \in MonsterEntry
    BY <1>1, NormalCreature
  <2>2. row.payload \in MonsterEntry
    BY <1>1, RowFields
  <2> HIDE DEF n
  <2>3. n.type = row.type /\ n.payload # None
    BY <2>1, PayloadsAreThere
  <2>4. n \in Row
    <3>1. n \in OfType(CreatureTypes, MonsterEntry)
      BY <1>1, <2>1 DEF OfType
    <3> QED
      BY <3>1 DEF Row
  <2>5. /\ NormalRow(n) = [type |-> n.type, payload |-> NormalRow(n).payload]
        /\ NormalRow(n).payload = [n.payload EXCEPT !.adjustment =
              IF n.type = "monster" THEN Default(n.payload.adjustment, "none") ELSE "none"]
    BY <1>1, <2>3, <2>4, NormalCreature
  <2>6. n.payload.adjustment =
          IF row.type = "monster" THEN Default(row.payload.adjustment, "none") ELSE "none"
    BY <2>1, <2>2 DEF MonsterEntry
  <2>7. (IF n.type = "monster" THEN Default(n.payload.adjustment, "none") ELSE "none")
          = n.payload.adjustment
    BY <2>3, <2>6 DEF Default
  <2>8. NormalRow(n).payload = n.payload
    <3> DEFINE p == n.payload
    <3>1. NormalRow(n).payload = [p EXCEPT !.adjustment = p.adjustment]
      BY <2>5, <2>7
    <3>2. p \in MonsterEntry
      BY <2>1
    <3> HIDE DEF p
    <3>3. [p EXCEPT !.adjustment = p.adjustment] = p
      BY <3>2 DEF MonsterEntry
    <3> QED
      BY <3>1, <3>3 DEF p
  <2> QED
    BY <2>1, <2>3, <2>4, <2>5, <2>8 DEF n
<1>2. CASE row.type = "treasure"
  <2>1. /\ n = [type |-> row.type, payload |-> n.payload]
        /\ n.payload = [row.payload EXCEPT
              !.sale_class = Default(row.payload.sale_class, "normal"),
              !.state = Default(row.payload.state, "intact")]
        /\ n.payload \in TreasureLine
    BY <1>2, NormalTreasure
  <2>2. row.payload \in TreasureLine
    BY <1>2, RowFields
  <2> HIDE DEF n
  <2>3. n.type = row.type /\ n.payload # None
    BY <2>1, PayloadsAreThere
  <2>4. n \in Row
    <3>1. n \in OfType({"treasure"}, TreasureLine)
      BY <1>2, <2>1 DEF OfType
    <3> QED
      BY <3>1 DEF Row
  <2>5. /\ NormalRow(n) = [type |-> n.type, payload |-> NormalRow(n).payload]
        /\ NormalRow(n).payload = [n.payload EXCEPT
              !.sale_class = Default(n.payload.sale_class, "normal"),
              !.state = Default(n.payload.state, "intact")]
    BY <1>2, <2>3, <2>4, NormalTreasure
  <2>6. /\ n.payload.sale_class = Default(row.payload.sale_class, "normal")
        /\ n.payload.state = Default(row.payload.state, "intact")
    BY <2>1, <2>2 DEF TreasureLine
  <2>7. /\ Default(n.payload.sale_class, "normal") = n.payload.sale_class
        /\ Default(n.payload.state, "intact") = n.payload.state
    BY <2>6 DEF Default
  <2>8. NormalRow(n).payload = n.payload
    <3> DEFINE p == n.payload
    <3>1. NormalRow(n).payload = [p EXCEPT !.sale_class = p.sale_class, !.state = p.state]
      BY <2>5, <2>7
    <3>2. p \in TreasureLine
      BY <2>1
    <3> HIDE DEF p
    <3>3. [p EXCEPT !.sale_class = p.sale_class, !.state = p.state] = p
      BY <3>2 DEF TreasureLine
    <3> QED
      BY <3>1, <3>3 DEF p
  <2> QED
    BY <2>1, <2>3, <2>4, <2>5, <2>8 DEF n
<1>3. CASE row.type \notin CreatureTypes \cup {"treasure"}
  <2>1. NormalRow(row) = row
    BY <1>3, NormalOther
  <2> QED
    BY <2>1
<1> QED
  BY <1>1, <1>2, <1>3

\* A saved row is as valid, and as finished, as the row that was sent; and a
\* saved treasure line is in one of the states.
LEMMA NormalValid ==
  ASSUME NEW row \in Row, ValidRow(row)
  PROVE  /\ ValidRow(NormalRow(row))
         /\ MissingOf(NormalRow(row)) = MissingOf(row)
         /\ row.type = "treasure" => NormalRow(row).payload.state \in States
<1> DEFINE n == NormalRow(row)
           p == row.payload
           q == n.payload
<1>1. row.type \in ContentTypes /\ p # None
  BY DEF ValidRow
<1>2. n.type = row.type /\ q # None
  BY <1>1, NormalStable
<1>3. CASE row.type \in CreatureTypes
  <2>1. q = [p EXCEPT !.adjustment =
               IF row.type = "monster" THEN Default(p.adjustment, "none") ELSE "none"]
    BY <1>1, <1>3, NormalCreature
  <2>2. p \in MonsterEntry
    BY <1>1, <1>3, RowFields
  <2>3. /\ q.ref = p.ref /\ q.count = p.count /\ q.loadout = p.loadout
        /\ q.adjustment =
             IF row.type = "monster" THEN Default(p.adjustment, "none") ELSE "none"
    BY <2>1, <2>2 DEF MonsterEntry
  <2>4. ValidCreature(row.type, p)
    BY <1>3 DEF ValidRow
  <2> HIDE DEF n, p, q
  <2>5. ValidCreature(row.type, q)
    BY <2>3, <2>4 DEF ValidCreature, Default, Adjustments
  <2>6. ValidRow(n)
    BY <1>1, <1>2, <1>3, <2>5, TypesApart DEF ValidRow, q
  <2>7. CreatureGaps(row.type, q) = CreatureGaps(row.type, p)
    BY <2>3 DEF CreatureGaps
  <2>8. MissingOf(n) = CreatureGaps(row.type, q) /\ MissingOf(row) = CreatureGaps(row.type, p)
    BY <1>1, <1>2, <1>3, TypesApart DEF MissingOf, p, q
  <2> QED
    BY <1>3, <2>6, <2>7, <2>8, TypesApart DEF n
<1>4. CASE row.type = "treasure"
  <2>1. q = [p EXCEPT !.sale_class = Default(p.sale_class, "normal"),
                      !.state = Default(p.state, "intact")]
    BY <1>1, <1>4, NormalTreasure
  <2>2. p \in TreasureLine
    BY <1>1, <1>4, RowFields
  <2>3. /\ q.ref = p.ref /\ q.qty = p.qty /\ q.identify_dc = p.identify_dc
        /\ q.value_tiers = p.value_tiers
        /\ q.sale_class = Default(p.sale_class, "normal")
        /\ q.state = Default(p.state, "intact")
    BY <2>1, <2>2 DEF TreasureLine
  <2>4. ValidTreasure(p)
    BY <1>4 DEF ValidRow
  <2> HIDE DEF n, p, q
  <2>5. ValidTreasure(q) /\ q.state \in States
    BY <2>3, <2>4 DEF ValidTreasure, Default, SaleClasses, States
  <2>6. ValidRow(n)
    BY <1>1, <1>2, <1>4, <2>5, TypesApart DEF ValidRow, q
  <2>7. TreasureGaps(q) = TreasureGaps(p)
    BY <2>3 DEF TreasureGaps
  <2>8. MissingOf(n) = TreasureGaps(q) /\ MissingOf(row) = TreasureGaps(p)
    BY <1>1, <1>2, <1>4, TypesApart DEF MissingOf, p, q
  <2> QED
    BY <1>4, <2>5, <2>6, <2>7, <2>8 DEF n, q
<1>5. CASE row.type \notin CreatureTypes \cup {"treasure"}
  <2>1. n = row
    BY <1>5, NormalOther
  <2> QED
    BY <1>5, <2>1
<1> QED
  BY <1>3, <1>4, <1>5

LEMMA RowsOf ==
  ASSUME NEW rows \in Seq(Row)
  PROVE  /\ Len(rows) \in Nat /\ DOMAIN rows = 1 .. Len(rows)
         /\ \A n \in DOMAIN rows : rows[n] \in Row
  BY LenProperties, ElementOfSeq

\* A list is saved row by row.
LEMMA SavedRows ==
  ASSUME NEW rows \in Seq(Row), \A n \in DOMAIN rows : rows[n].payload # None
  PROVE  /\ Saved(rows) \in Seq(Row)
         /\ Len(Saved(rows)) = Len(rows)
         /\ DOMAIN Saved(rows) = DOMAIN rows
         /\ \A n \in DOMAIN rows : Saved(rows)[n] = NormalRow(rows[n])
         /\ \A n \in DOMAIN rows : Saved(rows)[n].payload # None
         /\ Saved(Saved(rows)) = Saved(rows)
<1>1. /\ Len(rows) \in Nat /\ DOMAIN rows = 1 .. Len(rows)
      /\ \A n \in DOMAIN rows : rows[n] \in Row
  BY RowsOf
<1>2. \A n \in DOMAIN rows : /\ NormalRow(rows[n]) \in Row
                             /\ NormalRow(rows[n]).payload # None
                             /\ NormalRow(NormalRow(rows[n])) = NormalRow(rows[n])
  BY <1>1, NormalStable
<1>3. /\ DOMAIN Saved(rows) = DOMAIN rows
      /\ \A n \in DOMAIN rows : Saved(rows)[n] = NormalRow(rows[n])
  BY DEF Saved
<1>4. Saved(rows) \in [1 .. Len(rows) -> Row]
  BY <1>1, <1>2 DEF Saved
<1>5. Saved(rows) \in Seq(Row)
  BY <1>1, <1>4, SeqDef
<1>6. Len(Saved(rows)) = Len(rows)
  BY <1>1, <1>4, <1>5, LenProperties
<1>7. Saved(Saved(rows)) = Saved(rows)
  BY <1>2, <1>3 DEF Saved
<1> QED
  BY <1>2, <1>3, <1>5, <1>6, <1>7

-----------------------------------------------------------------------------
(* Gaps, and what is pushed.                                               *)

\* The gaps reported are those of the rows that lack something.
LEMMA GapsOf ==
  ASSUME NEW rows \in Seq(Row)
  PROVE  LET gapped == {n \in DOMAIN rows : MissingOf(rows[n]) # {}}
             gaps   == IncompleteContent(rows)
         IN  /\ \A g \in DOMAIN gaps : \E n \in gapped :
                  gaps[g] = [row |-> n, missing |-> MissingOf(rows[n])]
             /\ \A n \in gapped : \E g \in DOMAIN gaps :
                  gaps[g] = [row |-> n, missing |-> MissingOf(rows[n])]
             /\ gaps = << >> <=> gapped = {}
<1> DEFINE gapped == {n \in DOMAIN rows : MissingOf(rows[n]) # {}}
           reports == [n \in DOMAIN rows |-> [row |-> n, missing |-> MissingOf(rows[n])]]
           T == {reports[n] : n \in gapped}
<1>1. Len(rows) \in Nat /\ DOMAIN rows = 1 .. Len(rows)
  BY RowsOf
<1>2. gapped \in SUBSET Nat /\ IsFiniteSet(gapped)
  <2>1. 1 \in Int /\ Len(rows) \in Int /\ gapped \in SUBSET (1 .. Len(rows))
    BY <1>1
  <2>2. IsFiniteSet(1 .. Len(rows))
    BY <2>1, FS_Interval
  <2>3. IsFiniteSet(gapped)
    <3> HIDE DEF gapped
    <3> QED
      BY <2>1, <2>2, FS_Subset
  <2> QED
    BY <1>1, <2>3
<1>3. \A n \in gapped : reports[n] = [row |-> n, missing |-> MissingOf(rows[n])]
  OBVIOUS
<1>4. IncompleteContent(rows) = Picked(reports, gapped)
  BY DEF IncompleteContent
<1>5. \A n \in gapped : reports[n] \in T
  OBVIOUS
<1> HIDE DEF T, reports, gapped
<1>6. /\ \A g \in DOMAIN Picked(reports, gapped) :
           \E n \in gapped : Picked(reports, gapped)[g] = reports[n]
      /\ \A n \in gapped :
           \E g \in DOMAIN Picked(reports, gapped) : Picked(reports, gapped)[g] = reports[n]
      /\ Picked(reports, gapped) = << >> <=> gapped = {}
  BY <1>2, <1>5, PickedRows
<1>7. /\ \A g \in DOMAIN IncompleteContent(rows) : \E n \in gapped :
           IncompleteContent(rows)[g] = [row |-> n, missing |-> MissingOf(rows[n])]
      /\ \A n \in gapped : \E g \in DOMAIN IncompleteContent(rows) :
           IncompleteContent(rows)[g] = [row |-> n, missing |-> MissingOf(rows[n])]
      /\ IncompleteContent(rows) = << >> <=> gapped = {}
  <2> DEFINE s == Picked(reports, gapped)
  <2>1. /\ \A g \in DOMAIN s : \E n \in gapped : s[g] = reports[n]
        /\ \A n \in gapped : \E g \in DOMAIN s : s[g] = reports[n]
        /\ s = << >> <=> gapped = {}
    BY <1>6
  <2> HIDE DEF s
  <2>2. IncompleteContent(rows) = s
    BY <1>4 DEF s
  <2>3. ASSUME NEW g \in DOMAIN s
        PROVE  \E n \in gapped : s[g] = [row |-> n, missing |-> MissingOf(rows[n])]
    <3>1. PICK n \in gapped : s[g] = reports[n]
      BY <2>1
    <3>2. s[g] = [row |-> n, missing |-> MissingOf(rows[n])]
      BY <1>3, <3>1
    <3> QED
      BY <3>2
  <2>4. ASSUME NEW n \in gapped
        PROVE  \E g \in DOMAIN s : s[g] = [row |-> n, missing |-> MissingOf(rows[n])]
    <3>1. PICK g \in DOMAIN s : s[g] = reports[n]
      BY <2>1
    <3>2. s[g] = [row |-> n, missing |-> MissingOf(rows[n])]
      BY <1>3, <3>1
    <3> QED
      BY <3>2
  <2> QED
    BY <2>1, <2>2, <2>3, <2>4
<1> QED
  BY <1>7 DEF gapped

\* If nothing is left to fill in in a treasure line, the push does not filter
\* it unless the GM pruned it.
LEMMA FinishedIsPushed ==
  ASSUME NEW row, row.payload # None, MissingOf(row) = {},
         row.type = "treasure" => row.payload.state \in States /\ row.payload.qty \in Int
  PROVE  Pushed(row) <=> Intact(row)
<1>1. CASE row.type = "treasure"
  <2>1. ~RefIsEmpty(row.payload.ref) /\ ~(row.payload.qty < 1)
    BY <1>1, TypesApart DEF MissingOf, TreasureGaps, If
  <2>2. row.payload.qty >= 1
    BY <1>1, <2>1
  <2> QED
    BY <1>1, <2>1, <2>2 DEF Pushed, Intact, States
<1>2. CASE row.type # "treasure"
  BY <1>2 DEF Pushed, Intact
<1> QED
  BY <1>1, <1>2

\* What is stored of a list that Validate accepts, row by row.
LEMMA AcceptedRows ==
  ASSUME NEW rows \in Seq(Row), Valid(rows)
  PROVE  /\ Saved(rows) \in Seq(Row)
         /\ \A n \in DOMAIN Saved(rows) :
              /\ Saved(rows)[n] \in Row /\ Saved(rows)[n].payload # None
              /\ ValidRow(Saved(rows)[n])
              /\ Saved(rows)[n].type = "treasure" => Saved(rows)[n].payload.state \in States
<1>1. \A n \in DOMAIN rows : /\ rows[n] \in Row /\ rows[n].payload # None
                             /\ ValidRow(rows[n])
  BY RowsOf DEF Valid, ValidRow
<1>2. /\ Saved(rows) \in Seq(Row)
      /\ DOMAIN Saved(rows) = DOMAIN rows
      /\ \A n \in DOMAIN rows : Saved(rows)[n] = NormalRow(rows[n])
  BY <1>1, SavedRows
<1> QED
  BY <1>1, <1>2, NormalStable, NormalValid

\* If a stored list has no gaps, its whole loot is pushed.
LEMMA FinishedIsWhole ==
  ASSUME NEW rows \in Seq(Row), Valid(rows), IncompleteContent(Saved(rows)) = << >>
  PROVE  PayloadItems(Saved(rows)) = LootOf(Saved(rows))
<1> DEFINE list == Saved(rows)
<1>1. /\ list \in Seq(Row)
      /\ \A n \in DOMAIN list :
           /\ list[n] \in Row /\ list[n].payload # None
           /\ list[n].type = "treasure" => list[n].payload.state \in States
  BY AcceptedRows
<1>2. IncompleteContent(list) = << >>
  OBVIOUS
<1> HIDE DEF list
<1>3. \A n \in DOMAIN list : MissingOf(list[n]) = {}
  BY <1>1, <1>2, GapsOf
<1>4. ASSUME NEW n \in DOMAIN list, list[n].type = "treasure"
      PROVE  list[n].payload.qty \in Int
  BY <1>1, <1>4, RowFields DEF TreasureLine
<1>5. \A n \in DOMAIN list : Pushed(list[n]) <=> Intact(list[n])
  BY <1>1, <1>3, <1>4, FinishedIsPushed
<1>6. {n \in DOMAIN list : Pushed(list[n])} = {n \in DOMAIN list : Intact(list[n])}
  BY <1>5
<1>7. PayloadItems(list) = LootOf(list)
  BY <1>6 DEF PayloadItems, LootOf
<1> QED
  BY <1>7 DEF list

\* In two's complement a sum that fits is the sum.
LEMMA SmallPlus ==
  ASSUME NEW a \in Nat, NEW b \in Nat, 2 * (a + b) < Word
  PROVE  Plus(a, b) = a + b
<1>1. a + b \in Nat /\ a + b < Word /\ Word \in Nat
  BY WordAssumption
<1>2. (a + b) % Word = a + b
  <2> DEFINE s == a + b
  <2>1. s \in Nat /\ s < Word
    BY <1>1
  <2> HIDE DEF s
  <2>2. s % Word = s
    BY <1>1, <2>1, SmallRemainder
  <2> QED
    BY <2>2 DEF s
<1>3. ~(2 * (a + b) >= Word)
  BY <1>1
<1> QED
  BY <1>2, <1>3 DEF Plus

\* Of valid rows whose coins add up to a number that fits, the push makes that
\* number: no sum on the way to it is larger.
LEMMA ValidCoinsAddUp ==
  ASSUME NEW rows \in Seq(Row), \A n \in DOMAIN rows : ValidRow(rows[n]),
         NEW c \in Coins, 2 * Total(rows, c) < Word
  PROVE  PayloadCoins(rows)[c] = Total(rows, c)
<1> DEFINE m == Len(rows)
           a == [n \in 1 .. m |-> Amount(rows[n], c)]
           IsTotal(f) == f = [n \in 0 .. m |-> IF n = 0 THEN 0
                                               ELSE f[n - 1] + Amount(rows[n], c)]
           IsSum(f) == f = [n \in 0 .. m |->
                              IF n = 0 THEN 0
                              ELSE IF Drops(rows[n]) THEN Plus(f[n - 1], rows[n].payload[c])
                              ELSE f[n - 1]]
           total == CHOOSE f : IsTotal(f)
           sum == CHOOSE f : IsSum(f)
<1>1. m \in Nat /\ DOMAIN rows = 1 .. m /\ \A n \in 1 .. m : rows[n] \in Row
  BY RowsOf
<1>2. Total(rows, c) = total[m] /\ PayloadCoins(rows)[c] = sum[m]
  BY DEF Total, PayloadCoins
<1>3. ASSUME NEW n \in 1 .. m
      PROVE  /\ Amount(rows[n], c) \in Nat
             /\ Drops(rows[n]) => Amount(rows[n], c) = rows[n].payload[c]
             /\ ~Drops(rows[n]) => Amount(rows[n], c) = 0
  <2>1. rows[n] \in Row /\ ValidRow(rows[n]) /\ rows[n].payload # None
    BY <1>1 DEF ValidRow
  <2>2. CASE rows[n].type = "coin"
    <3>1. rows[n].payload \in Currency /\ rows[n].payload[c] >= 0
      BY <2>1, <2>2, RowFields DEF ValidRow
    <3> QED
      BY <2>1, <2>2, <3>1 DEF Currency, Amount, Drops
  <2>3. CASE rows[n].type # "coin"
    BY <2>3 DEF Amount, Drops
  <2> QED
    BY <2>2, <2>3
<1>4. PICK f \in [0 .. m -> Nat] :
        /\ f[0] = 0
        /\ \A n \in 1 .. m : f[n] = f[n - 1] + Amount(rows[n], c)
        /\ \A n \in 0 .. m : f[n] <= f[m]
  <2>1. a \in [1 .. m -> Nat] /\ \A n \in 1 .. m : a[n] = Amount(rows[n], c)
    BY <1>3
  <2> HIDE DEF a, m
  <2>2. \E f \in [0 .. m -> Nat] :
           /\ f[0] = 0
           /\ \A n \in 1 .. m : f[n] = f[n - 1] + a[n]
           /\ \A n \in 0 .. m : f[n] <= f[m]
    BY <1>1, <2>1, RunningTotal
  <2> QED
    BY <2>1, <2>2
<1> HIDE DEF a
<1>5. f = [n \in 0 .. m |-> f[n]] /\ 0 \in 0 .. m /\ m \in 0 .. m
      /\ \A n \in 0 .. m : n # 0 => n \in 1 .. m
  BY <1>1
<1>6. IsTotal(total)
  <2>1. \A n \in 0 .. m : f[n] = IF n = 0 THEN 0 ELSE f[n - 1] + Amount(rows[n], c)
    BY <1>4, <1>5
  <2>2. IsTotal(f)
    <3> HIDE DEF m
    <3> QED
      BY <1>5, <2>1
  <2> HIDE DEF IsTotal
  <2> QED
    BY <2>2
<1>7. total[m] = f[m]
  <2> DEFINE S == {n \in Nat : n <= m => total[n] = f[n]}
  <2>1. /\ total[0] = 0
        /\ \A n \in 1 .. m : total[n] = total[n - 1] + Amount(rows[n], c)
    <3> HIDE DEF total
    <3>1. \A n \in 0 .. m : total[n] = IF n = 0 THEN 0 ELSE total[n - 1] + Amount(rows[n], c)
      <4> HIDE DEF m
      <4> QED
        BY <1>6
    <3>2. \A n \in 1 .. m : n \in 0 .. m /\ n # 0
      BY <1>1
    <3> QED
      BY <1>5, <3>1, <3>2
  <2> HIDE DEF total, m
  <2>2. 0 \in S
    BY <1>4, <2>1
  <2>3. ASSUME NEW n \in S PROVE n + 1 \in S
    <3>1. CASE n + 1 <= m
      <4>1. n + 1 \in 1 .. m /\ (n + 1) - 1 = n /\ n <= m
        BY <1>1, <3>1
      <4> QED
        BY <1>4, <2>1, <4>1
    <3> QED
      BY <3>1
  <2>4. S \in SUBSET Nat
    OBVIOUS
  <2> HIDE DEF S
  <2>5. S = Nat
    BY <2>2, <2>3, <2>4, Counting
  <2> QED
    BY <1>1, <2>5 DEF S
<1>8. ASSUME NEW n \in 1 .. m, Drops(rows[n])
      PROVE  f[n] = Plus(f[n - 1], rows[n].payload[c])
  <2>1. n - 1 \in 0 .. m /\ n \in 0 .. m /\ m \in 0 .. m
    BY <1>1
  <2>2. /\ f[n - 1] \in Nat /\ f[n] \in Nat /\ f[m] \in Nat
        /\ Amount(rows[n], c) \in Nat
        /\ f[n] = f[n - 1] + Amount(rows[n], c) /\ f[n] <= f[m]
        /\ 2 * f[m] < Word
    BY <1>2, <1>3, <1>4, <1>7, <2>1
  <2>3. Amount(rows[n], c) = rows[n].payload[c]
    BY <1>3, <1>8
  <2>4. 2 * (f[n - 1] + Amount(rows[n], c)) < Word
    BY <2>2, WordAssumption
  <2> QED
    BY <2>2, <2>3, <2>4, SmallPlus
<1>9. ASSUME NEW n \in 1 .. m, ~Drops(rows[n])
      PROVE  f[n] = f[n - 1]
  <2>1. n - 1 \in 0 .. m
    BY <1>1
  <2> QED
    BY <1>3, <1>4, <1>9, <2>1
<1>10. IsSum(sum)
  <2>1. \A n \in 0 .. m : f[n] = IF n = 0 THEN 0
                                 ELSE IF Drops(rows[n]) THEN Plus(f[n - 1], rows[n].payload[c])
                                 ELSE f[n - 1]
    BY <1>4, <1>5, <1>8, <1>9
  <2>2. IsSum(f)
    <3> HIDE DEF m
    <3> QED
      BY <1>5, <2>1
  <2> HIDE DEF IsSum
  <2> QED
    BY <2>2
<1>11. sum[m] = f[m]
  <2> DEFINE S == {n \in Nat : n <= m => sum[n] = f[n]}
  <2>1. /\ sum[0] = 0
        /\ \A n \in 1 .. m : sum[n] = IF Drops(rows[n])
                                      THEN Plus(sum[n - 1], rows[n].payload[c])
                                      ELSE sum[n - 1]
    <3> HIDE DEF sum
    <3>1. \A n \in 0 .. m : sum[n] = IF n = 0 THEN 0
                                     ELSE IF Drops(rows[n])
                                          THEN Plus(sum[n - 1], rows[n].payload[c])
                                     ELSE sum[n - 1]
      <4> HIDE DEF m
      <4> QED
        BY <1>10
    <3>2. \A n \in 1 .. m : n \in 0 .. m /\ n # 0
      BY <1>1
    <3> QED
      BY <1>5, <3>1, <3>2
  <2> HIDE DEF sum, m
  <2>2. 0 \in S
    BY <1>4, <2>1
  <2>3. ASSUME NEW n \in S PROVE n + 1 \in S
    <3>1. CASE n + 1 <= m
      <4>1. n + 1 \in 1 .. m /\ (n + 1) - 1 = n /\ n <= m
        BY <1>1, <3>1
      <4> QED
        BY <1>8, <1>9, <2>1, <4>1
    <3> QED
      BY <3>1
  <2>4. S \in SUBSET Nat
    OBVIOUS
  <2> HIDE DEF S
  <2>5. S = Nat
    BY <2>2, <2>3, <2>4, Counting
  <2> QED
    BY <1>1, <2>5 DEF S
<1> HIDE DEF sum, total, m
<1> QED
  BY <1>2, <1>7, <1>11
=============================================================================
