-------------------------- MODULE DiagMasterProofs --------------------------
(***************************************************************************)
(* Theorems about DiagMaster for any updates, period and expiry.           *)
(*                                                                         *)
(* Lists are filtered by index (Nth, Picked), so that what a filter does   *)
(* follows from facts about finite sets of integers, without induction.    *)
(***************************************************************************)
EXTENDS DiagMaster, SyncGraphProofs, SequenceTheorems, FiniteSetTheorems

------------------------------------------------------------------------------
(* Finite sets of integers. *)

\* A subset that lacks an element has fewer.
LEMMA FewerElements ==
  ASSUME NEW S, IsFiniteSet(S), NEW T \in SUBSET S, NEW x \in S, x \notin T
  PROVE  /\ IsFiniteSet(T)
         /\ Cardinality(T) \in Nat
         /\ Cardinality(S) \in Nat
         /\ Cardinality(T) < Cardinality(S)
<1>1. IsFiniteSet(T) /\ Cardinality(T) <= Cardinality(S)
  BY FS_Subset
<1>2. Cardinality(S) # Cardinality(T)
  BY FS_Subset
<1>3. Cardinality(T) \in Nat /\ Cardinality(S) \in Nat
  BY <1>1, FS_CardinalityType
<1> QED BY <1>1, <1>2, <1>3

\* The rank of an element of I, which Nth inverts.
Rank(I, i) == Cardinality({j \in I : j <= i})

\* A later index has a greater rank.
LEMMA RankIncreases ==
  ASSUME NEW I \in SUBSET Int, IsFiniteSet(I),
         NEW i \in I, NEW j \in I, i < j
  PROVE  Rank(I, i) < Rank(I, j)
<1> DEFINE upTo(n) == {h \in I : h <= n}
<1>1. j \in upTo(j) /\ j \notin upTo(i)
  OBVIOUS
<1>2. upTo(i) \subseteq upTo(j)
  <2> SUFFICES ASSUME NEW h \in I, h <= i PROVE h <= j
    OBVIOUS
  <2>1. h \in Int /\ i \in Int /\ j \in Int
    OBVIOUS
  <2> QED BY <2>1
<1>3. IsFiniteSet(upTo(j))
  BY FS_Subset
<1> HIDE DEF upTo
<1>4. Cardinality(upTo(i)) < Cardinality(upTo(j))
  BY <1>1, <1>2, <1>3, FewerElements
<1> QED BY <1>4 DEF Rank, upTo

\* Ranks count the indices from one.
LEMMA RankType ==
  ASSUME NEW I \in SUBSET Int, IsFiniteSet(I), NEW i \in I
  PROVE  Rank(I, i) \in 1..Cardinality(I)
<1> DEFINE upTo == {h \in I : h <= i}
<1>1. IsFiniteSet(upTo) /\ i \in upTo /\ upTo \subseteq I
  BY FS_Subset
<1>2. /\ Cardinality(upTo) \in Nat
      /\ Cardinality(upTo) <= Cardinality(I)
      /\ Cardinality(upTo) # 0
      /\ Cardinality(I) \in Nat
  BY <1>1, FS_Subset, FS_CardinalityType, FS_EmptySet
<1> QED BY <1>2 DEF Rank

\* Each k has one element of that rank: the ranks are as many as the elements.
LEMMA NthHasRank ==
  ASSUME NEW I \in SUBSET Int, IsFiniteSet(I), NEW k \in 1..Cardinality(I)
  PROVE  Nth(I, k) \in I /\ Rank(I, Nth(I, k)) = k
<1> DEFINE f == [i \in I |-> Rank(I, i)]
<1>1. f \in [I -> 1..Cardinality(I)]
  BY RankType
<1>2. \A i, j \in I : f[i] = f[j] => i = j
  <2> SUFFICES ASSUME NEW i \in I, NEW j \in I,
                      Rank(I, i) = Rank(I, j), i # j
               PROVE  FALSE
    BY Zenon
  <2>1. Rank(I, i) \in Int /\ Rank(I, j) \in Int
    BY RankType
  <2>2. CASE i < j
    BY <2>1, <2>2, RankIncreases
  <2>3. CASE j < i
    BY <2>1, <2>3, RankIncreases
  <2> QED BY <2>2, <2>3
<1>3. f \in Injection(I, 1..Cardinality(I))
  BY <1>1, <1>2 DEF Injection, IsInjective
<1>4. /\ Cardinality(I) \in Nat
      /\ IsFiniteSet(1..Cardinality(I))
      /\ Cardinality(1..Cardinality(I)) = Cardinality(I)
  BY FS_CardinalityType, FS_Interval
<1> HIDE DEF f
<1>5. f \in Surjection(I, 1..Cardinality(I))
  BY <1>3, <1>4, FS_Injection
<1>6. \E i \in I : f[i] = k
  BY <1>5 DEF Surjection
<1> QED BY <1>6 DEF Nth, Rank, f

\* Nth enumerates a finite set of integers in ascending order.
LEMMA NthEnumerates ==
  ASSUME NEW I \in SUBSET Int, IsFiniteSet(I)
  PROVE  /\ Cardinality(I) \in Nat
         /\ \A k \in 1..Cardinality(I) : Nth(I, k) \in I
         /\ \A i \in I : \E k \in 1..Cardinality(I) : Nth(I, k) = i
         /\ \A k, m \in 1..Cardinality(I) : k < m <=> Nth(I, k) < Nth(I, m)
<1>1. Cardinality(I) \in Nat
  BY FS_CardinalityType
<1>2. \A k \in 1..Cardinality(I) : Nth(I, k) \in I /\ Rank(I, Nth(I, k)) = k
  BY NthHasRank
<1>3. \A i, j \in I : i < j => Rank(I, i) < Rank(I, j)
  BY RankIncreases
<1>4. \A i \in I : Rank(I, i) \in 1..Cardinality(I)
  BY RankType
<1>5. ASSUME NEW i \in I
      PROVE  \E k \in 1..Cardinality(I) : Nth(I, k) = i
  <2> DEFINE n == Nth(I, Rank(I, i))
  <2>1. n \in I /\ Rank(I, n) = Rank(I, i)
    BY <1>2, <1>4
  <2> HIDE DEF n
  <2>2. Rank(I, i) \in Int /\ n \in Int /\ i \in Int
    BY <1>4, <2>1
  <2>3. ~(n < i) /\ ~(i < n)
    BY <1>3, <2>1, <2>2
  <2>4. n = Nth(I, Rank(I, i)) /\ n = i
    BY <2>2, <2>3 DEF n
  <2> QED BY <1>4, <2>4
<1>6. ASSUME NEW k \in 1..Cardinality(I), NEW m \in 1..Cardinality(I)
      PROVE  k < m <=> Nth(I, k) < Nth(I, m)
  <2> DEFINE i == Nth(I, k)
             j == Nth(I, m)
  <2>1. i \in I /\ j \in I /\ Rank(I, i) = k /\ Rank(I, j) = m
    BY <1>2
  <2> HIDE DEF i, j
  <2>2. i \in Int /\ j \in Int /\ k \in Int /\ m \in Int
    BY <2>1
  <2>3. (i < j => k < m) /\ (j < i => m < k)
    BY <1>3, <2>1
  <2>4. i < j <=> k < m
    BY <2>1, <2>2, <2>3
  <2> QED BY <2>4 DEF i, j
<1> QED BY <1>1, <1>2, <1>5, <1>6

------------------------------------------------------------------------------
(* Lists and their filters. *)

LEMMA IndexSets ==
  ASSUME NEW S, NEW s \in Seq(S), NEW I \in SUBSET DOMAIN s
  PROVE  I \in SUBSET Int /\ IsFiniteSet(I)
<1>1. DOMAIN s = 1..Len(s) /\ Len(s) \in Nat
  OBVIOUS
<1>2. IsFiniteSet(1..Len(s))
  BY <1>1, FS_Interval
<1> QED BY <1>1, <1>2, FS_Subset

\* Picked enumerates the elements at I, in their order.
LEMMA PickedType ==
  ASSUME NEW S, NEW I \in SUBSET Int, IsFiniteSet(I),
         NEW s, \A i \in I : s[i] \in S
  PROVE  /\ Picked(s, I) \in Seq(S)
         /\ Len(Picked(s, I)) = Cardinality(I)
         /\ DOMAIN Picked(s, I) = 1..Cardinality(I)
         /\ \A k \in 1..Cardinality(I) : Picked(s, I)[k] = s[Nth(I, k)]
<1>1. /\ Cardinality(I) \in Nat
      /\ \A k \in 1..Cardinality(I) : s[Nth(I, k)] \in S
  BY NthEnumerates
<1> QED BY <1>1 DEF Picked

\* The indices of the elements in A.
At(s, A) == {i \in DOMAIN s : s[i] \in A}

\* The last element in A, as a set of at most one.
LatestOf(s, A) ==
  {s[i] : i \in {j \in At(s, A) : \A n \in At(s, A) : n <= j}}

\* A filter that keeps all of A keeps the last of them, and their number.
LEMMA LatestPicked ==
  ASSUME NEW S, NEW s \in Seq(S), NEW I \in SUBSET DOMAIN s,
         NEW A, At(s, A) \subseteq I
  PROVE  LatestOf(Picked(s, I), A) = LatestOf(s, A)
<1> DEFINE t == Picked(s, I)
<1>1. I \in SUBSET Int /\ IsFiniteSet(I)
  BY IndexSets
<1>2. /\ DOMAIN t = 1..Cardinality(I)
      /\ \A k \in DOMAIN t : t[k] = s[Nth(I, k)]
  BY <1>1, PickedType
<1> HIDE DEF t
<1>3. /\ \A k \in DOMAIN t : Nth(I, k) \in I
      /\ \A i \in I : \E k \in DOMAIN t : Nth(I, k) = i
      /\ \A k, m \in DOMAIN t : k < m <=> Nth(I, k) < Nth(I, m)
      /\ Cardinality(I) \in Nat
  BY <1>1, <1>2, NthEnumerates
<1>4. \A k, m \in DOMAIN t : k <= m <=> Nth(I, k) <= Nth(I, m)
  <2> SUFFICES ASSUME NEW k \in DOMAIN t, NEW m \in DOMAIN t
               PROVE  k <= m <=> Nth(I, k) <= Nth(I, m)
    OBVIOUS
  <2>1. k \in Int /\ m \in Int /\ Nth(I, k) \in Int /\ Nth(I, m) \in Int
    BY <1>1, <1>2, <1>3
  <2>2. m < k <=> Nth(I, m) < Nth(I, k)
    BY <1>3
  <2> QED BY <2>1, <2>2
<1>5. \A k \in DOMAIN t : k \in At(t, A) <=> Nth(I, k) \in At(s, A)
  BY <1>2, <1>3 DEF At
<1>6. ASSUME NEW i \in At(s, A), \A n \in At(s, A) : n <= i
      PROVE  s[i] \in LatestOf(t, A)
  <2>1. PICK k \in DOMAIN t : Nth(I, k) = i
    BY <1>3
  <2>2. k \in At(t, A) /\ t[k] = s[i]
    BY <1>2, <1>5, <2>1
  <2>3. \A m \in At(t, A) : m <= k
    BY <1>4, <1>5, <1>6, <2>1 DEF At
  <2> QED BY <2>2, <2>3 DEF LatestOf
<1>7. ASSUME NEW k \in At(t, A), \A m \in At(t, A) : m <= k
      PROVE  t[k] \in LatestOf(s, A)
  <2>1. Nth(I, k) \in At(s, A) /\ t[k] = s[Nth(I, k)] /\ k \in DOMAIN t
    BY <1>2, <1>5 DEF At
  <2>2. ASSUME NEW n \in At(s, A) PROVE n <= Nth(I, k)
    <3>1. PICK m \in DOMAIN t : Nth(I, m) = n
      BY <1>3
    <3> QED BY <1>4, <1>5, <1>7, <2>1, <3>1
  <2> QED BY <2>1, <2>2 DEF LatestOf
<1> QED BY <1>6, <1>7 DEF LatestOf, t

\* Leaving entries out does not change the number of those of a kind that are
\* all kept.
LEMMA CountPicked ==
  ASSUME NEW S, NEW s \in Seq(S), NEW I \in SUBSET DOMAIN s,
         NEW A, At(s, A) \subseteq I
  PROVE  Cardinality(At(Picked(s, I), A)) = Cardinality(At(s, A))
<1> DEFINE t == Picked(s, I)
           f == [k \in At(t, A) |-> Nth(I, k)]
<1>1. I \in SUBSET Int /\ IsFiniteSet(I) /\ s \in [DOMAIN s -> S]
  BY IndexSets
<1>2. /\ DOMAIN t = 1..Cardinality(I)
      /\ \A k \in DOMAIN t : t[k] = s[Nth(I, k)]
      /\ t \in Seq(S)
  BY <1>1, PickedType
<1> HIDE DEF t
<1>3. /\ \A k \in DOMAIN t : Nth(I, k) \in I
      /\ \A i \in I : \E k \in DOMAIN t : Nth(I, k) = i
      /\ \A k, m \in DOMAIN t : k < m <=> Nth(I, k) < Nth(I, m)
      /\ Cardinality(I) \in Nat
  BY <1>1, <1>2, NthEnumerates
<1>4. \A k \in DOMAIN t : k \in At(t, A) <=> Nth(I, k) \in At(s, A)
  BY <1>2, <1>3 DEF At
<1>5. f \in [At(t, A) -> At(s, A)]
  BY <1>4 DEF At
<1>6. \A k, m \in At(t, A) : f[k] = f[m] => k = m
  <2> SUFFICES ASSUME NEW k \in At(t, A), NEW m \in At(t, A),
                      Nth(I, k) = Nth(I, m)
               PROVE  k = m
    OBVIOUS
  <2>1. /\ k \in DOMAIN t /\ m \in DOMAIN t
        /\ k \in Int /\ m \in Int
        /\ Nth(I, k) \in Int
    BY <1>1, <1>2, <1>3 DEF At
  <2> QED BY <1>3, <2>1
<1>7. \A i \in At(s, A) : \E k \in At(t, A) : f[k] = i
  BY <1>3, <1>4
<1>8. f \in Bijection(At(t, A), At(s, A))
  BY <1>5, <1>6, <1>7 DEF Bijection, Injection, Surjection, IsInjective
<1>9. IsFiniteSet(At(t, A))
  BY <1>2, IndexSets DEF At
<1> QED BY <1>8, <1>9, FS_Bijection DEF ExistsBijection, t

\* In a concatenation, A may be in one part only.
LEMMA Concatenated ==
  ASSUME NEW S, NEW s \in Seq(S), NEW t \in Seq(S), NEW A
  PROVE  /\ s \o t \in Seq(S)
         /\ At(s \o t, A) = At(s, A) \cup {Len(s) + j : j \in At(t, A)}
         /\ \A i \in DOMAIN s : i \in DOMAIN (s \o t) /\ (s \o t)[i] = s[i]
         /\ \A j \in DOMAIN t : /\ Len(s) + j \in DOMAIN (s \o t)
                                /\ (s \o t)[Len(s) + j] = t[j]
         /\ Len(s) \in Nat
<1> DEFINE st == s \o t
<1>1. /\ st \in Seq(S)
      /\ Len(s) \in Nat /\ Len(t) \in Nat
      /\ Len(st) = Len(s) + Len(t)
      /\ DOMAIN s = 1..Len(s) /\ DOMAIN t = 1..Len(t)
      /\ DOMAIN st = 1..(Len(s) + Len(t))
      /\ \A i \in 1..(Len(s) + Len(t)) :
           st[i] = IF i <= Len(s) THEN s[i] ELSE t[i - Len(s)]
  BY ConcatProperties
<1> HIDE DEF st
<1>2. \A i \in DOMAIN s : i \in DOMAIN st /\ st[i] = s[i]
  BY <1>1
<1>3. \A j \in DOMAIN t : Len(s) + j \in DOMAIN st /\ st[Len(s) + j] = t[j]
  <2> SUFFICES ASSUME NEW j \in 1..Len(t)
               PROVE  Len(s) + j \in DOMAIN st /\ st[Len(s) + j] = t[j]
    BY <1>1
  <2>1. /\ Len(s) + j \in 1..(Len(s) + Len(t))
        /\ ~(Len(s) + j <= Len(s))
        /\ (Len(s) + j) - Len(s) = j
    BY <1>1
  <2> QED BY <1>1, <2>1
<1>4. \A i \in DOMAIN st :
        i \in DOMAIN s \/ \E j \in DOMAIN t : i = Len(s) + j
  <2> SUFFICES ASSUME NEW i \in 1..(Len(s) + Len(t)), ~(i <= Len(s))
               PROVE  \E j \in DOMAIN t : i = Len(s) + j
    BY <1>1
  <2>1. i - Len(s) \in 1..Len(t) /\ i = Len(s) + (i - Len(s))
    BY <1>1
  <2> QED BY <1>1, <2>1
<1>5. At(st, A) = At(s, A) \cup {Len(s) + j : j \in At(t, A)}
  BY <1>2, <1>3, <1>4 DEF At
<1> QED BY <1>1, <1>2, <1>3, <1>5 DEF st

\* The latest entry of a kind, if only one of two lists has any of it.
LEMMA LatestConcat ==
  ASSUME NEW S, NEW s \in Seq(S), NEW t \in Seq(S), NEW A
  PROVE  /\ At(t, A) = {} => LatestOf(s \o t, A) = LatestOf(s, A)
         /\ At(s, A) = {} => LatestOf(s \o t, A) = LatestOf(t, A)
<1> DEFINE st == s \o t
<1>1. /\ At(st, A) = At(s, A) \cup {Len(s) + j : j \in At(t, A)}
      /\ \A i \in DOMAIN s : st[i] = s[i]
      /\ \A j \in DOMAIN t : st[Len(s) + j] = t[j]
      /\ Len(s) \in Nat
  BY Concatenated
<1> HIDE DEF st
<1>2. ASSUME At(t, A) = {} PROVE LatestOf(st, A) = LatestOf(s, A)
  BY <1>1, <1>2 DEF LatestOf, At
<1>3. ASSUME At(s, A) = {} PROVE LatestOf(st, A) = LatestOf(t, A)
  <2>1. At(st, A) = {Len(s) + j : j \in At(t, A)}
    BY <1>1, <1>3
  <2>2. \A j, m \in At(t, A) : Len(s) + j <= Len(s) + m <=> j <= m
    <3> SUFFICES ASSUME NEW j \in At(t, A), NEW m \in At(t, A)
                 PROVE  Len(s) + j <= Len(s) + m <=> j <= m
      OBVIOUS
    <3>1. j \in Int /\ m \in Int
      BY DEF At
    <3> QED BY <1>1, <3>1
  <2>3. \A j \in At(t, A) : st[Len(s) + j] = t[j]
    BY <1>1 DEF At
  <2> QED BY <2>1, <2>2, <2>3 DEF LatestOf
<1> QED BY <1>2, <1>3 DEF st

\* The number of entries of a kind, if only one of two lists has any of it.
LEMMA CountConcat ==
  ASSUME NEW S, NEW s \in Seq(S), NEW t \in Seq(S), NEW A
  PROVE  /\ At(t, A) = {} =>
              Cardinality(At(s \o t, A)) = Cardinality(At(s, A))
         /\ At(s, A) = {} =>
              Cardinality(At(s \o t, A)) = Cardinality(At(t, A))
<1>1. /\ At(s \o t, A) = At(s, A) \cup {Len(s) + j : j \in At(t, A)}
      /\ Len(s) \in Nat
  BY Concatenated
<1>2. ASSUME At(s, A) = {}
      PROVE  Cardinality(At(s \o t, A)) = Cardinality(At(t, A))
  <2> DEFINE f == [j \in At(t, A) |-> Len(s) + j]
  <2>1. \A j \in At(t, A) : j \in Int
    BY DEF At
  <2>2. f \in Bijection(At(t, A), At(s \o t, A))
    BY <1>1, <1>2, <2>1 DEF Bijection, Injection, Surjection, IsInjective
  <2>3. IsFiniteSet(At(t, A))
    BY IndexSets DEF At
  <2> QED BY <2>2, <2>3, FS_Bijection DEF ExistsBijection
<1> QED BY <1>1, <1>2

\* The latest entry after one was added.
LEMMA LatestAppend ==
  ASSUME NEW S, NEW s \in Seq(S), NEW u \in S, NEW A
  PROVE  LatestOf(Append(s, u), A) = IF u \in A THEN {u} ELSE LatestOf(s, A)
<1> DEFINE t == Append(s, u)
<1>1. /\ DOMAIN s = 1..Len(s) /\ DOMAIN t = 1..(Len(s) + 1)
      /\ Len(s) \in Nat
      /\ \A i \in 1..Len(s) : t[i] = s[i]
      /\ t[Len(s) + 1] = u
  BY AppendProperties
<1> HIDE DEF t
<1>2. CASE u \in A
  <2>1. Len(s) + 1 \in At(t, A) /\ \A i \in At(t, A) : i <= Len(s) + 1
    BY <1>1, <1>2 DEF At
  <2>2. \A i \in At(t, A) : Len(s) + 1 <= i => i = Len(s) + 1
    BY <1>1 DEF At
  <2> QED BY <1>1, <1>2, <2>1, <2>2 DEF LatestOf, t
<1>3. CASE u \notin A
  <2>1. At(t, A) = At(s, A)
    BY <1>1, <1>3 DEF At
  <2>2. \A i \in At(s, A) : t[i] = s[i]
    BY <1>1 DEF At
  <2> QED BY <1>3, <2>1, <2>2 DEF LatestOf, t
<1> QED BY <1>2, <1>3

------------------------------------------------------------------------------
(* Medians. *)

\* Finitely many integers have a greatest one: the one with the fewest above.
LEMMA GreatestValue ==
  ASSUME NEW D, IsFiniteSet(D), D # {}, NEW f \in [D -> Int]
  PROVE  \E i \in D : \A j \in D : f[j] <= f[i]
<1> DEFINE above(i) == {j \in D : f[j] > f[i]}
           sizes == {Cardinality(above(i)) : i \in D}
<1>1. \A i \in D : IsFiniteSet(above(i)) /\ Cardinality(above(i)) \in Nat
  BY FS_Subset, FS_CardinalityType
<1>2. PICK n \in sizes : \A m \in sizes : n <= m
  <2>1. sizes \in SUBSET Nat /\ sizes # {}
    BY <1>1
  <2> HIDE DEF sizes
  <2> QED BY <2>1, LeastNatural
<1>3. PICK i \in D : n = Cardinality(above(i))
  OBVIOUS
<1>4. ASSUME NEW j \in D, ~(f[j] <= f[i]) PROVE FALSE
  <2>1. f[j] \in Int /\ f[i] \in Int
    OBVIOUS
  <2>2. j \in above(i) /\ j \notin above(j)
    BY <1>4, <2>1
  <2>3. above(j) \subseteq above(i)
    <3> SUFFICES ASSUME NEW h \in D, f[h] > f[j] PROVE f[h] > f[i]
      OBVIOUS
    <3>1. f[h] \in Int
      OBVIOUS
    <3> QED BY <1>4, <2>1, <3>1
  <2>4. Cardinality(above(j)) < Cardinality(above(i))
    <3> HIDE DEF above
    <3> QED BY <1>1, <2>2, <2>3, FewerElements
  <2>5. n <= Cardinality(above(j))
    BY <1>2
  <2> QED BY <1>1, <1>3, <2>4, <2>5
<1> QED BY <1>4

\* Of n integers, fewer than k are less than the k-th smallest, and at least k
\* are not greater.
LEMMA KthSmallestIsKth ==
  ASSUME NEW D, IsFiniteSet(D), NEW f \in [D -> Int],
         NEW k \in 1..Cardinality(D)
  PROVE  /\ \E i \in D : KthSmallest(f, k) = f[i]
         /\ Cardinality({i \in D : f[i] < KthSmallest(f, k)}) < k
         /\ k <= Cardinality({i \in D : f[i] <= KthSmallest(f, k)})
<1> DEFINE below(i) == {j \in D : f[j] < f[i]}
           upTo(i) == {j \in D : f[j] <= f[i]}
           sizes == {Cardinality(upTo(i)) : i \in {h \in D : k <= Cardinality(upTo(h))}}
<1>1. Cardinality(D) \in Nat /\ D # {} /\ k \in Nat /\ k >= 1
  BY FS_CardinalityType, FS_EmptySet
<1>2. \A i \in D : /\ IsFiniteSet(upTo(i)) /\ Cardinality(upTo(i)) \in Nat
                   /\ IsFiniteSet(below(i)) /\ Cardinality(below(i)) \in Nat
  BY FS_Subset, FS_CardinalityType
<1>3. sizes \in SUBSET Nat /\ sizes # {}
  <2>1. PICK i \in D : \A j \in D : f[j] <= f[i]
    BY <1>1, GreatestValue
  <2>2. upTo(i) = D
    BY <2>1
  <2>3. k <= Cardinality(upTo(i))
    BY <2>2
  <2> HIDE DEF upTo
  <2> QED BY <1>2, <2>3
<1>4. PICK n \in sizes : \A m \in sizes : n <= m
  <2> HIDE DEF sizes
  <2> QED BY <1>3, LeastNatural
<1>5. PICK i \in D : k <= Cardinality(upTo(i)) /\ n = Cardinality(upTo(i))
  OBVIOUS
<1>6. ASSUME ~(Cardinality(below(i)) < k) PROVE FALSE
  <2>1. below(i) # {} /\ IsFiniteSet(below(i))
    <3> HIDE DEF below, upTo
    <3>1. Cardinality(below(i)) # 0 /\ IsFiniteSet(below(i))
      BY <1>1, <1>2, <1>6
    <3> QED BY <3>1, FS_EmptySet
  <2>2. PICK h \in below(i) : \A j \in below(i) : f[j] <= f[h]
    <3> DEFINE g == [j \in below(i) |-> f[j]]
    <3>1. g \in [below(i) -> Int]
      OBVIOUS
    <3>2. \E h \in below(i) : \A j \in below(i) : g[j] <= g[h]
      <4> HIDE DEF g, below
      <4> QED BY <2>1, <3>1, GreatestValue
    <3> QED BY <3>2
  <2>3. upTo(h) = below(i)
    <3> SUFFICES ASSUME NEW j \in D, f[j] <= f[h] PROVE f[j] < f[i]
      BY <2>2
    <3>1. f[j] \in Int /\ f[h] \in Int /\ f[i] \in Int /\ f[h] < f[i]
      BY <2>2
    <3> QED BY <3>1
  <2>4. k <= Cardinality(upTo(h))
    <3> HIDE DEF below, upTo
    <3> QED BY <1>1, <1>2, <1>6, <2>3
  <2>5. i \in upTo(i) /\ i \notin below(i) /\ below(i) \subseteq upTo(i)
    <3>1. \A j \in D : f[j] \in Int
      OBVIOUS
    <3>2. \A j \in D : f[j] < f[i] => f[j] <= f[i]
      BY <3>1
    <3> QED BY <3>1, <3>2
  <2>6. Cardinality(below(i)) < Cardinality(upTo(i))
    <3> HIDE DEF below, upTo
    <3> QED BY <1>2, <2>5, FewerElements
  <2>7. n <= Cardinality(upTo(h))
    BY <1>4, <2>2, <2>4
  <2> HIDE DEF below, upTo
  <2> QED BY <1>2, <1>5, <2>3, <2>6, <2>7
<1>7. f[i] \in {f[j] : j \in DOMAIN f} /\ DOMAIN f = D
  OBVIOUS
<1>8. \E v \in {f[j] : j \in D} :
        /\ Cardinality({j \in D : f[j] < v}) < k
        /\ k <= Cardinality({j \in D : f[j] <= v})
  BY <1>5, <1>6, <1>7
<1>9. KthSmallest(f, k) \in {f[j] : j \in D}
        /\ Cardinality({j \in D : f[j] < KthSmallest(f, k)}) < k
        /\ k <= Cardinality({j \in D : f[j] <= KthSmallest(f, k)})
  BY <1>7, <1>8 DEF KthSmallest
<1> QED BY <1>9

\* int() of the mean of two integers is between them.
LEMMA HalfIsBetween ==
  ASSUME NEW a \in Int, NEW b \in Int, a <= b
  PROVE  HalfOf(a + b) \in a..b
BY DEF HalfOf

\* At most half of the integers are less than their median, and at most half
\* are greater; it is one of them, or between two of them.
LEMMA MedianIsBetween ==
  ASSUME NEW D, IsFiniteSet(D), D # {}, NEW f \in [D -> Int]
  PROVE  /\ \E i, j \in D : Median(f) \in f[i]..f[j]
         /\ Median(f) \in Int
         /\ 2 * Cardinality({i \in D : f[i] < Median(f)}) <= Cardinality(D)
         /\ 2 * Cardinality({i \in D : f[i] > Median(f)}) <= Cardinality(D)
<1> DEFINE size == Cardinality(D)
           below(v) == {i \in D : f[i] < v}
           above(v) == {i \in D : f[i] > v}
           upTo(v) == {i \in D : f[i] <= v}
<1>1. size \in Nat /\ size # 0 /\ DOMAIN f = D
  BY FS_CardinalityType, FS_EmptySet
<1>2. \A v : /\ Cardinality(below(v)) \in Nat
             /\ Cardinality(above(v)) \in Nat
             /\ Cardinality(upTo(v)) \in Nat
  BY FS_Subset, FS_CardinalityType
<1>3. \A v \in Int : Cardinality(above(v)) = size - Cardinality(upTo(v))
  <2> SUFFICES ASSUME NEW v \in Int
               PROVE  Cardinality(above(v)) = size - Cardinality(upTo(v))
    OBVIOUS
  <2>1. above(v) = D \ upTo(v) /\ upTo(v) \subseteq D
    <3> SUFFICES ASSUME NEW i \in D PROVE f[i] > v <=> ~(f[i] <= v)
      OBVIOUS
    <3>1. f[i] \in Int
      OBVIOUS
    <3> QED BY <3>1
  <2>2. IsFiniteSet(upTo(v)) /\ D \cap upTo(v) = upTo(v)
    BY FS_Subset
  <2>3. Cardinality(D \ upTo(v)) = size - Cardinality(D \cap upTo(v))
    BY FS_Difference
  <2> QED BY <2>1, <2>2, <2>3
<1>4. \A v, w \in Int : v <= w =>
         /\ Cardinality(below(v)) <= Cardinality(below(w))
         /\ Cardinality(above(w)) <= Cardinality(above(v))
  <2> SUFFICES ASSUME NEW v \in Int, NEW w \in Int, v <= w
               PROVE  /\ Cardinality(below(v)) <= Cardinality(below(w))
                      /\ Cardinality(above(w)) <= Cardinality(above(v))
    OBVIOUS
  <2>1. \A i \in D : (f[i] < v => f[i] < w) /\ (f[i] > w => f[i] > v)
    <3> SUFFICES ASSUME NEW i \in D
                 PROVE  (f[i] < v => f[i] < w) /\ (f[i] > w => f[i] > v)
      OBVIOUS
    <3>1. f[i] \in Int
      OBVIOUS
    <3> QED BY <3>1
  <2>2. below(v) \subseteq below(w) /\ above(w) \subseteq above(v)
    BY <2>1
  <2>3. IsFiniteSet(below(w)) /\ IsFiniteSet(above(v))
    BY FS_Subset
  <2> QED BY <2>2, <2>3, FS_Subset
<1>5. ASSUME NEW k \in 1..size
      PROVE  /\ \E i \in D : KthSmallest(f, k) = f[i]
             /\ KthSmallest(f, k) \in Int
             /\ Cardinality(below(KthSmallest(f, k))) < k
             /\ Cardinality(above(KthSmallest(f, k))) <= size - k
  <2>1. /\ \E i \in D : KthSmallest(f, k) = f[i]
        /\ Cardinality(below(KthSmallest(f, k))) < k
        /\ k <= Cardinality(upTo(KthSmallest(f, k)))
    BY KthSmallestIsKth
  <2>2. KthSmallest(f, k) \in Int
    BY <2>1
  <2>3. /\ Cardinality(above(KthSmallest(f, k)))
             = size - Cardinality(upTo(KthSmallest(f, k)))
        /\ Cardinality(upTo(KthSmallest(f, k))) \in Nat
    BY <1>2, <1>3, <2>2
  <2> QED BY <1>1, <2>1, <2>2, <2>3
<1> HIDE DEF below, above, upTo
<1>6. CASE size % 2 = 1
  <2> DEFINE k == (size + 1) \div 2
  <2>1. k \in 1..size /\ 2 * k = size + 1
    BY <1>1, <1>6
  <2>2. Median(f) = KthSmallest(f, k)
    BY <1>1, <1>6 DEF Median
  <2> HIDE DEF k, size
  <2>3. PICK i \in D : Median(f) = f[i]
    BY <1>5, <2>1, <2>2
  <2>4. /\ Median(f) \in Int
        /\ Cardinality(below(Median(f))) < k
        /\ Cardinality(above(Median(f))) <= size - k
    BY <1>5, <2>1, <2>2
  <2>5. /\ 2 * Cardinality(below(Median(f))) <= size
        /\ 2 * Cardinality(above(Median(f))) <= size
    BY <1>1, <1>2, <2>1, <2>4
  <2>6. Median(f) \in f[i]..f[i]
    BY <2>3, <2>4
  <2> QED BY <2>4, <2>5, <2>6 DEF below, above, size
<1>7. CASE size % 2 # 1
  <2> DEFINE k == size \div 2
             v == KthSmallest(f, k)
             w == KthSmallest(f, k + 1)
  <2>1. k \in 1..size /\ k + 1 \in 1..size /\ 2 * k = size
    BY <1>1, <1>7
  <2>2. Median(f) = HalfOf(v + w)
    BY <1>1, <1>7 DEF Median
  <2> HIDE DEF k, size
  <2>3. /\ v \in Int
        /\ Cardinality(below(v)) < k
        /\ Cardinality(above(v)) <= size - k
        /\ \E i \in D : v = f[i]
    BY <1>5, <2>1
  <2>4. /\ w \in Int
        /\ Cardinality(below(w)) < k + 1
        /\ Cardinality(above(w)) <= size - (k + 1)
        /\ \E j \in D : w = f[j]
    BY <1>5, <2>1
  <2> HIDE DEF v, w
  <2>5. v <= w
    <3> SUFFICES ASSUME w < v PROVE FALSE
      BY <2>3, <2>4
    <3>1. upTo(w) \subseteq below(v)
      <4> SUFFICES ASSUME NEW i \in D, f[i] <= w PROVE f[i] < v
        BY DEF upTo, below
      <4>1. f[i] \in Int
        OBVIOUS
      <4> QED BY <2>3, <2>4, <4>1
    <3>2. IsFiniteSet(below(v))
      BY FS_Subset DEF below
    <3>3. Cardinality(upTo(w)) <= Cardinality(below(v))
      BY <3>1, <3>2, FS_Subset
    <3>4. Cardinality(above(w)) = size - Cardinality(upTo(w))
      BY <1>3, <2>4
    <3> QED BY <1>1, <1>2, <2>1, <2>3, <2>4, <3>3, <3>4
  <2>6. Median(f) \in v..w
    BY <2>2, <2>3, <2>4, <2>5, HalfIsBetween
  <2>7. Median(f) \in Int /\ v <= Median(f) /\ Median(f) <= w
    BY <2>3, <2>4, <2>6
  <2>8. /\ Cardinality(below(Median(f))) <= Cardinality(below(w))
        /\ Cardinality(above(Median(f))) <= Cardinality(above(v))
    BY <1>4, <2>3, <2>4, <2>7
  <2>9. /\ 2 * Cardinality(below(Median(f))) <= size
        /\ 2 * Cardinality(above(Median(f))) <= size
    BY <1>1, <1>2, <2>1, <2>3, <2>4, <2>8
  <2> QED BY <2>3, <2>4, <2>6, <2>7, <2>9 DEF below, above, size
<1> QED BY <1>6, <1>7

------------------------------------------------------------------------------
(* What a build applies. *)

Elements(s) == {s[i] : i \in DOMAIN s}

\* The entries of a list that are kept.
LEMMA ElementsPicked ==
  ASSUME NEW S, NEW s \in Seq(S), NEW I \in SUBSET DOMAIN s
  PROVE  /\ Picked(s, I) \in Seq(S)
         /\ Elements(Picked(s, I)) = {s[i] : i \in I}
<1>1. I \in SUBSET Int /\ IsFiniteSet(I)
  BY IndexSets
<1>2. /\ Picked(s, I) \in Seq(S)
      /\ DOMAIN Picked(s, I) = 1..Cardinality(I)
      /\ \A k \in 1..Cardinality(I) : Picked(s, I)[k] = s[Nth(I, k)]
  BY <1>1, PickedType
<1>3. /\ \A k \in 1..Cardinality(I) : Nth(I, k) \in I
      /\ \A i \in I : \E k \in 1..Cardinality(I) : Nth(I, k) = i
  BY <1>1, NthEnumerates
<1> QED BY <1>2, <1>3 DEF Elements

\* The entries of two lists, one after the other.
LEMMA ElementsConcat ==
  ASSUME NEW S, NEW s \in Seq(S), NEW t \in Seq(S)
  PROVE  /\ s \o t \in Seq(S)
         /\ Elements(s \o t) = Elements(s) \cup Elements(t)
<1>1. \A A : At(s \o t, A) = At(s, A) \cup {Len(s) + j : j \in At(t, A)}
  BY Concatenated
<1>2. /\ \A i \in DOMAIN s : (s \o t)[i] = s[i]
      /\ \A j \in DOMAIN t : (s \o t)[Len(s) + j] = t[j]
      /\ s \o t \in Seq(S)
  BY Concatenated
<1>3. \A q : At(q, Elements(q)) = DOMAIN q
  BY DEF At, Elements
<1>4. \A q, A : At(q, A) \subseteq DOMAIN q
  BY DEF At
<1>5. DOMAIN (s \o t)
        \subseteq DOMAIN s \cup {Len(s) + j : j \in DOMAIN t}
  <2> DEFINE A == Elements(s \o t)
  <2>1. /\ At(s \o t, A) = DOMAIN (s \o t)
        /\ At(s \o t, A) = At(s, A) \cup {Len(s) + j : j \in At(t, A)}
        /\ At(s, A) \subseteq DOMAIN s
        /\ At(t, A) \subseteq DOMAIN t
    BY <1>1, <1>3, <1>4
  <2> HIDE DEF A
  <2> QED BY <2>1
<1>6. \A i \in DOMAIN s : i \in DOMAIN (s \o t)
  BY Concatenated
<1>7. \A j \in DOMAIN t : Len(s) + j \in DOMAIN (s \o t)
  BY Concatenated
<1> QED BY <1>2, <1>5, <1>6, <1>7 DEF Elements

\* A filter by types keeps the updates of these types.
LEMMA OfTypesKeeps ==
  ASSUME NEW S, NEW s \in Seq(S), NEW types
  PROVE  /\ OfTypes(s, types) \in Seq(S)
         /\ Elements(OfTypes(s, types)) = {u \in Elements(s) : u.type \in types}
<1> DEFINE I == {i \in DOMAIN s : s[i].type \in types}
<1>1. /\ OfTypes(s, types) \in Seq(S)
      /\ Elements(OfTypes(s, types)) = {s[i] : i \in I}
  BY ElementsPicked DEF OfTypes
<1> QED BY <1>1 DEF Elements

\* What is sent to the master is an update of one of the known types.
LEMMA SentTypes == \A u \in Sent : u \in Updates /\ u.type \in Types
<1>1. Sent \subseteq GraphUpdate
  BY SentAssumption, UpdatesAssumption
<1> QED BY <1>1, SentAssumption
        DEF GraphUpdate, MasterUpdate, ParentUpdate, Phc2SysUpdate, Types,
            Measurement, AliasUpdate, PortUpdate, SelfUpdate, IgnoredUpdate

\* Sorting by precedence loses nothing.
LEMMA ByPrecedenceKeeps ==
  ASSUME NEW s \in Seq(Sent)
  PROVE  /\ ByPrecedence(s) \in Seq(Sent)
         /\ Elements(ByPrecedence(s)) = Elements(s)
<1> DEFINE a == OfTypes(s, {"clock_alias"})
           b == OfTypes(s, {"ptp_parent"})
           c == OfTypes(s, Types \ {"clock_alias", "ptp_parent"})
<1>1. /\ a \in Seq(Sent) /\ b \in Seq(Sent) /\ c \in Seq(Sent)
      /\ Elements(a) = {u \in Elements(s) : u.type \in {"clock_alias"}}
      /\ Elements(b) = {u \in Elements(s) : u.type \in {"ptp_parent"}}
      /\ Elements(c) = {u \in Elements(s) :
                          u.type \in Types \ {"clock_alias", "ptp_parent"}}
  BY OfTypesKeeps
<1>2. ByPrecedence(s) = a \o b \o c
  BY DEF ByPrecedence
<1>3. \A u \in Elements(s) : u.type \in Types
  BY SentTypes DEF Elements
<1> HIDE DEF a, b, c
<1>4. a \o b \in Seq(Sent) /\ Elements(a \o b) = Elements(a) \cup Elements(b)
  BY <1>1, ElementsConcat
<1> DEFINE ab == a \o b
<1>5. ab \in Seq(Sent) /\ Elements(ab) = Elements(a) \cup Elements(b)
  BY <1>4
<1>6. ByPrecedence(s) = ab \o c
  BY <1>2
<1> HIDE DEF ab
<1>7. ab \o c \in Seq(Sent) /\ Elements(ab \o c) = Elements(ab) \cup Elements(c)
  BY <1>1, <1>5, ElementsConcat
<1> QED BY <1>1, <1>3, <1>5, <1>6, <1>7

\* The median of a group of sent measurements is one that could have been sent.
LEMMA MedianOfGroup ==
  ASSUME NEW s \in Seq(Sent), NEW i \in DOMAIN s, s[i].type = "clock_diff"
  PROVE  LET r == Median(Diffs(s, s[i]))
             group == {j \in DOMAIN s :
                         s[j].type = "clock_diff" /\ SamePair(s[j], s[i])}
             below == {j \in group : s[j].meta < r}
             above == {j \in group : s[j].meta > r}
         IN  /\ r \in Reading
             /\ r \in Int
             /\ [s[i] EXCEPT !.meta = r] \in Updates
             /\ 2 * Cardinality(below) <= Cardinality(group)
             /\ 2 * Cardinality(above) <= Cardinality(group)
<1> DEFINE D == {j \in DOMAIN s :
                   s[j].type = "clock_diff" /\ SamePair(s[j], s[i])}
           f == Diffs(s, s[i])
<1>1. IsFiniteSet(D) /\ i \in D
  BY IndexSets DEF SamePair
<1>2. \A j \in D : s[j] \in Sent /\ s[j].meta \in Reading
  <2>1. \A j \in D : s[j] \in Sent /\ s[j].type = "clock_diff"
    OBVIOUS
  <2>2. \A j \in D : s[j] \in Measurement
    BY <2>1, SentTypes, UpdateKinds
  <2> QED BY <2>1, <2>2 DEF Measurement
<1>3. f = [j \in D |-> s[j].meta]
  BY DEF Diffs
<1> HIDE DEF D, f
<1>4. /\ f \in [D -> Reading]
      /\ f \in [D -> Int]
  BY <1>2, <1>3, ReadingAssumption
<1>5. /\ \E j, k \in D : Median(f) \in f[j]..f[k]
      /\ Median(f) \in Int
      /\ 2 * Cardinality({j \in D : f[j] < Median(f)}) <= Cardinality(D)
      /\ 2 * Cardinality({j \in D : f[j] > Median(f)}) <= Cardinality(D)
  BY <1>1, <1>4, MedianIsBetween
<1>6. Median(f) \in Reading
  BY <1>4, <1>5, ReadingAssumption
<1>7. [s[i] EXCEPT !.meta = Median(f)] \in Updates
  BY <1>2, <1>6, <1>1, SentAssumption
<1>8. /\ {j \in D : f[j] < Median(f)} = {j \in D : s[j].meta < Median(f)}
      /\ {j \in D : f[j] > Median(f)} = {j \in D : s[j].meta > Median(f)}
  BY <1>3
<1> QED BY <1>5, <1>6, <1>7, <1>8 DEF D, f

\* The aggregated measurements: one for each pair of names, the median of the
\* measurements under these names.
LEMMA MediansType ==
  ASSUME NEW s \in Seq(Sent)
  PROVE  /\ MediansOf(s) \in Seq(Updates)
         /\ Elements(MediansOf(s)) =
              {[s[i] EXCEPT !.meta = Median(Diffs(s, s[i]))] : i \in Firsts(s)}
         /\ \A u \in Elements(MediansOf(s)) : u.type = "clock_diff"
<1> DEFINE med(i) == [s[i] EXCEPT !.meta = Median(Diffs(s, s[i]))]
           f == [i \in Firsts(s) |-> med(i)]
<1>1. Firsts(s) \in SUBSET Int /\ IsFiniteSet(Firsts(s))
  BY IndexSets DEF Firsts
<1>2. \A i \in Firsts(s) : i \in DOMAIN s /\ s[i].type = "clock_diff"
  BY DEF Firsts
<1>3. \A i \in Firsts(s) : f[i] \in Updates /\ f[i].type = "clock_diff"
  <2> SUFFICES ASSUME NEW i \in Firsts(s)
               PROVE  med(i) \in Updates /\ med(i).type = "clock_diff"
    OBVIOUS
  <2>1. med(i) \in Updates
    BY <1>2, MedianOfGroup
  <2>2. s[i] \in Measurement
    BY <1>2, SentTypes, UpdateKinds
  <2> QED BY <1>2, <2>1, <2>2 DEF Measurement
<1>4. MediansOf(s) = Picked(f, Firsts(s))
  BY DEF MediansOf
<1>5. \A i \in Firsts(s) : f[i] = med(i)
  OBVIOUS
<1> HIDE DEF f, med
<1>6. /\ Picked(f, Firsts(s)) \in Seq(Updates)
      /\ DOMAIN Picked(f, Firsts(s)) = 1..Cardinality(Firsts(s))
      /\ \A k \in 1..Cardinality(Firsts(s)) :
           Picked(f, Firsts(s))[k] = f[Nth(Firsts(s), k)]
  BY <1>1, <1>3, PickedType
<1>7. /\ \A k \in 1..Cardinality(Firsts(s)) : Nth(Firsts(s), k) \in Firsts(s)
      /\ \A i \in Firsts(s) :
           \E k \in 1..Cardinality(Firsts(s)) : Nth(Firsts(s), k) = i
  BY <1>1, NthEnumerates
<1>8. Elements(MediansOf(s)) = {f[i] : i \in Firsts(s)}
  BY <1>4, <1>6, <1>7 DEF Elements
<1>9. {f[i] : i \in Firsts(s)} = {med(i) : i \in Firsts(s)}
  BY <1>5
<1>10. \A u \in Elements(MediansOf(s)) : u.type = "clock_diff"
  BY <1>3, <1>8
<1>11. MediansOf(s) \in Seq(Updates)
  BY <1>4, <1>6
<1> QED BY <1>8, <1>9, <1>10, <1>11 DEF med

\* Aggregation keeps every other update and puts medians for the measurements.
LEMMA AggregatedType ==
  ASSUME NEW s \in Seq(Sent)
  PROVE  /\ Aggregated(s) \in Seq(Updates)
         /\ OfTypes(s, Types \ {"clock_diff"}) \in Seq(Updates)
         /\ Elements(Aggregated(s)) =
              {u \in Elements(s) : u.type # "clock_diff"}
                \cup Elements(MediansOf(s))
<1> DEFINE a == OfTypes(s, Types \ {"clock_diff"})
<1>1. s \in Seq(Updates)
  BY SentAssumption
<1>2. /\ a \in Seq(Updates)
      /\ Elements(a) = {u \in Elements(s) : u.type \in Types \ {"clock_diff"}}
  BY <1>1, OfTypesKeeps
<1>3. \A u \in Elements(s) : u.type \in Types
  BY SentTypes DEF Elements
<1>4. MediansOf(s) \in Seq(Updates)
  BY MediansType
<1> HIDE DEF a
<1>5. /\ a \o MediansOf(s) \in Seq(Updates)
      /\ Elements(a \o MediansOf(s)) = Elements(a) \cup Elements(MediansOf(s))
  BY <1>2, <1>4, ElementsConcat
<1> QED BY <1>2, <1>3, <1>5 DEF Aggregated, a

------------------------------------------------------------------------------
(* Type correctness, and the graph that a build makes. *)

\* The queue without its expired entries.
LEMMA UnexpiredQueue ==
  ASSUME NEW q \in Seq(Stamped)
  PROVE  /\ Unexpired(q) \in Seq(Stamped)
         /\ Elements(Unexpired(q)) = {e \in Elements(q) : e.age < Expiry}
<1> DEFINE I == {i \in DOMAIN q : q[i].age < Expiry}
<1>1. /\ Unexpired(q) \in Seq(Stamped)
      /\ Elements(Unexpired(q)) = {q[i] : i \in I}
  BY ElementsPicked DEF Unexpired
<1> QED BY <1>1 DEF Elements

\* The updates in the queue, without their times of arrival.
LEMMA ContentsType ==
  ASSUME NEW q \in Seq(Stamped)
  PROVE  /\ Contents(q) \in Seq(Sent)
         /\ DOMAIN Contents(q) = DOMAIN q
         /\ \A i \in DOMAIN q : Contents(q)[i] = q[i].u
<1>1. DOMAIN q = 1..Len(q) /\ Len(q) \in Nat
  OBVIOUS
<1>2. \A i \in 1..Len(q) : q[i] \in Stamped
  OBVIOUS
<1>3. \A i \in 1..Len(q) : q[i].u \in Sent
  BY <1>2 DEF Stamped
<1> QED BY <1>1, <1>3 DEF Contents

\* The queue as the timer marks it, and as time ages it.
LEMMA MarkedType ==
  ASSUME NEW q \in Seq(Stamped)
  PROVE  /\ [i \in DOMAIN q |-> [q[i] EXCEPT !.seen = TRUE]] \in Seq(Stamped)
         /\ [i \in DOMAIN q |-> [q[i] EXCEPT !.age = IF @ < Expiry THEN @ + 1
                                                     ELSE @]] \in Seq(Stamped)
<1>1. DOMAIN q = 1..Len(q) /\ Len(q) \in Nat
  OBVIOUS
<1>2. ASSUME NEW i \in DOMAIN q
      PROVE  [q[i] EXCEPT !.seen = TRUE] \in Stamped
  <2>1. q[i] \in Stamped
    OBVIOUS
  <2> QED BY <2>1 DEF Stamped
<1>3. ASSUME NEW i \in DOMAIN q
      PROVE  [q[i] EXCEPT !.age = IF @ < Expiry THEN @ + 1 ELSE @] \in Stamped
  <2>1. q[i] \in Stamped
    OBVIOUS
  <2>2. Expiry \in Nat /\ q[i].age \in 0..Expiry
    BY <2>1, TimeAssumption DEF Stamped
  <2>3. (IF q[i].age < Expiry THEN q[i].age + 1 ELSE q[i].age) \in 0..Expiry
    BY <2>2
  <2> QED BY <2>1, <2>3 DEF Stamped
<1> QED BY <1>1, <1>2, <1>3

\* The graph of every state of the master is one that updates make of an empty
\* graph.
GraphInv == NameInv /\ NoSelfLoops /\ KeysOfKinds

\* The graph invariant holds of an empty graph.
LEMMA InitialGraph == Init => GraphInv
BY InitialNames DEF Init, GraphInv, NoSelfLoops, KeysOfKinds

\* The timer starts from an empty graph.
LEMMA FreshGraphIsInitial == FreshGraph => Init'
BY DEF FreshGraph, Init

\* Applying an update keeps the graph invariant.
LEMMA UpdateKeepsGraphInv ==
  ASSUME GraphInv, NEW u \in Updates, Update(u)
  PROVE  GraphInv'
<1>1. TypeOK
  BY DEF GraphInv, NameInv
<1> QED BY <1>1, UpdateKeepsNameInv, UpdateMakesNoLoop, UpdateKeepsKeys
        DEF GraphInv

MasterInv == GraphInv /\ DTypeOK

\* The graph of the master is sound and everything in the master has its type.
LEMMA MasterIsSound == DSpec => []MasterInv
<1>1. DInit => MasterInv
  <2> SUFFICES ASSUME DInit PROVE MasterInv
    OBVIOUS
  <2>1. GraphInv /\ TypeOK
    BY InitialGraph DEF DInit, GraphInv, NameInv
  <2> QED BY <2>1, TimeAssumption DEF DInit, MasterInv, DTypeOK
<1>2. FreshGraph => GraphInv'
  BY InitialGraph, FreshGraphIsInitial, PTL
<1>3. MasterInv /\ [DNext]_dvars => MasterInv'
  <2> SUFFICES ASSUME MasterInv, [DNext]_dvars PROVE MasterInv'
    OBVIOUS
  <2> USE DEF MasterInv
  <2>1. /\ GraphInv /\ TypeOK
        /\ queue \in Seq(Stamped) /\ phase \in {"idle", "build", "down"}
        /\ todo \in Seq(Updates) /\ elapsed \in 0..Period
        /\ Period \in Nat \ {0} /\ Expiry \in Nat \ {0}
    BY TimeAssumption DEF DTypeOK
  <2>2. GraphInv' => TypeOK'
    BY DEF GraphInv, NameInv
  <2>3. UNCHANGED vars => GraphInv'
    BY <2>1 DEF vars, GraphInv, NameInv, TypeOK, AliasClasses,
         OnlyCanonicalNames, ParentPortResolves, Canon, CanonPort, NoSelfLoops,
         KeysOfKinds
  <2>4. CASE UNCHANGED dvars
    BY <2>1, <2>2, <2>3, <2>4 DEF dvars, DTypeOK
  <2>5. ASSUME NEW u \in Sent, OnGraphUpdate(u) PROVE MasterInv'
    <3>1. [u |-> u, age |-> 0, seen |-> FALSE] \in Stamped
      BY <2>1 DEF Stamped
    <3>2. queue' \in Seq(Stamped)
      <4>1. Unexpired(queue) \in Seq(Stamped)
        BY <2>1, UnexpiredQueue
      <4> QED BY <2>5, <3>1, <4>1, AppendProperties DEF OnGraphUpdate
    <3> QED BY <2>1, <2>2, <2>3, <2>5, <3>2 DEF OnGraphUpdate, DTypeOK
  <2>6. CASE OnDiagnosticTimer
    <3>1. queue' \in Seq(Stamped)
      BY <2>1, <2>6, MarkedType, UnexpiredQueue DEF OnDiagnosticTimer
    <3>2. todo' \in Seq(Updates)
      <4>1. ByPrecedence(Contents(queue')) \in Seq(Sent)
        BY <3>1, ContentsType, ByPrecedenceKeeps
      <4>2. todo' = Aggregated(ByPrecedence(Contents(queue')))
        BY <2>6 DEF OnDiagnosticTimer
      <4> QED BY <4>1, <4>2, AggregatedType
    <3> QED BY <1>2, <2>1, <2>2, <2>6, <3>1, <3>2 DEF OnDiagnosticTimer, DTypeOK
  <2>7. CASE ApplyUpdate
    <3>1. Head(todo) \in Updates /\ Tail(todo) \in Seq(Updates)
      BY <2>1, <2>7, HeadTailProperties DEF ApplyUpdate
    <3>2. GraphInv'
      BY <2>1, <2>7, <3>1, UpdateKeepsGraphInv DEF ApplyUpdate
    <3> QED BY <2>1, <2>2, <2>7, <3>1, <3>2 DEF ApplyUpdate, DTypeOK
  <2>8. CASE Diagnose
    BY <1>2, <2>1, <2>2, <2>8 DEF Diagnose, DTypeOK
  <2>9. CASE TimePasses
    <3>1. queue' \in Seq(Stamped)
      BY <2>1, <2>9, MarkedType DEF TimePasses
    <3>2. elapsed' \in 0..Period
      BY <2>1, <2>9 DEF TimePasses
    <3> QED BY <2>1, <2>2, <2>3, <2>9, <3>1, <3>2 DEF TimePasses, DTypeOK
  <2>10. CASE UpdateRaises
    BY <1>2, <2>1, <2>2, <2>10 DEF UpdateRaises, DTypeOK
  <2>11. CASE Restart
    BY <2>1, <2>2, <2>3, <2>11 DEF Restart, DTypeOK
  <2> QED BY <2>4, <2>5, <2>6, <2>7, <2>8, <2>9, <2>10, <2>11 DEF DNext
<1> QED BY <1>1, <1>3, PTL DEF DSpec

\* Every variable of the master keeps its type; what a build applies are
\* updates of the graph, also the aggregated measurements, which nobody sent.
THEOREM MasterTypeCorrect == DSpec => []DTypeOK
BY MasterIsSound, PTL DEF MasterInv

\* The graph of a build is consistent at every moment, whatever window it is
\* built from: one canonical name for each clock, no name that was retired, no
\* loops, and a port for the parent of every PTP link.
THEOREM EveryGraphIsConsistent ==
  DSpec => [](AliasClasses /\ OnlyCanonicalNames /\ NoSelfLoops
                /\ ParentPortResolves)
BY MasterIsSound, PTL DEF MasterInv, GraphInv, NameInv

------------------------------------------------------------------------------
(* The queue. *)

\* An entry that no build has used is no older than the period of the timer:
\* it came after the timer last fired.
UnseenAreYoung ==
  /\ \A i \in DOMAIN queue : ~queue[i].seen => queue[i].age <= elapsed
  /\ phase = "build" => \A i \in DOMAIN queue : queue[i].age < Expiry

\* An update that no graph was built from is no older than the time since the
\* last tick of the timer.
LEMMA UnseenStayYoung == DSpec => []UnseenAreYoung
<1>1. DInit => UnseenAreYoung
  BY DEF DInit, UnseenAreYoung
<1>2. MasterInv /\ UnseenAreYoung /\ [DNext]_dvars => UnseenAreYoung'
  <2> SUFFICES ASSUME MasterInv, UnseenAreYoung, [DNext]_dvars
               PROVE  UnseenAreYoung'
    OBVIOUS
  <2> USE DEF MasterInv
  <2>1. /\ queue \in Seq(Stamped) /\ elapsed \in 0..Period
        /\ phase \in {"idle", "build", "down"}
        /\ Period \in Nat \ {0} /\ Expiry \in Nat \ {0}
        /\ \A i \in DOMAIN queue : /\ queue[i] \in Stamped
                                   /\ queue[i].age \in 0..Expiry
    <3>1. /\ queue \in Seq(Stamped) /\ elapsed \in 0..Period
          /\ phase \in {"idle", "build", "down"}
          /\ Period \in Nat \ {0} /\ Expiry \in Nat \ {0}
      BY TimeAssumption DEF DTypeOK
    <3>2. \A i \in DOMAIN queue : queue[i] \in Stamped
      BY <3>1
    <3> QED BY <3>1, <3>2 DEF Stamped
  <2>2. \A e \in Elements(queue) :
          /\ ~e.seen => e.age <= elapsed
          /\ phase = "build" => e.age < Expiry
    BY DEF UnseenAreYoung, Elements
  <2>3. CASE UNCHANGED dvars
    BY <2>3 DEF dvars, UnseenAreYoung
  <2>4. ASSUME NEW u \in Sent, OnGraphUpdate(u) PROVE UnseenAreYoung'
    <3> DEFINE e == [u |-> u, age |-> 0, seen |-> FALSE]
               q == Unexpired(queue)
    <3>1. /\ q \in Seq(Stamped)
          /\ \A i \in DOMAIN q : q[i] \in Elements(queue)
      BY <2>1, UnexpiredQueue DEF Elements
    <3>2. queue' = Append(q, e) /\ e.age = 0 /\ phase' = "idle"
                                /\ elapsed' = elapsed
      BY <2>4 DEF OnGraphUpdate
    <3>3. \A i \in DOMAIN queue' : queue'[i] \in Elements(queue) \cup {e}
      <4> HIDE DEF q, e
      <4>1. DOMAIN queue' = 1..(Len(q) + 1) /\ DOMAIN q = 1..Len(q)
        BY <3>1, <3>2
      <4> QED BY <3>1, <3>2, <4>1
    <3>4. e.age <= elapsed
      BY <2>1
    <3> HIDE DEF e
    <3> QED BY <2>2, <3>2, <3>3, <3>4 DEF UnseenAreYoung
  <2>5. CASE OnDiagnosticTimer
    <3> DEFINE q == [i \in DOMAIN queue |-> [queue[i] EXCEPT !.seen = TRUE]]
    <3>1. q \in Seq(Stamped) /\ queue' = Unexpired(q)
      BY <2>1, <2>5, MarkedType DEF OnDiagnosticTimer
    <3>2. \A e \in Elements(q) : e.seen
      BY <2>1 DEF Elements, Stamped
    <3> HIDE DEF q
    <3>3. \A e \in Elements(queue') : e.seen /\ e.age < Expiry
      BY <3>1, <3>2, UnexpiredQueue
    <3> QED BY <3>3 DEF Elements, UnseenAreYoung
  <2>6. CASE ApplyUpdate
    BY <2>6 DEF ApplyUpdate, UnseenAreYoung
  <2>7. CASE Diagnose
    BY <2>7 DEF Diagnose, UnseenAreYoung
  <2>8. CASE TimePasses
    <3>1. ASSUME NEW i \in DOMAIN queue', ~queue'[i].seen
          PROVE  queue'[i].age <= elapsed'
      <4>1. /\ i \in DOMAIN queue
            /\ queue'[i] = [queue[i] EXCEPT !.age = IF @ < Expiry THEN @ + 1
                                                   ELSE @]
        BY <2>8, <3>1 DEF TimePasses
      <4>2. ~queue[i].seen /\ queue'[i].age \in {queue[i].age, queue[i].age + 1}
        BY <2>1, <3>1, <4>1 DEF Stamped
      <4>3. queue[i].age <= elapsed /\ queue[i].age \in Int
        BY <2>1, <4>1, <4>2 DEF UnseenAreYoung
      <4> QED BY <2>1, <2>8, <4>2, <4>3 DEF TimePasses
    <3> QED BY <2>8, <3>1 DEF TimePasses, UnseenAreYoung
  <2>9. CASE UpdateRaises \/ Restart
    BY <2>9 DEF UpdateRaises, Restart, UnseenAreYoung
  <2> QED BY <2>3, <2>4, <2>5, <2>6, <2>7, <2>8, <2>9 DEF DNext
<1> QED BY <1>1, <1>2, MasterIsSound, PTL DEF DSpec

\* If updates expire later than the timer fires (by default 2 s against 1 s)
\* then none expires before a build has used it, and no build uses an expired
\* one.
THEOREM NothingExpiresUnused ==
  ASSUME Period < Expiry
  PROVE  DSpec => []UsedBeforeExpiry
<1>1. MasterInv /\ UnseenAreYoung => UsedBeforeExpiry
  <2> SUFFICES ASSUME MasterInv, UnseenAreYoung, NEW i \in DOMAIN queue,
                      queue[i].age = Expiry, ~queue[i].seen
               PROVE  FALSE
    BY DEF UnseenAreYoung, UsedBeforeExpiry
  <2>1. Period \in Int /\ Expiry \in Int /\ elapsed \in 0..Period
    BY TimeAssumption DEF MasterInv, DTypeOK
  <2>2. queue[i].age <= elapsed
    BY DEF UnseenAreYoung
  <2> QED BY <2>1, <2>2
<1> QED BY <1>1, MasterIsSound, UnseenStayYoung, PTL

\* The entries that have not expired stay, in their order.
LEMMA UnexpiredKeepsOrder ==
  ASSUME NEW q \in Seq(Stamped),
         NEW i \in DOMAIN q, q[i].age < Expiry,
         NEW j \in DOMAIN q, q[j].age < Expiry
  PROVE  \E m, n \in DOMAIN Unexpired(q) :
           /\ i < j => m < n
           /\ Unexpired(q)[m] = q[i]
           /\ Unexpired(q)[n] = q[j]
<1> DEFINE I == {h \in DOMAIN q : q[h].age < Expiry}
           t == Picked(q, I)
<1>1. I \in SUBSET Int /\ IsFiniteSet(I) /\ i \in I /\ j \in I
  BY IndexSets
<1>2. Unexpired(q) = t
  BY DEF Unexpired
<1> HIDE DEF I
<1>3. /\ DOMAIN t = 1..Cardinality(I)
      /\ \A k \in DOMAIN t : t[k] = q[Nth(I, k)]
  <2>1. I \subseteq DOMAIN q /\ \A h \in I : q[h] \in Stamped
    BY DEF I
  <2> QED BY <1>1, <2>1, PickedType
<1> HIDE DEF t
<1>4. /\ \A h \in I : \E k \in DOMAIN t : Nth(I, k) = h
      /\ \A k, m \in DOMAIN t : k < m <=> Nth(I, k) < Nth(I, m)
  BY <1>1, <1>3, NthEnumerates
<1>5. PICK m \in DOMAIN t : Nth(I, m) = i
  BY <1>1, <1>4
<1>6. PICK n \in DOMAIN t : Nth(I, n) = j
  BY <1>1, <1>4
<1>7. /\ i < j => m < n
      /\ t[m] = q[i] /\ t[n] = q[j]
  BY <1>3, <1>4, <1>5, <1>6
<1> QED BY <1>2, <1>7

\* As long as the process lives the queue never drops an update that has not
\* expired, nor reorders two: that the latest report wins rests on this.
THEOREM TheQueueKeepsUnexpired == DSpec => UnexpiredStay
<1> DEFINE Kept == phase' # "down" =>
                     \A i, j \in {h \in DOMAIN queue : queue[h].age < Expiry} :
                       i <= j =>
                         \E m, n \in DOMAIN queue' :
                           /\ i < j => m < n
                           /\ queue'[m].u = queue[i].u
                           /\ queue'[n].u = queue[j].u
<1>1. MasterInv /\ [DNext]_dvars => [Kept]_dvars
  <2> SUFFICES ASSUME MasterInv, DNext, phase' # "down",
                      NEW i \in DOMAIN queue, queue[i].age < Expiry,
                      NEW j \in DOMAIN queue, queue[j].age < Expiry
               PROVE  \E m, n \in DOMAIN queue' :
                        /\ i < j => m < n
                        /\ queue'[m].u = queue[i].u
                        /\ queue'[n].u = queue[j].u
    OBVIOUS
  <2>1. queue \in Seq(Stamped)
    BY DEF MasterInv, DTypeOK
  <2>2. ASSUME NEW u \in Sent, OnGraphUpdate(u)
        PROVE  \E m, n \in DOMAIN queue' :
                 /\ i < j => m < n
                 /\ queue'[m].u = queue[i].u
                 /\ queue'[n].u = queue[j].u
    <3> DEFINE q == Unexpired(queue)
               e == [u |-> u, age |-> 0, seen |-> FALSE]
    <3>1. PICK m, n \in DOMAIN q :
            (i < j => m < n) /\ q[m] = queue[i] /\ q[n] = queue[j]
      BY <2>1, UnexpiredKeepsOrder
    <3>2. q \in Seq(Stamped) /\ queue' = Append(q, e)
      BY <2>1, <2>2, UnexpiredQueue DEF OnGraphUpdate
    <3> HIDE DEF q, e
    <3>3. \A k \in DOMAIN q : k \in DOMAIN queue' /\ queue'[k] = q[k]
      BY <3>2
    <3> QED BY <3>1, <3>3
  <2>3. CASE OnDiagnosticTimer
    <3> DEFINE q == [h \in DOMAIN queue |-> [queue[h] EXCEPT !.seen = TRUE]]
    <3>1. q \in Seq(Stamped) /\ queue' = Unexpired(q)
      BY <2>1, <2>3, MarkedType DEF OnDiagnosticTimer
    <3>2. /\ DOMAIN q = DOMAIN queue
          /\ \A h \in DOMAIN queue :
               q[h].age = queue[h].age /\ q[h].u = queue[h].u
      <4>1. \A h \in DOMAIN queue : queue[h] \in Stamped
        BY <2>1
      <4> QED BY <4>1 DEF Stamped
    <3> HIDE DEF q
    <3>3. PICK m, n \in DOMAIN Unexpired(q) :
            /\ i < j => m < n
            /\ Unexpired(q)[m] = q[i]
            /\ Unexpired(q)[n] = q[j]
      BY <3>1, <3>2, UnexpiredKeepsOrder
    <3> QED BY <3>1, <3>2, <3>3
  <2>4. CASE ApplyUpdate \/ Diagnose
    BY <2>4 DEF ApplyUpdate, Diagnose
  <2>5. CASE TimePasses
    <3>1. \A h \in DOMAIN queue : queue[h] \in Stamped
      BY <2>1
    <3>2. /\ DOMAIN queue' = DOMAIN queue
          /\ \A h \in DOMAIN queue : queue'[h].u = queue[h].u
      BY <2>5, <3>1 DEF TimePasses, Stamped
    <3> QED BY <3>2
  <2>6. CASE Restart
    BY <2>6 DEF Restart
  <2>7. ~ UpdateRaises
    BY DEF UpdateRaises
  <2> QED BY <2>2, <2>3, <2>4, <2>5, <2>6, <2>7 DEF DNext
<1> QED BY <1>1, MasterIsSound, PTL DEF DSpec, UnexpiredStay

------------------------------------------------------------------------------
(* What sorting and aggregating leave as it was. *)

\* A filter by types keeps the last update of these types in A, and their
\* number; none of A remains if A has other types.
LEMMA OfTypesLatest ==
  ASSUME NEW S, NEW s \in Seq(S), NEW types, NEW A
  PROVE  /\ (\A u \in A : u.type \in types) =>
              /\ LatestOf(OfTypes(s, types), A) = LatestOf(s, A)
              /\ Cardinality(At(OfTypes(s, types), A)) = Cardinality(At(s, A))
         /\ (\A u \in A : u.type \notin types) => At(OfTypes(s, types), A) = {}
<1> DEFINE I == {i \in DOMAIN s : s[i].type \in types}
<1>1. OfTypes(s, types) = Picked(s, I)
  BY DEF OfTypes
<1>2. ASSUME \A u \in A : u.type \in types PROVE At(s, A) \subseteq I
  BY <1>2 DEF At
<1>3. ASSUME \A u \in A : u.type \notin types
      PROVE  At(OfTypes(s, types), A) = {}
  <2>1. \A u \in Elements(OfTypes(s, types)) : u.type \in types
    BY OfTypesKeeps
  <2> QED BY <1>3, <2>1 DEF At, Elements
<1>4. I \subseteq DOMAIN s
  OBVIOUS
<1> HIDE DEF I
<1> QED BY <1>1, <1>2, <1>3, <1>4, LatestPicked, CountPicked

\* Updates of one type have the same order and number after the sort.
LEMMA LatestSorted ==
  ASSUME NEW s \in Seq(Sent), NEW type \in Types, NEW A,
         \A u \in A : u.type = type
  PROVE  /\ LatestOf(ByPrecedence(s), A) = LatestOf(s, A)
         /\ Cardinality(At(ByPrecedence(s), A)) = Cardinality(At(s, A))
<1> DEFINE a == OfTypes(s, {"clock_alias"})
           b == OfTypes(s, {"ptp_parent"})
           c == OfTypes(s, Types \ {"clock_alias", "ptp_parent"})
           ab == a \o b
           Same(t) == /\ LatestOf(t, A) = LatestOf(s, A)
                      /\ Cardinality(At(t, A)) = Cardinality(At(s, A))
<1>1. a \in Seq(Sent) /\ b \in Seq(Sent) /\ c \in Seq(Sent)
  BY OfTypesKeeps
<1>2. /\ type = "clock_alias" => Same(a)
      /\ type # "clock_alias" => At(a, A) = {}
  BY OfTypesLatest
<1>3. /\ type = "ptp_parent" => Same(b)
      /\ type # "ptp_parent" => At(b, A) = {}
  BY OfTypesLatest
<1>4. /\ type \notin {"clock_alias", "ptp_parent"} => Same(c)
      /\ type \in {"clock_alias", "ptp_parent"} => At(c, A) = {}
  BY OfTypesLatest
<1>5. ByPrecedence(s) = ab \o c
  BY DEF ByPrecedence
<1> HIDE DEF a, b, c
<1>6. /\ ab \in Seq(Sent)
      /\ At(a, A) = {} /\ At(b, A) = {} => At(ab, A) = {}
  BY <1>1, Concatenated
<1>7. /\ At(b, A) = {} => /\ LatestOf(ab, A) = LatestOf(a, A)
                          /\ Cardinality(At(ab, A)) = Cardinality(At(a, A))
      /\ At(a, A) = {} => /\ LatestOf(ab, A) = LatestOf(b, A)
                          /\ Cardinality(At(ab, A)) = Cardinality(At(b, A))
  BY <1>1, LatestConcat, CountConcat
<1> HIDE DEF ab
<1>8. /\ At(c, A) = {} /\ Same(ab) => Same(ab \o c)
      /\ At(ab, A) = {} /\ Same(c) => Same(ab \o c)
  BY <1>1, <1>6, LatestConcat, CountConcat
<1>9. CASE type = "clock_alias"
  BY <1>2, <1>3, <1>4, <1>5, <1>7, <1>8, <1>9
<1>10. CASE type = "ptp_parent"
  BY <1>2, <1>3, <1>4, <1>5, <1>7, <1>8, <1>10
<1>11. CASE type \notin {"clock_alias", "ptp_parent"}
  BY <1>2, <1>3, <1>4, <1>5, <1>6, <1>8, <1>11
<1> QED BY <1>9, <1>10, <1>11

\* Aggregating touches the measurements only.
LEMMA LatestAggregated ==
  ASSUME NEW s \in Seq(Sent), NEW type \in Types \ {"clock_diff"}, NEW A,
         \A u \in A : u.type = type
  PROVE  LatestOf(Aggregated(s), A) = LatestOf(s, A)
<1> DEFINE a == OfTypes(s, Types \ {"clock_diff"})
           m == MediansOf(s)
<1>1. a \in Seq(Updates) /\ m \in Seq(Updates)
  BY AggregatedType, MediansType
<1>2. LatestOf(a, A) = LatestOf(s, A)
  BY OfTypesLatest
<1>3. At(m, A) = {}
  <2>1. \A u \in Elements(m) : u.type = "clock_diff"
    BY MediansType
  <2> HIDE DEF m
  <2> QED BY <2>1 DEF At, Elements
<1>4. Aggregated(s) = a \o m
  BY DEF Aggregated
<1> HIDE DEF a, m
<1> QED BY <1>1, <1>2, <1>3, <1>4, LatestConcat

\* No alias comes after an update of another kind.
AliasesLead(s) ==
  \A i, j \in DOMAIN s :
    i <= j /\ s[j].type = "clock_alias" => s[i].type = "clock_alias"

\* Aliases lead a list if they lead its first part and there are none after it.
LEMMA LeadConcat ==
  ASSUME NEW S, NEW s \in Seq(S), NEW t \in Seq(S),
         AliasesLead(s), \A u \in Elements(t) : u.type # "clock_alias"
  PROVE  AliasesLead(s \o t)
<1> DEFINE st == s \o t
           A == {u \in S : u.type = "clock_alias"}
<1>1. At(t, A) = {}
  BY DEF At, Elements
<1>2. \A q \in Seq(S) : \A h \in DOMAIN q :
        q[h].type = "clock_alias" <=> h \in At(q, A)
  BY DEF At
<1> HIDE DEF A
<1>3. /\ \A i \in DOMAIN s : st[i] = s[i]
      /\ Len(s) \in Nat /\ st \in Seq(S)
      /\ At(st, A) = At(s, A) \cup {Len(s) + j : j \in At(t, A)}
  BY Concatenated
<1> HIDE DEF st
<1> SUFFICES ASSUME NEW i \in DOMAIN st, NEW j \in DOMAIN st, i <= j,
                    st[j].type = "clock_alias"
             PROVE  st[i].type = "clock_alias"
  BY DEF AliasesLead, st
<1>4. j \in DOMAIN s
  BY <1>1, <1>2, <1>3 DEF At
<1>5. i \in DOMAIN s
  <2>1. DOMAIN s = 1..Len(s) /\ i \in 1..Len(st) /\ Len(st) \in Nat
    BY <1>3
  <2> QED BY <1>3, <1>4, <2>1
<1> QED BY <1>3, <1>4, <1>5 DEF AliasesLead

\* Leaving entries out leaves the aliases in front.
LEMMA LeadPicked ==
  ASSUME NEW S, NEW s \in Seq(S), NEW I \in SUBSET DOMAIN s, AliasesLead(s)
  PROVE  AliasesLead(Picked(s, I))
<1> DEFINE t == Picked(s, I)
<1>1. I \in SUBSET Int /\ IsFiniteSet(I)
  BY IndexSets
<1>2. /\ DOMAIN t = 1..Cardinality(I)
      /\ \A k \in DOMAIN t : t[k] = s[Nth(I, k)]
  BY <1>1, PickedType
<1>3. /\ Cardinality(I) \in Nat
      /\ \A k \in DOMAIN t : Nth(I, k) \in I
      /\ \A k, m \in DOMAIN t : k < m <=> Nth(I, k) < Nth(I, m)
  BY <1>1, <1>2, NthEnumerates
<1> HIDE DEF t
<1> SUFFICES ASSUME NEW k \in DOMAIN t, NEW m \in DOMAIN t, k <= m,
                    t[m].type = "clock_alias"
             PROVE  t[k].type = "clock_alias"
  BY DEF AliasesLead, t
<1>4. /\ Nth(I, k) \in DOMAIN s /\ Nth(I, m) \in DOMAIN s
      /\ Nth(I, k) \in Int /\ Nth(I, m) \in Int /\ k \in Int /\ m \in Int
  BY <1>1, <1>2, <1>3
<1>5. Nth(I, k) <= Nth(I, m)
  <2>1. m < k <=> Nth(I, m) < Nth(I, k)
    BY <1>3
  <2> QED BY <1>4, <2>1
<1> QED BY <1>2, <1>4, <1>5 DEF AliasesLead

\* All aliases of a window are merged before anything else is applied.
LEMMA PlansLead ==
  ASSUME NEW s \in Seq(Sent)
  PROVE  AliasesLead(Aggregated(ByPrecedence(s)))
<1> DEFINE a == OfTypes(s, {"clock_alias"})
           b == OfTypes(s, {"ptp_parent"})
           c == OfTypes(s, Types \ {"clock_alias", "ptp_parent"})
           ab == a \o b
           us == ByPrecedence(s)
           d == OfTypes(us, Types \ {"clock_diff"})
           m == MediansOf(us)
<1>1. /\ a \in Seq(Sent) /\ b \in Seq(Sent) /\ c \in Seq(Sent)
      /\ \A u \in Elements(a) : u.type = "clock_alias"
      /\ \A u \in Elements(b) : u.type # "clock_alias"
      /\ \A u \in Elements(c) : u.type # "clock_alias"
  BY OfTypesKeeps
<1>2. us \in Seq(Sent)
  BY ByPrecedenceKeeps
<1>3. us = ab \o c
  BY DEF ByPrecedence
<1>4. d = Picked(us, {i \in DOMAIN us : us[i].type \in Types \ {"clock_diff"}})
  BY DEF OfTypes
<1>5. /\ d \in Seq(Updates) /\ m \in Seq(Updates)
      /\ \A u \in Elements(m) : u.type # "clock_alias"
  BY <1>2, AggregatedType, MediansType
<1>6. Aggregated(us) = d \o m
  BY DEF Aggregated
<1> HIDE DEF a, b, c, us, d, m
<1>7. AliasesLead(a)
  BY <1>1 DEF AliasesLead, Elements
<1>8. ab \in Seq(Sent) /\ AliasesLead(ab)
  BY <1>1, <1>7, LeadConcat, ElementsConcat
<1> HIDE DEF ab
<1>9. AliasesLead(us)
  BY <1>1, <1>3, <1>8, LeadConcat
<1>10. AliasesLead(d)
  BY <1>2, <1>4, <1>9, LeadPicked
<1>11. AliasesLead(d \o m)
  BY <1>5, <1>10, LeadConcat
<1> QED BY <1>6, <1>11 DEF us

------------------------------------------------------------------------------
(* What one update does to a graph, in the terms of the properties. *)

\* The clocks, and the ports other than 0, that some updates bring.
Mentioned(us) == UNION {ClocksOf(u) : u \in Elements(us)}
NewPorts(u) == {r \in PortsOf(u) : r.port # 0}

\* The links that an update tells of, measurements included: Hears extends
\* Reports, ToOf Child and FromOf ParentOf.
Hears(u, k) ==
  IF k = "measurement" THEN u.type = "clock_diff" /\ NoClock \notin {u.src, u.dst}
                       ELSE Reports(u, k)
ToOf(u) == IF u.type = "clock_diff" THEN u.dst ELSE Child(u)
FromOf(u) == IF u.type = "clock_diff" THEN u.src ELSE ParentOf(u)

\* The updates that tell of the links of one kind from a to b, of the state of
\* a port, and of a clock.
Tells(k, a, b) ==
  {u \in Updates : /\ Hears(u, k)
                   /\ Canon(ToOf(u)) = b
                   /\ FromOf(u) # NoClock => Canon(FromOf(u)) = a}
TellsPort(p) == {u \in Updates : u.type = "port_state" /\ CanonPort(u.port) = p}
TellsSelf(c) ==
  {u \in Updates : /\ u.type = "self_reported"
                   /\ u.clock # NoClock
                   /\ u.state # Invalid
                   /\ Canon(u.clock) = c}

\* The types of what an update mentions.
LEMMA MentionsTypes ==
  ASSUME NEW u \in Updates
  PROVE  ClocksOf(u) \subseteq ClockId /\ PortsOf(u) \subseteq Port
<1>1. /\ u.type = "clock_master" => u \in MasterUpdate
      /\ u.type = "ptp_parent" => u \in ParentUpdate
      /\ u.type = "phc2sys" => u \in Phc2SysUpdate
      /\ u.type = "clock_diff" => u \in Measurement
      /\ u.type = "clock_alias" => u \in AliasUpdate
      /\ u.type = "port_state" => u \in PortUpdate
      /\ u.type = "self_reported" => u \in SelfUpdate
  BY UpdateKinds
<1>2. CASE u.type = "clock_master"
  BY <1>1, <1>2 DEF MasterUpdate, ClocksOf, PortsOf
<1>3. CASE u.type = "ptp_parent"
  BY <1>1, <1>3 DEF ParentUpdate, ClocksOf, PortsOf, Port
<1>4. CASE u.type = "phc2sys"
  BY <1>1, <1>4 DEF Phc2SysUpdate, ClocksOf, PortsOf
<1>5. CASE u.type = "clock_diff"
  BY <1>1, <1>5 DEF Measurement, ClocksOf, PortsOf
<1>6. CASE u.type = "clock_alias"
  BY <1>1, <1>6 DEF AliasUpdate, ClocksOf, PortsOf
<1>7. CASE u.type = "port_state"
  BY <1>1, <1>7 DEF PortUpdate, ClocksOf, PortsOf, Port
<1>8. CASE u.type = "self_reported"
  BY <1>1, <1>8 DEF SelfUpdate, ClocksOf, PortsOf
<1>9. CASE u.type \notin {"clock_master", "ptp_parent", "phc2sys", "clock_diff",
                          "clock_alias", "port_state", "self_reported"}
  BY <1>9 DEF ClocksOf, PortsOf
<1> QED BY <1>2, <1>3, <1>4, <1>5, <1>6, <1>7, <1>8, <1>9

\* An update that merges nothing adds the clocks it mentions.
LEMMA NodesOfUpdate ==
  ASSUME NEW u \in Updates, Update(u), u.type # "clock_alias"
  PROVE  nodes' = nodes \cup {Canon(c) : c \in ClocksOf(u)}
<1>1. CASE UpdateClockMaster(u)
  BY <1>1 DEF UpdateClockMaster, SetSource, ClocksOf
<1>2. CASE UpdatePhc2SysLinkState(u)
  BY <1>2 DEF UpdatePhc2SysLinkState, SetSource, ClocksOf
<1>3. CASE HandleClockDiffMeasurement(u)
  BY <1>3 DEF HandleClockDiffMeasurement, ClocksOf
<1>4. CASE RemovePtpLink(u)
  BY <1>4 DEF RemovePtpLink, ClocksOf, Reports
<1>5. CASE CreatePtpLink(u)
  BY <1>5 DEF CreatePtpLink, ClocksOf, Reports
<1>6. CASE UpdatePtpPortState(u)
  BY <1>6 DEF UpdatePtpPortState, ClocksOf
<1>7. CASE UpdateSelfReportedClockState(u)
  BY <1>7 DEF UpdateSelfReportedClockState, ClocksOf
<1>8. CASE Ignore(u)
  <2>1. ClocksOf(u) = {}
    BY <1>8 DEF Ignore, ClocksOf
  <2> QED BY <1>8, <2>1 DEF Ignore, vars
<1> QED BY <1>1, <1>2, <1>3, <1>4, <1>5, <1>6, <1>7, <1>8
        DEF Update, UpdateClockAliases

\* It adds the ports it mentions.
LEMMA PortsOfUpdate ==
  ASSUME NEW u \in Updates, Update(u), u.type # "clock_alias"
  PROVE  \/ NewPorts(u) = {} /\ portIds' = portIds
         \/ \E p \in Port : NewPorts(u) = {p} /\ portIds' = WithPort(p)
<1>1. CASE CreatePtpLink(u)
  <2>1. u \in ParentUpdate
    BY <1>1, UpdateKinds DEF CreatePtpLink
  <2>2. u.parent \in Port /\ NewPorts(u) = {u.parent}
    BY <1>1, <2>1 DEF CreatePtpLink, ParentUpdate, NewPorts, PortsOf
  <2> QED BY <1>1, <2>2 DEF CreatePtpLink
<1>2. CASE UpdatePtpPortState(u)
  <2>1. u \in PortUpdate
    BY <1>2, UpdateKinds DEF UpdatePtpPortState
  <2>2. u.port \in Port /\ NewPorts(u) = {u.port}
    BY <1>2, <2>1 DEF UpdatePtpPortState, PortUpdate, NewPorts, PortsOf
  <2> QED BY <1>2, <2>2 DEF UpdatePtpPortState
<1>3. CASE UpdateClockMaster(u) \/ UpdatePhc2SysLinkState(u)
             \/ HandleClockDiffMeasurement(u) \/ UpdateSelfReportedClockState(u)
  BY <1>3 DEF UpdateClockMaster, UpdatePhc2SysLinkState, NewPorts, PortsOf,
              HandleClockDiffMeasurement, UpdateSelfReportedClockState
<1>4. CASE RemovePtpLink(u)
  BY <1>4 DEF RemovePtpLink, NewPorts, PortsOf
<1>5. CASE Ignore(u)
  <2>1. NewPorts(u) = {}
    BY <1>5 DEF Ignore, NewPorts, PortsOf
  <2> QED BY <1>5, <2>1 DEF Ignore, vars
<1> QED BY <1>1, <1>2, <1>3, <1>4, <1>5 DEF Update, UpdateClockAliases

\* It sets the state it reports.
LEMMA StatesOfUpdate ==
  ASSUME NEW u \in Updates, Update(u), u.type # "clock_alias"
  PROVE  /\ portState' = IF u.type = "port_state" /\ u.port.port # 0
                         THEN [portState EXCEPT ![CanonPort(u.port)] = u.state]
                         ELSE portState
         /\ selfState' = IF /\ u.type = "self_reported"
                            /\ u.clock # NoClock
                            /\ u.state # Invalid
                         THEN [selfState EXCEPT ![Canon(u.clock)] = u.state]
                         ELSE selfState
<1>1. CASE UpdatePtpPortState(u)
  BY <1>1 DEF UpdatePtpPortState
<1>2. CASE UpdateSelfReportedClockState(u)
  BY <1>2 DEF UpdateSelfReportedClockState
<1>3. CASE UpdateClockMaster(u) \/ UpdatePhc2SysLinkState(u)
             \/ HandleClockDiffMeasurement(u) \/ RemovePtpLink(u)
             \/ CreatePtpLink(u)
  BY <1>3 DEF UpdateClockMaster, UpdatePhc2SysLinkState, RemovePtpLink,
              HandleClockDiffMeasurement, CreatePtpLink
<1>4. CASE Ignore(u)
  BY <1>4 DEF Ignore, vars
<1> QED BY <1>1, <1>2, <1>3, <1>4 DEF Update, UpdateClockAliases

\* An update that tells of links of a kind sets or removes them, and another
\* does nothing to the links.
LEMMA LinksOfReport ==
  ASSUME NEW u \in Updates, Update(u), u.type # "clock_alias"
  PROVE  \/ links' = links /\ \A k \in Kinds : ~Hears(u, k)
         \/ \E k \in Kinds :
              /\ Hears(u, k)
              /\ \A j \in Kinds : Hears(u, j) => j = k
              /\ ToOf(u) \in ClockId
              /\ \/ /\ FromOf(u) = NoClock
                    /\ RemoveIncoming(Canon(ToOf(u)), k)
                 \/ /\ FromOf(u) \in ClockId
                    /\ AddLink(Canon(FromOf(u)), Canon(ToOf(u)), k, DataOf(u))
<1> DEFINE Told(k) ==
             /\ Hears(u, k)
             /\ \A j \in Kinds : Hears(u, j) => j = k
             /\ ToOf(u) \in ClockId
             /\ \/ /\ FromOf(u) = NoClock
                   /\ RemoveIncoming(Canon(ToOf(u)), k)
                \/ /\ FromOf(u) \in ClockId
                   /\ AddLink(Canon(FromOf(u)), Canon(ToOf(u)), k, DataOf(u))
<1>1. CASE UpdateClockMaster(u)
  <2>1. u \in MasterUpdate
    BY <1>1, UpdateKinds DEF UpdateClockMaster
  <2>2. /\ Hears(u, "master") /\ \A j \in Kinds : Hears(u, j) => j = "master"
        /\ ToOf(u) = u.clock /\ FromOf(u) = u.master
        /\ DataOf(u) = [offset |-> u.meta]
        /\ u.clock \in ClockId /\ u.master \in ClockId \cup {NoClock}
    BY <1>1, <2>1 DEF UpdateClockMaster, SetSource, MasterUpdate, Hears, Reports,
                      ToOf, FromOf, Child, ParentOf, DataOf, Kinds
  <2>3. Told("master")
    BY <1>1, <2>2 DEF UpdateClockMaster, SetSource
  <2> HIDE DEF Told
  <2>4. "master" \in Kinds
    BY DEF Kinds
  <2>5. \E k \in Kinds : Told(k)
    BY <2>3, <2>4
  <2> QED BY <2>5 DEF Told
<1>2. CASE UpdatePhc2SysLinkState(u)
  <2>1. u \in Phc2SysUpdate
    BY <1>2, UpdateKinds DEF UpdatePhc2SysLinkState
  <2>2. /\ Hears(u, "phc2sys") /\ \A j \in Kinds : Hears(u, j) => j = "phc2sys"
        /\ ToOf(u) = u.dst /\ FromOf(u) = u.src
        /\ DataOf(u) = [offset |-> u.meta]
        /\ u.dst \in ClockId /\ u.src \in ClockId \cup {NoClock}
    BY <1>2, <2>1 DEF UpdatePhc2SysLinkState, SetSource, Phc2SysUpdate, Hears,
                      Reports, ToOf, FromOf, Child, ParentOf, DataOf, Kinds
  <2>3. Told("phc2sys")
    BY <1>2, <2>2 DEF UpdatePhc2SysLinkState, SetSource
  <2> HIDE DEF Told
  <2>4. "phc2sys" \in Kinds
    BY DEF Kinds
  <2>5. \E k \in Kinds : Told(k)
    BY <2>3, <2>4
  <2> QED BY <2>5 DEF Told
<1>3. CASE HandleClockDiffMeasurement(u)
  <2>1. u \in Measurement
    BY <1>3, UpdateKinds DEF HandleClockDiffMeasurement
  <2>2. /\ Hears(u, "measurement")
        /\ \A j \in Kinds : Hears(u, j) => j = "measurement"
        /\ ToOf(u) = u.dst /\ FromOf(u) = u.src
        /\ DataOf(u) = [offset |-> u.meta]
        /\ u.dst \in ClockId /\ u.src \in ClockId
    BY <1>3, <2>1 DEF HandleClockDiffMeasurement, Measurement, Hears,
                      Reports, ToOf, FromOf, DataOf, Kinds
  <2>3. Told("measurement")
    BY <1>3, <2>2 DEF HandleClockDiffMeasurement
  <2> HIDE DEF Told
  <2>4. "measurement" \in Kinds
    BY DEF Kinds
  <2>5. \E k \in Kinds : Told(k)
    BY <2>3, <2>4
  <2> QED BY <2>5 DEF Told
<1>4. CASE CreatePtpLink(u)
  <2>1. u \in ParentUpdate
    BY <1>4, UpdateKinds DEF CreatePtpLink
  <2>2. /\ Hears(u, "ptp_parent")
        /\ \A j \in Kinds : Hears(u, j) => j = "ptp_parent"
        /\ ToOf(u) = u.clock /\ FromOf(u) = u.parent.clock
        /\ DataOf(u) = CanonPort(u.parent)
        /\ u.clock \in ClockId /\ u.parent.clock \in ClockId
    BY <1>4, <2>1 DEF CreatePtpLink, ParentUpdate, Hears, Port,
                      Reports, ToOf, FromOf, Child, ParentOf, DataOf, Kinds
  <2>3. Told("ptp_parent")
    BY <1>4, <2>2 DEF CreatePtpLink
  <2> HIDE DEF Told
  <2>4. "ptp_parent" \in Kinds
    BY DEF Kinds
  <2>5. \E k \in Kinds : Told(k)
    BY <2>3, <2>4
  <2> QED BY <2>5 DEF Told
<1>5. CASE RemovePtpLink(u) /\ u.parent = NoPort
  <2>1. u \in ParentUpdate
    BY <1>5, UpdateKinds DEF RemovePtpLink
  <2>2. /\ Hears(u, "ptp_parent")
        /\ \A j \in Kinds : Hears(u, j) => j = "ptp_parent"
        /\ ToOf(u) = u.clock /\ FromOf(u) = NoClock
        /\ u.clock \in ClockId
    BY <1>5, <2>1 DEF RemovePtpLink, ParentUpdate, Hears,
                      Reports, ToOf, FromOf, Child, ParentOf, Kinds
  <2>3. Told("ptp_parent")
    BY <1>5, <2>2 DEF RemovePtpLink
  <2> HIDE DEF Told
  <2>4. "ptp_parent" \in Kinds
    BY DEF Kinds
  <2>5. \E k \in Kinds : Told(k)
    BY <2>3, <2>4
  <2> QED BY <2>5 DEF Told
<1>6. CASE RemovePtpLink(u) /\ u.parent # NoPort
  BY <1>6 DEF RemovePtpLink, Hears, Reports, Kinds
<1>7. CASE UpdatePtpPortState(u) \/ UpdateSelfReportedClockState(u)
  BY <1>7 DEF UpdatePtpPortState, UpdateSelfReportedClockState, Hears, Reports,
              Kinds
<1>8. CASE Ignore(u)
  <2>1. \A k \in Kinds : ~Hears(u, k)
    BY <1>8 DEF Ignore, Hears, Reports, Kinds
  <2> QED BY <1>8, <2>1 DEF Ignore, vars
<1> HIDE DEF Told
<1> QED BY <1>1, <1>2, <1>3, <1>4, <1>5, <1>6, <1>7, <1>8
        DEF Update, UpdateClockAliases

------------------------------------------------------------------------------
(* A graph that some updates, applied in this order to an empty one, make:     *)
(* the last of those that tell of a thing decides.                             *)

NodesDescribed(us) ==
  /\ nodes = {Canon(c) : c \in Mentioned(us)}
  /\ \A c \in ClockId : aliases[c] # {} => c \in Mentioned(us)

PortsDescribed(us) ==
  \A c \in ClockId :
    portIds[c] = {q \in {CanonPort(p) : p \in UNION {NewPorts(u) : u \in Elements(us)}} :
                    q.clock = c}

StatesDescribed(us) ==
  /\ \A p \in Port :
       IF p.port = 0 \/ LatestOf(us, TellsPort(p)) = {}
         THEN portState[p] = NoState
         ELSE \E u \in LatestOf(us, TellsPort(p)) : portState[p] = u.state
  /\ \A c \in ClockId :
       IF LatestOf(us, TellsSelf(c)) = {}
         THEN selfState[c] = NoState
         ELSE \E u \in LatestOf(us, TellsSelf(c)) : selfState[c] = u.state

LinksBetween(a, b, k) == {l \in links : l.src = a /\ l.dst = b /\ l.kind = k}

\* No link is renumbered in a graph whose aliases come first.
LinksDescribed(us) ==
  /\ \A l \in links : l.key = l.kind
  /\ \A k \in Kinds : \A a, b \in ClockId :
       {<<l.key, l.meta>> : l \in LinksBetween(a, b, k)}
         = {<<k, DataOf(u)>> : u \in {v \in LatestOf(us, Tells(k, a, b)) :
                                        FromOf(v) # NoClock /\ a # b}}

\* While aliases are applied there are only nodes.
Bare ==
  /\ links = {}
  /\ portIds = [c \in ClockId |-> {}]
  /\ portState = [p \in Port |-> NoState]
  /\ selfState = [c \in ClockId |-> NoState]

OnlyAliases(us) == \A u \in Elements(us) : u.type = "clock_alias"

Described(us) ==
  /\ NodesDescribed(us)
  /\ PortsDescribed(us)
  /\ StatesDescribed(us)
  /\ LinksDescribed(us)

\* Aliases tell of nothing but nodes.
LEMMA BareIsDescribed ==
  ASSUME NEW us \in Seq(Updates), OnlyAliases(us), Bare, NodesDescribed(us)
  PROVE  Described(us)
<1>1. \A A : (\A u \in A : u.type # "clock_alias") => LatestOf(us, A) = {}
  BY DEF OnlyAliases, Elements, LatestOf, At
<1>2. \A p \in Port : LatestOf(us, TellsPort(p)) = {}
  BY <1>1 DEF TellsPort
<1>3. \A c \in ClockId : LatestOf(us, TellsSelf(c)) = {}
  BY <1>1 DEF TellsSelf
<1>4. \A k \in Kinds : \A a, b : LatestOf(us, Tells(k, a, b)) = {}
  <2>1. \A k \in Kinds : \A u : Hears(u, k) => u.type # "clock_alias"
    BY DEF Hears, Reports, Kinds
  <2> QED BY <1>1, <2>1 DEF Tells
<1>5. UNION {NewPorts(u) : u \in Elements(us)} = {}
  BY DEF OnlyAliases, NewPorts, PortsOf
<1>6. PortsDescribed(us)
  BY <1>5 DEF Bare, PortsDescribed
<1>7. StatesDescribed(us)
  BY <1>2, <1>3 DEF Bare, StatesDescribed
<1>8. LinksDescribed(us)
  BY <1>4 DEF Bare, LinksDescribed, LinksBetween
<1> QED BY <1>6, <1>7, <1>8 DEF Described

\* The entries of a list after one was added.
LEMMA ElementsAppend ==
  ASSUME NEW S, NEW s \in Seq(S), NEW u \in S
  PROVE  Elements(Append(s, u)) = Elements(s) \cup {u}
<1>1. /\ DOMAIN s = 1..Len(s) /\ DOMAIN Append(s, u) = 1..(Len(s) + 1)
      /\ Len(s) \in Nat
      /\ \A i \in 1..Len(s) : Append(s, u)[i] = s[i]
      /\ Append(s, u)[Len(s) + 1] = u
  BY AppendProperties
<1> QED BY <1>1 DEF Elements

\* An alias update leaves a bare graph, with the nodes it mentions.
LEMMA AliasDescribed ==
  ASSUME NameInv, NEW us \in Seq(Updates), NEW u \in Updates,
         u.type = "clock_alias", Update(u), NodesDescribed(us), Bare
  PROVE  NodesDescribed(Append(us, u))' /\ Bare'
<1> DEFINE A == u.aliases
           all == KnownClasses(A) \cup A
<1>1. Mentioned(Append(us, u)) = Mentioned(us) \cup A
  <2>1. ClocksOf(u) = A
    BY DEF ClocksOf
  <2> QED BY <2>1, ElementsAppend DEF Mentioned
<1>2. Mentioned(Append(us, u))' = Mentioned(Append(us, u))
  BY DEF Mentioned, Elements, ClocksOf, Reports
<1>3. A \in SUBSET ClockId
  BY UpdateKinds DEF AliasUpdate
<1>4. CASE UpdateClockAliases(u)
  <2>1. A # {} /\ Merge(all)
    BY <1>4 DEF UpdateClockAliases, NothingNew
  <2>2. /\ all \in SUBSET ClockId
        /\ aliases' = [c \in ClockId |-> IF c \in all THEN all ELSE aliases[c]]
        /\ nodes' = {Relabel(all, MostReadable(all), n) : n \in nodes}
                      \cup {MostReadable(all)}
        /\ MostReadable(all) \in all
        /\ \A c \in ClockId : CanonIn(aliases', c)
                                = Relabel(all, MostReadable(all), Canon(c))
    BY <1>3, <2>1, MergedNames DEF Merge
  <2>3. \A c \in all : c \in Mentioned(us) \cup A
    <3>1. \A a \in A : \A c \in aliases[a] : c \in ClockId /\ aliases[c] # {}
      BY <1>3 DEF NameInv, TypeOK, AliasClasses
    <3> QED BY <3>1 DEF KnownClasses, NodesDescribed
  <2>4. \A c \in ClockId : aliases'[c] # {} => c \in Mentioned(us) \cup A
    BY <2>2, <2>3 DEF NodesDescribed
  <2>5. \A a \in A : CanonIn(aliases', a) = MostReadable(all)
    BY <1>3, <2>2 DEF CanonIn
  <2>6. Mentioned(us) \subseteq ClockId
    BY MentionsTypes DEF Mentioned, Elements
  <2> HIDE DEF all
  <2>7. nodes' = {CanonIn(aliases', c) : c \in Mentioned(us) \cup A}
    BY <2>1, <2>2, <2>5, <2>6 DEF NodesDescribed
  <2>8. NodesDescribed(Append(us, u))'
    BY <1>1, <1>2, <2>4, <2>7 DEF NodesDescribed, Canon
  <2>9. Bare'
    <3> HIDE DEF A
    <3>1. links' = {}
      BY <2>1 DEF Bare, Merge, RelabelledLinks
    <3>2. portIds' = [c \in ClockId |-> {}]
      BY <2>1, <2>2 DEF Bare, Merge, MergedPortIds
    <3>3. portState' = [p \in Port |-> NoState]
      BY <2>1 DEF Merge
    <3>4. selfState' = [c \in ClockId |-> NoState]
      <4>1. MergedSelfStates(all, MostReadable(all)) \subseteq {NoState}
        <5>1. \A n \in ClockId : selfState[n] = NoState
          BY DEF Bare
        <5> QED BY <2>2, <5>1 DEF MergedSelfStates
      <4>2. \E st \in MergedSelfStates(all, MostReadable(all)) :
              selfState' = [c \in ClockId |->
                              IF c = MostReadable(all) THEN st
                              ELSE IF c \in all THEN NoState ELSE selfState[c]]
        BY <2>1 DEF Merge
      <4> QED BY <4>1, <4>2 DEF Bare
    <3> QED BY <3>1, <3>2, <3>3, <3>4 DEF Bare
  <2> QED BY <2>8, <2>9
<1>5. CASE Ignore(u)
  <2>1. NothingNew(A) /\ UNCHANGED vars
    BY <1>5 DEF Ignore
  <2>2. A \subseteq Mentioned(us)
    <3> SUFFICES ASSUME NEW a \in A PROVE a \in Mentioned(us)
      OBVIOUS
    <3>1. PICK b \in A : a \in aliases[b]
      BY <2>1 DEF NothingNew, KnownClasses
    <3>2. aliases[a] # {}
      BY <1>3, <3>1 DEF NameInv, AliasClasses
    <3> QED BY <1>3, <3>2 DEF NodesDescribed
  <2>3. Mentioned(Append(us, u))' = Mentioned(us)
    BY <1>1, <1>2, <2>2
  <2>4. NodesDescribed(Append(us, u))'
    BY <2>1, <2>3 DEF NodesDescribed, vars, Canon
  <2> QED BY <2>1, <2>4 DEF Bare, vars
<1> QED BY <1>4, <1>5 DEF Update, UpdateClockMaster, RemovePtpLink,
        CreatePtpLink, UpdatePtpPortState, HandleClockDiffMeasurement,
        UpdatePhc2SysLinkState, UpdateSelfReportedClockState

\* The last of some updates is one of them that is told of, or there is none.
LEMMA LatestIsElement ==
  ASSUME NEW S, NEW s \in Seq(S), NEW A, NEW u \in LatestOf(s, A)
  PROVE  u \in A /\ u \in Elements(s)
BY DEF LatestOf, At, Elements

\* Any other update leaves a described graph.
LEMMA UpdateDescribed ==
  ASSUME NameInv, NEW us \in Seq(Updates), NEW u \in Updates,
         u.type # "clock_alias", Update(u), Described(us)
  PROVE  Described(Append(us, u))'
<1> DEFINE vs == Append(us, u)
<1>1. aliases' = aliases
  <2>1. ~UpdateClockAliases(u)
    BY DEF UpdateClockAliases
  <2> QED BY <2>1, OnlyMergesRename
<1>2. /\ \A c : Canon(c)' = Canon(c)
      /\ \A p : CanonPort(p)' = CanonPort(p)
  BY <1>1 DEF Canon, CanonPort
<1>3. /\ vs' = vs
      /\ Elements(vs) = Elements(us) \cup {u}
      /\ Elements(vs)' = Elements(vs)
  BY ElementsAppend DEF Elements
<1>4. \A A : LatestOf(vs, A) = IF u \in A THEN {u} ELSE LatestOf(us, A)
  BY LatestAppend
<1>5. \A A : LatestOf(vs, A)' = LatestOf(vs, A)
  OBVIOUS
<1> HIDE DEF vs
<1>6. NodesDescribed(vs)'
  <2>1. Mentioned(vs)' = Mentioned(us) \cup ClocksOf(u)
    BY <1>3 DEF Mentioned, ClocksOf, Reports
  <2>2. nodes' = nodes \cup {Canon(c) : c \in ClocksOf(u)}
    BY NodesOfUpdate
  <2>3. nodes' = {Canon(c) : c \in Mentioned(us) \cup ClocksOf(u)}
    BY <2>2 DEF Described, NodesDescribed
  <2> QED BY <1>1, <1>2, <2>1, <2>3 DEF Described, NodesDescribed
<1>7. PortsDescribed(vs)'
  <2>1. (UNION {NewPorts(v) : v \in Elements(vs)})'
          = (UNION {NewPorts(v) : v \in Elements(us)}) \cup NewPorts(u)
    BY <1>3 DEF NewPorts, PortsOf
  <2> DEFINE ports == UNION {NewPorts(v) : v \in Elements(us)}
  <2>2. \A c \in ClockId :
          portIds[c] = {q \in {CanonPort(p) : p \in ports} : q.clock = c}
    BY DEF Described, PortsDescribed
  <2> HIDE DEF ports
  <2>3. \A c \in ClockId :
          portIds'[c]
            = {q \in {CanonPort(p) : p \in ports \cup NewPorts(u)} : q.clock = c}
    <3>1. CASE NewPorts(u) = {} /\ portIds' = portIds
      BY <2>2, <3>1
    <3>2. ASSUME NEW p \in Port, NewPorts(u) = {p}, portIds' = WithPort(p)
          PROVE  \A c \in ClockId :
                   portIds'[c]
                     = {q \in {CanonPort(r) : r \in ports \cup NewPorts(u)} :
                          q.clock = c}
      <4>1. /\ Canon(p.clock) \in ClockId
            /\ portIds' = [portIds EXCEPT ![Canon(p.clock)]
                                             = @ \cup {CanonPort(p)}]
            /\ portIds \in [ClockId -> SUBSET Port]
        BY <3>2, WithPortAdds DEF NameInv, TypeOK
      <4>2. CanonPort(p).clock = Canon(p.clock)
        BY CanonPortType DEF CanonPort, Canon, NameInv, TypeOK
      <4> QED BY <2>2, <3>2, <4>1, <4>2
    <3> QED BY <3>1, <3>2, PortsOfUpdate
  <2> QED BY <1>2, <2>1, <2>3 DEF PortsDescribed, ports
<1>8. StatesDescribed(vs)'
  <2>1. /\ \A p : TellsPort(p)' = TellsPort(p)
        /\ \A c : TellsSelf(c)' = TellsSelf(c)
    BY <1>2 DEF TellsPort, TellsSelf
  <2>2. ASSUME NEW p \in Port, p.port # 0
        PROVE  IF LatestOf(vs, TellsPort(p)) = {}
                 THEN portState'[p] = NoState
                 ELSE \E v \in LatestOf(vs, TellsPort(p)) : portState'[p] = v.state
    <3>1. CASE u \in TellsPort(p)
      <4>1. /\ LatestOf(vs, TellsPort(p)) = {u}
            /\ u.type = "port_state" /\ CanonPort(u.port) = p
        BY <1>4, <3>1 DEF TellsPort
      <4>2. u.port \in Port
        BY <4>1, UpdateKinds DEF PortUpdate
      <4>3. u.port.port # 0
        BY <2>2, <4>1, <4>2, CanonPortType DEF CanonPort, NameInv, TypeOK
      <4>4. portState' = [portState EXCEPT ![p] = u.state]
        BY <4>1, <4>3, StatesOfUpdate
      <4> QED BY <4>1, <4>4 DEF NameInv, TypeOK
    <3>2. CASE u \notin TellsPort(p)
      <4>1. LatestOf(vs, TellsPort(p)) = LatestOf(us, TellsPort(p))
        BY <1>4, <3>2
      <4>2. portState'[p] = portState[p]
        BY <3>2, StatesOfUpdate DEF TellsPort, NameInv, TypeOK
      <4> QED BY <2>2, <4>1, <4>2 DEF Described, StatesDescribed
    <3> QED BY <3>1, <3>2
  <2>3. ASSUME NEW p \in Port, p.port = 0 PROVE portState'[p] = NoState
    <3>1. portState[p] = NoState
      BY <2>3 DEF Described, StatesDescribed
    <3>2. ASSUME u.type = "port_state", u.port.port # 0
          PROVE  CanonPort(u.port) # p
      <4>1. u.port \in Port
        BY <3>2, UpdateKinds DEF PortUpdate
      <4> QED BY <2>3, <3>2, <4>1, CanonPortType DEF CanonPort, NameInv, TypeOK
    <3> QED BY <3>1, <3>2, StatesOfUpdate DEF NameInv, TypeOK
  <2>4. ASSUME NEW c \in ClockId
        PROVE  IF LatestOf(vs, TellsSelf(c)) = {}
                 THEN selfState'[c] = NoState
                 ELSE \E v \in LatestOf(vs, TellsSelf(c)) : selfState'[c] = v.state
    <3>1. CASE u \in TellsSelf(c)
      <4>1. /\ LatestOf(vs, TellsSelf(c)) = {u}
            /\ selfState' = [selfState EXCEPT ![c] = u.state]
        BY <1>4, <3>1, StatesOfUpdate DEF TellsSelf
      <4> QED BY <4>1 DEF NameInv, TypeOK
    <3>2. CASE u \notin TellsSelf(c)
      <4>1. LatestOf(vs, TellsSelf(c)) = LatestOf(us, TellsSelf(c))
        BY <1>4, <3>2
      <4>2. selfState'[c] = selfState[c]
        BY <3>2, StatesOfUpdate DEF TellsSelf, NameInv, TypeOK
      <4> QED BY <4>1, <4>2 DEF Described, StatesDescribed
    <3> QED BY <3>1, <3>2
  <2> QED BY <1>3, <2>1, <2>2, <2>3, <2>4, <1>5 DEF StatesDescribed
<1>9. \A k, a, b : Tells(k, a, b)' = Tells(k, a, b)
  <2>1. \A v, k : Hears(v, k)' <=> Hears(v, k)
    BY DEF Hears, Reports
  <2>2. \A v : ToOf(v)' = ToOf(v) /\ FromOf(v)' = FromOf(v)
    BY DEF ToOf, FromOf, Child, ParentOf
  <2> QED BY <1>2, <2>1, <2>2 DEF Tells
<1>10. \A v : DataOf(v)' = DataOf(v) /\ FromOf(v)' = FromOf(v)
  BY <1>2 DEF DataOf, FromOf, ParentOf
<1>11. \A l \in links : l.key = l.kind
  BY DEF Described, LinksDescribed
<1>12. \A l \in links' : l.key = l.kind
  <2>1. CASE links' = links
    BY <1>11, <2>1
  <2>2. ASSUME NEW d, NEW k, RemoveIncoming(d, k)
        PROVE  \A l \in links' : l.key = l.kind
    BY <1>11, <2>2 DEF RemoveIncoming
  <2>3. ASSUME NEW a, NEW b, NEW k, NEW m, AddLink(a, b, k, m)
        PROVE  \A l \in links' : l.key = l.kind
    BY <1>11, <2>3, AddedLinks
  <2> QED BY <2>1, <2>2, <2>3, LinksOfReport
<1>13. ASSUME NEW k \in Kinds, NEW a \in ClockId, NEW b \in ClockId
       PROVE  {<<l.key, l.meta>> : l \in LinksBetween(a, b, k)'}
                = {<<k, DataOf(v)>> : v \in {w \in LatestOf(vs, Tells(k, a, b)) :
                                               FromOf(w) # NoClock /\ a # b}}
  <2>1. {<<l.key, l.meta>> : l \in LinksBetween(a, b, k)}
          = {<<k, DataOf(v)>> : v \in {w \in LatestOf(us, Tells(k, a, b)) :
                                         FromOf(w) # NoClock /\ a # b}}
    BY DEF Described, LinksDescribed
  <2>2. CASE u \notin Tells(k, a, b)
    <3>1. LatestOf(vs, Tells(k, a, b)) = LatestOf(us, Tells(k, a, b))
      BY <1>4, <2>2
    <3>2. LinksBetween(a, b, k)' = LinksBetween(a, b, k)
      <4>1. ASSUME NEW j \in Kinds, Hears(u, j), FromOf(u) = NoClock,
                   RemoveIncoming(Canon(ToOf(u)), j)
            PROVE  LinksBetween(a, b, k)' = LinksBetween(a, b, k)
        <5>1. ~(j = k /\ Canon(ToOf(u)) = b)
          BY <2>2, <4>1 DEF Tells
        <5> QED BY <1>11, <4>1, <5>1 DEF RemoveIncoming, LinksBetween
      <4>2. ASSUME NEW j \in Kinds, Hears(u, j),
                   AddLink(Canon(FromOf(u)), Canon(ToOf(u)), j, DataOf(u))
            PROVE  LinksBetween(a, b, k)' = LinksBetween(a, b, k)
        <5>1. ~(j = k /\ Canon(ToOf(u)) = b /\ Canon(FromOf(u)) = a)
          BY <2>2, <4>2 DEF Tells
        <5> QED BY <1>11, <4>2, <5>1 DEF AddLink, LinksBetween
      <4>3. CASE links' = links
        BY <4>3 DEF LinksBetween
      <4> QED BY <4>1, <4>2, <4>3, LinksOfReport
    <3> QED BY <2>1, <3>1, <3>2
  <2>3. CASE u \in Tells(k, a, b)
    <3>1. /\ LatestOf(vs, Tells(k, a, b)) = {u}
          /\ Hears(u, k) /\ Canon(ToOf(u)) = b
          /\ FromOf(u) # NoClock => Canon(FromOf(u)) = a
      BY <1>4, <2>3 DEF Tells
    <3>2. /\ ToOf(u) \in ClockId
          /\ \/ FromOf(u) = NoClock /\ RemoveIncoming(b, k)
             \/ FromOf(u) # NoClock /\ AddLink(a, b, k, DataOf(u))
      BY <3>1, LinksOfReport, UnsetAssumption
    <3>3. CASE FromOf(u) = NoClock /\ RemoveIncoming(b, k)
      <4>1. LinksBetween(a, b, k)' = {}
        BY <1>11, <3>3 DEF RemoveIncoming, LinksBetween
      <4> QED BY <3>1, <3>3, <4>1
    <3>4. CASE FromOf(u) # NoClock /\ AddLink(a, b, k, DataOf(u)) /\ a # b
      <4> DEFINE new == [src |-> a, dst |-> b, kind |-> k, key |-> k,
                         meta |-> DataOf(u)]
      <4>1. links' = {l \in links : <<l.src, l.dst, l.key>> # <<a, b, k>>}
                       \cup {new}
        BY <3>4 DEF AddLink
      <4>2. LinksBetween(a, b, k)' = {new}
        BY <1>11, <4>1 DEF LinksBetween
      <4> QED BY <3>1, <3>4, <4>2
    <3>5. CASE FromOf(u) # NoClock /\ AddLink(a, b, k, DataOf(u)) /\ a = b
      <4>1. LinksBetween(a, b, k)' = LinksBetween(a, b, k)
        BY <3>5 DEF AddLink, LinksBetween
      <4> QED BY <2>1, <3>1, <3>5, <4>1
    <3> QED BY <3>2, <3>3, <3>4, <3>5
  <2> QED BY <2>2, <2>3
<1>14. LinksDescribed(vs)'
  BY <1>3, <1>5, <1>9, <1>10, <1>12, <1>13 DEF LinksDescribed
<1> QED BY <1>6, <1>7, <1>8, <1>14 DEF Described, vs

------------------------------------------------------------------------------
(* A build applies its plan. *)

Plan == Aggregated(ByPrecedence(Window))

\* The updates applied so far, with those still to be applied, are the plan,
\* and the graph is the one they make.
BuildInv ==
  phase = "build" =>
    \E done \in Seq(Updates) :
      /\ done \o todo = Plan
      /\ NodesDescribed(done)
      /\ IF OnlyAliases(done) THEN Bare ELSE Described(done)

\* Moving the head of one list to the end of another keeps them in order.
LEMMA MoveHead ==
  ASSUME NEW S, NEW s \in Seq(S), NEW t \in Seq(S), t # <<>>
  PROVE  Append(s, Head(t)) \o Tail(t) = s \o t
<1> DEFINE h == Head(t)
           r == Tail(t)
<1>1. h \in S /\ r \in Seq(S)
  BY HeadTailProperties
<1>2. t = <<h>> \o r
  <2>1. /\ Len(t) \in Nat \ {0}
        /\ Len(r) = Len(t) - 1
        /\ \A i \in 1..Len(r) : r[i] = t[i + 1]
        /\ h = t[1]
    BY HeadTailProperties, EmptySeq
  <2>2. /\ <<h>> \in Seq(S) /\ Len(<<h>>) = 1 /\ <<h>>[1] = h
    BY <1>1
  <2> HIDE DEF h, r
  <2>3. /\ <<h>> \o r \in Seq(S)
        /\ Len(<<h>> \o r) = 1 + Len(r)
        /\ \A i \in 1..(1 + Len(r)) :
             (<<h>> \o r)[i] = IF i <= 1 THEN <<h>>[i] ELSE r[i - 1]
    BY <1>1, <2>2, ConcatProperties
  <2>4. \A i \in 1..Len(t) : t[i] = (<<h>> \o r)[i]
    <3> SUFFICES ASSUME NEW i \in 1..Len(t) PROVE t[i] = (<<h>> \o r)[i]
      OBVIOUS
    <3>1. CASE i = 1
      BY <2>1, <2>2, <2>3, <3>1
    <3>2. CASE i # 1
      <4>1. i - 1 \in 1..Len(r) /\ (i - 1) + 1 = i /\ i \in 1..(1 + Len(r))
              /\ ~(i <= 1)
        BY <2>1, <3>2
      <4> QED BY <2>1, <2>3, <4>1
    <3> QED BY <3>1, <3>2
  <2>5. Len(t) = Len(<<h>> \o r)
    BY <2>1, <2>3
  <2> QED BY <2>3, <2>4, <2>5, SeqEqual
<1>3. Append(s, h) = s \o <<h>> /\ <<h>> \in Seq(S)
  BY <1>1, AppendIsConcat
<1> HIDE DEF h, r
<1>4. (s \o <<h>>) \o r = s \o (<<h>> \o r)
  BY <1>1, <1>3, ConcatAssociative
<1> QED BY <1>2, <1>3, <1>4 DEF h, r

\* What was applied before an alias are aliases.
LEMMA LeadApplied ==
  ASSUME NEW S, NEW s \in Seq(S), NEW t \in Seq(S), t # <<>>,
         AliasesLead(s \o t), Head(t).type = "clock_alias"
  PROVE  OnlyAliases(s)
<1>1. /\ \A i \in DOMAIN s : i \in DOMAIN (s \o t) /\ (s \o t)[i] = s[i]
      /\ \A j \in DOMAIN t : /\ Len(s) + j \in DOMAIN (s \o t)
                             /\ (s \o t)[Len(s) + j] = t[j]
  BY Concatenated
<1>2. /\ 1 \in DOMAIN t /\ t[1] = Head(t)
      /\ DOMAIN s = 1..Len(s) /\ Len(s) \in Nat
  BY EmptySeq
<1>3. \A i \in DOMAIN s : i <= Len(s) + 1
  BY <1>2
<1> QED BY <1>1, <1>2, <1>3 DEF AliasesLead, OnlyAliases, Elements

\* While a graph is built, it is what the updates applied so far describe.
LEMMA BuildsApplyPlans == DSpec => []BuildInv
<1>1. DInit => BuildInv
  BY DEF DInit, BuildInv
<1>2. MasterInv /\ BuildInv /\ [DNext]_dvars => BuildInv'
  <2> SUFFICES ASSUME MasterInv, BuildInv, [DNext]_dvars PROVE BuildInv'
    OBVIOUS
  <2>1. /\ NameInv /\ queue \in Seq(Stamped) /\ todo \in Seq(Updates)
    BY DEF MasterInv, GraphInv, DTypeOK
  <2>2. Window \in Seq(Sent)
    BY <2>1, ContentsType DEF Window
  <2>3. queue' = queue => Plan' = Plan
    BY DEF Plan, Window
  <2>4. CASE UNCHANGED dvars
    <3>1. /\ phase' = phase /\ todo' = todo /\ queue' = queue /\ aliases' = aliases
          /\ nodes' = nodes /\ links' = links /\ portIds' = portIds
          /\ portState' = portState /\ selfState' = selfState
      BY <2>4 DEF dvars, vars
    <3>2. ASSUME NEW done \in Seq(Updates)
          PROVE  /\ NodesDescribed(done) => NodesDescribed(done)'
                 /\ Described(done) => Described(done)'
                 /\ Bare => Bare'
                 /\ OnlyAliases(done)' <=> OnlyAliases(done)
      <4>1. /\ \A c : Canon(c)' = Canon(c)
            /\ \A p : CanonPort(p)' = CanonPort(p)
        BY <3>1 DEF Canon, CanonPort
      <4>2. Elements(done)' = Elements(done) /\ Mentioned(done)' = Mentioned(done)
        BY DEF Elements, Mentioned, ClocksOf, Reports
      <4>3. NodesDescribed(done) => NodesDescribed(done)'
        BY <3>1, <4>1, <4>2 DEF NodesDescribed
      <4>4. PortsDescribed(done) => PortsDescribed(done)'
        <5>1. (UNION {NewPorts(u) : u \in Elements(done)})'
                = UNION {NewPorts(u) : u \in Elements(done)}
          BY DEF NewPorts, PortsOf, Elements
        <5> QED BY <3>1, <4>1, <5>1 DEF PortsDescribed
      <4>5. StatesDescribed(done) => StatesDescribed(done)'
        <5>1. /\ \A p : TellsPort(p)' = TellsPort(p)
              /\ \A c : TellsSelf(c)' = TellsSelf(c)
          BY <4>1 DEF TellsPort, TellsSelf
        <5>2. \A A : LatestOf(done, A)' = LatestOf(done, A)
          OBVIOUS
        <5> QED BY <3>1, <5>1, <5>2 DEF StatesDescribed
      <4>6. LinksDescribed(done) => LinksDescribed(done)'
        <5>1. \A v, k : Hears(v, k)' <=> Hears(v, k)
          BY DEF Hears, Reports
        <5>2. \A v : ToOf(v)' = ToOf(v) /\ FromOf(v)' = FromOf(v)
          BY DEF ToOf, FromOf, Child, ParentOf
        <5>3. \A k, a, b : Tells(k, a, b)' = Tells(k, a, b)
          BY <4>1, <5>1, <5>2 DEF Tells
        <5>4. \A v : DataOf(v)' = DataOf(v)
          BY <4>1 DEF DataOf
        <5>5. \A a, b, k : LinksBetween(a, b, k)' = LinksBetween(a, b, k)
          BY <3>1 DEF LinksBetween
        <5>6. \A A : LatestOf(done, A)' = LatestOf(done, A)
          OBVIOUS
        <5> QED BY <3>1, <5>2, <5>3, <5>4, <5>5, <5>6 DEF LinksDescribed
      <4>7. Described(done) => Described(done)'
        BY <4>3, <4>4, <4>5, <4>6 DEF Described
      <4>8. Bare => Bare'
        BY <3>1 DEF Bare
      <4> QED BY <4>2, <4>3, <4>7, <4>8 DEF OnlyAliases
    <3> QED BY <2>3, <3>1, <3>2 DEF BuildInv
  <2>5. ASSUME NEW u \in Sent, OnGraphUpdate(u) PROVE BuildInv'
    BY <2>5 DEF OnGraphUpdate, BuildInv
  <2>6. CASE OnDiagnosticTimer
    <3>1. /\ todo' = Plan'
          /\ nodes' = {} /\ links' = {} /\ aliases' = [c \in ClockId |-> {}]
          /\ Bare'
      BY <2>6 DEF OnDiagnosticTimer, FreshGraph, Plan, Window, Bare
    <3>2. <<>> \in Seq(Updates) /\ Elements(<<>>) = {}
      BY DEF Elements
    <3>3. todo' \in Seq(Updates)
      <4>1. queue' \in Seq(Stamped)
        BY <2>1, <2>6, MarkedType, UnexpiredQueue DEF OnDiagnosticTimer
      <4>2. ByPrecedence(Contents(queue')) \in Seq(Sent)
        BY <4>1, ContentsType, ByPrecedenceKeeps
      <4> QED BY <2>6, <4>2, AggregatedType DEF OnDiagnosticTimer
    <3>4. <<>> \o todo' = todo'
      BY <3>3, ConcatEmptySeq
    <3>5. NodesDescribed(<<>>)' /\ OnlyAliases(<<>>)'
      BY <3>1, <3>2 DEF NodesDescribed, Mentioned, OnlyAliases
    <3> QED BY <3>1, <3>2, <3>4, <3>5 DEF BuildInv
  <2>7. CASE ApplyUpdate
    <3>1. PICK done \in Seq(Updates) :
            /\ done \o todo = Plan
            /\ NodesDescribed(done)
            /\ IF OnlyAliases(done) THEN Bare ELSE Described(done)
      BY <2>7 DEF ApplyUpdate, BuildInv
    <3>2. PICK v \in Updates : v = Head(todo)
      BY <2>1, <2>7, HeadTailProperties DEF ApplyUpdate
    <3>3. /\ todo # <<>> /\ Update(v) /\ todo' = Tail(todo)
          /\ queue' = queue /\ phase' = phase
      BY <2>7, <3>2 DEF ApplyUpdate
    <3> DEFINE next == Append(done, v)
    <3>4. next \in Seq(Updates) /\ Elements(next) = Elements(done) \cup {v}
      BY ElementsAppend
    <3>5. next \o todo' = Plan'
      BY <2>1, <2>3, <3>1, <3>2, <3>3, MoveHead
    <3>6. CASE v.type = "clock_alias"
      <4>1. AliasesLead(done \o todo)
        BY <2>2, <3>1, PlansLead DEF Plan
      <4>2. OnlyAliases(done)
        BY <2>1, <3>2, <3>3, <3>6, <4>1, LeadApplied
      <4>3. NodesDescribed(next)' /\ Bare'
        BY <2>1, <3>1, <3>3, <3>6, <4>2, AliasDescribed
      <4>4. OnlyAliases(next)
        BY <3>4, <3>6, <4>2 DEF OnlyAliases
      <4> HIDE DEF next
      <4>5. OnlyAliases(next)' <=> OnlyAliases(next)
        BY DEF OnlyAliases, Elements, next
      <4> QED BY <3>4, <3>5, <4>3, <4>4, <4>5 DEF BuildInv
    <3>7. CASE v.type # "clock_alias"
      <4>1. Described(done)
        BY <3>1, BareIsDescribed
      <4>2. Described(next)'
        BY <2>1, <3>3, <3>7, <4>1, UpdateDescribed
      <4>3. ~OnlyAliases(next)
        BY <3>4, <3>7 DEF OnlyAliases
      <4> HIDE DEF next
      <4>4. OnlyAliases(next)' <=> OnlyAliases(next)
        BY DEF OnlyAliases, Elements, next
      <4> QED BY <3>4, <3>5, <4>2, <4>3, <4>4 DEF BuildInv, Described
    <3> QED BY <3>6, <3>7
  <2>8. CASE Diagnose
    BY <2>8 DEF Diagnose, BuildInv
  <2>9. CASE TimePasses
    BY <2>9 DEF TimePasses, BuildInv
  <2>10. CASE UpdateRaises \/ Restart
    BY <2>10 DEF UpdateRaises, Restart, BuildInv
  <2> QED BY <2>4, <2>5, <2>6, <2>7, <2>8, <2>9, <2>10 DEF DNext
<1> QED BY <1>1, <1>2, MasterIsSound, PTL DEF DSpec

------------------------------------------------------------------------------
(* The plan tells the same as the window. *)

\* Every measurement has the first of its group.
LEMMA FirstOfPair ==
  ASSUME NEW s \in Seq(Sent), NEW i \in DOMAIN s, s[i].type = "clock_diff"
  PROVE  \E f \in Firsts(s) : SamePair(s[f], s[i])
<1> DEFINE D == {j \in DOMAIN s :
                   s[j].type = "clock_diff" /\ SamePair(s[j], s[i])}
<1>1. D \in SUBSET Nat /\ D # {}
  BY DEF SamePair
<1>2. PICK f \in D : \A j \in D : f <= j
  <2> HIDE DEF D
  <2> QED BY <1>1, LeastNatural
<1>3. \A h \in 1..(f - 1) : h \in DOMAIN s /\ h \notin D
  <2> SUFFICES ASSUME NEW h \in 1..(f - 1) PROVE h \in DOMAIN s /\ h \notin D
    OBVIOUS
  <2>1. DOMAIN s = 1..Len(s) /\ Len(s) \in Nat /\ f \in 1..Len(s)
    OBVIOUS
  <2>2. h \in 1..Len(s) /\ ~(f <= h)
    BY <2>1
  <2> QED BY <1>2, <2>1, <2>2
<1>4. \A h \in 1..(f - 1) :
        s[h].type = "clock_diff" => ~SamePair(s[h], s[f])
  BY <1>3 DEF SamePair
<1> QED BY <1>4 DEF Firsts

\* The aggregated measurement of a group is under the names of the group.
LEMMA MedianNames ==
  ASSUME NEW s \in Seq(Sent), NEW i \in Firsts(s), NEW r
  PROVE  LET u == [s[i] EXCEPT !.meta = r]
         IN  /\ i \in DOMAIN s /\ s[i] \in Elements(s)
             /\ s[i] \in Measurement
             /\ u.type = "clock_diff" /\ s[i].type = "clock_diff"
             /\ u.src = s[i].src /\ u.dst = s[i].dst /\ u.meta = r
<1>1. i \in DOMAIN s /\ s[i].type = "clock_diff"
  BY DEF Firsts
<1>2. s[i] \in Measurement
  BY <1>1, SentTypes, UpdateKinds
<1> QED BY <1>1, <1>2 DEF Measurement, Elements

\* Nothing is mentioned less or more.
LEMMA PlanMentions ==
  ASSUME NEW w \in Seq(Sent)
  PROVE  LET plan == Aggregated(ByPrecedence(w))
         IN  /\ Mentioned(plan) = Mentioned(w)
             /\ UNION {NewPorts(u) : u \in Elements(plan)}
                  = UNION {NewPorts(u) : u \in Elements(w)}
<1> DEFINE s == ByPrecedence(w)
           plan == Aggregated(s)
           med(i) == [s[i] EXCEPT !.meta = Median(Diffs(s, s[i]))]
<1>1. s \in Seq(Sent) /\ Elements(s) = Elements(w)
  BY ByPrecedenceKeeps
<1> HIDE DEF s
<1>2. Elements(plan) = {u \in Elements(s) : u.type # "clock_diff"}
                         \cup {med(i) : i \in Firsts(s)}
  BY <1>1, AggregatedType, MediansType
<1>3. \A i \in Firsts(s) :
        /\ s[i] \in Elements(s)
        /\ ClocksOf(med(i)) = ClocksOf(s[i])
        /\ NewPorts(med(i)) = {}
  BY <1>1, MedianNames DEF ClocksOf, NewPorts, PortsOf
<1>4. \A u \in Elements(s) : u.type = "clock_diff" =>
        /\ NewPorts(u) = {}
        /\ \E i \in Firsts(s) : ClocksOf(s[i]) = ClocksOf(u)
  <2> SUFFICES ASSUME NEW j \in DOMAIN s, s[j].type = "clock_diff"
               PROVE  /\ NewPorts(s[j]) = {}
                      /\ \E i \in Firsts(s) : ClocksOf(s[i]) = ClocksOf(s[j])
    BY DEF Elements
  <2>1. PICK i \in Firsts(s) : SamePair(s[i], s[j])
    BY <1>1, FirstOfPair
  <2>2. s[i].type = "clock_diff"
    BY DEF Firsts
  <2> QED BY <2>1, <2>2 DEF SamePair, ClocksOf, NewPorts, PortsOf
<1> HIDE DEF med, plan
<1>5. Mentioned(plan) = Mentioned(s)
  BY <1>2, <1>3, <1>4 DEF Mentioned
<1>6. UNION {NewPorts(u) : u \in Elements(plan)}
        = UNION {NewPorts(u) : u \in Elements(s)}
  BY <1>2, <1>3, <1>4
<1> QED BY <1>1, <1>5, <1>6 DEF plan, s, Mentioned

\* LatestOf in the form of Latest.
LEMMA LatestForm ==
  ASSUME NEW S, NEW s \in Seq(S), NEW A
  PROVE  LatestOf(s, A) =
           {s[i] : i \in {j \in DOMAIN s :
              s[j] \in A /\ \A n \in DOMAIN s : n > j => s[n] \notin A}}
<1>1. \A n, j \in DOMAIN s : n \in Int /\ j \in Int
  OBVIOUS
<1>2. \A n, j \in DOMAIN s : n <= j <=> ~(n > j)
  BY <1>1
<1> QED BY <1>2 DEF LatestOf, At

\* What holds of a finished graph.
Finished ==
  Built => /\ Window \in Seq(Sent)
           /\ NameInv
           /\ Described(Plan)

\* The finished graph is what the whole plan describes.
LEMMA FinishedIsDescribed == DSpec => []Finished
<1>1. MasterInv /\ BuildInv => Finished
  <2> SUFFICES ASSUME MasterInv, BuildInv, Built PROVE Finished
    BY DEF Finished
  <2>1. PICK done \in Seq(Updates) :
          /\ done \o todo = Plan
          /\ NodesDescribed(done)
          /\ IF OnlyAliases(done) THEN Bare ELSE Described(done)
    BY DEF Built, BuildInv
  <2>2. done = Plan
    BY <2>1, ConcatEmptySeq DEF Built
  <2>3. Described(done)
    BY <2>1, BareIsDescribed
  <2>4. Window \in Seq(Sent)
    BY ContentsType DEF MasterInv, DTypeOK, Window
  <2> QED BY <2>2, <2>3, <2>4 DEF Finished, MasterInv, GraphInv
<1> QED BY <1>1, MasterIsSound, BuildsApplyPlans, PTL

\* For updates of one type, other than measurements, the last in the plan is the
\* last in the window.
LEMMA LatestInPlan ==
  ASSUME Window \in Seq(Sent), NEW type \in Types \ {"clock_diff"}, NEW A,
         \A u \in A : u.type = type
  PROVE  LatestOf(Plan, A) = LatestOf(Window, A)
BY LatestSorted, LatestAggregated, ByPrecedenceKeeps DEF Plan

\* A finished graph has the clocks and ports that the window mentions, and the
\* latest states, under the canonical names.
THEOREM StatesAreTheLatest == DSpec => []StatesAreLatest
<1>1. Finished => StatesAreLatest
  <2> SUFFICES ASSUME Finished, Built PROVE StatesAreLatest
    BY DEF StatesAreLatest
  <2>1. Window \in Seq(Sent) /\ Described(Plan) /\ NameInv
    BY DEF Finished
  <2>2. \A i \in DOMAIN Window : Window[i] \in Updates
    BY <2>1, SentAssumption
  <2>3. nodes = {Canon(c) : c \in UNION {ClocksOf(Window[i]) : i \in DOMAIN Window}}
    <3>1. Mentioned(Window) = UNION {ClocksOf(Window[i]) : i \in DOMAIN Window}
      BY DEF Mentioned, Elements
    <3> QED BY <2>1, <3>1, PlanMentions DEF Plan, Described, NodesDescribed
  <2>4. \A c \in ClockId : portIds[c] =
          {q \in {CanonPort(p) :
                    p \in {r \in UNION {PortsOf(Window[i]) : i \in DOMAIN Window} :
                             r.port # 0}} : q.clock = c}
    <3>1. UNION {NewPorts(u) : u \in Elements(Window)}
            = {r \in UNION {PortsOf(Window[i]) : i \in DOMAIN Window} : r.port # 0}
      BY DEF NewPorts, Elements
    <3>2. UNION {NewPorts(u) : u \in Elements(Plan)}
            = UNION {NewPorts(u) : u \in Elements(Window)}
      BY <2>1, PlanMentions DEF Plan
    <3> QED BY <2>1, <3>1, <3>2 DEF Described, PortsDescribed
  <2>5. ASSUME NEW p \in Port
        PROVE  LET about(u) == u.type = "port_state" /\ CanonPort(u.port) = p
               IN  IF p.port = 0 \/ Latest(about) = {} THEN portState[p] = NoState
                   ELSE \E u \in Latest(about) : portState[p] = u.state
    <3> DEFINE about(u) == u.type = "port_state" /\ CanonPort(u.port) = p
    <3>1. LatestOf(Plan, TellsPort(p)) = LatestOf(Window, TellsPort(p))
      BY <2>1, LatestInPlan DEF TellsPort, Types
    <3>2. \A i \in DOMAIN Window : Window[i] \in TellsPort(p) <=> about(Window[i])
      BY <2>2 DEF TellsPort
    <3>3. Latest(about) = LatestOf(Window, TellsPort(p))
      BY <2>1, <3>2, LatestForm DEF Latest
    <3>4. IF p.port = 0 \/ LatestOf(Window, TellsPort(p)) = {}
            THEN portState[p] = NoState
            ELSE \E u \in LatestOf(Window, TellsPort(p)) : portState[p] = u.state
      BY <2>1, <3>1 DEF Described, StatesDescribed
    <3> QED BY <3>3, <3>4
  <2>6. ASSUME NEW c \in ClockId
        PROVE  LET about(u) == /\ u.type = "self_reported"
                               /\ u.clock # NoClock
                               /\ u.state # Invalid
                               /\ Canon(u.clock) = c
               IN  IF Latest(about) = {} THEN selfState[c] = NoState
                   ELSE \E u \in Latest(about) : selfState[c] = u.state
    <3> DEFINE about(u) == /\ u.type = "self_reported"
                           /\ u.clock # NoClock
                           /\ u.state # Invalid
                           /\ Canon(u.clock) = c
    <3>1. LatestOf(Plan, TellsSelf(c)) = LatestOf(Window, TellsSelf(c))
      BY <2>1, LatestInPlan DEF TellsSelf, Types
    <3>2. \A i \in DOMAIN Window : Window[i] \in TellsSelf(c) <=> about(Window[i])
      BY <2>2 DEF TellsSelf
    <3>3. Latest(about) = LatestOf(Window, TellsSelf(c))
      BY <2>1, <3>2, LatestForm DEF Latest
    <3>4. IF LatestOf(Window, TellsSelf(c)) = {}
            THEN selfState[c] = NoState
            ELSE \E u \in LatestOf(Window, TellsSelf(c)) : selfState[c] = u.state
      BY <2>1, <3>1 DEF Described, StatesDescribed
    <3> QED BY <3>3, <3>4
  <2> QED BY <2>3, <2>4, <2>5, <2>6 DEF StatesAreLatest
<1> QED BY <1>1, FinishedIsDescribed, PTL

\* A finished graph has exactly the master, phc2sys and PTP links that the last
\* updates about them report, with their data.
THEOREM LinksAreTheLatest == DSpec => []LinksAreLatest
<1>1. Finished => LinksAreLatest
  <2> SUFFICES ASSUME Finished, Built,
                      NEW a \in ClockId, NEW b \in ClockId,
                      NEW k \in Kinds \ {"measurement"}
               PROVE  LET about(u) ==
                            /\ Reports(u, k)
                            /\ Canon(Child(u)) = b
                            /\ ParentOf(u) # NoClock => Canon(ParentOf(u)) = a
                          last == {u \in Latest(about) :
                                     ParentOf(u) # NoClock /\ a # b}
                      IN  {<<l.key, l.meta>> : l \in {m \in links :
                             m.src = a /\ m.dst = b /\ m.kind = k}}
                            = {<<k, DataOf(u)>> : u \in last}
    BY DEF LinksAreLatest
  <2> DEFINE about(u) == /\ Reports(u, k)
                         /\ Canon(Child(u)) = b
                         /\ ParentOf(u) # NoClock => Canon(ParentOf(u)) = a
             A == Tells(k, a, b)
  <2>1. Window \in Seq(Sent) /\ Described(Plan)
    BY DEF Finished
  <2>2. \A i \in DOMAIN Window : Window[i] \in Updates
    BY <2>1, SentAssumption
  <2>3. PICK type \in Types \ {"clock_diff"} : \A u : Reports(u, k) => u.type = type
    <3>1. k \in {"master", "ptp_parent", "phc2sys"}
      BY DEF Kinds
    <3>2. CASE k = "master"
      BY <3>2 DEF Reports, Types
    <3>3. CASE k = "ptp_parent"
      BY <3>3 DEF Reports, Types
    <3>4. CASE k = "phc2sys"
      BY <3>4 DEF Reports, Types
    <3> QED BY <3>1, <3>2, <3>3, <3>4
  <2>4. \A u : Hears(u, k) <=> Reports(u, k)
    BY DEF Hears
  <2>5. \A u : Reports(u, k) => ToOf(u) = Child(u) /\ FromOf(u) = ParentOf(u)
    BY <2>3 DEF ToOf, FromOf
  <2>6. \A u \in A : u.type = type
    BY <2>3, <2>4 DEF Tells
  <2>7. \A i \in DOMAIN Window : Window[i] \in A <=> about(Window[i])
    BY <2>2, <2>4, <2>5 DEF Tells
  <2>8. \A u \in A : FromOf(u) = ParentOf(u)
    BY <2>4, <2>5 DEF Tells
  <2>9. {<<l.key, l.meta>> : l \in LinksBetween(a, b, k)}
          = {<<k, DataOf(u)>> : u \in {v \in LatestOf(Plan, A) :
                                         FromOf(v) # NoClock /\ a # b}}
    BY <2>1 DEF Described, LinksDescribed
  <2> HIDE DEF A, about
  <2>10. Latest(about) = LatestOf(Window, A)
    BY <2>1, <2>7, LatestForm DEF Latest
  <2>11. LatestOf(Plan, A) = LatestOf(Window, A)
    BY <2>1, <2>6, LatestInPlan
  <2>12. \A u \in LatestOf(Plan, A) : FromOf(u) = ParentOf(u)
    BY <2>8 DEF LatestOf, At
  <2>13. {<<k, DataOf(u)>> : u \in {v \in LatestOf(Plan, A) :
                                      FromOf(v) # NoClock /\ a # b}}
           = {<<k, DataOf(u)>> : u \in {v \in Latest(about) :
                                          ParentOf(v) # NoClock /\ a # b}}
    BY <2>10, <2>11, <2>12
  <2> QED BY <2>9, <2>13 DEF LinksBetween, about
<1> QED BY <1>1, FinishedIsDescribed, PTL

\* There is at most one latest entry of a kind.
LEMMA LatestIsOne ==
  ASSUME NEW S, NEW s \in Seq(S), NEW A,
         NEW u \in LatestOf(s, A), NEW v \in LatestOf(s, A)
  PROVE  u = v
<1>1. PICK i \in At(s, A) : u = s[i] /\ \A n \in At(s, A) : n <= i
  BY DEF LatestOf
<1>2. PICK j \in At(s, A) : v = s[j] /\ \A n \in At(s, A) : n <= j
  BY DEF LatestOf
<1>3. i <= j /\ j <= i /\ i \in Int /\ j \in Int
  BY <1>1, <1>2 DEF At
<1> QED BY <1>1, <1>2, <1>3

\* If there is an entry of a kind, one of them is the latest.
LEMMA LatestExists ==
  ASSUME NEW S, NEW s \in Seq(S), NEW A, At(s, A) # {}
  PROVE  LatestOf(s, A) # {}
<1> DEFINE D == At(s, A)
           f == [i \in D |-> i]
<1>1. IsFiniteSet(D) /\ f \in [D -> Int] /\ D # {}
  BY IndexSets DEF At
<1>2. PICK i \in D : \A j \in D : f[j] <= f[i]
  <2> HIDE DEF D, f
  <2> QED BY <1>1, GreatestValue
<1> QED BY <1>2 DEF LatestOf

\* Of a kind one link at most leads from one clock to another in a described
\* graph.
LEMMA DescribedIsSimple ==
  ASSUME TypeOK, NEW us \in Seq(Updates), LinksDescribed(us)
  PROVE  AtMostOneOfEachKind
<1> SUFFICES ASSUME NEW l \in links, NEW m \in links,
                    l.src = m.src, l.dst = m.dst, l.kind = m.kind
             PROVE  l = m
  BY DEF AtMostOneOfEachKind
<1> DEFINE B == LinksBetween(l.src, l.dst, l.kind)
           A == Tells(l.kind, l.src, l.dst)
<1>1. /\ l \in Link /\ m \in Link /\ l \in B /\ m \in B
      /\ l.key = l.kind /\ m.key = m.kind
  BY DEF TypeOK, LinksBetween, LinksDescribed
<1>2. /\ l.src \in ClockId /\ l.dst \in ClockId /\ l.kind \in Kinds
  BY <1>1 DEF Link
<1>3. {<<h.key, h.meta>> : h \in B}
        = {<<l.kind, DataOf(u)>> : u \in {v \in LatestOf(us, A) :
             FromOf(v) # NoClock /\ l.src # l.dst}}
  BY <1>2 DEF LinksDescribed
<1> HIDE DEF A, B
<1>4. PICK u \in LatestOf(us, A) : <<l.key, l.meta>> = <<l.kind, DataOf(u)>>
  BY <1>1, <1>3
<1>5. PICK v \in LatestOf(us, A) : <<m.key, m.meta>> = <<l.kind, DataOf(v)>>
  BY <1>1, <1>3
<1>6. l.meta = m.meta
  BY <1>4, <1>5, LatestIsOne
<1> QED BY <1>1, <1>6 DEF Link

\* Between builds there is no graph.
EmptyWhenIdle == phase # "build" => links = {}

\* Between two ticks of the timer the graph has no links.
LEMMA IdleIsEmpty == DSpec => []EmptyWhenIdle
<1>1. DInit => EmptyWhenIdle
  BY DEF DInit, Init, EmptyWhenIdle
<1>2. EmptyWhenIdle /\ [DNext]_dvars => EmptyWhenIdle'
  BY DEF EmptyWhenIdle, DNext, dvars, vars, OnGraphUpdate, OnDiagnosticTimer,
         ApplyUpdate, UpdateRaises, Restart, Diagnose, TimePasses, FreshGraph
<1> QED BY <1>1, <1>2, PTL DEF DSpec

\* In the graphs of the master, unlike in graphs at large, no merge renumbers a
\* link, as the aliases are merged first: there is at most one link of a kind
\* from one clock to another, as the documentation of get_links says.
THEOREM MasterGraphsAreSimple == DSpec => []AtMostOneOfEachKind
<1>1. MasterInv /\ BuildInv /\ EmptyWhenIdle => AtMostOneOfEachKind
  <2> SUFFICES ASSUME MasterInv, BuildInv, EmptyWhenIdle
               PROVE  AtMostOneOfEachKind
    OBVIOUS
  <2>1. TypeOK /\ phase \in {"idle", "build", "down"}
    BY DEF MasterInv, DTypeOK
  <2>2. CASE links = {}
    BY <2>2 DEF AtMostOneOfEachKind
  <2>3. ASSUME NEW done \in Seq(Updates), Described(done)
        PROVE  AtMostOneOfEachKind
    BY <2>1, <2>3, DescribedIsSimple DEF Described
  <2> QED BY <2>1, <2>2, <2>3 DEF BuildInv, EmptyWhenIdle, Bare
<1> QED BY <1>1, MasterIsSound, BuildsApplyPlans, IdleIsEmpty, PTL

\* The measurements from a to b that a plan has: the medians of the groups
\* under names of a and b.
LEMMA PlannedMeasurements ==
  ASSUME NameInv, Window \in Seq(Sent), NEW a \in ClockId, NEW b \in ClockId
  PROVE  LET s == ByPrecedence(Window)
             A == Tells("measurement", a, b)
         IN  /\ \A u \in A : FromOf(u) # NoClock /\ DataOf(u) = [offset |-> u.meta]
             /\ \A u \in LatestOf(Plan, A) : \E i \in Firsts(s) :
                  /\ Canon(s[i].src) = a /\ Canon(s[i].dst) = b
                  /\ s[i].src \in ClockId /\ s[i].dst \in ClockId
                  /\ u.meta = Median(Diffs(s, s[i]))
             /\ \A i \in DOMAIN s :
                  /\ s[i].type = "clock_diff"
                  /\ s[i].src \in ClockId /\ s[i].dst \in ClockId
                  /\ Canon(s[i].src) = a /\ Canon(s[i].dst) = b
                  => LatestOf(Plan, A) # {}
<1> DEFINE s == ByPrecedence(Window)
           A == Tells("measurement", a, b)
           med(i) == [s[i] EXCEPT !.meta = Median(Diffs(s, s[i]))]
<1>1. s \in Seq(Sent)
  BY ByPrecedenceKeeps
<1>2. Plan = Aggregated(s)
  BY DEF Plan
<1> HIDE DEF s
<1>3. /\ Plan \in Seq(Updates)
      /\ Elements(Plan) = {u \in Elements(s) : u.type # "clock_diff"}
                            \cup {med(i) : i \in Firsts(s)}
  BY <1>1, <1>2, AggregatedType, MediansType
<1>4. \A u : u \in A <=> /\ u \in Updates
                         /\ u.type = "clock_diff"
                         /\ u.src # NoClock /\ u.dst # NoClock
                         /\ Canon(u.src) = a /\ Canon(u.dst) = b
  BY DEF Tells, Hears, ToOf, FromOf
<1>5. \A u \in A : FromOf(u) # NoClock /\ DataOf(u) = [offset |-> u.meta]
  BY <1>4 DEF FromOf, DataOf
<1> HIDE DEF A
<1>6. \A i \in Firsts(s) :
        /\ med(i) \in Updates /\ med(i).type = "clock_diff"
        /\ med(i).src = s[i].src /\ med(i).dst = s[i].dst
        /\ med(i).meta = Median(Diffs(s, s[i]))
        /\ s[i] \in Measurement
  <2>1. \A i \in Firsts(s) : med(i) \in Elements(Plan)
    BY <1>3
  <2>2. \A i \in Firsts(s) : med(i) \in Updates
    BY <1>3, <2>1 DEF Elements
  <2> QED BY <1>1, <2>2, MedianNames
<1>7. ASSUME NEW u \in LatestOf(Plan, A)
      PROVE  \E i \in Firsts(s) :
               /\ Canon(s[i].src) = a /\ Canon(s[i].dst) = b
               /\ s[i].src \in ClockId /\ s[i].dst \in ClockId
               /\ u.meta = Median(Diffs(s, s[i]))
  <2>1. u \in A /\ u \in Elements(Plan)
    BY <1>3, LatestIsElement
  <2>2. PICK i \in Firsts(s) : u = med(i)
    BY <1>3, <1>4, <2>1
  <2> QED BY <1>4, <1>6, <2>1, <2>2 DEF Measurement
<1>8. ASSUME NEW i \in DOMAIN s, s[i].type = "clock_diff",
             s[i].src \in ClockId, s[i].dst \in ClockId,
             Canon(s[i].src) = a, Canon(s[i].dst) = b
      PROVE  LatestOf(Plan, A) # {}
  <2>1. PICK f \in Firsts(s) : SamePair(s[f], s[i])
    BY <1>1, <1>8, FirstOfPair
  <2>2. med(f) \in A
    BY <1>4, <1>6, <1>8, <2>1, UnsetAssumption DEF SamePair
  <2>3. med(f) \in Elements(Plan)
    BY <1>3
  <2>4. At(Plan, A) # {}
    BY <2>2, <2>3 DEF At, Elements
  <2> QED BY <1>3, <2>4, LatestExists
<1> QED BY <1>5, <1>7, <1>8 DEF s, A

\* Of the measurements under the names of a group at most half are less than
\* the median that the plan has for it, and at most half are greater.
LEMMA MedianOfWindow ==
  ASSUME Window \in Seq(Sent), NEW i \in Firsts(ByPrecedence(Window))
  PROVE  LET s == ByPrecedence(Window)
             r == Median(Diffs(s, s[i]))
             group == {j \in DOMAIN Window : /\ Window[j].type = "clock_diff"
                                             /\ Window[j].src = s[i].src
                                             /\ Window[j].dst = s[i].dst}
         IN  /\ group # {}
             /\ 2 * Cardinality({j \in group : Window[j].meta < r})
                  <= Cardinality(group)
             /\ 2 * Cardinality({j \in group : Window[j].meta > r})
                  <= Cardinality(group)
<1> DEFINE s == ByPrecedence(Window)
           r == Median(Diffs(s, s[i]))
           G == {u \in Sent : /\ u.type = "clock_diff"
                              /\ u.src = s[i].src /\ u.dst = s[i].dst}
           Low == {u \in G : u.meta < r}
           High == {u \in G : u.meta > r}
<1>1. s \in Seq(Sent) /\ Elements(s) = Elements(Window)
  BY ByPrecedenceKeeps
<1>2. /\ Cardinality(At(s, G)) = Cardinality(At(Window, G))
      /\ Cardinality(At(s, Low)) = Cardinality(At(Window, Low))
      /\ Cardinality(At(s, High)) = Cardinality(At(Window, High))
  BY LatestSorted DEF Types
<1> HIDE DEF s
<1>3. i \in DOMAIN s /\ s[i].type = "clock_diff"
  BY DEF Firsts, s
<1>4. /\ {j \in DOMAIN s : s[j].type = "clock_diff" /\ SamePair(s[j], s[i])}
           = At(s, G)
      /\ {j \in {h \in DOMAIN s : s[h].type = "clock_diff" /\ SamePair(s[h], s[i])} :
            s[j].meta < r} = At(s, Low)
      /\ {j \in {h \in DOMAIN s : s[h].type = "clock_diff" /\ SamePair(s[h], s[i])} :
            s[j].meta > r} = At(s, High)
  BY <1>1 DEF At, SamePair
<1>5. /\ {j \in DOMAIN Window : /\ Window[j].type = "clock_diff"
                                /\ Window[j].src = s[i].src
                                /\ Window[j].dst = s[i].dst} = At(Window, G)
      /\ {j \in At(Window, G) : Window[j].meta < r} = At(Window, Low)
      /\ {j \in At(Window, G) : Window[j].meta > r} = At(Window, High)
  BY DEF At
<1>6. At(Window, G) # {}
  <2>1. s[i] \in G /\ s[i] \in Elements(Window)
    BY <1>1, <1>3 DEF Elements
  <2> QED BY <2>1 DEF At, Elements
<1> HIDE DEF G, Low, High, r
<1>7. /\ 2 * Cardinality(At(s, Low)) <= Cardinality(At(s, G))
      /\ 2 * Cardinality(At(s, High)) <= Cardinality(At(s, G))
  <2>1. /\ 2 * Cardinality({j \in {h \in DOMAIN s :
                              s[h].type = "clock_diff" /\ SamePair(s[h], s[i])} :
                              s[j].meta < r})
             <= Cardinality({j \in DOMAIN s :
                              s[j].type = "clock_diff" /\ SamePair(s[j], s[i])})
        /\ 2 * Cardinality({j \in {h \in DOMAIN s :
                              s[h].type = "clock_diff" /\ SamePair(s[h], s[i])} :
                              s[j].meta > r})
             <= Cardinality({j \in DOMAIN s :
                              s[j].type = "clock_diff" /\ SamePair(s[j], s[i])})
    BY <1>1, <1>3, MedianOfGroup DEF r
  <2> QED BY <1>4, <2>1
<1> QED BY <1>2, <1>5, <1>6, <1>7 DEF r, s

\* A finished graph has a measurement from one clock to another exactly if the
\* window has one under some of their names, and it is the median of all that
\* are under the same names.
THEOREM MeasurementsAreTheMedians == DSpec => []MeasurementsAreMedians
<1>1. Finished => MeasurementsAreMedians
  <2> SUFFICES ASSUME Finished, Built, NEW a \in nodes, NEW b \in nodes
               PROVE
      LET found == {m \in links :
                      m.src = a /\ m.dst = b /\ m.kind = "measurement"}
          of(c, d) == {i \in DOMAIN Window : /\ Window[i].type = "clock_diff"
                                             /\ Window[i].src = c
                                             /\ Window[i].dst = d}
          names == {n \in ClockId \X ClockId :
                      /\ Canon(n[1]) = a /\ Canon(n[2]) = b /\ a # b
                      /\ of(n[1], n[2]) # {}}
          below(n, r) == Cardinality({i \in of(n[1], n[2]) : Window[i].meta < r})
          above(n, r) == Cardinality({i \in of(n[1], n[2]) : Window[i].meta > r})
      IN  /\ names = {} <=> found = {}
          /\ Cardinality(found) <= 1
          /\ \A m \in found : \E n \in names :
               /\ 2 * below(n, m.meta.offset) <= Cardinality(of(n[1], n[2]))
               /\ 2 * above(n, m.meta.offset) <= Cardinality(of(n[1], n[2]))
    BY DEF MeasurementsAreMedians
  <2> DEFINE found == {m \in links :
                         m.src = a /\ m.dst = b /\ m.kind = "measurement"}
             of(c, d) == {i \in DOMAIN Window : /\ Window[i].type = "clock_diff"
                                                /\ Window[i].src = c
                                                /\ Window[i].dst = d}
             names == {n \in ClockId \X ClockId :
                         /\ Canon(n[1]) = a /\ Canon(n[2]) = b /\ a # b
                         /\ of(n[1], n[2]) # {}}
             s == ByPrecedence(Window)
             A == Tells("measurement", a, b)
  <2>1. /\ Window \in Seq(Sent) /\ NameInv /\ TypeOK
        /\ Described(Plan)
        /\ a \in ClockId /\ b \in ClockId
    BY DEF Finished, NameInv, TypeOK
  <2>2. s \in Seq(Sent) /\ Elements(s) = Elements(Window)
    BY <2>1, ByPrecedenceKeeps
  <2>3. Plan \in Seq(Updates)
    BY <2>2, AggregatedType DEF Plan
  <2>4. {<<l.key, l.meta>> : l \in found}
          = {<<"measurement", DataOf(u)>> :
               u \in {v \in LatestOf(Plan, A) : FromOf(v) # NoClock /\ a # b}}
    <3>1. found = LinksBetween(a, b, "measurement") /\ "measurement" \in Kinds
      BY DEF LinksBetween, Kinds
    <3> QED BY <2>1, <3>1 DEF Described, LinksDescribed
  <2>5. /\ \A u \in A : FromOf(u) # NoClock /\ DataOf(u) = [offset |-> u.meta]
        /\ \A u \in LatestOf(Plan, A) : \E i \in Firsts(s) :
             /\ Canon(s[i].src) = a /\ Canon(s[i].dst) = b
             /\ s[i].src \in ClockId /\ s[i].dst \in ClockId
             /\ u.meta = Median(Diffs(s, s[i]))
        /\ \A i \in DOMAIN s :
             /\ s[i].type = "clock_diff"
             /\ s[i].src \in ClockId /\ s[i].dst \in ClockId
             /\ Canon(s[i].src) = a /\ Canon(s[i].dst) = b
             => LatestOf(Plan, A) # {}
    BY <2>1, PlannedMeasurements
  <2> HIDE DEF A
  <2>6. \A u \in LatestOf(Plan, A) :
          FromOf(u) # NoClock /\ DataOf(u) = [offset |-> u.meta]
    BY <2>3, <2>5, LatestIsElement
  <2>7. \A i \in Firsts(s) :
          LET r == Median(Diffs(s, s[i]))
          IN  /\ of(s[i].src, s[i].dst) # {}
              /\ 2 * Cardinality({j \in of(s[i].src, s[i].dst) : Window[j].meta < r})
                   <= Cardinality(of(s[i].src, s[i].dst))
              /\ 2 * Cardinality({j \in of(s[i].src, s[i].dst) : Window[j].meta > r})
                   <= Cardinality(of(s[i].src, s[i].dst))
    BY <2>1, MedianOfWindow
  <2>8. ASSUME NEW m \in found
        PROVE  \E n \in names :
                 /\ 2 * Cardinality({j \in of(n[1], n[2]) :
                                       Window[j].meta < m.meta.offset})
                      <= Cardinality(of(n[1], n[2]))
                 /\ 2 * Cardinality({j \in of(n[1], n[2]) :
                                       Window[j].meta > m.meta.offset})
                      <= Cardinality(of(n[1], n[2]))
    <3> HIDE DEF s
    <3>1. PICK u \in LatestOf(Plan, A) :
            <<m.key, m.meta>> = <<"measurement", DataOf(u)>> /\ a # b
      <4> HIDE DEF found
      <4> QED BY <2>4, <2>8
    <3>2. m.meta.offset = u.meta
      BY <2>6, <3>1
    <3>3. PICK i \in Firsts(s) :
            /\ Canon(s[i].src) = a /\ Canon(s[i].dst) = b
            /\ s[i].src \in ClockId /\ s[i].dst \in ClockId
            /\ u.meta = Median(Diffs(s, s[i]))
      BY <2>5, <3>1
    <3>4. PICK c \in ClockId : c = s[i].src
      BY <3>3
    <3>5. PICK d \in ClockId : d = s[i].dst
      BY <3>3
    <3>6. PICK x : x = m.meta.offset
      OBVIOUS
    <3>7. /\ of(c, d) # {}
          /\ 2 * Cardinality({j \in of(c, d) : Window[j].meta < x})
               <= Cardinality(of(c, d))
          /\ 2 * Cardinality({j \in of(c, d) : Window[j].meta > x})
               <= Cardinality(of(c, d))
      <4>1. x = Median(Diffs(s, s[i]))
        BY <3>2, <3>3, <3>6
      <4> QED BY <2>7, <3>3, <3>4, <3>5, <4>1
    <3>8. <<c, d>> \in names
      BY <3>1, <3>3, <3>4, <3>5, <3>7
    <3> QED BY <3>6, <3>7, <3>8
  <2>9. ASSUME NEW n \in names PROVE found # {}
    <3>1. PICK j \in of(n[1], n[2]) : TRUE
      OBVIOUS
    <3>2. PICK i \in DOMAIN s : s[i] = Window[j]
      <4> HIDE DEF s
      <4> QED BY <2>2, <3>1 DEF Elements
    <3>3. LatestOf(Plan, A) # {} /\ a # b
      <4> HIDE DEF s
      <4> QED BY <2>5, <3>1, <3>2
    <3> HIDE DEF found
    <3>4. PICK u \in LatestOf(Plan, A) : FromOf(u) # NoClock
      BY <2>6, <3>3
    <3>5. <<"measurement", DataOf(u)>> \in {<<l.key, l.meta>> : l \in found}
      BY <2>4, <3>3, <3>4
    <3> QED BY <3>5
  <2>10. Cardinality(found) <= 1
    <3>1. \A l, m \in found : l = m
      BY <2>1, <2>3, DescribedIsSimple DEF Described, AtMostOneOfEachKind
    <3>2. found = {} \/ \E x : found = {x}
      <4> HIDE DEF found
      <4> QED BY <3>1
    <3> HIDE DEF found
    <3>3. ASSUME found = {} PROVE Cardinality(found) <= 1
      BY <3>3, FS_EmptySet
    <3>4. ASSUME NEW x, found = {x} PROVE Cardinality(found) <= 1
      <4>1. Cardinality({x}) = 1
        BY FS_Singleton
      <4> QED BY <3>4, <4>1
    <3> QED BY <3>2, <3>3, <3>4
  <2> QED BY <2>8, <2>9, <2>10
<1> QED BY <1>1, FinishedIsDescribed, PTL
==============================================================================
