------------------------- MODULE SubsequenceProofs -------------------------
(***************************************************************************)
(* What remains of a sequence is a sequence of elements of it, each of     *)
(* them once and in its order.  The theorems about the queues rest on it.  *)
(***************************************************************************)
EXTENDS Subsequences, SequenceTheorems, FiniteSetTheorems, WellFoundedInduction, TLAPS

\* A set of numbers that is not empty has a least one: of the sets 0..i, with i one of
\* the numbers up to a given one, one has no other within it.
LEMMA LeastNumber ==
    ASSUME NEW S \in SUBSET Nat, S # {}
    PROVE  \E m \in S : \A j \in S : m <= j
<1>1. PICK n \in Nat : n \in S
  OBVIOUS
<1> DEFINE U == 0..n
           T == {0..i : i \in {k \in S : k <= n}}
<1>2. IsFiniteSet(U)
  BY FS_Interval
<1>3. IsWellFoundedOn(StrictSubsetOrdering(U), SUBSET U)
  BY <1>2, FS_StrictSubsetOrderingWellFounded, FS_FiniteSubsetsOfFinite
<1>4. T \subseteq SUBSET U /\ T # {}
  BY <1>1
<1>5. PICK x \in T : \A y \in T : ~(<<y, x>> \in StrictSubsetOrdering(U))
  <2> HIDE DEF T, U
  <2> QED BY <1>3, <1>4, WFMin
<1>6. PICK m \in S : m <= n /\ x = 0..m
  BY <1>5
<1>7. ASSUME NEW j \in S, j < m PROVE FALSE
  <2>1. 0..j \in T /\ 0..j \subseteq x /\ 0..j # x
    BY <1>6, <1>7
  <2>2. <<0..j, x>> \in (SUBSET U) \X (SUBSET U)
    BY <1>4, <1>5, <2>1
  <2>3. <<0..j, x>> \in StrictSubsetOrdering(U)
    BY <2>1, <2>2 DEF StrictSubsetOrdering
  <2> QED BY <1>5, <2>1, <2>3
<1> QED BY <1>7

\* So the first of some places is one of them.
LEMMA FirstIsOne ==
    ASSUME NEW S \in SUBSET Nat, S # {}
    PROVE  FirstOf(S) \in S
BY LeastNumber DEF FirstOf

\* Each place up to the number of elements is that of one element.
LEMMA Ranks ==
    ASSUME NEW K \in SUBSET Nat, IsFiniteSet(K)
    PROVE  /\ Cardinality(K) \in Nat
           /\ \A i \in K : Rank(K, i) \in 1..Cardinality(K)
           /\ \A i, j \in K : Rank(K, i) = Rank(K, j) => i = j
           /\ \A n \in 1..Cardinality(K) : \E i \in K : Rank(K, i) = n
<1> DEFINE Below(i) == {k \in K : k <= i}
<1>1. \A i \in Nat : IsFiniteSet(Below(i)) /\ Cardinality(Below(i)) \in Nat /\ Cardinality(Below(i)) <= Cardinality(K)
  BY FS_Subset, FS_CardinalityType
<1>2. Cardinality(K) \in Nat
  BY FS_CardinalityType
<1>3. ASSUME NEW i \in K PROVE Rank(K, i) \in 1..Cardinality(K)
  <2>1. Below(i) # {}
    BY <1>3
  <2>2. Cardinality(Below(i)) # 0
    BY <1>1, <2>1, FS_EmptySet
  <2> QED BY <1>1, <1>2, <2>2 DEF Rank
<1>4. ASSUME NEW i \in K, NEW j \in K, i < j PROVE Rank(K, i) < Rank(K, j)
  <2>1. Below(i) \subseteq Below(j) /\ Below(i) # Below(j)
    <3>1. i \in Nat /\ j \in Nat /\ K \subseteq Nat
      OBVIOUS
    <3>2. j \in Below(j) /\ j \notin Below(i)
      BY <1>4, <3>1
    <3>3. \A k \in K : k <= i => k <= j
      BY <1>4, <3>1
    <3> QED BY <3>2, <3>3
  <2>2. Cardinality(Below(i)) < Cardinality(Below(j))
    BY <1>1, <2>1, FS_Subset
  <2> QED BY <2>2 DEF Rank
<1>5. \A i, j \in K : Rank(K, i) = Rank(K, j) => i = j
  BY <1>1, <1>4 DEF Rank
<1>6. ASSUME NEW n \in 1..Cardinality(K), \A i \in K : Rank(K, i) # n,
             \A m \in 1..Cardinality(K) : (\A i \in K : Rank(K, i) # m) => n <= m
      PROVE  FALSE
  <2>1. PICK low \in SUBSET K : /\ Cardinality(low) = n - 1
                                /\ \A i \in low, k \in K : k <= i => k \in low
    <3>1. CASE n = 1
      BY <3>1, FS_EmptySet
    <3>2. CASE n # 1
      <4>1. n - 1 \in 1..Cardinality(K)
        BY <1>2, <3>2
      <4>2. PICK i \in K : Rank(K, i) = n - 1
        BY <1>6, <4>1
      <4>3. \A j \in Below(i), k \in K : k <= j => k \in Below(i)
        <5>1. K \subseteq Nat
          OBVIOUS
        <5> QED BY <4>2, <5>1
      <4> QED BY <4>2, <4>3 DEF Rank
    <3> QED BY <3>1, <3>2
  <2>2. K \ low # {}
    <3>1. low # K
      BY <1>2, <2>1
    <3> QED BY <3>1
  <2>3. PICK m \in K \ low : \A j \in K \ low : m <= j
    BY <2>2, LeastNumber
  <2>4. Below(m) = low \union {m} /\ m \notin low
    <3>1. K \subseteq Nat /\ low \subseteq K
      OBVIOUS
    <3>2. \A k \in low : k <= m
      BY <2>1, <2>3, <3>1
    <3>3. \A k \in K : k <= m => k \in low \/ k = m
      BY <2>3, <3>1
    <3> QED BY <2>3, <3>1, <3>2, <3>3
  <2>5. IsFiniteSet(low)
    BY FS_Subset
  <2>6. Cardinality(Below(m)) = n
    <3>1. Cardinality(low \union {m}) = Cardinality(low) + 1
      BY <2>4, <2>5, FS_AddElement
    <3> QED BY <1>2, <2>1, <2>4, <3>1
  <2> QED BY <1>6, <2>3, <2>6 DEF Rank
<1>7. \A n \in 1..Cardinality(K) : \E i \in K : Rank(K, i) = n
  <2> DEFINE bad == {n \in 1..Cardinality(K) : \A i \in K : Rank(K, i) # n}
  <2>1. CASE bad = {}
    BY <2>1
  <2>2. CASE bad # {}
    <3>1. bad \in SUBSET Nat
      BY <1>2
    <3>2. PICK n \in bad : \A m \in bad : n <= m
      BY <2>2, <3>1, LeastNumber
    <3> QED BY <1>6, <3>2
  <2> QED BY <2>1, <2>2
<1> QED BY <1>2, <1>3, <1>5, <1>7

\* What is kept of a sequence are its elements at the places in K, in their order.
LEMMA KeptFacts ==
    ASSUME NEW S, NEW q \in Seq(S), NEW K \in SUBSET (DOMAIN q)
    PROVE  /\ Kept(q, K) \in Seq(S)
           /\ \E place \in [DOMAIN Kept(q, K) -> K] :
                 /\ \A n \in DOMAIN Kept(q, K) : Kept(q, K)[n] = q[place[n]]
                 /\ \A m, n \in DOMAIN Kept(q, K) : place[m] = place[n] => m = n
                 /\ \A i \in K : \E n \in DOMAIN Kept(q, K) : place[n] = i
<1>1. DOMAIN q = 1..Len(q) /\ Len(q) \in Nat
  OBVIOUS
<1>2. K \in SUBSET Nat /\ IsFiniteSet(K)
  <2>1. IsFiniteSet(1..Len(q))
    BY <1>1, FS_Interval
  <2>2. K \in SUBSET (1..Len(q))
    BY <1>1
  <2> QED BY <2>1, <2>2, FS_Subset
<1>3. /\ Cardinality(K) \in Nat
      /\ \A i \in K : Rank(K, i) \in 1..Cardinality(K)
      /\ \A i, j \in K : Rank(K, i) = Rank(K, j) => i = j
      /\ \A n \in 1..Cardinality(K) : \E i \in K : Rank(K, i) = n
  BY <1>2, Ranks
<1> DEFINE place == [n \in 1..Cardinality(K) |-> CHOOSE i \in K : Rank(K, i) = n]
<1>4. \A n \in 1..Cardinality(K) : place[n] \in K /\ Rank(K, place[n]) = n
  BY <1>3
<1>5. DOMAIN Kept(q, K) = 1..Cardinality(K) /\ \A n \in 1..Cardinality(K) : Kept(q, K)[n] = q[place[n]]
  BY DEF Kept
<1>6. place \in [DOMAIN Kept(q, K) -> K]
  BY <1>4, <1>5
<1> HIDE DEF place
<1>7. \A n \in 1..Cardinality(K) : Kept(q, K)[n] \in S
  BY <1>4, <1>5
<1>8. Kept(q, K) \in Seq(S)
  <2>1. Kept(q, K) \in [1..Cardinality(K) -> S]
    BY <1>5, <1>7 DEF Kept
  <2> QED BY <1>3, <2>1
<1>9. \A m, n \in DOMAIN Kept(q, K) : place[m] = place[n] => m = n
  BY <1>4, <1>5
<1>10. \A i \in K : \E n \in DOMAIN Kept(q, K) : place[n] = i
  BY <1>3, <1>4, <1>5
<1> QED BY <1>5, <1>6, <1>8, <1>9, <1>10

\* A sequence of which every element is replaced is a sequence of the same length.
LEMMA MappedFacts ==
    ASSUME NEW S, NEW q \in Seq(S), NEW T, NEW f \in [DOMAIN q -> T]
    PROVE  f \in Seq(T) /\ DOMAIN f = DOMAIN q
<1>1. DOMAIN q = 1..Len(q) /\ Len(q) \in Nat
  OBVIOUS
<1> QED BY <1>1
=============================================================================
