----------------------------- MODULE RanksProofs ----------------------------
(***************************************************************************)
(* Facts about ranks and the k-th smallest element, for every finite set   *)
(* of positions. The library's induction theorems cannot be instantiated   *)
(* by the provers; that a set of naturals has a least element stands in    *)
(* for them.                                                               *)
(***************************************************************************)
EXTENDS Ranks, FiniteSetTheorems, WellFoundedInduction, TLAPS

(***************************************************************************)
(* A non-empty set of naturals has a least element: its initial segments   *)
(* are finite sets, on which strict inclusion is well-founded.             *)
(***************************************************************************)
LEMMA LeastElement ==
  ASSUME NEW S \in SUBSET Nat, S # {}
  PROVE  \E n \in S : \A m \in S : n <= m
<1> DEFINE T == {0..n : n \in S}
<1>1. T \subseteq FiniteSubsetsOf(Nat) /\ T # {}
  <2>1. ASSUME NEW n \in S PROVE 0..n \in FiniteSubsetsOf(Nat)
    <3>1. IsFiniteSet(0..n)
      BY FS_Interval
    <3>2. 0..n \in SUBSET Nat
      OBVIOUS
    <3> QED
      BY <3>1, <3>2 DEF FiniteSubsetsOf
  <2> QED
    BY <2>1
<1>2. IsWellFoundedOn(StrictSubsetOrdering(Nat), FiniteSubsetsOf(Nat))
  BY FS_StrictSubsetOrderingWellFounded
<1>3. PICK x \in T : \A y \in T : ~ (<<y, x>> \in StrictSubsetOrdering(Nat))
  <2> HIDE DEF T
  <2> QED
    BY <1>1, <1>2, WFMin
<1>4. PICK n \in S : x = 0..n
  OBVIOUS
<1>5. ASSUME NEW m \in S, m < n PROVE FALSE
  <2>1. <<0..m, 0..n>> \in StrictSubsetOrdering(Nat)
    <3>1. 0..m \subseteq 0..n
      BY <1>5
    <3>2. n \in 0..n /\ n \notin 0..m
      BY <1>5
    <3> QED
      BY <3>1, <3>2 DEF StrictSubsetOrdering
  <2> QED
    BY <2>1, <1>3, <1>4
<1> QED
  BY <1>5

-----------------------------------------------------------------------------
(***************************************************************************)
(* Ranks of a finite set of positions.                                     *)
(***************************************************************************)
LEMMA RankType ==
  ASSUME NEW L \in Nat, NEW S \in SUBSET (1..L), NEW n \in Int
  PROVE  /\ IsFiniteSet(S)
         /\ Cardinality(S) \in Nat
         /\ Rank(S, n) \in Nat
         /\ Rank(S, n) <= Cardinality(S)
<1>1. IsFiniteSet(1..L)
  BY FS_Interval
<1>2. IsFiniteSet(S)
  BY <1>1, FS_Subset
<1>3. {j \in S : j <= n} \in SUBSET S
  OBVIOUS
<1>4. /\ IsFiniteSet({j \in S : j <= n})
      /\ Cardinality({j \in S : j <= n}) <= Cardinality(S)
  BY <1>2, <1>3, FS_Subset
<1> QED
  BY <1>2, <1>4, FS_CardinalityType DEF Rank

LEMMA RankMonotone ==
  ASSUME NEW L \in Nat, NEW S \in SUBSET (1..L), NEW m \in Int, NEW n \in Int, m <= n
  PROVE  Rank(S, m) <= Rank(S, n)
<1>1. IsFiniteSet(S)
  BY RankType
<1>2. {j \in S : j <= n} \in SUBSET S
  OBVIOUS
<1>3. IsFiniteSet({j \in S : j <= n})
  BY <1>1, <1>2, FS_Subset
<1>4. {j \in S : j <= m} \in SUBSET {j \in S : j <= n}
  <2>1. \A j \in S : j \in Int
    OBVIOUS
  <2>2. \A j \in S : j <= m => j <= n
    BY <2>1
  <2> QED
    BY <2>2
<1> QED
  BY <1>3, <1>4, FS_Subset DEF Rank

\* One position more raises the rank by one if it is in the set, else not at all.
LEMMA RankStep ==
  ASSUME NEW L \in Nat, NEW S \in SUBSET (1..L), NEW n \in Int
  PROVE  Rank(S, n) = IF n \in S THEN Rank(S, n - 1) + 1 ELSE Rank(S, n - 1)
<1> DEFINE A == {j \in S : j <= n - 1}
           B == {j \in S : j <= n}
<1>0. \A j \in S : j \in Int
  OBVIOUS
<1>1. IsFiniteSet(A)
  <2>1. IsFiniteSet(S)
    BY RankType
  <2>2. A \in SUBSET S
    OBVIOUS
  <2> QED
    BY <2>1, <2>2, FS_Subset
<1>2. CASE n \in S
  <2>0. \A j \in S : j <= n <=> j <= n - 1 \/ j = n
    BY <1>0
  <2>1. B = A \cup {n}
    <3>1. n <= n
      OBVIOUS
    <3> QED
      BY <1>2, <2>0, <3>1
  <2>2. n \notin A
    OBVIOUS
  <2>3. Cardinality(A \cup {n}) = Cardinality(A) + 1
    <3> HIDE DEF A
    <3> QED
      BY <1>1, <2>2, FS_AddElement
  <2> QED
    BY <1>2, <2>1, <2>3 DEF Rank
<1>3. CASE n \notin S
  <2>1. \A j \in S : j <= n <=> j <= n - 1
    BY <1>0, <1>3
  <2>2. B = A
    BY <2>1
  <2> QED
    BY <1>3, <2>2 DEF Rank
<1> QED
  BY <1>2, <1>3

\* Positions outside the set leave the rank as it is.
LEMMA RankSame ==
  ASSUME NEW L \in Nat, NEW S \in SUBSET (1..L), NEW m \in Int, NEW n \in Int, m <= n,
         \A j \in S : ~(m < j /\ j <= n)
  PROVE  Rank(S, m) = Rank(S, n)
<1>1. \A j \in S : j \in Int
  OBVIOUS
<1>2. \A j \in S : j <= m <=> j <= n
  BY <1>1
<1>3. {j \in S : j <= m} = {j \in S : j <= n}
  BY <1>2
<1> QED
  BY <1>3 DEF Rank

(***************************************************************************)
(* Every rank up to the cardinality is taken, so the k-th smallest element *)
(* exists.                                                                 *)
(***************************************************************************)
LEMMA NthInSet ==
  ASSUME NEW L \in Nat, NEW S \in SUBSET (1..L), NEW k \in 1..Cardinality(S)
  PROVE  Nth(S, k) \in S /\ Rank(S, Nth(S, k)) = k
<1> DEFINE G == {n \in Nat : Rank(S, n) >= k}
<1>0. Cardinality(S) \in Nat /\ k \in Nat /\ k >= 1 /\ k <= Cardinality(S)
  <2>1. Cardinality(S) \in Nat
    <3>1. 0 \in Int
      OBVIOUS
    <3> QED
      BY <3>1, RankType
  <2> QED
    BY <2>1
<1>p. \A j \in S : j \in Int /\ 1 <= j /\ j <= L
  OBVIOUS
<1>1. L \in G
  <2>1. {j \in S : j <= L} = S
    BY <1>p
  <2> QED
    BY <2>1, <1>0 DEF Rank
<1>2. PICK n \in G : \A m \in G : n <= m
  <2>1. G \in SUBSET Nat /\ G # {}
    BY <1>1
  <2> HIDE DEF G
  <2> QED
    BY <2>1, LeastElement
<1>3. n \in Nat /\ Rank(S, n) >= k
  OBVIOUS
<1>4. Rank(S, n - 1) < k
  <2>1. CASE n = 0
    <3>0. \A j \in S : ~ (j <= 0 - 1)
      BY <1>p
    <3>1. {j \in S : j <= n - 1} = {}
      BY <3>0, <2>1
    <3>2. Rank(S, n - 1) = 0
      BY <3>1, FS_EmptySet DEF Rank
    <3> QED
      BY <3>2, <1>0
  <2>2. CASE n > 0
    <3>1. n - 1 \in Nat /\ ~ (n <= n - 1)
      BY <2>2, <1>3
    <3>2. n - 1 \notin G
      BY <3>1, <1>2
    <3>3. Rank(S, n - 1) \in Nat
      <4>1. n - 1 \in Int
        BY <3>1
      <4> QED
        BY <4>1, RankType
    <3> QED
      BY <3>1, <3>2, <3>3, <1>0
  <2> QED
    BY <2>1, <2>2, <1>3
<1>5. /\ Rank(S, n) \in Nat
      /\ Rank(S, n - 1) \in Nat
      /\ Rank(S, n) = IF n \in S THEN Rank(S, n - 1) + 1 ELSE Rank(S, n - 1)
  <2>1. n \in Int /\ n - 1 \in Int
    BY <1>3
  <2> QED
    BY <2>1, RankType, RankStep
<1>6. n \in S /\ Rank(S, n) = k
  BY <1>0, <1>3, <1>4, <1>5
<1> QED
  BY <1>6 DEF Nth

\* And it is the only one of that rank.
LEMMA NthIs ==
  ASSUME NEW L \in Nat, NEW S \in SUBSET (1..L), NEW i \in S
  PROVE  Rank(S, i) \in 1..Cardinality(S) /\ Nth(S, Rank(S, i)) = i
<1> DEFINE k == Rank(S, i)
           n == Nth(S, k)
<1>1. \A j \in S : j \in Int
  OBVIOUS
<1>2. i \in Int /\ i - 1 \in Int
  BY <1>1
<1>3. /\ Cardinality(S) \in Nat /\ k \in Nat /\ k <= Cardinality(S)
      /\ Rank(S, i - 1) \in Nat /\ k = Rank(S, i - 1) + 1
  BY <1>2, RankType, RankStep
<1>4. n \in S /\ Rank(S, n) = k
  <2>1. k \in 1..Cardinality(S)
    BY <1>3
  <2> HIDE DEF k
  <2> QED
    BY <2>1, NthInSet
<1>5. n \in Int /\ n - 1 \in Int /\ Rank(S, n - 1) \in Nat /\ k = Rank(S, n - 1) + 1
  <2> HIDE DEF n
  <2>1. n \in Int /\ n - 1 \in Int
    BY <1>1, <1>4
  <2> QED
    BY <1>4, <2>1, RankType, RankStep
<1>6. ~(n <= i - 1)
  <2>1. n <= i - 1 => Rank(S, n) <= Rank(S, i - 1)
    BY <1>2, <1>5, RankMonotone
  <2> QED
    BY <1>3, <1>4, <2>1
<1>7. ~(i <= n - 1)
  <2>1. i <= n - 1 => Rank(S, i) <= Rank(S, n - 1)
    BY <1>2, <1>5, RankMonotone
  <2> QED
    BY <1>3, <1>5, <2>1
<1> HIDE DEF k, n
<1>8. n = i
  BY <1>2, <1>5, <1>6, <1>7
<1> QED
  BY <1>3, <1>8 DEF k, n

=============================================================================
