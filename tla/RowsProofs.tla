----------------------------- MODULE RowsProofs -----------------------------
(***************************************************************************)
(* What a page leaves out is older than all it has, and it is full then.   *)
(***************************************************************************)
EXTENDS Rows, FiniteSetTheorems, WellFoundedInduction, TLAPS

\* A set of ids that is not empty has an oldest one.
LEMMA HasOldest ==
    ASSUME NEW S \in SUBSET Nat, S # {}
    PROVE  \E n \in S : \A m \in S : n <= m
  <1> DEFINE Less == {s \in Nat \X Nat : s[1] < s[2]}
  <1>1. IsWellFoundedOn(Less, Nat)
    BY NatLessThanWellFounded, Zenon DEF OpToRel
  <1>2. PICK n \in S : \A m \in S : ~(<<m, n>> \in Less)
    <2> HIDE DEF Less
    <2>1. QED
      BY <1>1, WFMin
  <1>3. \A m \in S : n <= m
    <2> SUFFICES ASSUME NEW m \in S
                 PROVE  n <= m
      OBVIOUS
    <2>1. m \in Nat /\ n \in Nat
      OBVIOUS
    <2>2. m < n => <<m, n>> \in Less
      BY <2>1
    <2>3. QED
      BY <1>2, <2>1, <2>2
  <1>4. QED
    BY <1>3

\* A set of ids with a bound that is not empty has a newest one: the oldest
\* one, counted from the bound.
LEMMA HasNewest ==
    ASSUME NEW b \in Nat, NEW S \in SUBSET (1 .. b), S # {}
    PROVE  \E n \in S : \A m \in S : m <= n
  <1> DEFINE T == {b - n : n \in S}
  <1>1. T \in SUBSET Nat /\ T # {}
    <2>1. \A n \in S : n \in Int /\ b - n \in Nat
      OBVIOUS
    <2>2. QED
      BY <2>1
  <1>2. PICK k \in T : \A j \in T : k <= j
    <2> HIDE DEF T
    <2>1. QED
      BY <1>1, HasOldest
  <1>3. PICK n \in S : k = b - n
    OBVIOUS
  <1>4. ASSUME NEW m \in S PROVE m <= n
    <2>1. b - m \in T
      OBVIOUS
    <2>2. b - n <= b - m
      BY <1>2, <1>3, <2>1
    <2>3. m \in 1 .. b /\ n \in 1 .. b
      OBVIOUS
    <2>4. QED
      BY <2>2, <2>3
  <1>5. QED
    BY <1>4

\* OldestOf and NewestOf are the ends of a page that has rows.
LEMMA OldestIsOldest ==
    ASSUME NEW S \in SUBSET Nat, S # {}
    PROVE  OldestOf(S) \in S /\ \A m \in S : OldestOf(S) <= m
  BY HasOldest DEF OldestOf

LEMMA NewestIsNewest ==
    ASSUME NEW b \in Nat, NEW S \in SUBSET (1 .. b), S # {}
    PROVE  NewestOf(S) \in S /\ \A m \in S : m <= NewestOf(S)
  BY HasNewest DEF NewestOf

LEMMA IdsAreFinite ==
    ASSUME NEW b \in Nat, NEW S \in SUBSET (1 .. b)
    PROVE  IsFiniteSet(S)
  <1>1. 1 \in Int /\ b \in Int
    OBVIOUS
  <1>2. IsFiniteSet(1 .. b)
    BY <1>1, FS_Interval
  <1>3. QED
    BY <1>2, FS_Subset

\* ORDER BY id DESC: what a page leaves out is older than all it has.
LEMMA LeftOutIsOlder ==
    ASSUME NEW b \in Nat, NEW S \in SUBSET (1 .. b), NEW k \in Nat,
           NEW n \in S \ FirstOf(S, k), NEW m \in FirstOf(S, k)
    PROVE  n < m
  <1> DEFINE Above(j) == {i \in S : j < i}
  <1>1. n \in 1 .. b /\ m \in 1 .. b /\ n \in S /\ m \in S
    BY DEF FirstOf
  <1>2. IsFiniteSet(S)
    BY IdsAreFinite
  <1>3. ASSUME ~(n < m) PROVE FALSE
    <2>1. m <= n
      BY <1>1, <1>3
    <2>2. \A i \in 1 .. b : n < i => m < i
      BY <1>1, <2>1
    <2>3. Above(n) \subseteq Above(m)
      BY <2>2
    <2>4. IsFiniteSet(Above(m)) /\ IsFiniteSet(Above(n))
      BY <1>2, FS_Subset
    <2>5. Cardinality(Above(n)) <= Cardinality(Above(m))
      BY <2>3, <2>4, FS_Subset
    <2>6. Cardinality(Above(m)) \in Nat /\ Cardinality(Above(n)) \in Nat
      BY <2>4, FS_CardinalityType
    <2>7. Cardinality(Above(m)) < k /\ ~(Cardinality(Above(n)) < k)
      BY <1>1 DEF FirstOf
    <2>8. QED
      <3> HIDE DEF Above
      <3>1. QED
        BY <2>5, <2>6, <2>7
  <1>4. QED
    BY <1>3

\* LIMIT k: a page leaves something out only if it is full.
LEMMA ShortPageHasAll ==
    ASSUME NEW b \in Nat, NEW S \in SUBSET (1 .. b), NEW k \in Nat,
           Cardinality(FirstOf(S, k)) < k
    PROVE  FirstOf(S, k) = S
  <1> DEFINE Above(j) == {i \in S : j < i}
  <1> DEFINE Left == S \ FirstOf(S, k)
  <1>1. ASSUME Left # {} PROVE FALSE
    <2>1. PICK n \in Left : \A m \in Left : m <= n
      BY <1>1, HasNewest
    <2>2. n \in S /\ ~(Cardinality(Above(n)) < k)
      BY DEF FirstOf
    <2>3. Above(n) \subseteq FirstOf(S, k)
      <3>1. ASSUME NEW i \in Above(n) PROVE i \in FirstOf(S, k)
        <4>1. i \in S /\ n < i /\ i \in 1 .. b /\ n \in 1 .. b
          BY <2>2
        <4>2. ~(i <= n)
          BY <4>1
        <4>3. QED
          BY <2>1, <4>1, <4>2
      <3>2. QED
        BY <3>1
    <2>4. IsFiniteSet(S)
      BY IdsAreFinite
    <2>5. FirstOf(S, k) \subseteq S
      BY DEF FirstOf
    <2>6. IsFiniteSet(FirstOf(S, k)) /\ IsFiniteSet(Above(n))
      BY <2>4, <2>5, FS_Subset
    <2>7. Cardinality(Above(n)) <= Cardinality(FirstOf(S, k))
      BY <2>3, <2>6, FS_Subset
    <2>8. Cardinality(Above(n)) \in Nat /\ Cardinality(FirstOf(S, k)) \in Nat
      BY <2>6, FS_CardinalityType
    <2>9. QED
      <3> HIDE DEF Above
      <3>1. QED
        BY <2>2, <2>7, <2>8
  <1>2. QED
    BY <1>1 DEF FirstOf

\* An empty page is never full.
LEMMA EmptyIsShort == ASSUME NEW k \in Nat \ {0} PROVE Cardinality({}) < k
  BY FS_EmptySet

=============================================================================
