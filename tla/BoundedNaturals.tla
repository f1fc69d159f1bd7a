--------------------------- MODULE BoundedNaturals ---------------------------
(***************************************************************************)
(* Facts about sets of natural numbers that the proofs need: least and     *)
(* greatest elements, and induction over an interval, stated for sets.     *)
(* They rest on strict inclusion being well founded on finite sets.        *)
(***************************************************************************)
EXTENDS Integers, FiniteSetsExt, FiniteSetTheorems, WellFoundedInduction, TLAPS

(* A set of numbers up to n has a least one.                               *)
LEMMA LeastUpTo ==
    ASSUME NEW n \in Nat, NEW A \in SUBSET (0..n), A # {}
    PROVE  \E k \in A : \A j \in A : k <= j
<1> DEFINE U == 0..n
           T == {0..k : k \in A}
<1>1. IsFiniteSet(U)
  BY FS_Interval
<1>2. IsWellFoundedOn(StrictSubsetOrdering(U), SUBSET U)
  BY <1>1, FS_FiniteSubsetsOfFinite, FS_StrictSubsetOrderingWellFounded
<1>3. T \subseteq SUBSET U
  <2>1. \A k \in A : 0..k \subseteq 0..n
    OBVIOUS
  <2>2. QED
    BY <2>1
<1>4. T # {}
  OBVIOUS
<1> HIDE DEF T, U
<1>5. PICK x \in T : \A y \in T : ~(<<y, x>> \in StrictSubsetOrdering(U))
  BY <1>2, <1>3, <1>4, WFMin
<1>6. \A y \in T : y \subseteq x => y = x
  BY <1>3, <1>5 DEF StrictSubsetOrdering
<1>7. PICK k \in A : x = 0..k
  BY DEF T
<1>8. ASSUME NEW j \in A, j < k PROVE FALSE
  <2>1. 0..j \subseteq 0..k /\ 0..j \in T
    BY <1>8 DEF T
  <2>2. 0..j = 0..k
    BY <1>6, <1>7, <2>1
  <2>3. k \in 0..k /\ ~(k \in 0..j)
    BY <1>8
  <2>4. QED
    BY <2>2, <2>3
<1>9. QED
  BY <1>8

(* Min of a set of naturals that is not empty is its least element.        *)
LEMMA MinOfNaturals ==
    ASSUME NEW A \in SUBSET Nat, A # {}
    PROVE  Min(A) \in A /\ \A j \in A : Min(A) <= j
<1>1. PICK a \in A : TRUE
  OBVIOUS
<1> DEFINE B == {j \in A : j <= a}
<1>2. a \in Nat /\ B \in SUBSET (0..a) /\ B # {}
  <2>1. a \in Nat /\ a \in B
    OBVIOUS
  <2>2. \A j \in B : j \in 0..a
    OBVIOUS
  <2>3. QED
    BY <2>1, <2>2
<1> HIDE DEF B
<1>3. PICK k \in B : \A j \in B : k <= j
  BY <1>2, LeastUpTo
<1>4. k \in A /\ \A j \in A : k =< j
  BY <1>1, <1>2, <1>3 DEF B
<1>5. QED
  BY <1>4 DEF Min

(* Max of a bounded set of naturals that is not empty is its greatest      *)
(* element.                                                                *)
LEMMA MaxOfNaturals ==
    ASSUME NEW n \in Nat, NEW A \in SUBSET (0..n), A # {}
    PROVE  Max(A) \in A /\ \A j \in A : Max(A) >= j
<1> DEFINE B == {j \in 0..n : n - j \in A}
<1>1. B \in SUBSET (0..n) /\ B # {}
  <2>1. PICK a \in A : TRUE
    OBVIOUS
  <2>2. n - a \in 0..n /\ n - (n - a) = a
    OBVIOUS
  <2>3. QED
    BY <2>2
<1>2. \A j \in A : n - j \in B
  <2>1. \A j \in A : n - j \in 0..n /\ n - (n - j) = j
    OBVIOUS
  <2>2. QED
    BY <2>1
<1>3. PICK k \in B : \A j \in B : k <= j
  BY <1>1, LeastUpTo
<1>4. n - k \in A /\ k \in 0..n
  OBVIOUS
<1> HIDE DEF B
<1>5. \A j \in A : n - k >= j
  BY <1>2, <1>3, <1>4
<1>6. QED
  BY <1>4, <1>5 DEF Max

LEMMA MinOfTwo ==
    ASSUME NEW a \in Int, NEW b \in Int
    PROVE  Min({a, b}) = IF a <= b THEN a ELSE b
BY DEF Min

LEMMA MaxOfTwo ==
    ASSUME NEW a \in Int, NEW b \in Int
    PROVE  Max({a, b}) = IF a >= b THEN a ELSE b
BY DEF Max

(* Induction up to n, for a set instead of a predicate.                    *)
LEMMA InductionUpTo ==
    ASSUME NEW n \in Nat, NEW S, 0 \in S,
           \A k \in 1..n : k - 1 \in S => k \in S
    PROVE  0..n \subseteq S
<1> DEFINE A == {k \in 0..n : k \notin S}
<1> SUFFICES ASSUME A # {} PROVE FALSE
  OBVIOUS
<1>1. PICK k \in A : \A j \in A : k <= j
  BY LeastUpTo
<1>2. k \in 1..n /\ k - 1 \in 0..n /\ k - 1 \notin A
  BY <1>1
<1>3. QED
  BY <1>2

(* The greatest element up to l of a set of positive numbers, or 1: how it  *)
(* changes with l.                                                         *)
HighestUpTo(P, l) == Max({1} \cup {k \in P : k <= l})

LEMMA HighestStep ==
    ASSUME NEW n \in Nat \ {0}, NEW P \in SUBSET (1..n)
    PROVE  /\ HighestUpTo(P, 0) = 1
           /\ HighestUpTo(P, n) = Max({1} \cup P)
           /\ \A l \in 1..n : HighestUpTo(P, l) = IF l \in P THEN l
                                                   ELSE HighestUpTo(P, l - 1)
<1>1. HighestUpTo(P, 0) = 1
  <2>1. \A k \in P : ~(k <= 0)
    OBVIOUS
  <2>2. {1} \cup {k \in P : k <= 0} = {1, 1}
    BY <2>1, ZenonT(20)
  <2>3. QED
    BY <2>2, MaxOfTwo DEF HighestUpTo
<1>2. {k \in P : k <= n} = P
  <2>1. \A k \in P : k <= n
    OBVIOUS
  <2>2. QED
    BY <2>1, Zenon
<1>3. ASSUME NEW l \in 1..n, l \in P PROVE HighestUpTo(P, l) = l
  <2> DEFINE A == {1} \cup {k \in P : k <= l}
  <2>1. \A j \in A : j \in 0..n /\ j <= l
    OBVIOUS
  <2>2. l \in A
    BY <1>3
  <2> HIDE DEF A
  <2>3. Max(A) \in A /\ \A j \in A : Max(A) >= j
    BY <2>1, <2>2, MaxOfNaturals
  <2>4. Max(A) <= l /\ Max(A) >= l /\ Max(A) \in 0..n
    BY <2>1, <2>2, <2>3
  <2>5. Max(A) = l
    BY <2>4
  <2>6. QED
    BY <2>5 DEF A, HighestUpTo
<1>4. ASSUME NEW l \in 1..n, l \notin P
      PROVE  HighestUpTo(P, l) = HighestUpTo(P, l - 1)
  <2>1. \A k \in P : k <= l <=> k <= l - 1
    BY <1>4
  <2>2. {k \in P : k <= l} = {k \in P : k <= l - 1}
    BY <2>1
  <2>3. QED
    BY <2>2 DEF HighestUpTo
<1>5. QED
  BY <1>1, <1>2, <1>3, <1>4 DEF HighestUpTo

(* A finite set of natural numbers is bounded.                             *)
LEMMA FiniteIsBounded ==
    ASSUME NEW A \in SUBSET Nat, IsFiniteSet(A)
    PROVE  \E m \in Nat : A \subseteq 0..m
<1> DEFINE Bounded(B) == \E m \in Nat : B \subseteq 0..m
           S == {c \in 0..Cardinality(A) :
                    \A B \in SUBSET A : Cardinality(B) = c => Bounded(B)}
<1>1. Cardinality(A) \in Nat
  BY FS_CardinalityType
<1>2. 0 \in S
  <2>1. \A B \in SUBSET A : Cardinality(B) = 0 => B = {}
    BY FS_Subset, FS_EmptySet
  <2>2. Bounded({})
    <3>1. {} \subseteq 0..0
      OBVIOUS
    <3>2. QED
      BY <3>1
  <2>3. QED
    BY <1>1, <2>1, <2>2
<1>3. ASSUME NEW c \in 1..Cardinality(A), c - 1 \in S PROVE c \in S
  <2> SUFFICES ASSUME NEW B \in SUBSET A, Cardinality(B) = c PROVE Bounded(B)
    BY <1>1
  <2>1. IsFiniteSet(B) /\ B # {}
    <3>1. IsFiniteSet(B)
      BY FS_Subset
    <3>2. Cardinality(B) # 0
      BY <1>1
    <3>3. QED
      BY <3>1, <3>2, FS_EmptySet
  <2>2. PICK b \in B : TRUE
    BY <2>1
  <2>3. Cardinality(B \ {b}) = c - 1 /\ B \ {b} \in SUBSET A
    BY <2>1, <2>2, FS_RemoveElement
  <2>4. PICK m \in Nat : B \ {b} \subseteq 0..m
    BY <1>3, <2>3
  <2>5. b \in Nat
    BY <2>2
  <2> DEFINE n == IF m <= b THEN b ELSE m
  <2>6. n \in Nat /\ m <= n /\ b <= n
    BY <2>5
  <2> HIDE DEF n
  <2>7. B \subseteq 0..n
    BY <2>4, <2>5, <2>6
  <2>8. QED
    BY <2>6, <2>7
<1> HIDE DEF S
<1>4. Cardinality(A) \in S
  BY <1>1, <1>2, <1>3, InductionUpTo
<1>5. QED
  BY <1>4 DEF S

(* Counting a finite set of numbers upwards reaches every rank.            *)
LEMMA RankExists ==
    ASSUME NEW A \in SUBSET Nat, IsFiniteSet(A), NEW k \in 1..Cardinality(A)
    PROVE  \E a \in A : Cardinality({b \in A : b <= a}) = k
<1> DEFINE Ranked(B) == \A j \in 1..Cardinality(B) :
                           \E a \in B : Cardinality({b \in B : b <= a}) = j
<1>1. PICK m \in Nat : A \subseteq 0..m
  BY FiniteIsBounded
<1> DEFINE S == {n \in 0..(m + 1) : Ranked({b \in A : b < n})}
<1>2. 0 \in S
  <2>1. {b \in A : b < 0} = {}
    <3>1. \A b \in A : ~(b < 0)
      OBVIOUS
    <3>2. QED
      BY <3>1
  <2>2. Ranked({})
    BY FS_EmptySet
  <2> HIDE DEF Ranked
  <2>3. Ranked({b \in A : b < 0})
    BY <2>1, <2>2
  <2>4. QED
    BY <2>3
<1>3. ASSUME NEW n \in 1..(m + 1), n - 1 \in S PROVE n \in S
  <2> DEFINE B == {b \in A : b < n}
             C == {b \in A : b < n - 1}
  <2>1. Ranked(C)
    BY <1>3
  <2>2. IsFiniteSet(C) /\ n - 1 \notin C /\ IsFiniteSet(B)
    <3>1. C \in SUBSET A /\ B \in SUBSET A
      OBVIOUS
    <3>2. QED
      BY <3>1, FS_Subset
  <2>3. CASE n - 1 \notin A
    <3>1. \A b \in A : b < n <=> b < n - 1
      BY <2>3
    <3>2. B = C
      BY <3>1
    <3> HIDE DEF B, C, Ranked
    <3>3. Ranked(B)
      BY <2>1, <3>2
    <3>4. QED
      BY <3>3 DEF B
  <2>4. CASE n - 1 \in A
    <3>1. \A b \in A : b < n <=> b < n - 1 \/ b = n - 1
      OBVIOUS
    <3>2. B = C \cup {n - 1}
      BY <2>4, <3>1
    <3>3. Cardinality(B) = Cardinality(C) + 1 /\ Cardinality(C) \in Nat
      BY <2>2, <3>2, FS_AddElement, FS_CardinalityType
    <3>4. ASSUME NEW j \in 1..Cardinality(B)
          PROVE  \E a \in B : Cardinality({b \in B : b <= a}) = j
      <4>1. CASE j = Cardinality(B)
        <5>1. {b \in B : b <= n - 1} = B
          <6>1. \A b \in B : b <= n - 1
            OBVIOUS
          <6>2. QED
            BY <6>1
        <5>2. QED
          BY <3>2, <4>1, <5>1
      <4>2. CASE j # Cardinality(B)
        <5>1. j \in 1..Cardinality(C)
          BY <3>3, <4>2
        <5>2. PICK a \in C : Cardinality({b \in C : b <= a}) = j
          BY <2>1, <5>1
        <5>3. {b \in B : b <= a} = {b \in C : b <= a}
          <6>1. a < n - 1 /\ a \in Nat
            BY <5>2
          <6>2. \A b \in B : b <= a <=> b \in C /\ b <= a
            BY <3>2, <6>1
          <6>3. C \subseteq B
            BY <3>2
          <6> HIDE DEF B, C
          <6>4. QED
            BY <6>2, <6>3
        <5>4. a \in B
          BY <3>2
        <5>5. QED
          BY <5>2, <5>3, <5>4
      <4>3. QED
        BY <4>1, <4>2
    <3>5. QED
      BY <3>4
  <2>5. QED
    BY <2>3, <2>4
<1> HIDE DEF S
<1>4. m + 1 \in S
  BY <1>2, <1>3, InductionUpTo
<1>5. {b \in A : b < m + 1} = A
  <2>1. \A b \in A : b < m + 1
    BY <1>1
  <2>2. QED
    BY <2>1
<1>6. Ranked({b \in A : b < m + 1})
  BY <1>4 DEF S
<1>7. QED
  BY <1>5, <1>6
-----------------------------------------------------------------------------
(* Sums over finite sets.  MapThenSumSet is defined by a recursive function *)
(* on the subsets; it exists when the set is finite.                       *)

Total(f, S) == MapThenSumSet(LAMBDA d : f[d], S)
Picked(s) == CHOOSE x \in s : TRUE

LEMMA PickedMember ==
    ASSUME NEW s, s # {} PROVE Picked(s) \in s
BY DEF Picked

IsSumOn(h, f, D) ==
    \A s \in D : h[s] = IF s = {} THEN 0 ELSE f[Picked(s)] + h[s \ {Picked(s)}]

(* Without its picked member a set is one smaller.                         *)
LEMMA PickedLeaves ==
    ASSUME NEW S, IsFiniteSet(S), NEW s \in SUBSET S, s # {}
    PROVE  /\ Picked(s) \in S /\ s \ {Picked(s)} \in SUBSET S
           /\ Cardinality(s) \in Nat \ {0}
           /\ Cardinality(s \ {Picked(s)}) = Cardinality(s) - 1
<1>1. Picked(s) \in s
  BY PickedMember
<1>2. IsFiniteSet(s)
  BY FS_Subset
<1>3. Cardinality(s) \in Nat /\ Cardinality(s) # 0
  BY <1>2, FS_CardinalityType, FS_EmptySet
<1>4. Cardinality(s \ {Picked(s)}) = Cardinality(s) - 1
  BY <1>1, <1>2, FS_RemoveElement
<1>5. QED
  BY <1>1, <1>3, <1>4

(* What holds of the empty set, and of a set when it holds without its      *)
(* picked member, holds of every finite set.                               *)
LEMMA PickedInduction ==
    ASSUME NEW S, IsFiniteSet(S), NEW T \in SUBSET SUBSET S, {} \in T,
           \A s \in SUBSET S : s # {} /\ s \ {Picked(s)} \in T => s \in T
    PROVE  T = SUBSET S
<1> DEFINE n == Cardinality(S)
           K == {k \in 0..n : \A s \in SUBSET S : Cardinality(s) = k => s \in T}
<1>1. n \in Nat
  BY FS_CardinalityType
<1>2. \A s \in SUBSET S : IsFiniteSet(s) /\ Cardinality(s) \in 0..n
  <2>1. ASSUME NEW s \in SUBSET S
        PROVE  IsFiniteSet(s) /\ Cardinality(s) \in Nat /\ Cardinality(s) <= n
    BY FS_Subset, FS_CardinalityType
  <2>2. QED
    BY <1>1, <2>1
<1> HIDE DEF n
<1>3. 0 \in K
  <2>1. ASSUME NEW s \in SUBSET S, Cardinality(s) = 0 PROVE s \in T
    BY <1>2, <2>1, FS_EmptySet
  <2>2. QED
    BY <1>1, <2>1
<1>4. ASSUME NEW k \in 1..n, k - 1 \in K PROVE k \in K
  <2>1. ASSUME NEW s \in SUBSET S, Cardinality(s) = k PROVE s \in T
    <3>1. s # {}
      BY <2>1, FS_EmptySet
    <3>2. s \ {Picked(s)} \in SUBSET S /\ Cardinality(s \ {Picked(s)}) = k - 1
      BY <2>1, <3>1, PickedLeaves
    <3>3. s \ {Picked(s)} \in T
      BY <1>4, <3>2
    <3>4. QED
      BY <3>1, <3>3
  <2>2. QED
    BY <1>1, <2>1
<1> HIDE DEF K
<1>5. 0..n \subseteq K
  BY <1>1, <1>3, <1>4, InductionUpTo
<1>6. QED
  BY <1>2, <1>5 DEF K

LEMMA SumOnExists ==
    ASSUME NEW S, IsFiniteSet(S), NEW f, \A x \in S : f[x] \in Nat
    PROVE  \E h \in [SUBSET S -> Nat] : IsSumOn(h, f, SUBSET S)
<1> DEFINE n == Cardinality(S)
           D(k) == {s \in SUBSET S : Cardinality(s) <= k}
           K == {k \in 0..n : \E h \in [D(k) -> Nat] : IsSumOn(h, f, D(k))}
<1>1. n \in Nat
  BY FS_CardinalityType
<1>2. \A s \in SUBSET S : IsFiniteSet(s) /\ Cardinality(s) \in 0..n
  <2>1. ASSUME NEW s \in SUBSET S
        PROVE  IsFiniteSet(s) /\ Cardinality(s) \in Nat /\ Cardinality(s) <= n
    BY FS_Subset, FS_CardinalityType
  <2>2. QED
    BY <1>1, <2>1
<1> HIDE DEF n
<1>3. 0 \in K
  <2> DEFINE h == [s \in D(0) |-> 0]
  <2>1. \A s \in D(0) : s = {}
    BY <1>2, FS_EmptySet
  <2>2. h \in [D(0) -> Nat] /\ IsSumOn(h, f, D(0))
    BY <2>1 DEF IsSumOn
  <2> HIDE DEF h, D
  <2>3. QED
    BY <1>1, <2>2
<1>4. ASSUME NEW k \in 1..n, k - 1 \in K PROVE k \in K
  <2>1. PICK g \in [D(k - 1) -> Nat] : IsSumOn(g, f, D(k - 1))
    BY <1>4
  <2> DEFINE h == [s \in D(k) |-> IF s \in D(k - 1) THEN g[s]
                                  ELSE f[Picked(s)] + g[s \ {Picked(s)}]]
  <2>2. ASSUME NEW s \in D(k), s # {}
        PROVE  /\ f[Picked(s)] \in Nat /\ s \ {Picked(s)} \in D(k - 1)
               /\ s \ {Picked(s)} \in D(k)
    <3>1. Picked(s) \in S /\ s \ {Picked(s)} \in SUBSET S
          /\ Cardinality(s) \in Nat /\ Cardinality(s \ {Picked(s)}) = Cardinality(s) - 1
      BY <2>2, PickedLeaves
    <3>2. QED
      BY <1>1, <3>1
  <2>3. D(k - 1) \subseteq D(k) /\ {} \in D(k - 1)
    <3>1. \A s \in D(k - 1) : Cardinality(s) <= k
      BY <1>1, <1>2
    <3>2. Cardinality({}) = 0
      BY FS_EmptySet
    <3>3. QED
      BY <1>1, <3>1, <3>2
  <2> HIDE DEF D
  <2>4. h \in [D(k) -> Nat]
    <3>1. ASSUME NEW s \in D(k) PROVE h[s] \in Nat
      <4>1. CASE s \in D(k - 1)
        BY <2>1, <4>1
      <4>2. CASE s \notin D(k - 1)
        <5>1. s # {}
          BY <2>3, <4>2
        <5>2. f[Picked(s)] \in Nat /\ g[s \ {Picked(s)}] \in Nat
          BY <2>1, <2>2, <5>1
        <5>3. QED
          BY <4>2, <5>2
      <4>3. QED
        BY <4>1, <4>2
    <3>2. QED
      BY <3>1
  <2>5. ASSUME NEW s \in D(k)
        PROVE  h[s] = IF s = {} THEN 0 ELSE f[Picked(s)] + h[s \ {Picked(s)}]
    <3>1. CASE s = {}
      BY <2>1, <2>3, <3>1 DEF IsSumOn
    <3>2. CASE s # {}
      <4>1. h[s \ {Picked(s)}] = g[s \ {Picked(s)}]
        BY <2>2, <3>2
      <4>2. h[s] = f[Picked(s)] + g[s \ {Picked(s)}]
        BY <2>1, <3>2 DEF IsSumOn
      <4>3. QED
        BY <3>2, <4>1, <4>2
    <3>3. QED
      BY <3>1, <3>2
  <2>6. IsSumOn(h, f, D(k))
    BY <2>5 DEF IsSumOn
  <2> HIDE DEF h
  <2>7. k \in 0..n
    BY <1>1
  <2>8. QED
    BY <2>4, <2>6, <2>7
<1> HIDE DEF K
<1>5. 0..n \subseteq K
  BY <1>1, <1>3, <1>4, InductionUpTo
<1>6. D(n) = SUBSET S /\ n \in K
  BY <1>1, <1>2, <1>5
<1>7. QED
  BY <1>6 DEF K

(* The sum is the value of such a function.                                *)
LEMMA TotalIsSum ==
    ASSUME NEW S, IsFiniteSet(S), NEW f, \A x \in S : f[x] \in Nat
    PROVE  \E h \in [SUBSET S -> Nat] :
               IsSumOn(h, f, SUBSET S) /\ Total(f, S) = h[S]
<1> DEFINE Body(h) == [s \in SUBSET S |-> IF s = {} THEN 0
                                          ELSE f[Picked(s)] + h[s \ {Picked(s)}]]
           sum == CHOOSE h : h = Body(h)
<1>1. PICK h \in [SUBSET S -> Nat] : IsSumOn(h, f, SUBSET S)
  BY SumOnExists
<1>2. h = Body(h)
  BY <1>1 DEF IsSumOn
<1>3. sum = Body(sum)
  BY <1>2
<1>4. IsSumOn(sum, f, SUBSET S)
  <2> HIDE DEF sum
  <2>1. QED
    BY <1>3 DEF IsSumOn
<1>5. Total(f, S) = sum[S]
  BY DEF Total, MapThenSumSet, MapThenFoldSet, Picked
<1> HIDE DEF sum
<1>6. \A s \in SUBSET S : sum[s] \in Nat
  <2> DEFINE T == {s \in SUBSET S : sum[s] \in Nat}
  <2>1. {} \in T
    <3>1. sum[{}] = 0
      BY <1>4 DEF IsSumOn
    <3>2. QED
      BY <3>1
  <2>2. ASSUME NEW s \in SUBSET S, s # {}, s \ {Picked(s)} \in T PROVE s \in T
    <3>1. Picked(s) \in S
      BY <2>2, PickedLeaves
    <3>2. QED
      BY <1>4, <2>2, <3>1 DEF IsSumOn
  <2> HIDE DEF T
  <2>3. T \in SUBSET SUBSET S
    BY DEF T
  <2>4. T = SUBSET S
    BY <2>1, <2>2, <2>3, PickedInduction
  <2>5. QED
    BY <2>4 DEF T
<1>7. sum \in [SUBSET S -> Nat]
  BY <1>3, <1>6
<1>8. QED
  BY <1>4, <1>5, <1>7

(* Zeros add up to nothing; what is added to one value is added to the sum. *)
LEMMA TotalOfZeros ==
    ASSUME NEW S, IsFiniteSet(S), NEW f, \A x \in S : f[x] = 0
    PROVE  Total(f, S) = 0
<1> \A x \in S : f[x] \in Nat
  OBVIOUS
<1>1. PICK h \in [SUBSET S -> Nat] : IsSumOn(h, f, SUBSET S) /\ Total(f, S) = h[S]
  BY TotalIsSum
<1> DEFINE T == {s \in SUBSET S : h[s] = 0}
<1>2. {} \in T
  BY <1>1 DEF IsSumOn
<1>3. ASSUME NEW s \in SUBSET S, s # {}, s \ {Picked(s)} \in T PROVE s \in T
  <2>1. Picked(s) \in S
    BY <1>3, PickedLeaves
  <2>2. QED
    BY <1>1, <1>3, <2>1 DEF IsSumOn
<1>4. T \in SUBSET SUBSET S
  OBVIOUS
<1> HIDE DEF T
<1>5. T = SUBSET S
  BY <1>2, <1>3, <1>4, PickedInduction
<1>6. QED
  BY <1>1, <1>5 DEF T

LEMMA TotalChanges ==
    ASSUME NEW S, IsFiniteSet(S), NEW f, \A x \in S : f[x] \in Nat,
           NEW t \in S, NEW n \in Nat, NEW g,
           \A x \in S : g[x] = IF x = t THEN f[x] + n ELSE f[x]
    PROVE  Total(g, S) = Total(f, S) + n
<1>1. PICK h \in [SUBSET S -> Nat] : IsSumOn(h, f, SUBSET S) /\ Total(f, S) = h[S]
  BY TotalIsSum
<1>2. \A x \in S : g[x] \in Nat
  OBVIOUS
<1>3. PICK i \in [SUBSET S -> Nat] : IsSumOn(i, g, SUBSET S) /\ Total(g, S) = i[S]
  BY <1>2, TotalIsSum
<1> DEFINE T == {s \in SUBSET S : i[s] = IF t \in s THEN h[s] + n ELSE h[s]}
<1>4. {} \in T
  BY <1>1, <1>3 DEF IsSumOn
<1>5. ASSUME NEW s \in SUBSET S, s # {}, s \ {Picked(s)} \in T PROVE s \in T
  <2> DEFINE p == Picked(s)
             u == s \ {p}
  <2>1. p \in s /\ p \in S /\ u \in SUBSET S
    BY <1>5, PickedLeaves, PickedMember
  <2>2. h[s] = f[p] + h[u] /\ i[s] = g[p] + i[u]
    BY <1>1, <1>3, <1>5 DEF IsSumOn
  <2>3. i[u] = IF t \in u THEN h[u] + n ELSE h[u]
    BY <1>5
  <2>4. h[u] \in Nat /\ f[p] \in Nat /\ g[p] = IF p = t THEN f[p] + n ELSE f[p]
    BY <1>1, <2>1
  <2>5. t \in u <=> t \in s /\ t # p
    OBVIOUS
  <2> HIDE DEF u, p
  <2>6. i[s] = IF t \in s THEN h[s] + n ELSE h[s]
    BY <2>1, <2>2, <2>3, <2>4, <2>5
  <2>7. QED
    BY <2>6
<1>6. T \in SUBSET SUBSET S
  OBVIOUS
<1> HIDE DEF T
<1>7. T = SUBSET S
  BY <1>4, <1>5, <1>6, PickedInduction
<1>8. QED
  BY <1>1, <1>3, <1>7 DEF T

=============================================================================
