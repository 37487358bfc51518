----------------------------- MODULE LeastNumbers -----------------------------
(***************************************************************************)
(* Facts about least and greatest elements that the other proofs rest on:  *)
(* where they need induction over data, they take a least counterexample.  *)
(***************************************************************************)
EXTENDS FiniteSetsExt, FiniteSetTheorems, TLAPS

(* A set of numbers has a least one.                                       *)
LEMMA LeastNumber ==
  ASSUME NEW S \in SUBSET Nat, S # {}
  PROVE  \E n \in S : \A m \in S : n <= m
  <1> DEFINE T == { 0 .. n : n \in S }
             R == StrictSubsetOrdering(Nat)
  <1>1. IsWellFoundedOn(R, FiniteSubsetsOf(Nat))
    BY FS_StrictSubsetOrderingWellFounded
  <1>2. T \subseteq FiniteSubsetsOf(Nat)
    <2>1. \A n \in S : IsFiniteSet(0 .. n) /\ 0 .. n \in SUBSET Nat
      BY FS_Interval
    <2> QED
      BY <2>1 DEF FiniteSubsetsOf
  <1>3. T # {}
    OBVIOUS
  <1>4. \E x \in T : \A y \in T : <<y, x>> \notin R
    <2> HIDE DEF T, R
    <2> QED
      BY <1>1, <1>2, <1>3, WFMin
  <1>5. PICK n \in S : \A m \in S : <<0 .. m, 0 .. n>> \notin R
    BY <1>4
  <1>6. ASSUME NEW m \in S, m < n
        PROVE  FALSE
    <2>1. 0 .. m \subseteq 0 .. n /\ 0 .. m # 0 .. n /\ 0 .. n \subseteq Nat
      BY <1>6
    <2> QED
      BY <1>5, <2>1 DEF StrictSubsetOrdering
  <1> QED
    BY <1>6

LEMMA MinIsLeast ==
  ASSUME NEW S \in SUBSET Nat, S # {}
  PROVE  Min(S) \in S /\ \A m \in S : Min(S) <= m
  BY LeastNumber DEF Min

(* A bounded set of numbers has a greatest one.                            *)
LEMMA MaxIsGreatest ==
  ASSUME NEW b \in Nat, NEW S \in SUBSET (0 .. b), S # {}
  PROVE  Max(S) \in S /\ \A m \in S : m <= Max(S)
  <1> DEFINE T == { b - m : m \in S }
  <1>1. T \in SUBSET Nat /\ T # {}
    OBVIOUS
  <1>2. PICK n \in T : \A m \in T : n <= m
    BY <1>1, LeastNumber
  <1>3. b - n \in S /\ \A m \in S : m <= b - n
    BY <1>2
  <1> QED
    BY <1>3 DEF Max

(* What a strict order, given as a set of pairs, has below x in S.         *)
Below(R, S, x) == { y \in S : <<y, x>> \in R }

(* A strict order on a finite set has a minimal element.                   *)
LEMMA MinimalElement ==
  ASSUME NEW S, IsFiniteSet(S), S # {}, NEW R,
         \A x \in S : <<x, x>> \notin R,
         \A x, y, z \in S : <<x, y>> \in R /\ <<y, z>> \in R => <<x, z>> \in R
  PROVE  \E x \in S : \A y \in S : <<y, x>> \notin R
  <1> DEFINE T == { Cardinality(Below(R, S, x)) : x \in S }
  <1>1. \A x \in S : IsFiniteSet(Below(R, S, x)) /\ Cardinality(Below(R, S, x)) \in Nat
    BY FS_Subset, FS_CardinalityType DEF Below
  <1>2. T \in SUBSET Nat /\ T # {}
    BY <1>1
  <1>3. PICK n \in T : \A m \in T : n <= m
    BY <1>2, LeastNumber
  <1>4. PICK x \in S : \A y \in S :
           Cardinality(Below(R, S, x)) <= Cardinality(Below(R, S, y))
    BY <1>3
  <1>5. ASSUME NEW y \in S, <<y, x>> \in R
        PROVE  FALSE
    <2>1. Below(R, S, y) \subseteq Below(R, S, x)
      BY <1>5 DEF Below
    <2>2. y \in Below(R, S, x) /\ y \notin Below(R, S, y)
      BY <1>5 DEF Below
    <2>3. Cardinality(Below(R, S, y)) < Cardinality(Below(R, S, x))
      BY <1>1, <2>1, <2>2, FS_Subset
    <2> QED
      BY <1>1, <1>4, <2>3
  <1> QED
    BY <1>5

(* A finite set without one of its elements.                               *)
LEMMA OneLess ==
  ASSUME NEW S, IsFiniteSet(S), NEW x \in S
  PROVE  /\ IsFiniteSet(S \ {x}) /\ Cardinality(S) \in Nat
         /\ Cardinality(S \ {x}) \in Nat /\ Cardinality(S \ {x}) = Cardinality(S) - 1
  BY FS_RemoveElement, FS_CardinalityType

(* A family of subsets of a finite set has a member such that, with any    *)
(* element taken out, it is not in the family any more.                    *)
LEMMA LeastSubset ==
  ASSUME NEW S, IsFiniteSet(S), NEW D \in SUBSET (SUBSET S), D # {}
  PROVE  \E U \in D : IsFiniteSet(U) /\ \A x \in U : U \ {x} \notin D
  <1> DEFINE N == { Cardinality(U) : U \in D }
  <1>1. \A U \in SUBSET S : IsFiniteSet(U) /\ Cardinality(U) \in Nat
    BY FS_Subset, FS_CardinalityType
  <1>2. N \in SUBSET Nat /\ N # {}
    BY <1>1
  <1>3. PICK n \in N : \A m \in N : n <= m
    <2> HIDE DEF N
    <2> QED
      BY <1>2, LeastNumber
  <1>4. PICK U \in D : \A W \in D : Cardinality(U) <= Cardinality(W)
    BY <1>3
  <1>5. IsFiniteSet(U)
    BY <1>1
  <1>6. ASSUME NEW x \in U, U \ {x} \in D
        PROVE  FALSE
    BY <1>4, <1>5, <1>6, OneLess
  <1> QED
    BY <1>5, <1>6
=============================================================================
