------------------------------ MODULE Induction ------------------------------
(* Induction on the natural numbers over sets: a property is the set of the  *)
(* numbers that have it. The proofs about folds and recursive functions      *)
(* rest on it.                                                               *)
EXTENDS Naturals, WellFoundedInduction, TLAPS

\* A set of natural numbers has a least member; a bounded one a greatest.
LEMMA Least ==
  ASSUME NEW S \in SUBSET Nat, S # {}
  PROVE  \E n \in S : \A m \in S : n <= m
  <1>1. PICK n \in S : \A m \in S : ~(<<m, n>> \in OpToRel(<, Nat))
    BY NatLessThanWellFounded, WFMin
  <1>2. \A m \in S : ~(m < n)
    BY <1>1 DEF OpToRel
  <1> QED BY <1>2

LEMMA Greatest ==
  ASSUME NEW k \in Nat, NEW S \in SUBSET (1..k), S # {}
  PROVE  \E n \in S : \A m \in S : m <= n
  <1> DEFINE T == {k - n : n \in S}
  <1>1. \A n \in S : n \in 1..k
    OBVIOUS
  <1>2. \A n \in S : k - n \in Nat /\ k - n \in T
    BY <1>1
  <1>3. \A t \in T : \E n \in S : t = k - n
    OBVIOUS
  <1>4. T \in SUBSET Nat /\ T # {}
    <2> HIDE DEF T
    <2> QED BY <1>2, <1>3
  <1> HIDE DEF T
  <1>5. PICK t \in T : \A u \in T : t <= u
    BY <1>4, Least
  <1>6. PICK n \in S : t = k - n
    BY <1>3
  <1>7. ASSUME NEW m \in S PROVE m <= n
    <2>1. k - n <= k - m
      BY <1>2, <1>5, <1>6
    <2>2. m \in Nat /\ n \in Nat
      BY <1>1
    <2> QED BY <2>1, <2>2
  <1> QED BY <1>7

\* What holds at 0 and is handed on up to k holds up to k.
LEMMA UpTo ==
  ASSUME NEW k \in Nat, NEW S, 0 \in S,
         \A n \in Nat : n < k /\ n \in S => n + 1 \in S
  PROVE  \A n \in 0..k : n \in S
  <1> DEFINE T == {n \in 0..k : n \notin S}
  <1> SUFFICES ASSUME T # {} PROVE FALSE
    OBVIOUS
  <1>1. T \in SUBSET Nat
    OBVIOUS
  <1>2. PICK n \in T : \A m \in T : n <= m
    BY <1>1, Least
  <1>3. n \in 0..k /\ n \notin S /\ n # 0
    BY <1>2
  <1>4. n - 1 \in Nat /\ n - 1 \in 0..k /\ ~(n <= n - 1) /\ n - 1 < k
    BY <1>3
  <1>5. n - 1 \in S
    BY <1>2, <1>4
  <1>6. n - 1 + 1 \in S
    BY <1>4, <1>5
  <1> QED BY <1>3, <1>6
=============================================================================
