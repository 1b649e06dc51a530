----------------------------- MODULE OrderLemmas -----------------------------
(***************************************************************************)
(* Facts about natural numbers that the proofs share: extreme elements of  *)
(* sets and slots of a ring.                                               *)
(***************************************************************************)
EXTENDS Naturals, FiniteSetsExt, WellFoundedInduction, TLAPS

\* A nonempty set of naturals has a least element, and Min returns it.
LEMMA SmallestExists ==
  ASSUME NEW S \in SUBSET Nat, S # {}
  PROVE  Min(S) \in S /\ \A x \in S : Min(S) <= x
<1>1. PICK m \in S : \A x \in S : ~(<<x, m>> \in OpToRel(<, Nat))
  BY NatLessThanWellFounded, WFMin
<1>2. ASSUME NEW x \in S PROVE m <= x
  <2>1. x < m => <<x, m>> \in OpToRel(<, Nat)
    BY <1>1, <1>2 DEF OpToRel
  <2>2. ~(x < m)
    BY <1>1, <1>2, <2>1, Zenon
  <2> QED
    BY <1>2, <2>2
<1> QED
  BY <1>2 DEF Min

\* A bounded nonempty set of naturals has a largest element: the one whose
\* distance to the bound is least.
LEMMA LargestExists ==
  ASSUME NEW S \in SUBSET Nat, NEW b \in Nat, S # {}, \A x \in S : x <= b
  PROVE  \E m \in S : \A x \in S : x <= m
<1> DEFINE D == {d \in Nat : b - d \in S}
<1>1. ASSUME NEW x \in S PROVE b - x \in D /\ b - (b - x) = x
  BY <1>1
<1>2. D \in SUBSET Nat /\ D # {}
  BY <1>1
<1>3. PICK d \in D : \A e \in D : d <= e
  BY <1>2, SmallestExists
<1>4. ASSUME NEW x \in S PROVE x <= b - d
  <2>1. d <= b - x /\ d \in Nat
    BY <1>1, <1>2, <1>3, <1>4
  <2> QED
    BY <1>4, <2>1
<1> QED
  BY <1>2, <1>4

\* Two positions less than n apart never share a slot of a ring of n slots.
LEMMA RingSlots ==
  ASSUME NEW n \in Nat \ {0}, NEW a \in Nat, NEW b \in Nat, a < b, b < a + n
  PROVE  a % n # b % n
<1> SUFFICES ASSUME a % n = b % n PROVE FALSE
  OBVIOUS
<1>1. a = n * (a \div n) + (a % n) /\ b = n * (b \div n) + (b % n)
  OBVIOUS
<1> DEFINE p == a \div n
           q == b \div n
<1>2. p \in Nat /\ q \in Nat
  OBVIOUS
<1>3. b - a = n * q - n * p
  BY <1>1, <1>2
<1>4. b - a = n * (q - p)
  BY <1>2, <1>3
<1>5. CASE q <= p
  <2>1. p - q \in Nat
    BY <1>2, <1>5
  <2>2. n * (p - q) >= 0
    BY <2>1
  <2>3. n * (q - p) = 0 - n * (p - q)
    BY <1>2
  <2> QED
    BY <1>4, <2>2, <2>3
<1>6. CASE q > p
  <2>1. q - p - 1 \in Nat
    BY <1>2, <1>6
  <2>2. n * (q - p - 1) >= 0
    BY <2>1
  <2>3. n * (q - p) = n * (q - p - 1) + n
    BY <1>2
  <2> QED
    BY <1>4, <2>2, <2>3
<1> QED
  BY <1>2, <1>5, <1>6

\* A slot number is an index of the ring.
LEMMA SlotInRing ==
  ASSUME NEW n \in Nat \ {0}, NEW a \in Nat
  PROVE  a % n \in 0..(n - 1)
OBVIOUS

=============================================================================
