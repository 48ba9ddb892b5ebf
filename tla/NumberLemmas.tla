---------------------------- MODULE NumberLemmas ----------------------------
(***************************************************************************)
(* What the proofs about sequence numbers need of arithmetic modulo n and  *)
(* of the order of the natural numbers.                                    *)
(***************************************************************************)
EXTENDS Integers, WellFoundedInduction, TLAPS

LEMMA ModRange ==
    ASSUME NEW a \in Int, NEW n \in Nat \ {0}
    PROVE  /\ a % n \in 0..(n - 1) /\ a \div n \in Int
           /\ a = n * (a \div n) + (a % n)
  BY SMT

LEMMA ModSplit ==
    ASSUME NEW a \in Int, NEW n \in Nat \ {0}
    PROVE  \E q \in Int, r \in 0..(n - 1) : a = n * q + r /\ a % n = r
  BY ModRange, Zenon

LEMMA ModSmall ==
    ASSUME NEW n \in Nat \ {0}, NEW a \in 0..(n - 1)
    PROVE  a % n = a
  BY SMT

\* The remainder is the only number below n that differs from a by a multiple.
LEMMA ModUnique ==
    ASSUME NEW n \in Nat \ {0}, NEW a \in Int, NEW q \in Int, NEW r \in 0..(n - 1),
           a = n * q + r
    PROVE  a % n = r
  BY SMTT(30)

\* Differences of remainders are remainders of differences.
LEMMA ModMinus ==
    ASSUME NEW n \in Nat \ {0}, NEW a \in Int, NEW b \in Int
    PROVE  ((a % n) - (b % n)) % n = (a - b) % n
<1>1. PICK qa \in Int, ra \in 0..(n - 1) : a = n * qa + ra /\ a % n = ra
  BY ModSplit
<1>2. PICK qb \in Int, rb \in 0..(n - 1) : b = n * qb + rb /\ b % n = rb
  BY ModSplit
<1>3. PICK qc \in Int, rc \in 0..(n - 1) : ra - rb = n * qc + rc /\ (ra - rb) % n = rc
  <2>1. ra - rb \in Int
    OBVIOUS
  <2> QED
    BY <2>1, ModSplit, Zenon
<1>4. n * (qa - qb + qc) = n * qa - n * qb + n * qc
  OBVIOUS
<1>5. a - b = n * (qa - qb + qc) + rc
  BY <1>1, <1>2, <1>3, <1>4
<1>6. (a - b) % n = rc
  <2>1. qa - qb + qc \in Int /\ a - b \in Int
    OBVIOUS
  <2> QED
    BY <1>5, <2>1, ModUnique, Zenon
<1> QED
  BY <1>1, <1>2, <1>3, <1>6

LEMMA ModMinusLeft ==
    ASSUME NEW n \in Nat \ {0}, NEW a \in Int, NEW b \in Int
    PROVE  ((a % n) - b) % n = (a - b) % n
<1>1. PICK qa \in Int, ra \in 0..(n - 1) : a = n * qa + ra /\ a % n = ra
  BY ModSplit
<1>2. PICK qc \in Int, rc \in 0..(n - 1) : ra - b = n * qc + rc /\ (ra - b) % n = rc
  <2>1. ra - b \in Int
    OBVIOUS
  <2> QED
    BY <2>1, ModSplit, Zenon
<1>3. n * (qa + qc) = n * qa + n * qc
  OBVIOUS
<1>4. a - b = n * (qa + qc) + rc
  BY <1>1, <1>2, <1>3
<1>5. (a - b) % n = rc
  <2>1. qa + qc \in Int /\ a - b \in Int
    OBVIOUS
  <2> QED
    BY <1>4, <2>1, ModUnique, Zenon
<1> QED
  BY <1>1, <1>2, <1>5

LEMMA ModNegative ==
    ASSUME NEW n \in Nat \ {0}, NEW a \in Int, -n <= a, a < 0
    PROVE  a % n = a + n
<1>1. a + n \in 0..(n - 1) /\ a = n * (-1) + (a + n)
  OBVIOUS
<1> QED
  BY <1>1, ModUnique

\* Two numbers within half of n of each other are told apart, and compared, by
\* the difference of their remainders, as int32(a - b) does for 2^32.
LEMMA SerialDifference ==
    ASSUME NEW h \in Nat \ {0}, NEW a \in Int, NEW b \in Int,
           -h <= a - b, a - b < h
    PROVE  ((a % (2 * h)) - (b % (2 * h))) % (2 * h) =
              IF a - b >= 0 THEN a - b ELSE a - b + 2 * h
<1> DEFINE n == 2 * h
           c == a - b
<1>1. n \in Nat \ {0} /\ c \in Int
  OBVIOUS
<1>2. ((a % n) - (b % n)) % n = c % n
  <2> HIDE DEF n
  <2> QED
    BY <1>1, ModMinus
<1>3. c >= 0 => c % n = c
  <2>1. c >= 0 => c \in 0..(n - 1)
    OBVIOUS
  <2> HIDE DEF n, c
  <2> QED
    BY <1>1, <2>1, ModSmall
<1>4. c < 0 => c % n = c + n
  <2>1. -n <= c
    OBVIOUS
  <2> HIDE DEF n, c
  <2> QED
    BY <1>1, <2>1, ModNegative
<1> HIDE DEF n
<1> QED
  BY <1>1, <1>2, <1>3, <1>4 DEF n

----------------------------------------------------------------------------
\* A set of natural numbers that is not empty has a least element.
LEMMA LeastNat ==
    ASSUME NEW T \in SUBSET Nat, T # {}
    PROVE  \E x \in T : \A y \in T : x <= y
<1> DEFINE R == {p \in Nat \X Nat : p[1] < p[2]}
<1>1. IsWellFoundedOn(R, Nat)
  <2>1. OpToRel(<, Nat) = R
    BY DEF OpToRel
  <2> QED
    BY <2>1, NatLessThanWellFounded, Zenon
<1>2. PICK x \in T : \A y \in T : ~(<<y, x>> \in R)
  <2> HIDE DEF R
  <2> QED
    BY <1>1, WFMin
<1>3. ASSUME NEW y \in T PROVE x <= y
  <2>1. y \in Nat /\ x \in Nat /\ <<y, x>> \in Nat \X Nat /\ <<y, x>> \notin R
    BY <1>2
  <2> QED
    BY <2>1
<1> QED
  BY <1>3
=============================================================================
