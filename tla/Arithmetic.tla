----------------------------- MODULE Arithmetic -----------------------------
(***************************************************************************)
(* Facts about natural numbers that the proofs about ages and clocks use.  *)
(***************************************************************************)
EXTENDS Integers, WellFoundedInduction, TLAPS

\* Rounding down a quotient of naturals.
LEMMA FloorOfQuotient ==
    ASSUME NEW n \in Nat, NEW p \in Nat \ {0}
    PROVE  n \div p \in Nat /\ p * (n \div p) <= n
OBVIOUS

\* A product does not exceed what the floor of a quotient allows.
LEMMA ScaleByPeriod ==
    ASSUME NEW n \in Nat, NEW p \in Nat \ {0}, NEW k \in Nat, k <= n \div p
    PROVE  p * k <= n
<1>1. n \div p \in Nat /\ p * (n \div p) <= n
  BY FloorOfQuotient
<1>2. p * k <= p * (n \div p)
  BY <1>1
<1> QED BY <1>1, <1>2

\* A non-empty set of naturals has a least element.
LEMMA LeastElement ==
    ASSUME NEW S \in SUBSET Nat, S # {}
    PROVE  \E x \in S : \A y \in S : x <= y
<1>1. PICK x \in S : \A y \in S : <<y, x>> \notin OpToRel(<, Nat)
  BY NatLessThanWellFounded, WFMin, Zenon
<1>2. \A y \in S : ~(y < x)
  BY <1>1 DEF OpToRel
<1> QED BY <1>2

\* A bounded set of natural numbers has a greatest element.
LEMMA GreatestElement ==
    ASSUME NEW n \in Nat, NEW S \in SUBSET (0..n), S # {}
    PROVE  \E x \in S : \A y \in S : y <= x
<1> DEFINE T == {n - x : x \in S}
<1>1. T \in SUBSET Nat
  <2>1. \A x \in S : n - x \in Nat
    OBVIOUS
  <2> QED BY <2>1
<1>2. T # {}
  <2>1. PICK x \in S : TRUE
    OBVIOUS
  <2>2. n - x \in T
    OBVIOUS
  <2> QED BY <2>2
<1> HIDE DEF T
<1>3. PICK t \in T : \A u \in T : t <= u
  BY <1>1, <1>2, LeastElement
<1>4. PICK x \in S : t = n - x
  BY DEF T
<1>5. \A y \in S : y <= x
  <2>1. \A y \in S : t <= n - y
    BY <1>3 DEF T
  <2> QED BY <1>4, <2>1
<1> QED BY <1>5

\* Adding multiples of the divisor adds to the quotient.
LEMMA QuotientOfSum ==
    ASSUME NEW n \in Nat, NEW p \in Nat \ {0}, NEW k \in Nat
    PROVE  (n + k * p) \div p = n \div p + k
<1> DEFINE q == n \div p + k
<1>1. n \div p \in Nat /\ p * (n \div p) <= n /\ n < p * (n \div p) + p
  OBVIOUS
<1>2. q \in Nat /\ p * q <= n + k * p /\ n + k * p < p * q + p
  BY <1>1
<1>3. n + k * p \in Nat
  OBVIOUS
<1> HIDE DEF q
<1>4. \A m \in Nat : p * q <= m /\ m < p * q + p => m \div p = q
  BY <1>2
<1> QED BY <1>2, <1>3, <1>4 DEF q

\* The remainder is what the quotient leaves.
LEMMA Remainder ==
    ASSUME NEW n \in Nat, NEW p \in Nat \ {0}
    PROVE  n % p = n - p * (n \div p)
OBVIOUS

\* A remainder and what is added to it, as long as they stay below the divisor.
LEMMA RemainderOfSum ==
    ASSUME NEW n \in Nat, NEW p \in Nat \ {0}, NEW k \in Nat, (n % p) + k < p
    PROVE  (n + k) % p = (n % p) + k
<1> DEFINE q == n \div p
           r == n % p
           d == p * q
<1>1. q \in Nat /\ r \in Nat /\ d \in Nat /\ r = n - d
  BY Remainder
<1>2. (r + k) \div p = 0
  BY <1>1
<1>3. n + k = (r + k) + q * p
  <2>1. d = q * p
    BY <1>1
  <2> HIDE DEF q, r, d
  <2> QED BY <1>1, <2>1
<1>4. (n + k) \div p = q
  <2> HIDE DEF q, r, d
  <2>1. r + k \in Nat
    BY <1>1
  <2>2. ((r + k) + q * p) \div p = (r + k) \div p + q
    BY <1>1, <2>1, QuotientOfSum
  <2> QED BY <1>1, <1>2, <1>3, <2>2
<1>5. (n + k) % p = (n + k) - p * ((n + k) \div p)
  <2> DEFINE x == n + k
  <2>1. x \in Nat
    OBVIOUS
  <2> HIDE DEF x
  <2>2. x % p = x - p * (x \div p)
    BY <2>1, Remainder
  <2> QED BY <2>2 DEF x
<1>6. (n + k) % p = (n + k) - d
  BY <1>4, <1>5
<1> HIDE DEF q, d
<1> QED BY <1>1, <1>6

\* A number below the modulus is its own remainder.
LEMMA SmallRemainder ==
    ASSUME NEW n \in Nat, NEW p \in Nat \ {0}, n < p
    PROVE  n % p = n
<1>1. n \div p = 0
  OBVIOUS
<1>2. n % p = n - p * (n \div p)
  BY Remainder
<1> QED BY <1>1, <1>2

\* Multiplication keeps order.
LEMMA ProductsKeepOrder ==
    ASSUME NEW a \in Nat, NEW b \in Nat, NEW c \in Nat, a <= b
    PROVE  a * c \in Nat /\ b * c \in Nat /\ a * c <= b * c
OBVIOUS

\* Division undoes multiplication.
LEMMA QuotientOfProduct ==
    ASSUME NEW n \in Nat, NEW p \in Nat \ {0}
    PROVE  (n * p) \div p = n
<1>1. (0 + n * p) \div p = 0 \div p + n
  BY QuotientOfSum
<1>2. 0 \div p = 0 /\ 0 + n * p = n * p
  OBVIOUS
<1> QED BY <1>1, <1>2

\* The last multiple of a period is less than a period ago.
LEMMA LastMultiple ==
    ASSUME NEW n \in Nat, NEW p \in Nat \ {0}
    PROVE  /\ (n \div p) * p \in Nat
           /\ (n \div p) * p <= n
           /\ n <= (n \div p) * p + p - 1
OBVIOUS

\* Division keeps order.
LEMMA QuotientsKeepOrder ==
    ASSUME NEW m \in Nat, NEW n \in Nat, NEW p \in Nat \ {0}, m <= n
    PROVE  m \div p \in Nat /\ n \div p \in Nat /\ m \div p <= n \div p
OBVIOUS

\* Numbers that are no more than k periods apart have quotients that are no
\* more than k apart.
LEMMA QuotientsOfClose ==
    ASSUME NEW m \in Nat, NEW n \in Nat, NEW p \in Nat \ {0}, NEW k \in Nat,
           m <= n, n <= m + k * p
    PROVE  /\ m \div p \in Nat /\ n \div p \in Nat
           /\ m \div p <= n \div p /\ n \div p <= m \div p + k
<1> DEFINE x == k * p
<1>1. x \in Nat /\ (m + x) \div p = m \div p + k
  <2>1. (m + k * p) \div p = m \div p + k
    BY QuotientOfSum
  <2>2. k * p \in Nat
    OBVIOUS
  <2> QED BY <2>1, <2>2
<1> HIDE DEF x
<1>2. m + x \in Nat /\ n <= m + x
  BY <1>1 DEF x
<1>3. n \div p <= (m + x) \div p
  BY <1>2, QuotientsKeepOrder
<1> QED BY <1>1, <1>3, QuotientsKeepOrder
=============================================================================
