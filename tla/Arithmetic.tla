----------------------------- MODULE Arithmetic -----------------------------
(***************************************************************************)
(* Facts about remainders and quotients that the proofs of the other       *)
(* modules share: the ring buffer's pointers, the places of bytes in their *)
(* packets and sections, the output positions.  And the least and the      *)
(* greatest element of a set of numbers.                                   *)
(***************************************************************************)
EXTENDS Integers, WellFoundedInduction, TLAPS

\* A remainder is determined by any decomposition of the dividend.
LEMMA ModUnique ==
  ASSUME NEW n \in Nat, n > 0, NEW q \in Int, NEW r \in 0..n - 1
  PROVE  (n * q + r) % n = r
  OBVIOUS

\* The remainder of a number below the divisor is the number.
LEMMA ModSmall ==
  ASSUME NEW n \in Nat, n > 0, NEW r \in 0..n - 1
  PROVE  r % n = r
BY ModUnique

\* Every number has a quotient and a remainder.
LEMMA DivMod ==
  ASSUME NEW n \in Nat, n > 0, NEW x \in Int
  PROVE  /\ x \div n \in Int /\ x % n \in 0..n - 1
         /\ x = n * (x \div n) + (x % n)
  OBVIOUS

\* A multiple of the divisor does not change the remainder.
LEMMA ModMultiple ==
  ASSUME NEW n \in Nat, n > 0, NEW x \in Int, NEW k \in Int
  PROVE  (x + n * k) % n = x % n
<1> DEFINE q == x \div n
           r == x % n
<1>1. q \in Int /\ r \in 0..n - 1 /\ x = n * q + r
  BY DivMod
<1> HIDE DEF q, r
<1>2. (n * (q + k) + r) % n = r
  BY <1>1, ModUnique
<1>3. x + n * k = n * (q + k) + r
  BY <1>1
<1> QED
  BY <1>2, <1>3 DEF r

LEMMA ModPeriod ==
  ASSUME NEW n \in Nat, n > 0, NEW x \in Int
  PROVE  (x + n) % n = x % n /\ (x - n) % n = x % n
<1>1. n * 1 = n /\ x + n * (-1) = x - n /\ 1 \in Int /\ -1 \in Int
  OBVIOUS
<1>2. (x + n * 1) % n = x % n /\ (x + n * (-1)) % n = x % n
  BY <1>1, ModMultiple, Zenon
<1> QED BY <1>1, <1>2, Zenon

\* Remainders may be taken before adding.
LEMMA ModPlus ==
  ASSUME NEW n \in Nat, n > 0, NEW x \in Int, NEW y \in Int, x % n = y % n,
         NEW c \in Int
  PROVE  (x + c) % n = (y + c) % n
<1> DEFINE k == x \div n - y \div n
<1>1. k \in Int /\ x + c = (y + c) + n * k
  <2>1. /\ x \div n \in Int /\ x = n * (x \div n) + (x % n)
        /\ y \div n \in Int /\ y = n * (y \div n) + (y % n)
    BY DivMod
  <2> QED BY <2>1
<1> HIDE DEF k
<1>2. ((y + c) + n * k) % n = (y + c) % n
  <2>1. y + c \in Int
    OBVIOUS
  <2> QED BY <1>1, <2>1, ModMultiple, Zenon
<1> QED
  BY <1>1, <1>2

\* Going d below a multiple-or-not w of n: what wrapping costs is w % n.
LEMMA ModBelow ==
  ASSUME NEW n \in Nat, n > 0, NEW w \in Nat, NEW d \in 1..n - 1,
         n - d + (w % n) < n
  PROVE  (w - d) % n = n - d + (w % n)
<1> DEFINE q == w \div n
           r == n - d + (w % n)
<1>1. q \in Int /\ w = n * q + (w % n) /\ w % n \in 0..n - 1
  BY DivMod
<1>2. w - d = n * (q - 1) + r
  BY <1>1
<1>3. r \in 0..n - 1 /\ q - 1 \in Int
  BY <1>1
<1> HIDE DEF q, r
<1>4. (n * (q - 1) + r) % n = r
  BY <1>3, ModUnique
<1> QED
  BY <1>2, <1>4 DEF r

\* Products with a number that is not negative keep the order.
LEMMA TimesMonotone ==
  ASSUME NEW x \in Int, NEW y \in Int, x <= y, NEW c \in Nat
  PROVE  x * c <= y * c
<1>1. y * c - x * c = (y - x) * c
  OBVIOUS
<1>2. (y - x) * c >= 0
  OBVIOUS
<1> QED BY <1>1, <1>2

\* A quotient is at least q when the dividend reaches q times the divisor.
LEMMA DivAtLeast ==
  ASSUME NEW n \in Nat, n > 0, NEW x \in Int, NEW q \in Int, n * q <= x
  PROVE  q <= x \div n
<1> DEFINE d == x \div n
<1>1. d \in Int /\ x < n * d + n
  BY DivMod
<1> HIDE DEF d
<1>2. SUFFICES ASSUME d + 1 <= q PROVE FALSE
  BY <1>1 DEF d
<1>3. (d + 1) * n <= q * n
  BY <1>1, <1>2, TimesMonotone
<1>4. n * d + n <= n * q
  BY <1>1, <1>3
<1> QED BY <1>1, <1>4

\* Division keeps the order.
LEMMA DivMonotone ==
  ASSUME NEW n \in Nat, n > 0, NEW x \in Int, NEW y \in Int, x <= y
  PROVE  x \div n <= y \div n
<1>1. x \div n \in Int /\ n * (x \div n) <= x
  BY DivMod
<1>2. n * (x \div n) <= y
  BY <1>1
<1> QED BY <1>1, <1>2, DivAtLeast

\* An exact quotient.
LEMMA DivExact ==
  ASSUME NEW n \in Nat, n > 0, NEW q \in Int
  PROVE  (n * q) \div n = q
<1> DEFINE d == (n * q) \div n
           r == (n * q) % n
<1>1. d \in Int /\ r \in 0..n - 1 /\ n * q = n * d + r
  BY DivMod
<1>2. r = 0
  BY ModUnique
<1> HIDE DEF d, r
<1>3. n * q = n * d
  BY <1>1, <1>2
<1>4. d = q
  BY <1>1, <1>3
<1> QED BY <1>4 DEF d

-----------------------------------------------------------------------------
(* Sets of numbers.                                                        *)

\* A set of natural numbers has a least element ...
LEMMA Least ==
  ASSUME NEW S, S \subseteq Nat, S # {}
  PROVE  \E x \in S : \A y \in S : x <= y
<1> DEFINE R == OpToRel(<, Nat)
<1>1. IsWellFoundedOn(R, Nat)
  BY NatLessThanWellFounded
<1>2. \A x, y \in Nat : y < x => <<y, x>> \in R
  BY DEF OpToRel
<1> HIDE DEF R
<1>3. PICK x \in S : \A y \in S : ~(<<y, x>> \in R)
  BY <1>1, WFMin, Zenon
<1>4. ASSUME NEW y \in S PROVE x <= y
  <2>1. x \in Nat /\ y \in Nat
    OBVIOUS
  <2>2. ~(y < x)
    BY <1>2, <1>3, <2>1, Zenon
  <2> QED BY <2>1, <2>2
<1> QED BY <1>4, Zenon

\* ... and, if it is bounded, a greatest one.
LEMMA Greatest ==
  ASSUME NEW n \in Nat, NEW S, S \subseteq 0..n, S # {}
  PROVE  \E x \in S : \A y \in S : y <= x
<1> DEFINE T == {i \in Nat : \E x \in S : i = n - x}
<1>1. PICK x \in S : TRUE
  OBVIOUS
<1>2. n - x \in T
  OBVIOUS
<1>3. PICK i \in T : \A j \in T : i <= j
  <2>1. T \subseteq Nat /\ T # {}
    BY <1>2
  <2> HIDE DEF T
  <2> QED BY <2>1, Least
<1>4. PICK m \in S : i = n - m
  BY <1>3
<1>5. ASSUME NEW y \in S PROVE y <= m
  <2>1. y \in 0..n /\ m \in 0..n
    OBVIOUS
  <2>2. n - y \in T
    BY <2>1
  <2> HIDE DEF T
  <2> QED BY <1>3, <1>4, <2>1, <2>2
<1> QED BY <1>5
=============================================================================
