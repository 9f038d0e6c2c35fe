------------------------------ MODULE ModArith ------------------------------
(***************************************************************************)
(* Lemmas about natural numbers: induction, and quotients and remainders,  *)
(* for counters that wrap, the byte swap and the checksum.                 *)
(***************************************************************************)
EXTENDS Integers, WellFoundedInduction, TLAPS

(* A set of naturals that is not empty has a least element. *)
LEMMA Least ==
  ASSUME NEW T \in SUBSET Nat, T # {}
  PROVE  \E x \in T : \A y \in T : x <= y
<1> DEFINE R == OpToRel(<, Nat)
<1>1. \A x, y \in Nat : y < x => <<y, x>> \in R
  BY DEF OpToRel
<1>2. IsWellFoundedOn(R, Nat)
  BY NatLessThanWellFounded
<1> HIDE DEF R
<1>3. PICK x \in T : \A y \in T : ~(<<y, x>> \in R)
  BY <1>2, WFMin
<1>4. ASSUME NEW y \in T PROVE x <= y
  <2>1. x \in Nat /\ y \in Nat /\ ~(<<y, x>> \in R)
    BY <1>3
  <2>2. ~(y < x)
    BY <1>1, <2>1
  <2> QED
    BY <2>1, <2>2
<1> QED
  BY <1>4

(* Induction, for the set of the numbers that have a property. *)
LEMMA Induction ==
  ASSUME NEW S, 0 \in S, \A n \in Nat : n \in S => n + 1 \in S
  PROVE  \A n \in Nat : n \in S
<1> DEFINE T == Nat \ S
<1> SUFFICES ASSUME T # {} PROVE FALSE
  OBVIOUS
<1>1. PICK x \in T : \A y \in T : x <= y
  BY Least
<1>2. x \in Nat /\ x # 0
  BY <1>1
<1>3. x - 1 \in Nat /\ x - 1 \notin T
  BY <1>1, <1>2
<1>4. x - 1 \in S /\ (x - 1) + 1 = x
  BY <1>2, <1>3
<1> QED
  BY <1>1, <1>3, <1>4

(* Quotient and remainder are the only numbers with which a number is so      *)
(* divided.                                                                   *)
LEMMA DivModUnique ==
  ASSUME NEW w \in Nat \ {0}, NEW a \in Int, NEW b \in Int, NEW r \in 0 .. w - 1,
         NEW s \in 0 .. w - 1, a * w + r = b * w + s
  PROVE  a = b /\ r = s
<1>1. (a - b) * w = s - r
  OBVIOUS
<1>2. s - r < w /\ s - r > -w
  OBVIOUS
<1>3. CASE a - b >= 1
  <2>1. (a - b) * w >= w
    BY <1>3
  <2> QED
    BY <1>1, <1>2, <2>1
<1>4. CASE a - b <= -1
  <2>1. (a - b) * w <= -w
    BY <1>4
  <2> QED
    BY <1>1, <1>2, <2>1
<1>5. CASE a - b = 0
  BY <1>1, <1>5
<1> QED
  BY <1>3, <1>4, <1>5

(* A number is its quotient and remainder put together. *)
LEMMA DivMod ==
  ASSUME NEW w \in Nat \ {0}, NEW n \in Nat
  PROVE  n = (n \div w) * w + (n % w) /\ n % w \in 0 .. w - 1 /\ n \div w \in Nat
  OBVIOUS

(* Taking apart what was put together. *)
LEMMA DivModOf ==
  ASSUME NEW w \in Nat \ {0}, NEW a \in Nat, NEW r \in 0 .. w - 1
  PROVE  (a * w + r) \div w = a /\ (a * w + r) % w = r
<1> DEFINE n == a * w + r
           q == n \div w
           t == n % w
<1>1. n \in Nat
  OBVIOUS
<1>2. n = q * w + t /\ t \in 0 .. w - 1 /\ q \in Nat
  BY <1>1, DivMod
<1>3. a * w + r = q * w + t
  BY <1>2
<1> HIDE DEF q, t
<1>4. a = q /\ r = t
  BY <1>2, <1>3, DivModUnique
<1> QED
  BY <1>4 DEF q, t

(* A counter that wraps to 0 after w - 1 counts modulo w. *)
LEMMA ModSucc ==
  ASSUME NEW w \in Nat \ {0}, NEW n \in Nat
  PROVE  (n + 1) % w = IF n % w = w - 1 THEN 0 ELSE (n % w) + 1
<1> DEFINE q == n \div w
           r == n % w
<1>1. n = q * w + r /\ r \in 0 .. w - 1 /\ q \in Nat
  BY DivMod
<1> HIDE DEF q, r
<1>2. CASE r = w - 1
  <2>1. n + 1 = (q + 1) * w + 0 /\ q + 1 \in Nat /\ 0 \in 0 .. w - 1
    BY <1>1, <1>2
  <2>2. (n + 1) % w = 0
    BY <2>1, DivModOf
  <2> QED
    BY <1>2, <2>2 DEF r
<1>3. CASE r # w - 1
  <2>1. n + 1 = q * w + (r + 1) /\ r + 1 \in 0 .. w - 1
    BY <1>1, <1>3
  <2>2. (n + 1) % w = r + 1
    BY <1>1, <2>1, DivModOf
  <2> QED
    BY <1>3, <2>2 DEF r
<1> QED
  BY <1>2, <1>3

(* Numbers less than w apart differ modulo w. *)
LEMMA ModApart ==
  ASSUME NEW w \in Nat \ {0}, NEW m \in Nat, NEW n \in Nat, m < n, n - m < w
  PROVE  m % w # n % w
<1> SUFFICES ASSUME m % w = n % w PROVE FALSE
  OBVIOUS
<1> DEFINE a == m \div w
           b == n \div w
           r == m % w
<1>1. m = a * w + r /\ n = b * w + r /\ a \in Nat /\ b \in Nat /\ r \in 0 .. w - 1
  BY DivMod
<1> HIDE DEF a, b, r
<1>2. n - m = (b - a) * w
  BY <1>1
<1>3. CASE b - a >= 1
  <2>1. (b - a) * w >= w
    BY <1>1, <1>3
  <2> QED
    BY <1>2, <2>1
<1>4. CASE b - a <= 0
  <2>1. (b - a) * w <= 0
    BY <1>1, <1>4
  <2> QED
    BY <1>2, <2>1
<1> QED
  BY <1>1, <1>3, <1>4

(* A summand may be reduced before the sum is, as a byte that wraps does. *)
LEMMA ModPlus ==
  ASSUME NEW w \in Nat \ {0}, NEW n \in Nat, NEW m \in Nat
  PROVE  ((n % w) + m) % w = (n + m) % w
<1> DEFINE q == n \div w
           r == n % w
           p == (r + m) \div w
           t == (r + m) % w
<1>1. n = q * w + r /\ r \in 0 .. w - 1 /\ q \in Nat
  BY DivMod
<1> HIDE DEF q, r
<1>2. r + m \in Nat
  BY <1>1
<1>3. r + m = p * w + t /\ t \in 0 .. w - 1 /\ p \in Nat
  BY <1>2, DivMod
<1> HIDE DEF p, t
<1>4. n + m = (q + p) * w + t /\ q + p \in Nat
  BY <1>1, <1>3
<1>5. (n + m) % w = t
  BY <1>3, <1>4, DivModOf
<1> QED
  BY <1>5 DEF t, r

(* Once around changes nothing: how nb_dequeue() counts q_len down. *)
LEMMA ModTurn ==
  ASSUME NEW w \in Nat \ {0}, NEW n \in Nat
  PROVE  (n + w) % w = n % w
<1> DEFINE q == n \div w
           r == n % w
<1>1. n = q * w + r /\ r \in 0 .. w - 1 /\ q \in Nat
  BY DivMod
<1> HIDE DEF q, r
<1>2. n + w = (q + 1) * w + r /\ q + 1 \in Nat
  BY <1>1
<1>3. (n + w) % w = r
  BY <1>1, <1>2, DivModOf
<1> QED
  BY <1>3 DEF r
=============================================================================
