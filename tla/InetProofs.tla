----------------------------- MODULE InetProofs -----------------------------
(***************************************************************************)
(* What the functions of Inet compute, for messages of any bytes and any   *)
(* length.                                                                 *)
(***************************************************************************)
EXTENDS Inet, ModArith

(* f adds the words of w one after the other, as the loop does. *)
Adds(w, f) == f = [k \in Nat |-> IF k = 0 THEN 0 ELSE f[k - 1] + w[k]]

(* The same for the first n words only. *)
AddsTo(w, n, g) ==
  g \in [0 .. n -> Nat] /\ g[0] = 0 /\ \A k \in 1 .. n : g[k] = g[k - 1] + w[k]

(* However many words there are, they can be added ... *)
LEMMA PartialSums ==
  ASSUME NEW w \in [Nat -> Nat]
  PROVE  \A n \in Nat : \E g : AddsTo(w, n, g)
<1> DEFINE S == {n \in Nat : \E g : AddsTo(w, n, g)}
<1>1. 0 \in S
  <2>1. AddsTo(w, 0, [k \in 0 .. 0 |-> 0])
    BY DEF AddsTo
  <2> QED
    BY <2>1
<1>2. ASSUME NEW n \in Nat, n \in S PROVE n + 1 \in S
  <2>1. PICK g : AddsTo(w, n, g)
    BY <1>2
  <2> DEFINE h == [k \in 0 .. n + 1 |-> IF k = n + 1 THEN g[n] + w[n + 1] ELSE g[k]]
  <2>2. g \in [0 .. n -> Nat] /\ g[0] = 0 /\ \A k \in 1 .. n : g[k] = g[k - 1] + w[k]
    BY <2>1 DEF AddsTo
  <2>3. h \in [0 .. n + 1 -> Nat] /\ h[0] = 0
    <3>1. ASSUME NEW k \in 0 .. n + 1 PROVE h[k] \in Nat
      <4>1. k # n + 1 => k \in 0 .. n
        OBVIOUS
      <4>2. g[n] \in Nat /\ (k \in 0 .. n => g[k] \in Nat)
        BY <2>2
      <4>3. w[n + 1] \in Nat
        OBVIOUS
      <4> QED
        BY <4>1, <4>2, <4>3
    <3>2. 0 \in 0 .. n + 1 /\ 0 # n + 1
      OBVIOUS
    <3> QED
      BY <2>2, <3>1, <3>2
  <2>4. ASSUME NEW k \in 1 .. n + 1 PROVE h[k] = h[k - 1] + w[k]
    <3>1. k \in 0 .. n + 1 /\ k - 1 \in 0 .. n + 1 /\ k - 1 # n + 1
      OBVIOUS
    <3>2. h[k - 1] = g[k - 1]
      BY <3>1
    <3>3. CASE k = n + 1
      <4>1. h[k] = g[n] + w[n + 1] /\ k - 1 = n
        BY <3>1, <3>3
      <4> QED
        BY <3>2, <3>3, <4>1
    <3>4. CASE k # n + 1
      <4>1. h[k] = g[k] /\ k \in 1 .. n
        BY <3>1, <3>4
      <4> QED
        BY <2>2, <3>2, <4>1
    <3> QED
      BY <3>3, <3>4
  <2>5. AddsTo(w, n + 1, h)
    BY <2>3, <2>4 DEF AddsTo
  <2> QED
    BY <2>5
<1> HIDE DEF S
<1>3. \A n \in Nat : n \in S
  BY <1>1, <1>2, Induction
<1> QED
  BY <1>3 DEF S

(* ... in one way only. *)
LEMMA PartialSumsAgree ==
  ASSUME NEW w \in [Nat -> Nat], NEW m \in Nat, NEW n \in Nat, NEW g, NEW h,
         AddsTo(w, m, g), AddsTo(w, n, h), m <= n
  PROVE  g[m] = h[m]
<1> DEFINE S == {k \in Nat : k <= m => g[k] = h[k]}
<1>1. 0 \in S
  BY DEF AddsTo
<1>2. ASSUME NEW k \in Nat, k \in S PROVE k + 1 \in S
  <2>1. SUFFICES ASSUME k + 1 <= m PROVE g[k + 1] = h[k + 1]
    OBVIOUS
  <2>2. g[k] = h[k]
    BY <1>2, <2>1
  <2>3. k + 1 \in 1 .. m /\ k + 1 \in 1 .. n /\ (k + 1) - 1 = k
    BY <2>1
  <2> QED
    BY <2>2, <2>3 DEF AddsTo
<1> HIDE DEF S
<1>3. \A k \in Nat : k \in S
  BY <1>1, <1>2, Induction
<1> QED
  BY <1>3 DEF S

(* The recursive definition of sum has a solution. *)
LEMMA SumExists ==
  ASSUME NEW w \in [Nat -> Nat]
  PROVE  \E f : Adds(w, f)
<1> DEFINE G(n) == CHOOSE g : AddsTo(w, n, g)
           f == [n \in Nat |-> G(n)[n]]
<1>1. ASSUME NEW n \in Nat PROVE AddsTo(w, n, G(n))
  <2>1. \E g : AddsTo(w, n, g)
    BY PartialSums
  <2> QED
    BY <2>1, Zenon
<1> HIDE DEF G
<1>2. ASSUME NEW n \in Nat
      PROVE  G(n)[n] = IF n = 0 THEN 0 ELSE f[n - 1] + w[n]
  <2>1. CASE n = 0
    BY <1>1, <2>1 DEF AddsTo
  <2>2. CASE n # 0
    <3>1. n - 1 \in Nat /\ n - 1 <= n /\ n \in 1 .. n
      BY <2>2
    <3>2. G(n - 1)[n - 1] = G(n)[n - 1]
      BY <1>1, <3>1, PartialSumsAgree
    <3>3. G(n)[n] = G(n)[n - 1] + w[n]
      BY <1>1, <3>1 DEF AddsTo
    <3>4. f[n - 1] = G(n - 1)[n - 1]
      BY <3>1
    <3> QED
      BY <2>2, <3>2, <3>3, <3>4
  <2> QED
    BY <2>1, <2>2
<1>3. f = [n \in Nat |-> IF n = 0 THEN 0 ELSE f[n - 1] + w[n]]
  BY <1>2
<1>4. Adds(w, f)
  BY <1>3 DEF Adds
<1> QED
  BY <1>4

(* The equations of the loop of in_checksum(). *)
LEMMA SumDef ==
  ASSUME NEW w \in [Nat -> Nat]
  PROVE  /\ SumWords(w, 0) = 0
         /\ \A n \in Nat : SumWords(w, n + 1) = SumWords(w, n) + w[n + 1]
<1> DEFINE s == CHOOSE f : Adds(w, f)
<1>1. \A n : SumWords(w, n) = s[n]
  BY Zenon DEF SumWords, Adds
<1>2. Adds(w, s)
  BY SumExists, Zenon
<1> HIDE DEF s
<1>3. s = [k \in Nat |-> IF k = 0 THEN 0 ELSE s[k - 1] + w[k]]
  BY <1>2 DEF Adds
<1>4. s[0] = 0
  BY <1>3
<1>5. ASSUME NEW n \in Nat PROVE s[n + 1] = s[n] + w[n + 1]
  <2>1. n + 1 \in Nat /\ n + 1 # 0 /\ (n + 1) - 1 = n
    OBVIOUS
  <2> QED
    BY <1>3, <2>1
<1> QED
  BY <1>1, <1>4, <1>5

(* A sum is a natural number. *)
LEMMA SumType ==
  ASSUME NEW w \in [Nat -> Nat]
  PROVE  \A n \in Nat : SumWords(w, n) \in Nat
<1> DEFINE S == {n \in Nat : SumWords(w, n) \in Nat}
<1>1. 0 \in S
  BY SumDef
<1>2. ASSUME NEW n \in Nat, n \in S PROVE n + 1 \in S
  <2>1. SumWords(w, n + 1) = SumWords(w, n) + w[n + 1]
    BY SumDef
  <2> QED
    BY <1>2, <2>1
<1> HIDE DEF S
<1>3. \A n \in Nat : n \in S
  BY <1>1, <1>2, Induction
<1> QED
  BY <1>3 DEF S

(* When one word changes, the sum changes by as much. *)
LEMMA SumChange ==
  ASSUME NEW w \in [Nat -> Nat], NEW v \in [Nat -> Nat], NEW j \in Nat \ {0},
         \A i \in Nat \ {j} : v[i] = w[i]
  PROVE  \A n \in Nat : n >= j => SumWords(v, n) = SumWords(w, n) + v[j] - w[j]
<1> DEFINE S == {n \in Nat : IF n < j THEN SumWords(v, n) = SumWords(w, n)
                                      ELSE SumWords(v, n) = SumWords(w, n) + v[j] - w[j]}
<1>0. \A n \in Nat : SumWords(v, n) \in Nat /\ SumWords(w, n) \in Nat
  BY SumType
<1>1. 0 \in S
  BY SumDef
<1>2. ASSUME NEW n \in Nat, n \in S PROVE n + 1 \in S
  <2>1. /\ SumWords(w, n + 1) = SumWords(w, n) + w[n + 1]
        /\ SumWords(v, n + 1) = SumWords(v, n) + v[n + 1]
    BY SumDef
  <2>2. /\ SumWords(v, n) \in Nat /\ SumWords(w, n) \in Nat
        /\ w[n + 1] \in Nat /\ v[n + 1] \in Nat /\ w[j] \in Nat /\ v[j] \in Nat
    BY <1>0
  <2>3. CASE n + 1 < j
    BY <1>2, <2>1, <2>2, <2>3
  <2>4. CASE n + 1 = j
    BY <1>2, <2>1, <2>2, <2>4
  <2>5. CASE n + 1 > j
    <3>1. v[n + 1] = w[n + 1] /\ ~(n < j) /\ ~(n + 1 < j)
      BY <2>5
    <3>2. SumWords(v, n) = SumWords(w, n) + v[j] - w[j]
      BY <1>2, <3>1
    <3>3. SumWords(v, n + 1) = SumWords(w, n + 1) + v[j] - w[j]
      BY <2>1, <2>2, <3>1, <3>2
    <3> QED
      BY <3>1, <3>3
  <2> QED
    BY <2>3, <2>4, <2>5
<1> HIDE DEF S
<1>3. \A n \in Nat : n \in S
  BY <1>1, <1>2, Induction
<1> QED
  BY <1>3 DEF S

-----------------------------------------------------------------------------
(* Ones16(s) is the only number from 1 to 65535 that s leaves modulo 65535. *)
LEMMA Ones16Is ==
  ASSUME NEW s \in Nat \ {0}, NEW r \in Nat, 1 <= r, r <= 65535,
         NEW k \in Int, s = r + 65535 * k
  PROVE  Ones16(s) = r
<1>1. k >= 0
  OBVIOUS
<1>2. s - 1 = 65535 * k + (r - 1) /\ k \in Nat /\ r - 1 \in Nat /\ r - 1 <= 65534
  BY <1>1
<1>3. (s - 1) % 65535 = r - 1
  BY <1>2
<1> QED
  BY <1>3 DEF Ones16

(* Its range ... *)
LEMMA Ones16Range ==
  ASSUME NEW s \in Nat
  PROVE  Ones16(s) \in Nat /\ Ones16(s) <= 65535 /\ (Ones16(s) = 0 <=> s = 0)
<1>1. CASE s = 0
  BY <1>1, SMT DEF Ones16
<1>2. CASE s # 0
  <2>1. s - 1 \in Nat
    BY <1>2, SMT
  <2>2. (s - 1) % 65535 \in Nat /\ (s - 1) % 65535 <= 65534
    BY <2>1, SMT
  <2> QED
    BY <1>2, <2>2, SMT DEF Ones16
<1> QED
  BY <1>1, <1>2

(* ... and what it leaves out. *)
LEMMA Ones16Rest ==
  ASSUME NEW s \in Nat
  PROVE  \E k \in Nat : s = Ones16(s) + 65535 * k
<1>1. CASE s = 0
  BY <1>1, SMT DEF Ones16
<1>2. CASE s # 0
  <2> DEFINE q == (s - 1) \div 65535
             r == (s - 1) % 65535
  <2>1. s - 1 \in Nat
    BY <1>2, SMT
  <2>2. s - 1 = 65535 * q + r /\ r \in Nat /\ q \in Nat
    BY <2>1, SMT
  <2>3. Ones16(s) = r + 1
    BY <1>2, SMT DEF Ones16
  <2> HIDE DEF q, r
  <2>4. s = Ones16(s) + 65535 * q
    BY <2>2, <2>3, SMT
  <2> QED
    BY <2>2, <2>4
<1> QED
  BY <1>1, <1>2

(* One round of the loop that folds, and f folds until nothing is left.       *)
Fold1(s) == (s % 65536) + (s \div 65536)
FoldsAll(f) == f = [s \in Nat |-> IF s < 65536 THEN s ELSE f[Fold1(s)]]

(* One round of the loop keeps Ones16 and makes the sum less, until it fits   *)
(* 16 bits.                                                                   *)
LEMMA FoldStep ==
  ASSUME NEW s \in Nat
  PROVE  /\ s < 65536 => Ones16(s) = s
         /\ s >= 65536 => /\ Fold1(s) \in Nat /\ Fold1(s) < s
                          /\ Ones16(Fold1(s)) = Ones16(s)
<1> DEFINE q == s \div 65536
           r == s % 65536
           t == Fold1(s)
<1>1. s = 65536 * q + r /\ r \in Nat /\ q \in Nat
  OBVIOUS
<1>2. t = r + q
  BY DEF Fold1
<1> HIDE DEF q, r, t
<1>3. ASSUME s < 65536 PROVE Ones16(s) = s
  <2>1. CASE s = 0
    BY <2>1 DEF Ones16
  <2>2. CASE s # 0
    <3>1. 1 <= s /\ s <= 65535 /\ s = s + 65535 * 0
      BY <1>3, <2>2
    <3> QED
      BY <2>2, <3>1, Ones16Is
  <2> QED
    BY <2>1, <2>2
<1>4. ASSUME s >= 65536 PROVE t \in Nat /\ t < s /\ Ones16(t) = Ones16(s)
  <2>0. q >= 1
    BY <1>1, <1>4 DEF q, r
  <2>1. t \in Nat \ {0} /\ s = t + 65535 * q /\ t < s
    BY <1>1, <1>2, <1>4, <2>0
  <2>2. PICK k \in Nat : t = Ones16(t) + 65535 * k
    BY <2>1, Ones16Rest, SMT
  <2>3. Ones16(t) \in Nat /\ 1 <= Ones16(t) /\ Ones16(t) <= 65535
    BY <2>1, Ones16Range, SMT
  <2>4. s = Ones16(t) + 65535 * (k + q) /\ k + q \in Int /\ s # 0
    BY <1>1, <1>4, <2>1, <2>2, <2>3
  <2> QED
    BY <2>1, <2>3, <2>4, Ones16Is
<1> QED
  BY <1>3, <1>4 DEF t

(* The function Fold16 applies. *)
LEMMA Fold16Choose ==
  ASSUME NEW sum
  PROVE  Fold16(sum) = (CHOOSE f : FoldsAll(f))[sum]
  BY SMT DEF Fold16, FoldsAll, Fold1

(* The loop that folds the carries back computes the remainder modulo 65535   *)
(* of the RFC's arithmetic, whatever the sum.                                 *)
LEMMA Fold16Is ==
  ASSUME NEW sum \in Nat
  PROVE  Fold16(sum) = Ones16(sum)
<1> DEFINE h == [s \in Nat |-> Ones16(s)]
           F == CHOOSE f : FoldsAll(f)
           T == {s \in Nat : F[s] # Ones16(s)}
<1>1. FoldsAll(h)
  <2>1. ASSUME NEW s \in Nat
        PROVE  Ones16(s) = IF s < 65536 THEN s ELSE h[Fold1(s)]
    BY FoldStep, SMT
  <2>2. h = [s \in Nat |-> IF s < 65536 THEN s ELSE h[Fold1(s)]]
    BY <2>1, SMT
  <2> QED
    BY <2>2, SMT DEF FoldsAll
<1>2. FoldsAll(F)
  BY <1>1, Zenon
<1>3. Fold16(sum) = F[sum]
  BY Fold16Choose
<1> HIDE DEF F
<1>4. F = [s \in Nat |-> IF s < 65536 THEN s ELSE F[Fold1(s)]]
  BY <1>2, SMT DEF FoldsAll
<1>5. T = {}
  <2> SUFFICES ASSUME T # {} PROVE FALSE
    OBVIOUS
  <2>1. PICK s \in T : \A y \in T : s <= y
    BY Least
  <2> DEFINE t == Fold1(s)
  <2>2. s \in Nat /\ F[s] # Ones16(s)
    BY <2>1
  <2>3. F[s] = IF s < 65536 THEN s ELSE F[t]
    BY <1>4, <2>2, SMT
  <2>4. /\ s < 65536 => Ones16(s) = s
        /\ s >= 65536 => t \in Nat /\ t < s /\ Ones16(t) = Ones16(s)
    BY <2>2, FoldStep, SMT
  <2> HIDE DEF t
  <2>5. CASE s < 65536
    BY <2>2, <2>3, <2>4, <2>5, SMT
  <2>6. CASE s >= 65536
    <3>1. t \in Nat /\ t < s /\ Ones16(t) = Ones16(s) /\ F[s] = F[t]
      BY <2>2, <2>3, <2>4, <2>6, SMT
    <3>2. t \notin T
      BY <2>1, <2>2, <3>1
    <3> QED
      BY <2>2, <3>1, <3>2
  <2> QED
    BY <2>2, <2>5, <2>6, SMT
<1> QED
  BY <1>3, <1>5

-----------------------------------------------------------------------------
(* Swapping the bytes of a 16-bit word. *)
LEMMA HtonsOf ==
  ASSUME NEW r \in Nat, r <= 65535
  PROVE  /\ htons(r) \in Nat /\ htons(r) <= 65535 /\ (htons(r) = 0 <=> r = 0)
         /\ htons(65535 - r) = 65535 - htons(r)
<1> DEFINE q == r \div 256
           t == r % 256
<1>1. r = 256 * q + t /\ q \in Nat /\ q <= 255 /\ t \in Nat /\ t <= 255
  BY SMT
<1>2. htons(r) = 256 * t + q
  BY DEF htons
<1> HIDE DEF q, t
<1>3. 65535 - r = 256 * (255 - q) + (255 - t) /\ 255 - q \in Nat /\ 255 - t \in Nat
  BY <1>1, SMT
<1>4. (65535 - r) % 256 = 255 - t /\ (65535 - r) \div 256 = 255 - q
  BY <1>1, <1>3, SMT
<1>5. htons(65535 - r) = 256 * (255 - t) + (255 - q)
  BY <1>4, SMT DEF htons
<1>6. htons(65535 - r) = 65535 - htons(r)
  BY <1>1, <1>2, <1>5, SMT
<1>7. htons(r) \in Nat /\ htons(r) <= 65535 /\ (htons(r) = 0 <=> r = 0)
  BY <1>1, <1>2, SMT
<1> QED
  BY <1>6, <1>7

(* Modulo 65535 it is a multiplication by 256. *)
LEMMA HtonsTimes ==
  ASSUME NEW r \in Nat
  PROVE  \E q \in Nat : 256 * r = htons(r) + 65535 * q
<1> DEFINE q == r \div 256
           t == r % 256
<1>1. r = 256 * q + t /\ q \in Nat /\ t \in Nat
  BY SMT
<1>2. htons(r) = 256 * t + q
  BY DEF htons
<1> HIDE DEF q, t
<1>3. 256 * r = htons(r) + 65535 * q
  BY <1>1, <1>2, SMT
<1> QED
  BY <1>1, <1>3

(* Modulo 65535 big is little with its bytes swapped, and only together are   *)
(* they 0.                                                                    *)
Swapped(big, little, k) == 256 * big = little + 65535 * k /\ k <= little

(* Sums of words are swapped as the words are. *)
LEMMA SwappedPlus ==
  ASSUME NEW b1 \in Nat, NEW l1 \in Nat, NEW k1 \in Nat, Swapped(b1, l1, k1),
         NEW b2 \in Nat, NEW l2 \in Nat, NEW k2 \in Nat, Swapped(b2, l2, k2)
  PROVE  Swapped(b1 + b2, l1 + l2, k1 + k2)
  BY SMT DEF Swapped

(* The sums of both byte orders, however many words there are. *)
LEMMA SumSwapped ==
  ASSUME NEW a \in [Nat -> Nat], NEW w \in [Nat -> Nat], NEW v \in [Nat -> Nat],
         \A i \in Nat : Swapped(v[i], w[i], a[i])
  PROVE  \A n \in Nat : \E k \in Nat : Swapped(SumWords(v, n), SumWords(w, n), k)
<1> DEFINE S == {n \in Nat : \E k \in Nat : Swapped(SumWords(v, n), SumWords(w, n), k)}
<1>1. 0 \in S
  <2>1. SumWords(v, 0) = 0 /\ SumWords(w, 0) = 0
    BY SumDef
  <2>2. Swapped(0, 0, 0)
    BY SMT DEF Swapped
  <2> QED
    BY <2>1, <2>2
<1>2. ASSUME NEW n \in Nat, n \in S PROVE n + 1 \in S
  <2>1. PICK k \in Nat : Swapped(SumWords(v, n), SumWords(w, n), k)
    BY <1>2
  <2>2. /\ SumWords(w, n + 1) = SumWords(w, n) + w[n + 1]
        /\ SumWords(v, n + 1) = SumWords(v, n) + v[n + 1]
    BY SumDef
  <2>3. /\ SumWords(v, n) \in Nat /\ SumWords(w, n) \in Nat
        /\ w[n + 1] \in Nat /\ v[n + 1] \in Nat /\ a[n + 1] \in Nat
    BY SumType
  <2>4. Swapped(v[n + 1], w[n + 1], a[n + 1])
    OBVIOUS
  <2> DEFINE x == v[n + 1]
             y == w[n + 1]
             z == a[n + 1]
             b == SumWords(v, n)
             l == SumWords(w, n)
  <2>7. b \in Nat /\ l \in Nat /\ x \in Nat /\ y \in Nat /\ z \in Nat
    BY <2>3
  <2>8. Swapped(b, l, k) /\ Swapped(x, y, z)
    BY <2>1, <2>4
  <2>5. Swapped(SumWords(v, n + 1), SumWords(w, n + 1), k + a[n + 1])
    <3> HIDE DEF x, y, z, b, l
    <3>1. Swapped(b + x, l + y, k + z)
      BY <2>7, <2>8, SwappedPlus
    <3> QED
      BY <2>2, <3>1 DEF x, y, z, b, l
  <2>6. k + a[n + 1] \in Nat
    BY <2>3
  <2> QED
    BY <2>5, <2>6
<1> HIDE DEF S
<1>3. \A n \in Nat : n \in S
  BY <1>1, <1>2, Induction
<1> QED
  BY <1>3 DEF S

(* The sums of either byte order have complements that are each other's       *)
(* bytes swapped.                                                             *)
LEMMA Ones16Swapped ==
  ASSUME NEW L \in Nat, NEW B \in Nat, NEW k \in Nat, Swapped(B, L, k)
  PROVE  65535 - Ones16(L) = htons(65535 - Ones16(B))
<1>1. PICK j \in Nat : B = Ones16(B) + 65535 * j
  BY Ones16Rest, SMT
<1>2. Ones16(B) \in Nat /\ Ones16(B) <= 65535 /\ (Ones16(B) = 0 <=> B = 0)
  BY Ones16Range, SMT
<1> DEFINE r == Ones16(B)
<1>3. r \in Nat /\ r <= 65535 /\ B = r + 65535 * j /\ (r = 0 <=> B = 0)
  BY <1>1, <1>2
<1> HIDE DEF r
<1>4. PICK q \in Nat : 256 * r = htons(r) + 65535 * q
  BY <1>3, HtonsTimes, SMT
<1> DEFINE h == htons(r)
<1>5. /\ h \in Nat /\ h <= 65535 /\ (h = 0 <=> r = 0)
      /\ htons(65535 - r) = 65535 - h /\ 256 * r = h + 65535 * q
  BY <1>3, <1>4, HtonsOf, SMT
<1> HIDE DEF h
<1>6. 256 * B = L + 65535 * k /\ k <= L
  BY DEF Swapped
<1>7. Ones16(L) = h
  <2>1. CASE L = 0
    <3>1. B = 0
      BY <1>6, <2>1, SMT
    <3>2. h = 0
      BY <1>3, <1>5, <3>1
    <3> QED
      BY <2>1, <3>2, SMT DEF Ones16
  <2>2. CASE L # 0
    <3>1. B # 0
      BY <1>6, <2>2, SMT
    <3>2. h >= 1
      BY <1>3, <1>5, <3>1, SMT
    <3>3. L = h + 65535 * (q + 256 * j - k) /\ q + 256 * j - k \in Int
      BY <1>3, <1>5, <1>6, SMT
    <3> DEFINE e == q + 256 * j - k
    <3>4. L = h + 65535 * e /\ e \in Int
      BY <3>3
    <3> HIDE DEF e
    <3> QED
      BY <1>5, <2>2, <3>2, <3>4, Ones16Is, SMT
  <2> QED
    BY <2>1, <2>2
<1> QED
  BY <1>5, <1>7 DEF r

(* What a byte is, in inequalities. *)
LEMMA ByteIs ==
  ASSUME NEW b
  PROVE  b \in Byte <=> b \in Nat /\ b <= 255
  BY SMT DEF Byte

(* Every position of a message has a byte. *)
LEMMA ByteOf ==
  ASSUME NEW buf \in Seq(Byte), NEW i \in Int
  PROVE  byte(buf, i) \in Nat /\ byte(buf, i) <= 255
<1>1. CASE i \in DOMAIN buf
  <2>1. buf[i] \in Byte
    BY <1>1
  <2> QED
    BY <1>1, <2>1, ByteIs DEF byte
<1>2. CASE i \notin DOMAIN buf
  BY <1>2 DEF byte
<1> QED
  BY <1>1, <1>2

(* A word of a message ... *)
LEMMA WordOf ==
  ASSUME NEW buf \in Seq(Byte), NEW i \in Nat
  PROVE  words(buf)[i] = byte(buf, 2 * i - 1) + 256 * byte(buf, 2 * i)
  BY DEF words

(* ... and its two bytes. *)
LEMMA WordHas ==
  ASSUME NEW buf \in Seq(Byte), NEW i \in Nat
  PROVE  byte(buf, 2 * i - 1) \in Nat /\ byte(buf, 2 * i) \in Nat
<1>1. 2 * i - 1 \in Int /\ 2 * i \in Int
  OBVIOUS
<1> QED
  BY <1>1, ByteOf

(* The words of a message. *)
LEMMA WordsType ==
  ASSUME NEW buf \in Seq(Byte)
  PROVE  words(buf) \in [Nat -> Nat]
<1>1. ASSUME NEW i \in Nat PROVE byte(buf, 2 * i - 1) + 256 * byte(buf, 2 * i) \in Nat
  <2>1. byte(buf, 2 * i - 1) \in Nat /\ byte(buf, 2 * i) \in Nat
    BY WordHas
  <2> QED
    BY <2>1, SMT
<1> QED
  BY <1>1 DEF words

(* How many words there are. *)
LEMMA WordCount ==
  ASSUME NEW n \in Nat
  PROVE  (n + 1) \div 2 \in Nat
  OBVIOUS

(* For every message, of even length or odd: in_checksum(), adding            *)
(* little-endian words, stores the bytes that RFC 1071 asks for.              *)
THEOREM ChecksumIsRfc ==
  ASSUME NEW buf \in Seq(Byte)
  PROVE  in_checksum(buf) = htons(Rfc1071(buf))
<1> DEFINE n == (Len(buf) + 1) \div 2
           a == [i \in Nat |-> byte(buf, 2 * i - 1)]
           w == words(buf)
           v == [i \in Nat |-> 256 * byte(buf, 2 * i - 1) + byte(buf, 2 * i)]
           L == SumWords(w, n)
           B == SumWords(v, n)
<1>1. n \in Nat
  BY WordCount
<1>2. /\ in_checksum(buf) = 65535 - Fold16(L)
      /\ Rfc1071(buf) = 65535 - Ones16(B)
  BY DEF in_checksum, Rfc1071
<1>3. ASSUME NEW i \in Nat
      PROVE  /\ a[i] \in Nat /\ w[i] \in Nat /\ v[i] \in Nat
             /\ Swapped(v[i], w[i], a[i])
  <2>2. byte(buf, 2 * i - 1) \in Nat /\ byte(buf, 2 * i) \in Nat
    BY WordHas
  <2>3. w[i] = byte(buf, 2 * i - 1) + 256 * byte(buf, 2 * i)
    BY WordOf
  <2>4. /\ a[i] = byte(buf, 2 * i - 1)
        /\ v[i] = 256 * byte(buf, 2 * i - 1) + byte(buf, 2 * i)
    OBVIOUS
  <2> HIDE DEF a, v, w
  <2> QED
    BY <2>2, <2>3, <2>4, SMT DEF Swapped
<1>4. a \in [Nat -> Nat] /\ v \in [Nat -> Nat]
  <2>1. ASSUME NEW i \in Nat
        PROVE  /\ byte(buf, 2 * i - 1) \in Nat
               /\ 256 * byte(buf, 2 * i - 1) + byte(buf, 2 * i) \in Nat
    <3>1. byte(buf, 2 * i - 1) \in Nat /\ byte(buf, 2 * i) \in Nat
      BY WordHas
    <3> QED
      BY <3>1, SMT
  <2> QED
    BY <2>1, SMT
<1>5. w \in [Nat -> Nat]
  BY WordsType
<1> HIDE DEF n, a, w, v
<1>6. L \in Nat /\ B \in Nat
  BY <1>1, <1>4, <1>5, SumType
<1>7. PICK k \in Nat : Swapped(B, L, k)
  BY <1>1, <1>3, <1>4, <1>5, SumSwapped
<1> HIDE DEF L, B
<1>8. 65535 - Ones16(L) = htons(65535 - Ones16(B))
  BY <1>6, <1>7, Ones16Swapped, SMT
<1>9. Fold16(L) = Ones16(L)
  BY <1>6, Fold16Is, SMT
<1> QED
  BY <1>2, <1>8, <1>9

-----------------------------------------------------------------------------
(* The sum of a whole message, as in_checksum() adds it. *)
Total(buf) == SumWords(words(buf), (Len(buf) + 1) \div 2)

(* A sum that the fold makes 0xFFFF. *)
Full(s) == \E k \in Nat : s = 65535 + 65535 * k

(* It is what Ones16 maps to 0xFFFF. *)
LEMMA FullIs ==
  ASSUME NEW s \in Nat
  PROVE  Full(s) <=> Ones16(s) = 65535
<1>1. ASSUME Full(s) PROVE Ones16(s) = 65535
  <2>1. PICK k \in Nat : s = 65535 + 65535 * k
    BY <1>1, SMT DEF Full
  <2> QED
    BY <2>1, Ones16Is, SMT
<1>2. ASSUME Ones16(s) = 65535 PROVE Full(s)
  <2>1. PICK k \in Nat : s = Ones16(s) + 65535 * k
    BY Ones16Rest, SMT
  <2> QED
    BY <1>2, <2>1 DEF Full
<1> QED
  BY <1>1, <1>2

(* A message verifies when its sum is full. *)
LEMMA VerifiesIsFull ==
  ASSUME NEW buf \in Seq(Byte)
  PROVE  /\ Total(buf) \in Nat /\ in_checksum(buf) = 65535 - Ones16(Total(buf))
         /\ in_checksum(buf) = 0 <=> Full(Total(buf))
<1> DEFINE n == (Len(buf) + 1) \div 2
           s == Total(buf)
<1>1. s \in Nat
  <2>1. Len(buf) \in Nat
    OBVIOUS
  <2>2. n \in Nat
    BY <2>1, WordCount
  <2>3. words(buf) \in [Nat -> Nat]
    BY WordsType
  <2> HIDE DEF n
  <2>4. SumWords(words(buf), n) \in Nat
    BY <2>2, <2>3, SumType
  <2> QED
    BY <2>4 DEF Total, n
<1>2. in_checksum(buf) = 65535 - Fold16(s)
  BY DEF in_checksum, Total
<1> HIDE DEF s
<1>3. Fold16(s) = Ones16(s)
  BY <1>1, Fold16Is
<1>4. Ones16(s) \in Nat
  BY <1>1, Ones16Range
<1>5. in_checksum(buf) = 0 <=> Ones16(s) = 65535
  BY <1>2, <1>3, <1>4, SMT
<1>6. Full(s) <=> Ones16(s) = 65535
  BY <1>1, FullIs
<1> QED
  BY <1>1, <1>2, <1>3, <1>5, <1>6 DEF s

(* A byte of a message overwritten. *)
WithByte(msg, i, v) == [msg EXCEPT ![i] = v]

(* Nothing but this byte changes. *)
LEMMA ByteChanged ==
  ASSUME NEW msg \in Seq(Byte), NEW i \in 1 .. Len(msg), NEW v \in Byte
  PROVE  LET new == WithByte(msg, i, v) IN
         /\ new \in Seq(Byte) /\ Len(new) = Len(msg) /\ byte(new, i) = v
         /\ byte(msg, i) = msg[i]
         /\ \A m \in Int : m # i => byte(new, m) = byte(msg, m)
<1> DEFINE new == WithByte(msg, i, v)
<1>1. new \in Seq(Byte) /\ Len(new) = Len(msg)
  BY DEF WithByte
<1>2. DOMAIN new = DOMAIN msg /\ i \in DOMAIN msg /\ new[i] = v
  BY DEF WithByte
<1>3. \A m \in DOMAIN msg : m # i => new[m] = msg[m]
  BY DEF WithByte
<1> HIDE DEF new
<1>4. byte(new, i) = v /\ byte(msg, i) = msg[i]
  BY <1>2 DEF byte
<1>5. \A m \in Int : m # i => byte(new, m) = byte(msg, m)
  BY <1>2, <1>3 DEF byte
<1> QED
  BY <1>1, <1>4, <1>5 DEF new

(* c is b but for the bytes at lo and hi. *)
SameBut(b, c, lo, hi) == \A m \in Int : m # lo /\ m # hi => byte(c, m) = byte(b, m)

(* When two messages of one length differ in the word j at most, their sums   *)
(* differ as this word does.                                                  *)
LEMMA TotalChange ==
  ASSUME NEW b \in Seq(Byte), NEW c \in Seq(Byte), Len(b) = Len(c),
         NEW j \in Nat \ {0}, 2 * j - 1 <= Len(b), SameBut(b, c, 2 * j - 1, 2 * j)
  PROVE  Total(c) = Total(b) + (byte(c, 2 * j - 1) - byte(b, 2 * j - 1))
                             + 256 * (byte(c, 2 * j) - byte(b, 2 * j))
<1> DEFINE n == (Len(b) + 1) \div 2
           w == words(b)
           v == words(c)
           p == byte(c, 2 * j - 1)
           q == byte(c, 2 * j)
           r == byte(b, 2 * j - 1)
           t == byte(b, 2 * j)
<1>1. n \in Nat /\ n >= j
  <2>1. Len(b) \in Nat
    OBVIOUS
  <2> QED
    BY <2>1
<1>2. w \in [Nat -> Nat] /\ v \in [Nat -> Nat]
  BY WordsType
<1>3. ASSUME NEW m \in Nat \ {j} PROVE v[m] = w[m]
  <2>1. /\ 2 * m - 1 # 2 * j - 1 /\ 2 * m - 1 # 2 * j
        /\ 2 * m # 2 * j - 1 /\ 2 * m # 2 * j
        /\ 2 * m - 1 \in Int /\ 2 * m \in Int
    OBVIOUS
  <2>2. byte(c, 2 * m - 1) = byte(b, 2 * m - 1) /\ byte(c, 2 * m) = byte(b, 2 * m)
    BY <2>1 DEF SameBut
  <2>3. v[m] = byte(c, 2 * m - 1) + 256 * byte(c, 2 * m)
    BY WordOf
  <2>4. w[m] = byte(b, 2 * m - 1) + 256 * byte(b, 2 * m)
    BY WordOf
  <2> QED
    BY <2>2, <2>3, <2>4
<1>4. Total(b) = SumWords(w, n) /\ Total(c) = SumWords(v, n)
  BY DEF Total
<1>5. Total(b) \in Nat /\ Total(c) \in Nat
  BY VerifiesIsFull
<1>6. v[j] = p + 256 * q /\ w[j] = r + 256 * t
  <2>1. j \in Nat
    OBVIOUS
  <2>2. v[j] = p + 256 * q
    BY <2>1 DEF words
  <2>3. w[j] = r + 256 * t
    BY <2>1 DEF words
  <2> QED
    BY <2>2, <2>3
<1>7. p \in Nat /\ q \in Nat /\ r \in Nat /\ t \in Nat
  BY WordHas
<1> HIDE DEF n, w, v, p, q, r, t
<1>8. SumWords(v, n) = SumWords(w, n) + v[j] - w[j]
  <2>1. \A m \in Nat \ {j} : v[m] = w[m]
    BY <1>3
  <2>2. \A k \in Nat : k >= j => SumWords(v, k) = SumWords(w, k) + v[j] - w[j]
    BY <1>2, <2>1, SumChange
  <2> QED
    BY <1>1, <2>2
<1>9. Total(c) = Total(b) + (p + 256 * q) - (r + 256 * t)
  BY <1>4, <1>6, <1>7, <1>8
<1>10. Total(c) = Total(b) + (p - r) + 256 * (q - t)
  BY <1>5, <1>6, <1>7, <1>9, SMT
<1> QED
  BY <1>10 DEF p, q, r, t

(* The checksum field of a message, bytes 3 and 4, overwritten. *)
WithField(msg, u, v) == [msg EXCEPT ![3] = u, ![4] = v]

(* new is msg with another checksum field. *)
FieldOnly(new, msg, u, v) ==
  /\ new \in Seq(Byte) /\ Len(new) = Len(msg)
  /\ byte(new, 3) = u /\ byte(new, 4) = v
  /\ SameBut(msg, new, 3, 4)
  /\ \A m \in 1 .. Len(msg) : m # 3 /\ m # 4 => new[m] = msg[m]

(* Nothing but this field changes. *)
LEMMA FieldChanged ==
  ASSUME NEW msg \in Seq(Byte), Len(msg) >= 4, NEW u \in Byte, NEW v \in Byte
  PROVE  FieldOnly(WithField(msg, u, v), msg, u, v)
<1> DEFINE new == WithField(msg, u, v)
<1>0. Len(msg) \in Nat /\ 3 \in 1 .. Len(msg) /\ 4 \in 1 .. Len(msg)
  OBVIOUS
<1>1. new \in Seq(Byte) /\ Len(new) = Len(msg)
  BY <1>0 DEF WithField
<1>2. DOMAIN new = DOMAIN msg /\ DOMAIN msg = 1 .. Len(msg) /\ new[3] = u /\ new[4] = v
  BY <1>0 DEF WithField
<1>3. \A m \in 1 .. Len(msg) : m # 3 /\ m # 4 => new[m] = msg[m]
  BY <1>0 DEF WithField
<1> HIDE DEF new
<1>4. byte(new, 3) = u /\ byte(new, 4) = v
  BY <1>0, <1>2 DEF byte
<1>5. SameBut(msg, new, 3, 4)
  BY <1>2, <1>3 DEF byte, SameBut
<1> QED
  BY <1>1, <1>3, <1>4, <1>5 DEF new, FieldOnly

(* What the field adds to the sum. *)
LEMMA FieldTotal ==
  ASSUME NEW b \in Seq(Byte), NEW c \in Seq(Byte), Len(b) = Len(c), Len(b) >= 4,
         SameBut(b, c, 3, 4)
  PROVE  Total(c) = Total(b) + (byte(c, 3) - byte(b, 3)) + 256 * (byte(c, 4) - byte(b, 4))
<1>1. PICK j \in Nat \ {0} : 2 * j - 1 = 3 /\ 2 * j = 4
  <2>1. 2 \in Nat \ {0} /\ 2 * 2 - 1 = 3 /\ 2 * 2 = 4
    OBVIOUS
  <2> QED
    BY <2>1
<1>2. 2 * j - 1 <= Len(b)
  BY <1>1
<1>3. SameBut(b, c, 2 * j - 1, 2 * j)
  BY <1>1
<1>4. Total(c) = Total(b) + (byte(c, 2 * j - 1) - byte(b, 2 * j - 1))
                          + 256 * (byte(c, 2 * j) - byte(b, 2 * j))
  BY <1>2, <1>3, TotalChange
<1> QED
  BY <1>1, <1>4

(* The checksum stored as two bytes. *)
LEMMA WordBytes ==
  ASSUME NEW x \in Nat, x <= 65535
  PROVE  /\ x % 256 \in Byte /\ x \div 256 \in Byte
         /\ (x % 256) + 256 * (x \div 256) = x
<1>1. /\ x % 256 \in Nat /\ x % 256 <= 255 /\ x \div 256 \in Nat /\ x \div 256 <= 255
      /\ (x % 256) + 256 * (x \div 256) = x
  BY SMT
<1> QED
  BY <1>1, ByteIs

(* A sum and its complement are full. *)
LEMMA FullWithComplement ==
  ASSUME NEW s \in Nat
  PROVE  Full(s + (65535 - Ones16(s)))
<1>1. PICK k \in Nat : s = Ones16(s) + 65535 * k
  BY Ones16Rest, SMT
<1>2. Ones16(s) \in Nat
  BY Ones16Range, SMT
<1>3. s + (65535 - Ones16(s)) = 65535 + 65535 * k
  BY <1>1, <1>2, SMT
<1> QED
  BY <1>3 DEF Full

(* What is filled in: the message keeps its other bytes, and for every        *)
(* message of at least 4 bytes the receiver's in_checksum() returns 0.        *)
THEOREM FilledVerifies ==
  ASSUME NEW buf \in Seq(Byte), Len(buf) >= 4
  PROVE  /\ ChecksumFilled(buf) \in Seq(Byte) /\ Len(ChecksumFilled(buf)) = Len(buf)
         /\ \A i \in 1 .. Len(buf) : i # 3 /\ i # 4 => ChecksumFilled(buf)[i] = buf[i]
         /\ in_checksum(ChecksumFilled(buf)) = 0
<1> DEFINE c == WithField(buf, 0, 0)
           x == in_checksum(c)
           f == WithField(c, x % 256, x \div 256)
<1>1. ChecksumFilled(buf) = f
  BY Zenon DEF ChecksumFilled, WithField
<1>2. 0 \in Byte
  BY ByteIs
<1>3. /\ c \in Seq(Byte) /\ Len(c) = Len(buf) /\ byte(c, 3) = 0 /\ byte(c, 4) = 0
      /\ \A m \in 1 .. Len(buf) : m # 3 /\ m # 4 => c[m] = buf[m]
  BY <1>2, FieldChanged DEF FieldOnly
<1> HIDE DEF c
<1>4. Total(c) \in Nat /\ x = 65535 - Ones16(Total(c))
  BY <1>3, VerifiesIsFull
<1>5. Ones16(Total(c)) \in Nat /\ Ones16(Total(c)) <= 65535
  BY <1>4, Ones16Range
<1>6. x \in Nat /\ x <= 65535
  BY <1>4, <1>5, SMT
<1> HIDE DEF x
<1>7. /\ x % 256 \in Byte /\ x \div 256 \in Byte
      /\ (x % 256) + 256 * (x \div 256) = x
  BY <1>6, WordBytes
<1>8. /\ f \in Seq(Byte) /\ Len(f) = Len(c)
      /\ byte(f, 3) = x % 256 /\ byte(f, 4) = x \div 256
      /\ SameBut(c, f, 3, 4)
      /\ \A m \in 1 .. Len(c) : m # 3 /\ m # 4 => f[m] = c[m]
  <2> DEFINE u == x % 256
             v == x \div 256
  <2> HIDE DEF u, v
  <2>1. u \in Byte /\ v \in Byte /\ c \in Seq(Byte) /\ Len(c) >= 4
    BY <1>3, <1>7 DEF u, v
  <2>2. f = WithField(c, u, v)
    BY DEF u, v
  <2> HIDE DEF f
  <2>3. FieldOnly(f, c, u, v)
    BY <2>1, <2>2, FieldChanged
  <2> QED
    BY <2>3 DEF u, v, FieldOnly
<1> HIDE DEF f
<1>9. Total(f) = Total(c) + x
  <2>1. Total(f) = Total(c) + (byte(f, 3) - byte(c, 3)) + 256 * (byte(f, 4) - byte(c, 4))
    BY <1>3, <1>8, FieldTotal
  <2>2. Total(f) = Total(c) + ((x % 256) - 0) + 256 * ((x \div 256) - 0)
    BY <1>3, <1>8, <2>1
  <2> QED
    BY <1>4, <1>6, <1>7, <2>2, SMT
<1>10. Full(Total(f))
  BY <1>4, <1>9, FullWithComplement
<1>11. in_checksum(f) = 0
  BY <1>8, <1>10, VerifiesIsFull
<1> QED
  BY <1>1, <1>3, <1>8, <1>11

(* Two full sums are not less than 65535 apart. *)
LEMMA FullApart ==
  ASSUME NEW s \in Nat, NEW t \in Nat, NEW d \in Int, t = s + d, d # 0,
         d < 65535, d > -65535, Full(s)
  PROVE  ~Full(t)
<1> SUFFICES ASSUME Full(t) PROVE FALSE
  OBVIOUS
<1>1. PICK k \in Nat : s = 65535 + 65535 * k
  BY DEF Full
<1>2. PICK m \in Nat : t = 65535 + 65535 * m
  BY DEF Full
<1>3. d = 65535 * (m - k)
  BY <1>1, <1>2, SMT
<1> QED
  BY <1>3, SMT

(* A message of any length that verifies does not once any one byte of it     *)
(* has another value.                                                         *)
THEOREM ChangedByteFound ==
  ASSUME NEW msg \in Seq(Byte), in_checksum(msg) = 0,
         NEW i \in 1 .. Len(msg), NEW v \in Byte, v # msg[i]
  PROVE  in_checksum([msg EXCEPT ![i] = v]) # 0
<1> DEFINE new == WithByte(msg, i, v)
           j == (i + 1) \div 2
<1>1. /\ new \in Seq(Byte) /\ Len(new) = Len(msg) /\ byte(new, i) = v
      /\ byte(msg, i) = msg[i]
      /\ \A m \in Int : m # i => byte(new, m) = byte(msg, m)
  BY ByteChanged
<1> HIDE DEF new
<1>2. i \in Nat /\ i >= 1 /\ i <= Len(msg)
  OBVIOUS
<1>3. j \in Nat \ {0} /\ 2 * j - 1 <= Len(msg) /\ (i = 2 * j - 1 \/ i = 2 * j)
  BY <1>2
<1> HIDE DEF j
<1>4. SameBut(msg, new, 2 * j - 1, 2 * j)
  BY <1>1, <1>3 DEF SameBut
<1>5. Total(new) = Total(msg) + (byte(new, 2 * j - 1) - byte(msg, 2 * j - 1))
                              + 256 * (byte(new, 2 * j) - byte(msg, 2 * j))
  BY <1>1, <1>3, <1>4, TotalChange
<1>6. Total(msg) \in Nat /\ Full(Total(msg)) /\ Total(new) \in Nat
  BY <1>1, VerifiesIsFull
<1> DEFINE e == v - msg[i]
<1>7. e \in Int /\ e # 0 /\ e <= 255 /\ e >= -255
  <2>1. msg[i] \in Byte
    OBVIOUS
  <2>2. v \in Nat /\ v <= 255 /\ msg[i] \in Nat /\ msg[i] <= 255
    BY <2>1, ByteIs
  <2> QED
    BY <2>2, SMT
<1>8. \E d \in Int : Total(new) = Total(msg) + d /\ d # 0 /\ d < 65535 /\ d > -65535
  <2>1. CASE i = 2 * j - 1
    <3>1. 2 * j \in Int /\ 2 * j # i
      BY <1>3, <2>1
    <3>2. byte(new, 2 * j) = byte(msg, 2 * j) /\ byte(msg, 2 * j) \in Nat
      BY <1>1, <3>1, ByteOf
    <3>3. Total(new) = Total(msg) + e + 256 * (byte(msg, 2 * j) - byte(msg, 2 * j))
      BY <1>1, <1>5, <2>1, <3>2
    <3> HIDE DEF e
    <3>4. Total(new) = Total(msg) + e
      BY <1>6, <1>7, <3>2, <3>3, SMT
    <3> QED
      BY <1>7, <3>4, SMT
  <2>2. CASE i = 2 * j
    <3>1. 2 * j - 1 \in Int /\ 2 * j - 1 # i
      BY <1>3, <2>2
    <3>2. byte(new, 2 * j - 1) = byte(msg, 2 * j - 1) /\ byte(msg, 2 * j - 1) \in Nat
      BY <1>1, <3>1, ByteOf
    <3>3. Total(new) = Total(msg) + (byte(msg, 2 * j - 1) - byte(msg, 2 * j - 1)) + 256 * e
      BY <1>1, <1>5, <2>2, <3>2
    <3> HIDE DEF e
    <3>4. Total(new) = Total(msg) + 256 * e
      BY <1>6, <1>7, <3>2, <3>3, SMT
    <3> DEFINE d == 256 * e
    <3>5. d \in Int /\ d # 0 /\ d < 65535 /\ d > -65535
      BY <1>7, SMT
    <3> QED
      BY <3>4, <3>5
  <2> QED
    BY <1>3, <2>1, <2>2
<1>9. ~Full(Total(new))
  BY <1>6, <1>8, FullApart
<1>10. in_checksum(new) # 0
  BY <1>1, <1>9, VerifiesIsFull
<1> QED
  BY <1>10, Zenon DEF new, WithByte

(* Words of 16 bits ... *)
Words16(w) == w \in [Nat -> Nat] /\ \A i \in Nat : w[i] <= 65535

(* ... and their sums. *)
LEMMA SumBound ==
  ASSUME NEW w, Words16(w)
  PROVE  \A n \in Nat : SumWords(w, n) <= 65535 * n
<1>0. w \in [Nat -> Nat] /\ \A i \in Nat : w[i] <= 65535
  BY DEF Words16
<1> DEFINE S == {n \in Nat : SumWords(w, n) <= 65535 * n}
<1>1. 0 \in S
  BY <1>0, SumDef, SMT
<1>2. ASSUME NEW n \in Nat, n \in S PROVE n + 1 \in S
  <2>1. SumWords(w, n + 1) = SumWords(w, n) + w[n + 1]
    BY <1>0, SumDef
  <2>2. SumWords(w, n) \in Nat /\ w[n + 1] \in Nat /\ w[n + 1] <= 65535
    BY <1>0, SumType
  <2>3. SumWords(w, n) <= 65535 * n
    BY <1>2, SMT
  <2> QED
    BY <2>1, <2>2, <2>3, SMT
<1> HIDE DEF S
<1>3. \A n \in Nat : n \in S
  BY <1>1, <1>2, Induction
<1> QED
  BY <1>3, SMT DEF S

(* A word has 16 bits. *)
LEMMA WordBound ==
  ASSUME NEW buf \in Seq(Byte), NEW i \in Nat
  PROVE  words(buf)[i] <= 65535
<1> DEFINE k == 2 * i - 1
           l == 2 * i
           p == byte(buf, k)
           q == byte(buf, l)
<1>1. k \in Int /\ l \in Int
  OBVIOUS
<1>2. words(buf)[i] = p + 256 * q
  BY WordOf
<1> HIDE DEF k, l
<1>3. p \in Nat /\ p <= 255
  BY <1>1, ByteOf
<1>4. q \in Nat /\ q <= 255
  BY <1>1, ByteOf
<1> HIDE DEF p, q
<1> QED
  BY <1>2, <1>3, <1>4, SMT

(* The sum of a message. *)
LEMMA TotalBound ==
  ASSUME NEW buf \in Seq(Byte)
  PROVE  Total(buf) <= 65535 * ((Len(buf) + 1) \div 2)
<1> DEFINE n == (Len(buf) + 1) \div 2
           w == words(buf)
<1>1. w \in [Nat -> Nat]
  BY WordsType
<1>2. \A i \in Nat : w[i] <= 65535
  BY WordBound
<1>3. Len(buf) \in Nat
  OBVIOUS
<1>4. n \in Nat
  BY <1>3, WordCount
<1>5. Total(buf) = SumWords(w, n)
  BY DEF Total
<1> HIDE DEF n, w
<1>6. Words16(w)
  BY <1>1, <1>2 DEF Words16
<1>7. Total(buf) <= 65535 * n
  BY <1>4, <1>5, <1>6, SumBound
<1> QED
  BY <1>7 DEF n

(* sum has 32 bits and count 16: no message that in_checksum() can be asked   *)
(* for overflows the sum, which the model therefore need not wrap.            *)
THEOREM SumFits ==
  ASSUME NEW buf \in Seq(Byte)
  PROVE  Len(buf) <= 65535 => Total(buf) < 4294967296
<1> DEFINE t == Total(buf)
           l == Len(buf)
<1>1. t \in Nat
  BY VerifiesIsFull
<1>2. l \in Nat
  OBVIOUS
<1>3. t <= 65535 * ((l + 1) \div 2)
  BY TotalBound
<1> HIDE DEF t, l
<1>4. l <= 65535 => t < 4294967296
  BY <1>1, <1>2, <1>3, SMT
<1> QED
  BY <1>4, SMT DEF t, l
=============================================================================
