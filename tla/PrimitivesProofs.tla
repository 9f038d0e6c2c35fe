-------------------------- MODULE PrimitivesProofs --------------------------
(***************************************************************************)
(* The functions of Inet are right on every input that MCPrimitives may    *)
(* enumerate, whatever bytes, message lengths and octets it is given.      *)
(***************************************************************************)
EXTENDS MCPrimitives, InetProofs, SequenceTheorems

(* The inputs, none of which changes. *)
Inputs == {[kind |-> "none"]} \cup Message \cup Address \cup Length
InputOK == input \in Inputs

(* A behaviour keeps the input it began with. *)
LEMMA InputStays == MCSpec => []InputOK
<1>1. MCInit => InputOK
  BY DEF MCInit, InputOK, Inputs
<1>2. InputOK /\ [MCNext]_<<vars, input>> => InputOK'
  BY DEF MCNext, InputOK
<1> QED
  BY <1>1, <1>2, PTL DEF MCSpec

(* A message is a sequence of bytes. *)
LEMMA MessageType ==
  ASSUME NEW buf \in BoundedSeq(Bytes, MaxBytes)
  PROVE  buf \in Seq(Byte)
<1>1. PICK m \in 0 .. MaxBytes : buf \in [1 .. m -> Bytes]
  BY DEF BoundedSeq, SeqOf
<1>2. m \in Nat /\ buf \in [1 .. m -> Byte]
  BY <1>1, PrimitivesAssumption
<1> QED
  BY <1>2

(* For all bytes and lengths: in_checksum() stores what RFC 1071 asks for, a  *)
(* message it was filled in verifies, and no longer with one byte changed.    *)
THEOREM ChecksumTheorem == MCSpec => []ChecksumRight
<1>1. InputOK => ChecksumRight
  <2> SUFFICES ASSUME InputOK, input.kind = "message" PROVE ChecksumRight
    BY DEF ChecksumRight
  <2> DEFINE buf == input.of
             msg == ChecksumFilled(buf)
  <2>1. input \in Message
    BY DEF InputOK, Inputs, Address, Length
  <2>2. buf \in Seq(Byte)
    BY <2>1, MessageType DEF Message
  <2> HIDE DEF buf
  <2>3. in_checksum(buf) = htons(Rfc1071(buf))
    BY <2>2, ChecksumIsRfc
  <2>4. ASSUME Len(buf) >= 4 PROVE in_checksum(msg) = 0
    BY <2>2, <2>4, FilledVerifies
  <2>5. ASSUME Len(buf) >= 4, NEW i \in 1 .. Len(buf), NEW v \in Bytes \ {msg[i]}
        PROVE  in_checksum([msg EXCEPT ![i] = v]) # 0
    <3>1. msg \in Seq(Byte) /\ Len(msg) = Len(buf)
      BY <2>2, <2>5, FilledVerifies
    <3>2. v \in Byte /\ v # msg[i]
      BY PrimitivesAssumption
    <3>3. i \in 1 .. Len(msg)
      BY <3>1
    <3> HIDE DEF msg
    <3> QED
      BY <2>4, <2>5, <3>1, <3>2, <3>3, ChangedByteFound DEF msg
  <2> QED
    BY <2>3, <2>4, <2>5 DEF ChecksumRight, buf
<1> QED
  BY <1>1, InputStays, PTL

-----------------------------------------------------------------------------
(* The test of ip_recv() on the length of a datagram. *)
LEMMA IpLength ==
  ASSUME NEW n \in Nat, n % 256 # 0
  PROVE  ip_len_ok(n + 18, n)
<1>1. n % 256 \in Nat /\ n % 256 >= 1 /\ n \div 256 \in Nat
  BY SMT
<1>2. htons(n) >= 20
  BY <1>1, SMT DEF htons
<1> QED
  BY <1>2, SMT DEF ip_len_ok

(* The test of dhcp_recv() on the length of the options. *)
LEMMA DhcpLength ==
  ASSUME NEW n \in Nat, n >= 248, n <= 1500, n % 256 >= 1, n % 256 <= 128
  PROVE  dhcp_opt_len(n) >= 4
<1> DEFINE q == n \div 256
           t == n % 256
<1>1. t \in Nat /\ q \in Nat /\ n = 256 * q + t /\ q <= 5
  BY SMT
<1>2. htons(n) = 256 * t + q
  BY DEF htons
<1> HIDE DEF q, t
<1>3. t >= 1 /\ t <= 128
  BY DEF t
<1>4. CASE t = 1
  <2>1. q >= 1
    BY <1>1, <1>4, SMT
  <2> DEFINE x == htons(n) - 244
  <2>2. x \in Int /\ x >= 4 /\ x <= 32767
    BY <1>1, <1>2, <1>3, <1>4, <2>1, SMT
  <2> QED
    BY <2>2, SMT DEF dhcp_opt_len, Int16
<1>5. CASE t # 1
  <2> DEFINE x == htons(n) - 244
  <2>2. x \in Int /\ x >= 4 /\ x <= 32767
    BY <1>1, <1>2, <1>3, <1>5, SMT
  <2> QED
    BY <2>2, SMT DEF dhcp_opt_len, Int16
<1> QED
  BY <1>4, <1>5

(* The lengths of IP datagrams. *)
LEMMA LengthIs ==
  ASSUME NEW n \in 20 .. 1500
  PROVE  n \in Nat /\ n <= 1500
  BY SMT

(* The low bytes with which a DHCP reply passes. *)
LEMMA LowByteIs ==
  ASSUME NEW n \in 1 .. 128
  PROVE  n >= 1 /\ n <= 128
  BY SMT

(* For every length an Ethernet frame can carry: the two length tests, for    *)
(* all that they compare in the wrong byte order, refuse no more than the     *)
(* lengths that are said.                                                     *)
THEOREM LengthTheorem == MCSpec => []LengthTests
<1>1. InputOK => LengthTests
  <2> SUFFICES ASSUME InputOK, input.kind = "length" PROVE LengthTests
    BY DEF LengthTests
  <2> DEFINE n == input.of
  <2>1. input \in Length
    BY DEF InputOK, Inputs, Address, Message
  <2>2. n \in 20 .. 1500
    BY <2>1 DEF Length
  <2> HIDE DEF n
  <2>3. n \in Nat /\ n <= 1500
    BY <2>2, LengthIs
  <2>4. n % 256 # 0 => ip_len_ok(n + 18, n)
    BY <2>3, IpLength
  <2>5. ASSUME n >= 248, n % 256 \in 1 .. 128
        PROVE  dhcp_opt_len(n) >= 4
    <3>1. n % 256 >= 1 /\ n % 256 <= 128
      BY <2>5, LowByteIs
    <3> QED
      BY <2>3, <2>5, <3>1, DhcpLength
  <2> QED
    BY <2>4, <2>5 DEF LengthTests, n
<1> QED
  BY <1>1, InputStays, PTL

-----------------------------------------------------------------------------
(* Two texts in a row. *)
LEMMA Joined ==
  ASSUME NEW s \in Seq(Nat), NEW t \in Seq(Nat)
  PROVE  /\ s \o t \in Seq(Nat)
         /\ Len(s) \in Nat /\ Len(t) \in Nat /\ Len(s \o t) = Len(s) + Len(t)
         /\ \A i \in 1 .. Len(s) : (s \o t)[i] = s[i]
         /\ \A i \in 1 .. Len(t) : (s \o t)[Len(s) + i] = t[i]
<1>1. Len(s) \in Nat /\ Len(t) \in Nat
  OBVIOUS
<1>2. /\ s \o t \in Seq(Nat) /\ Len(s \o t) = Len(s) + Len(t)
      /\ \A i \in 1 .. Len(s) + Len(t) : (s \o t)[i] =
           IF i <= Len(s) THEN s[i] ELSE t[i - Len(s)]
  BY ConcatProperties, Zenon
<1>3. \A i \in 1 .. Len(s) : (s \o t)[i] = s[i]
  <2> SUFFICES ASSUME NEW i \in 1 .. Len(s) PROVE (s \o t)[i] = s[i]
    OBVIOUS
  <2>1. i \in 1 .. Len(s) + Len(t) /\ i <= Len(s)
    BY <1>1
  <2> QED
    BY <1>2, <2>1, Zenon
<1>4. \A i \in 1 .. Len(t) : (s \o t)[Len(s) + i] = t[i]
  <2> SUFFICES ASSUME NEW i \in 1 .. Len(t) PROVE (s \o t)[Len(s) + i] = t[i]
    OBVIOUS
  <2>1. /\ Len(s) + i \in 1 .. Len(s) + Len(t) /\ ~(Len(s) + i <= Len(s))
        /\ (Len(s) + i) - Len(s) = i
    BY <1>1
  <2>2. (s \o t)[Len(s) + i] = t[(Len(s) + i) - Len(s)]
    BY <1>2, <2>1, Zenon
  <2> QED
    BY <2>1, <2>2
<1> QED
  BY <1>1, <1>2, <1>3, <1>4

(* A part of a text. *)
LEMMA Cut ==
  ASSUME NEW s \in Seq(Nat), NEW k \in Nat, k <= Len(s), NEW t \in Seq(Nat),
         k + Len(t) <= Len(s), \A i \in 1 .. Len(t) : s[k + i] = t[i]
  PROVE  SubSeq(s, k + 1, k + Len(t)) = t
<1> DEFINE l == k + 1
           h == k + Len(t)
           u == SubSeq(s, l, h)
<1>1. Len(s) \in Nat /\ Len(t) \in Nat /\ l \in Int /\ h \in Int
  OBVIOUS
<1>2. \A i \in l .. h : s[i] \in Nat
  BY <1>1
<1>3. (h - l) + 1 = Len(t) /\ (l <= h \/ Len(t) = 0)
  BY <1>1
<1>4. ASSUME NEW i \in 1 .. Len(t) PROVE (l + i) - 1 = k + i
  BY <1>1
<1> HIDE DEF l, h
<1>5. /\ u \in Seq(Nat) /\ Len(u) = IF l <= h THEN (h - l) + 1 ELSE 0
      /\ \A i \in 1 .. (h - l) + 1 : u[i] = s[(l + i) - 1]
  BY <1>1, <1>2, SubSeqProperties
<1> HIDE DEF u
<1>6. Len(u) = Len(t)
  BY <1>3, <1>5
<1>7. \A i \in 1 .. Len(t) : u[i] = t[i]
  BY <1>3, <1>4, <1>5
<1>8. u = t
  BY <1>5, <1>6, <1>7, SeqEqual
<1> QED
  BY <1>8 DEF u, l, h

(* Decimal(n) in digits: as many as needed, none of them the dot, and atol()  *)
(* reads n back from them.                                                    *)
Digits(d) ==
  /\ d \in Seq(Nat) /\ Len(d) \in {1, 2, 3}
  /\ \A i \in 1 .. Len(d) : d[i] # Dot

(* A single digit. *)
LEMMA Digits1 ==
  ASSUME NEW a \in Nat, a <= 9
  PROVE  Digits(<<a>>) /\ atol(<<a>>) = a
<1>1. <<a>> \in Seq(Nat) /\ Len(<<a>>) = 1 /\ <<a>>[1] = a
  OBVIOUS
<1>2. Digits(<<a>>)
  BY <1>1 DEF Digits, Dot
<1>3. atol(<<a>>) = a
  BY <1>1 DEF atol
<1> QED
  BY <1>2, <1>3

(* Two digits side by side. *)
LEMMA Digits2 ==
  ASSUME NEW a \in Nat, NEW b \in Nat, a <= 9, b <= 9
  PROVE  /\ Digits(<<a>> \o <<b>>) /\ atol(<<a>> \o <<b>>) = 10 * a + b
<1> DEFINE d == <<a>> \o <<b>>
<1>1. <<a>> \in Seq(Nat) /\ Len(<<a>>) = 1 /\ <<b>> \in Seq(Nat) /\ Len(<<b>>) = 1
  OBVIOUS
<1>2. d \in Seq(Nat) /\ Len(d) = 2 /\ d[1] = a /\ d[2] = b
  BY <1>1, Joined
<1> HIDE DEF d
<1>3. Digits(d)
  BY <1>2 DEF Digits, Dot
<1>4. atol(d) = 10 * a + b
  BY <1>2 DEF atol
<1> QED
  BY <1>3, <1>4 DEF d

(* Three digits side by side. *)
LEMMA Digits3 ==
  ASSUME NEW a \in Nat, NEW b \in Nat, NEW c \in Nat, a <= 9, b <= 9, c <= 9
  PROVE  /\ Digits(<<a>> \o <<b>> \o <<c>>)
         /\ atol(<<a>> \o <<b>> \o <<c>>) = 100 * a + 10 * b + c
<1> DEFINE e == <<a>> \o <<b>>
           d == e \o <<c>>
<1>1. /\ <<a>> \in Seq(Nat) /\ Len(<<a>>) = 1 /\ <<b>> \in Seq(Nat) /\ Len(<<b>>) = 1
      /\ <<c>> \in Seq(Nat) /\ Len(<<c>>) = 1
  OBVIOUS
<1>2. e \in Seq(Nat) /\ Len(e) = 2 /\ e[1] = a /\ e[2] = b
  BY <1>1, Joined
<1> HIDE DEF e
<1>3. d \in Seq(Nat) /\ Len(d) = 3 /\ d[1] = a /\ d[2] = b /\ d[3] = c
  <2>1. /\ d \in Seq(Nat) /\ Len(d) = Len(e) + Len(<<c>>)
        /\ \A i \in 1 .. Len(e) : d[i] = e[i]
        /\ \A i \in 1 .. Len(<<c>>) : d[Len(e) + i] = <<c>>[i]
    BY <1>1, <1>2, Joined, Zenon
  <2> HIDE DEF d
  <2> QED
    BY <1>1, <1>2, <2>1
<1> HIDE DEF d
<1>4. Digits(d)
  BY <1>3 DEF Digits, Dot
<1>5. atol(d) = 100 * a + 10 * b + c
  BY <1>3 DEF atol
<1> QED
  BY <1>4, <1>5 DEF d, e

(* Octets below 10. *)
LEMMA OneDigit ==
  ASSUME NEW n \in Nat, n < 10
  PROVE  Digits(Decimal(n)) /\ atol(Decimal(n)) = n
<1>1. n % 10 = n /\ ~(n >= 100) /\ ~(n >= 10)
  OBVIOUS
<1>2. Decimal(n) = <<>> \o <<>> \o <<n>>
  BY <1>1 DEF Decimal
<1>3. <<>> \o <<>> \o <<n>> = <<n>>
  BY ConcatEmptySeq
<1> QED
  BY <1>2, <1>3, Digits1

(* Octets from 10 to 99. *)
LEMMA TwoDigits ==
  ASSUME NEW n \in Nat, n >= 10, n < 100
  PROVE  Digits(Decimal(n)) /\ atol(Decimal(n)) = n
<1> DEFINE a == n \div 10
           b == n % 10
<1>1. a \in Nat /\ b \in Nat /\ a <= 9 /\ b <= 9 /\ n = 10 * a + b
  OBVIOUS
<1>2. (n \div 10) % 10 = a
  BY <1>1
<1>3. <<a>> \in Seq(Nat)
  BY <1>1
<1>4. <<>> \o <<a>> = <<a>>
  BY <1>3, ConcatEmptySeq
<1>5. Decimal(n) = <<>> \o <<a>> \o <<b>>
  BY <1>2 DEF Decimal
<1> HIDE DEF a, b
<1> QED
  BY <1>1, <1>4, <1>5, Digits2

(* Octets from 100 on. *)
LEMMA ThreeDigits ==
  ASSUME NEW n \in Nat, n >= 100, n <= 255
  PROVE  Digits(Decimal(n)) /\ atol(Decimal(n)) = n
<1> DEFINE a == n \div 100
           b == (n \div 10) % 10
           c == n % 10
<1>1. /\ a \in Nat /\ b \in Nat /\ c \in Nat /\ a <= 2 /\ b <= 9 /\ c <= 9
      /\ n = 100 * a + 10 * b + c
  BY SMT
<1>2. Decimal(n) = <<a>> \o <<b>> \o <<c>>
  BY DEF Decimal
<1> HIDE DEF a, b, c
<1>3. a <= 9
  BY <1>1
<1>4. /\ Digits(<<a>> \o <<b>> \o <<c>>)
      /\ atol(<<a>> \o <<b>> \o <<c>>) = 100 * a + 10 * b + c
  BY <1>1, <1>3, Digits3, SMT
<1> QED
  BY <1>1, <1>2, <1>4

(* Every octet is written so that it can be read back. *)
LEMMA DecimalIs ==
  ASSUME NEW n \in Byte
  PROVE  Digits(Decimal(n)) /\ atol(Decimal(n)) = n
<1>1. n \in Nat /\ n <= 255
  BY ByteIs
<1> QED
  BY <1>1, OneDigit, TwoDigits, ThreeDigits

-----------------------------------------------------------------------------
(* The loop over the characters of an octet stops where it must. *)
LEMMA OctetLenIs ==
  ASSUME NEW cp \in Seq(Nat), NEW l \in {1, 2, 3}, l <= Len(cp),
         \A i \in 1 .. l : cp[i] # Dot,
         l = Len(cp) \/ cp[l + 1] = Dot
  PROVE  OctetLen(cp) = l
<1> DEFINE S == {y \in 0 .. 3 : y >= Len(cp) \/ y = 3 \/ cp[y + 1] = Dot}
<1>1. l \in S
  OBVIOUS
<1>2. ASSUME NEW y \in S PROVE l <= y /\ y \in Int
  OBVIOUS
<1> HIDE DEF S
<1>3. \A x \in S : (\A y \in S : x <= y) => x = l
  BY <1>1, <1>2
<1>4. Min(S) = l
  BY <1>1, <1>2, <1>3 DEF Min
<1> QED
  BY <1>4 DEF OctetLen, S

(* A round of inet_addr() on digits that a dot and more follow. *)
LEMMA RoundDotted ==
  ASSUME NEW d, Digits(d), NEW rest \in Seq(Nat)
  PROVE  LET cp == d \o <<Dot>> \o rest IN
           cp \in Seq(Nat) /\ Octet(cp) = atol(d) % 256 /\ Behind(cp) = rest
<1> DEFINE cp == d \o <<Dot>> \o rest
           l == Len(d)
<1>1. d \in Seq(Nat) /\ <<Dot>> \in Seq(Nat) /\ l \in {1, 2, 3}
  BY DEF Digits, Dot
<1>2. /\ d \o <<Dot>> \in Seq(Nat) /\ Len(d \o <<Dot>>) = l + 1
      /\ \A i \in 1 .. l : (d \o <<Dot>>)[i] = d[i]
      /\ (d \o <<Dot>>)[l + 1] = Dot
  BY <1>1, Joined
<1>3. /\ cp \in Seq(Nat) /\ Len(cp) = l + 1 + Len(rest) /\ Len(rest) \in Nat
      /\ \A i \in 1 .. l : cp[i] = d[i]
      /\ cp[l + 1] = Dot
      /\ \A i \in 1 .. Len(rest) : cp[l + 1 + i] = rest[i]
  <2> DEFINE e == d \o <<Dot>>
  <2>1. e \in Seq(Nat) /\ Len(e) = l + 1
    BY <1>2
  <2> HIDE DEF e
  <2>2. /\ e \o rest \in Seq(Nat) /\ Len(e \o rest) = l + 1 + Len(rest)
        /\ Len(rest) \in Nat
        /\ \A i \in 1 .. l + 1 : (e \o rest)[i] = e[i]
        /\ \A i \in 1 .. Len(rest) : (e \o rest)[l + 1 + i] = rest[i]
    <3>1. /\ e \o rest \in Seq(Nat) /\ Len(e \o rest) = Len(e) + Len(rest)
          /\ Len(rest) \in Nat
          /\ \A i \in 1 .. Len(e) : (e \o rest)[i] = e[i]
          /\ \A i \in 1 .. Len(rest) : (e \o rest)[Len(e) + i] = rest[i]
      BY <2>1, Joined, Zenon
    <3> QED
      BY <2>1, <3>1, Zenon
  <2> QED
    BY <1>1, <1>2, <2>2 DEF e
<1> HIDE DEF cp
<1>4. OctetLen(cp) = l
  <2>1. \A i \in 1 .. l : cp[i] # Dot
    BY <1>3 DEF Digits
  <2>2. l <= Len(cp)
    BY <1>1, <1>3
  <2> HIDE DEF l
  <2> QED
    BY <1>1, <1>3, <2>1, <2>2, OctetLenIs, Zenon
<1>5. SubSeq(cp, 1, l) = d
  <2>1. SubSeq(cp, 0 + 1, 0 + l) = d
    BY <1>1, <1>3, Cut
  <2> QED
    BY <1>1, <2>1
<1>6. Behind(cp) = rest
  <2> DEFINE k == l + 1
  <2>1. SubSeq(cp, k + 1, k + Len(rest)) = rest
    <3>1. /\ k \in Nat /\ k <= Len(cp) /\ k + Len(rest) <= Len(cp)
          /\ \A i \in 1 .. Len(rest) : cp[k + i] = rest[i]
      BY <1>1, <1>3
    <3> HIDE DEF k
    <3> QED
      BY <1>3, <3>1, Cut, Zenon
  <2>2. (l + 1) + 1 = l + 2 /\ (l + 1) + Len(rest) = Len(cp)
    BY <1>1, <1>3
  <2> QED
    BY <1>4, <2>1, <2>2 DEF Behind
<1> QED
  BY <1>3, <1>4, <1>5, <1>6 DEF Octet, cp

(* The last round, on the digits alone. *)
LEMMA RoundLast ==
  ASSUME NEW d, Digits(d)
  PROVE  Octet(d) = atol(d) % 256
<1>1. d \in Seq(Nat) /\ Len(d) \in {1, 2, 3}
  BY DEF Digits
<1>2. OctetLen(d) = Len(d)
  BY <1>1, OctetLenIs DEF Digits
<1>3. SubSeq(d, 1, Len(d)) = d
  BY <1>1, SubSeqFull
<1> QED
  BY <1>2, <1>3 DEF Octet

(* A round on an octet as it is written. *)
LEMMA RoundOctet ==
  ASSUME NEW n \in Byte
  PROVE  /\ Decimal(n) \in Seq(Nat) /\ Octet(Decimal(n)) = n
         /\ \A rest \in Seq(Nat) :
              /\ Dotted(n, rest) \in Seq(Nat) /\ Octet(Dotted(n, rest)) = n
              /\ Behind(Dotted(n, rest)) = rest
<1>1. Digits(Decimal(n)) /\ atol(Decimal(n)) = n
  BY DecimalIs
<1>2. n % 256 = n
  BY ByteIs
<1>3. Decimal(n) \in Seq(Nat)
  BY <1>1 DEF Digits
<1>4. Octet(Decimal(n)) = n
  BY <1>1, <1>2, RoundLast, SMT
<1>5. ASSUME NEW rest \in Seq(Nat)
      PROVE  /\ Dotted(n, rest) \in Seq(Nat) /\ Octet(Dotted(n, rest)) = n
             /\ Behind(Dotted(n, rest)) = rest
  <2> DEFINE d == Decimal(n)
  <2>1. Digits(d) /\ atol(d) % 256 = n
    BY <1>1, <1>2
  <2>2. Dotted(n, rest) = d \o <<Dot>> \o rest
    BY DEF Dotted
  <2> HIDE DEF d
  <2>3. /\ Dotted(n, rest) \in Seq(Nat) /\ Octet(Dotted(n, rest)) = atol(d) % 256
        /\ Behind(Dotted(n, rest)) = rest
    BY <2>1, <2>2, RoundDotted
  <2> QED
    BY <2>1, <2>3
<1> QED
  BY <1>3, <1>4, <1>5

(* What is read back from a dotted address, and where the bytes end up. *)
LEMMA AddrIs ==
  ASSUME NEW o \in [1 .. 4 -> Byte]
  PROVE  inet_addr(Text(o)) = o
<1> DEFINE t4 == Decimal(o[4])
           t3 == Dotted(o[3], t4)
           t2 == Dotted(o[2], t3)
           t1 == Dotted(o[1], t2)
<1>1. o[1] \in Byte /\ o[2] \in Byte /\ o[3] \in Byte /\ o[4] \in Byte
  OBVIOUS
<1>2. t4 \in Seq(Nat) /\ Octet(t4) = o[4]
  BY <1>1, RoundOctet, Zenon
<1> HIDE DEF t4
<1>3. t3 \in Seq(Nat) /\ Octet(t3) = o[3] /\ Behind(t3) = t4
  BY <1>1, <1>2, RoundOctet, Zenon
<1> HIDE DEF t3
<1>4. t2 \in Seq(Nat) /\ Octet(t2) = o[2] /\ Behind(t2) = t3
  BY <1>1, <1>3, RoundOctet, Zenon
<1> HIDE DEF t2
<1>5. Octet(t1) = o[1] /\ Behind(t1) = t2
  BY <1>1, <1>4, RoundOctet, Zenon
<1>6. Text(o) = t1
  BY DEF Text, t1, t2, t3, t4
<1> HIDE DEF t1
<1> DEFINE p1 == Shifted(<<0, 0, 0, 0>>, o[1])
           p2 == Shifted(p1, o[2])
           p3 == Shifted(p2, o[3])
<1>7. inet_addr(t1) = htonl(Shifted(p3, o[4]))
  BY <1>2, <1>3, <1>4, <1>5, Zenon DEF inet_addr
<1>8. htonl(Shifted(p3, o[4])) = <<o[1], o[2], o[3], o[4]>>
  BY DEF htonl, Shifted
<1>9. o = <<o[1], o[2], o[3], o[4]>>
  OBVIOUS
<1> QED
  BY <1>6, <1>7, <1>8, <1>9, Zenon

(* The leading bits of a byte tell in which of the ranges it lies. *)
LEMMA ClassIs ==
  ASSUME NEW ip, ip[1] \in Byte
  PROVE  inet_class_determine(ip).class = Rfc791(ip[1])
<1> DEFINE m == ip[1]
<1>1. m \in Nat /\ m <= 255
  BY ByteIs
<1> HIDE DEF m
<1>2. CASE m < 128
  <2>1. m \div 128 = 0
    BY <1>1, <1>2, SMT
  <2> QED
    BY <1>1, <1>2, <2>1, SMT DEF inet_class_determine, Rfc791, m
<1>3. CASE m >= 128 /\ m < 192
  BY <1>1, <1>3, SMT DEF inet_class_determine, Rfc791, m
<1>4. CASE m >= 192 /\ m < 224
  BY <1>1, <1>4, SMT DEF inet_class_determine, Rfc791, m
<1>5. CASE m >= 224 /\ m < 240
  BY <1>1, <1>5, SMT DEF inet_class_determine, Rfc791, m
<1>6. CASE m >= 240
  BY <1>1, <1>6, SMT DEF inet_class_determine, Rfc791, m
<1> QED
  BY <1>1, <1>2, <1>3, <1>4, <1>5, <1>6, SMT DEF m

(* For all octets: a dotted address is stored in the order in which it is     *)
(* written, and its class is that of RFC 791.                                 *)
THEOREM AddrTheorem == MCSpec => []AddrRight
<1>1. InputOK => AddrRight
  <2> SUFFICES ASSUME InputOK, input.kind = "address" PROVE AddrRight
    BY DEF AddrRight
  <2> DEFINE o == input.of
  <2>1. input \in Address
    BY DEF InputOK, Inputs, Length, Message
  <2>2. o \in [1 .. 4 -> Byte]
    BY <2>1, PrimitivesAssumption DEF Address
  <2> HIDE DEF o
  <2>3. inet_addr(Text(o)) = o
    BY <2>2, AddrIs
  <2>4. inet_class_determine(o).class = Rfc791(o[1])
    BY <2>2, ClassIs
  <2> QED
    BY <2>3, <2>4, Zenon DEF AddrRight, o
<1> QED
  BY <1>1, InputStays, PTL
=============================================================================
