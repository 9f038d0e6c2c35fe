-------------------------------- MODULE Inet ---------------------------------
(***************************************************************************)
(* The pure functions of the stack: byte order (arpa/inet.h), the Internet *)
(* checksum (net/checksum.c), address text and classes (arpa/inet.c), and  *)
(* the length tests of ip_recv() and dhcp_recv().                          *)
(*                                                                         *)
(* Memory is a sequence of bytes.  The AVR is little-endian: a 16-bit word *)
(* read from bytes lo, hi is lo + 256 * hi.  in_addr_t is its four bytes   *)
(* in memory, the least significant one first.                             *)
(***************************************************************************)
EXTENDS Integers, Sequences, SequencesExt

Byte == 0 .. 255

htons(x) == 256 * (x % 256) + (x \div 256)

-----------------------------------------------------------------------------
(* Mutant: the carry of the fold is not added. *)
Fold16_once(sum) == ((sum % 65536) + (sum \div 65536)) % 65536

(* "Fold 32-bit sum to 16 bits", until nothing is left to fold. *)
Fold16(sum) ==
  LET fold[s \in Nat] == IF s < 65536 THEN s ELSE fold[(s % 65536) + (s \div 65536)]
  IN  fold[sum]

(* The byte at i, where what lies behind the message counts as 0. *)
byte(buf, i) == IF i \in DOMAIN buf THEN buf[i] ELSE 0

(* The words of the message as the AVR reads them, the leftover byte last. *)
words(buf) == [i \in Nat |-> byte(buf, 2 * i - 1) + 256 * byte(buf, 2 * i)]

(* The first n words, added one after the other. *)
SumWords(word, n) ==
  LET sum[k \in Nat] == IF k = 0 THEN 0 ELSE sum[k - 1] + word[k]
  IN  sum[n]

(* 65535 bytes cannot overflow the 32 bits of sum. *)
in_checksum(buf) == 65535 - Fold16(SumWords(words(buf), (Len(buf) + 1) \div 2))

(* A message whose checksum, bytes 3 and 4, is cleared, computed and stored. *)
ChecksumFilled(buf) ==
  LET cleared == [buf EXCEPT ![3] = 0, ![4] = 0]
      chks == in_checksum(cleared)
  IN  [cleared EXCEPT ![3] = chks % 256, ![4] = chks \div 256]

-----------------------------------------------------------------------------
(* A character of an address is a digit or the dot. *)
Dot == 10

(* Of three digits at most. *)
atol(digits) ==
  LET n == Len(digits)
      digit(i) == IF i >= 1 THEN digits[i] ELSE 0
  IN  100 * digit(n - 2) + 10 * digit(n - 1) + digit(n)

(* Mutant: two digits are read where three may be. *)
OctetLen_two(cp) == Min({y \in 0 .. 2 : y >= Len(cp) \/ y = 2 \/ cp[y + 1] = Dot})

(* Characters up to the dot or the end, but three at most. *)
OctetLen(cp) == Min({y \in 0 .. 3 : y >= Len(cp) \/ y = 3 \/ cp[y + 1] = Dot})

(* One round of the loop: what it adds to ip, and cp after it, behind the     *)
(* character that ended the octet.                                            *)
Octet(cp) == atol(SubSeq(cp, 1, OctetLen(cp))) % 256
Behind(cp) == SubSeq(cp, OctetLen(cp) + 2, Len(cp))

(* ip <<= 8 and the octet; htonl(). *)
Shifted(ip, octet) == <<octet, ip[1], ip[2], ip[3]>>
htonl(ip) == <<ip[4], ip[3], ip[2], ip[1]>>

inet_addr(cp) ==
  LET cp2 == Behind(cp)  cp3 == Behind(cp2)  cp4 == Behind(cp3)
      ip1 == Shifted(<<0, 0, 0, 0>>, Octet(cp))
      ip2 == Shifted(ip1, Octet(cp2))
      ip3 == Shifted(ip2, Octet(cp3))
  IN  htonl(Shifted(ip3, Octet(cp4)))

(* The tests of the leading bits of the first byte. *)
inet_class_determine(ip) ==
  LET msb == ip[1] IN
  CASE msb \div 128 = 0 -> [class |-> "A", mask |-> <<255, 0, 0, 0>>]
    [] msb \div 64 = 2  -> [class |-> "B", mask |-> <<255, 255, 0, 0>>]
    [] msb \div 32 = 6  -> [class |-> "C", mask |-> <<255, 255, 255, 0>>]
    [] msb \div 16 = 14 -> [class |-> "D", mask |-> <<>>]
    [] msb \div 16 = 15 -> [class |-> "E", mask |-> <<>>]

-----------------------------------------------------------------------------
(* Mutant: the IP header is counted twice. *)
ip_len_ok_twice(pkt_len, tot_len) == pkt_len >= tot_len + 20 /\ htons(tot_len) >= 20

(* ntohs() is applied to the comparison: the length in the header is        *)
(* compared as it lies in memory.                                           *)
ip_len_ok(pkt_len, tot_len) == pkt_len >= tot_len /\ htons(tot_len) >= 20

(* A value stored in an int16_t. *)
Int16(x) == ((x + 32768) % 65536) - 32768

(* opt_len, from the UDP length as it lies in memory; 244 bytes of UDP and  *)
(* BOOTP header precede the options.                                        *)
dhcp_opt_len(udp_len) == Int16(htons(udp_len) - 244)

-----------------------------------------------------------------------------
(* RFC 1071 by arithmetic: the big-endian words added modulo 65535, where     *)
(* only a sum of zeros is 0.                                                  *)
Ones16(sum) == IF sum = 0 THEN 0 ELSE ((sum - 1) % 65535) + 1

Rfc1071(buf) ==
  LET word == [i \in Nat |-> 256 * byte(buf, 2 * i - 1) + byte(buf, 2 * i)]
  IN  65535 - Ones16(SumWords(word, (Len(buf) + 1) \div 2))

(* A dotted address as it is written. *)
Decimal(n) ==
  (IF n >= 100 THEN <<n \div 100>> ELSE <<>>)
    \o (IF n >= 10 THEN <<(n \div 10) % 10>> ELSE <<>>) \o <<n % 10>>
Dotted(n, rest) == Decimal(n) \o <<Dot>> \o rest
Text(o) == Dotted(o[1], Dotted(o[2], Dotted(o[3], Decimal(o[4]))))

(* The classes of RFC 791, by the first octet. *)
Rfc791(o) ==
  CASE o < 128 -> "A" [] o \in 128 .. 191 -> "B" [] o \in 192 .. 223 -> "C"
    [] o \in 224 .. 239 -> "D" [] o > 239 -> "E"
=============================================================================
