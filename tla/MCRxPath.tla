------------------------------- MODULE MCRxPath -------------------------------
(* An instance of RxPath: two other stations m1 and m2 that use either of the *)
(* addresses i1 and i2, which this host may get too; g1 is a multicast        *)
(* address.                                                                   *)
EXTENDS RxPath

CONSTANTS m1, m2, bc, mc, i1, i2, g1

Arp(dest, src, lens, types, oper, spa, tpa) ==
  [proto |-> "ARP", dest |-> dest, src |-> src, lens |-> lens, types |-> types,
   oper |-> oper, sha |-> src, spa |-> spa, tha |-> ZERO, tpa |-> tpa]

(* An ICMP message, its checksum right or one byte changed. *)
Msg(type, d, chks) ==
  LET m == ChecksumFilled(<<type, 0, 0, 0, 255, 255>> \o d)
  IN  IF chks THEN m ELSE [m EXCEPT ![2] = 1]

(* The shortest frame carries 46 bytes, the datagram and padding, and the CRC *)
(* is counted.                                                                *)
Ip4(dest, hdr, p, msg, dst) ==
  [proto |-> "IP", dest |-> dest, src |-> m1, hdr |-> hdr, p |-> p, pkt_len |-> 64,
   tot_len |-> 20 + Len(msg), msg |-> msg \o <<0, 0>>, ip_src |-> i1, ip_dst |-> dst]

Icmp(dest, hdr, p, type, chks, dst) == Ip4(dest, hdr, p, Msg(type, <<0, 1>>, chks), dst)

(* An echo request with a total length of n. *)
Long(n) ==
  [Ip4(Me, TRUE, "ICMP", Msg(ICMP_ECHO_REQ, [i \in 1 .. n - 26 |-> 0], TRUE), i2)
     EXCEPT !.pkt_len = n + 18]

Dst == {i1, i2, g1, NONE}

(* Every binding and operation sent to this device; one thing wrong at a time; *)
(* every kind of hardware address.                                             *)
MCFrame ==
  {Arp(Me, s, TRUE, TRUE, o, spa, tpa) :
     s \in {m1, m2}, o \in {"REQ", "REPLY", "OTHER"}, spa \in {i1, i2}, tpa \in Dst}
  \cup {Arp(Me, m1, l, ~l, "REPLY", i1, tpa) : l \in BOOLEAN, tpa \in Dst}
  \cup {Arp(d, m1, TRUE, TRUE, "REQ", i1, tpa) : d \in {m2, bc, mc}, tpa \in Dst}
  \cup {Icmp(Me, TRUE, "ICMP", t, TRUE, dst) :
          t \in {ICMP_ECHO_REQ, ICMP_ECHO_REPLY, 19}, dst \in Dst}
  \cup {Icmp(d, TRUE, "ICMP", ICMP_ECHO_REQ, TRUE, i2) : d \in {m2, bc, mc}}
  \cup {Icmp(Me, h, "ICMP", ICMP_ECHO_REQ, ~h, i2) : h \in BOOLEAN}
  \cup {Icmp(Me, TRUE, p, ICMP_ECHO_REQ, TRUE, i2) : p \in {"TCP", "UDP", "OTHER"}}
  \cup {Ip4(Me, TRUE, "ICMP", Msg(ICMP_ECHO_REQ, d, TRUE), i2) : d \in {<<255, 255>>, <<1>>, <<0, 1, 1>>}}
  \cup {Long(256), Long(257), [Icmp(Me, TRUE, "ICMP", ICMP_ECHO_REQ, TRUE, i2) EXCEPT !.pkt_len = 20]}
  \cup {[proto |-> "802_2", dest |-> Me, src |-> m1]}

ASSUME MCFrameWhole == WholeFrames
===============================================================================
