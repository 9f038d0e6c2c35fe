-------------------------------- MODULE RxPath --------------------------------
(***************************************************************************)
(* The receive path: eth_type_proto() of net/eth.c, the tables of          *)
(* net/pkt_hdlr.c and net/ip_proto.c, and the handlers in netinet/arp.c,   *)
(* netinet/ip.c and netinet/icmp.c.                                        *)
(*                                                                         *)
(* The driver calls recv_pkt_handler() from its interrupt, so a frame is   *)
(* handled in one step, at any moment of the main thread: while            *)
(* network_init() fills the tables, while dhcp() has the IP handler to     *)
(* itself, and after either.  A handler is an operator that says what it   *)
(* makes of the buffer: how often it is freed, whether it is handed to     *)
(* netdev_list_xmit() as a reply, and what becomes of the ARP table.       *)
(***************************************************************************)
EXTENDS Naturals, FiniteSets, Inet

CONSTANTS Mac, Me, Broadcast,  \* hardware addresses; dev_addr and broadcast of the device
          GroupMac,            \* multicast and broadcast hardware addresses
          Ip, Multicast,       \* IPv4 addresses, those of class D
          NONE,                \* INADDR_NONE, INADDR_BROADCAST
          ZERO,                \* cleared memory
          Frame,               \* the frames the network delivers
          MaxConfig            \* bound: calls of ip_config()

ArpFrame == [proto : {"ARP"}, dest : Mac, src : Mac, lens : BOOLEAN, types : BOOLEAN,
             oper : {"REQ", "REPLY", "OTHER"}, sha : Mac, spa : Ip, tha : Mac \cup {ZERO},
             tpa : Ip \cup {NONE}]
IpFrame == [proto : {"IP"}, dest : Mac, src : Mac, hdr : BOOLEAN,
            p : {"ICMP", "TCP", "UDP", "OTHER"}, pkt_len : Nat, tot_len : Nat,
            msg : Seq(Byte),   \* what follows the IP header
            ip_src : Ip, ip_dst : Ip \cup {NONE}]
OtherFrame == [proto : {"802_2"}, dest : Mac, src : Mac]

ASSUME RxAssumption ==
  /\ Me \in Mac \ GroupMac /\ Broadcast \in GroupMac /\ GroupMac \subseteq Mac
  /\ Multicast \subseteq Ip /\ NONE \notin Ip /\ ZERO \notin Ip \cup Mac /\ MaxConfig \in Nat
  /\ Frame \subseteq ArpFrame \cup IpFrame \cup OtherFrame

VARIABLES
  pc,             \* main thread
  eth,            \* recv_ops: handler per Ethernet type
  ops,            \* ip_proto_ops: handler per IP protocol
  my_ip, arp_tbl,
  cut,            \* ghost: dhcp() has run since network_init()
  nconf           \* calls of ip_config() so far

vars == <<pc, eth, ops, my_ip, arp_tbl, cut, nconf>>
tables == <<eth, ops>>

Steps == {"start", "arp_add", "icmp", "tcp", "udp", "ip_add", "idle", "auto", "dhcp"}

(* What a handler makes of a buffer. *)
Rets == {"SUCCESS", "DROP"}
Free(n, r) == [freed |-> n, sent |-> {}, tbl |-> arp_tbl, ret |-> r]
Xmit(reply, r) == [freed |-> 0, sent |-> {reply}, tbl |-> arp_tbl, ret |-> r]

-----------------------------------------------------------------------------
(* One field of a frame copied over another, in the buffer that holds it. *)
memcpy(f, to, from) == [f EXCEPT ![to] = f[from]]

(* Mutant: the addresses of this host are written before the sender's are    *)
(* copied.                                                                    *)
arp_reply_order(f) ==
  LET oper == [f EXCEPT !.oper = "REPLY"]
      sender == [oper EXCEPT !.sha = Me, !.spa = my_ip]
      target == memcpy(memcpy(sender, "tha", "sha"), "tpa", "spa")
  IN  [memcpy(target, "dest", "src") EXCEPT !.src = Me]

(* The reply is written over the request, in the buffer that carried it, one *)
(* field after the other.                                                    *)
arp_reply(f) ==
  LET oper == [f EXCEPT !.oper = "REPLY"]
      target == memcpy(memcpy(oper, "tha", "sha"), "tpa", "spa")
      sender == [target EXCEPT !.sha = Me, !.spa = my_ip]
  IN  [memcpy(sender, "dest", "src") EXCEPT !.src = Me]

(* The table has one entry; its address is written only if it differs. *)
arp_tbl_set(ip, mac) ==
  [(IF arp_tbl.ip # ip THEN [arp_tbl EXCEPT !.ip = ip] ELSE arp_tbl) EXCEPT !.mac = mac]

(* The test for loopback (tpa[0] & 0xF0) == 0x7F is never true. *)
ArpIgnored(f) ==
  \/ ~f.types \/ f.oper = "OTHER"
  \/ f.tpa \in Multicast
  \/ f.spa = f.tpa
  \/ f.tpa # my_ip

(* Mutant: the buffer that was handed to arp_xmit() is freed as well. *)
arp_proc_falls_through(f) ==
  CASE ArpIgnored(f) -> Free(1, "DROP")
    [] ~ArpIgnored(f) /\ f.oper = "REQ" -> [Xmit(arp_reply(f), "SUCCESS") EXCEPT !.freed = 1]
    [] OTHER -> [Free(1, "SUCCESS") EXCEPT !.tbl = arp_tbl_set(f.spa, f.sha)]

arp_proc(f) ==
  CASE ArpIgnored(f) -> Free(1, "DROP")
    [] ~ArpIgnored(f) /\ f.oper = "REQ" -> Xmit(arp_reply(f), "SUCCESS")
    [] OTHER -> [Free(1, "SUCCESS") EXCEPT !.tbl = arp_tbl_set(f.spa, f.sha)]

(* f.lens: one of hlen and plen is right, which is all the code asks for. *)
arp_recv(f, pkt) ==
  CASE pkt = "OTHERHOST" -> Free(1, "SUCCESS")
    [] pkt # "OTHERHOST" /\ f.lens -> arp_proc(f)
    [] OTHER -> Free(1, "DROP")

-----------------------------------------------------------------------------
ICMP_ECHO_REPLY == 0
ICMP_ECHO_REQ == 8

(* The bytes of the ICMP message the checksum is taken of: what the total    *)
(* length says, not what the frame holds.                                    *)
icmp_msg(f) == SubSeq(f.msg, 1, f.tot_len - 20)

(* Mutant: the checksum field is not cleared before the sum is taken. *)
EchoMsg_uncleared(f) ==
  LET m == [icmp_msg(f) EXCEPT ![1] = ICMP_ECHO_REPLY]
      c == in_checksum(m)
  IN  [m EXCEPT ![3] = c % 256, ![4] = c \div 256]

EchoMsg(f) == ChecksumFilled([icmp_msg(f) EXCEPT ![1] = ICMP_ECHO_REPLY])

(* The reply is the request's buffer without the CRC that the driver counts. *)
echo_reply(f) ==
  LET eth_hdr == [memcpy(f, "dest", "src") EXCEPT !.src = Me]
      ip_hdr == [memcpy(eth_hdr, "ip_dst", "ip_src") EXCEPT !.ip_src = my_ip]
  IN  [ip_hdr EXCEPT !.msg = EchoMsg(f), !.pkt_len = f.pkt_len - 4]

NETDEV_RX_DROP == 1

(* The bool icmp_echo() returns: NETDEV_RX_DROP is converted to one, too. *)
icmp_echo(f) ==
  IF f.ip_dst # my_ip THEN [ret |-> NETDEV_RX_DROP # 0, sent |-> {}]
                      ELSE [ret |-> TRUE, sent |-> {echo_reply(f)}]

icmp_recv(f) ==
  LET drop == \/ f.msg[1] > 18 \/ f.ip_dst \in Multicast \cup {NONE}
              \/ in_checksum(icmp_msg(f)) # 0
      handled == IF ~drop /\ f.msg[1] = ICMP_ECHO_REQ
                   THEN icmp_echo(f) ELSE [ret |-> FALSE, sent |-> {}]
      out == IF handled.ret THEN Free(0, "SUCCESS") ELSE Free(1, "DROP")
  IN  [out EXCEPT !.sent = handled.sent]

(* Only ICMP ever has a handler: tcp_init() and udp_init() register NULL. *)
ip_proto_handler(f) ==
  IF f.p # "OTHER" /\ ops[f.p] = "icmp_recv" THEN icmp_recv(f) ELSE Free(1, "DROP")

(* f.hdr: version, header length and checksum are right and there are no    *)
(* options.                                                                 *)
ip_recv(f, pkt) ==
  IF pkt = "OTHERHOST" \/ ~f.hdr \/ ~ip_len_ok(f.pkt_len, f.tot_len) THEN Free(1, "DROP") ELSE ip_proto_handler(f)

(* dhcp_recv() frees the buffer on all its paths. *)
dhcp_recv(f) == Free(1, "SUCCESS")

eth_type_proto(f) ==
  CASE f.dest = Me -> "HOST"
    [] f.dest = Broadcast -> "BROADCAST"
    [] f.dest \in GroupMac \ {Broadcast} -> "MULTICAST"
    [] OTHER -> "OTHERHOST"

(* Mutant: the handler is called without looking whether there is one. *)
recv_pkt_handler_unchecked(f) ==
  LET pkt == eth_type_proto(f) IN
  CASE f.proto = "IP" /\ eth["IP"] = "ip_recv" -> ip_recv(f, pkt)
    [] f.proto = "IP" /\ eth["IP"] = "dhcp_recv" -> dhcp_recv(f)
    [] f.proto = "ARP" /\ eth["ARP"] = "arp_recv" -> arp_recv(f, pkt)
    [] OTHER -> Free(0, "jump to NULL")

recv_pkt_handler(f) ==
  LET pkt == eth_type_proto(f) IN
  CASE f.proto = "IP" /\ eth["IP"] = "ip_recv" -> ip_recv(f, pkt)
    [] f.proto = "IP" /\ eth["IP"] = "dhcp_recv" -> dhcp_recv(f)
    [] f.proto = "ARP" /\ eth["ARP"] = "arp_recv" -> arp_recv(f, pkt)
    [] OTHER -> Free(1, "DROP")

-----------------------------------------------------------------------------
Init ==
  /\ pc = "start" /\ eth = [t \in {"IP", "ARP"} |-> "NULL"]
  /\ ops = [p \in {"ICMP", "TCP", "UDP"} |-> "NULL"]
  /\ my_ip = NONE /\ arp_tbl = [ip |-> ZERO, mac |-> ZERO]
  /\ cut = FALSE /\ nconf = 0

pkt_hdlr_add(t, h) == eth' = [eth EXCEPT ![t] = h]
pkt_hdlr_del(t) == eth' = [eth EXCEPT ![t] = "NULL"]
ip_proto_handler_add(p, h) == ops' = [ops EXCEPT ![p] = h]

(* network_init() -> inet_init(): arp_init(), then ip_init(). *)
arp_init ==
  \/ /\ pc = "start" /\ pc' = "arp_add"
     /\ arp_tbl' = [ip |-> ZERO, mac |-> ZERO]
     /\ UNCHANGED <<tables, my_ip, cut, nconf>>
  \/ /\ pc = "arp_add" /\ pc' = "icmp"
     /\ pkt_hdlr_add("ARP", "arp_recv")
     /\ UNCHANGED <<ops, my_ip, arp_tbl, cut, nconf>>

(* Mutant: ICMP is left without its handler, as TCP and UDP are. *)
ip_init_null ==
  /\ \/ pc = "icmp" /\ pc' = "tcp" /\ ip_proto_handler_add("ICMP", "NULL") /\ UNCHANGED eth
     \/ pc = "tcp" /\ pc' = "udp" /\ ip_proto_handler_add("TCP", "NULL") /\ UNCHANGED eth
     \/ pc = "udp" /\ pc' = "ip_add" /\ ip_proto_handler_add("UDP", "NULL") /\ UNCHANGED eth
     \/ pc = "ip_add" /\ pc' = "idle" /\ pkt_hdlr_add("IP", "ip_recv") /\ UNCHANGED ops
  /\ cut' = (cut /\ pc # "ip_add")
  /\ UNCHANGED <<my_ip, arp_tbl, nconf>>

ip_init ==
  /\ \/ pc = "icmp" /\ pc' = "tcp" /\ ip_proto_handler_add("ICMP", "icmp_recv") /\ UNCHANGED eth
     \/ pc = "tcp" /\ pc' = "udp" /\ ip_proto_handler_add("TCP", "NULL") /\ UNCHANGED eth
     \/ pc = "udp" /\ pc' = "ip_add" /\ ip_proto_handler_add("UDP", "NULL") /\ UNCHANGED eth
     \/ pc = "ip_add" /\ pc' = "idle" /\ pkt_hdlr_add("IP", "ip_recv") /\ UNCHANGED ops
  /\ cut' = (cut /\ pc # "ip_add")
  /\ UNCHANGED <<my_ip, arp_tbl, nconf>>

(* ip_config(), before network_init() or after it: the address given, or    *)
(* the one there is; then dhcp() unless there is one, or an early return.   *)
Return == pc' = IF eth["ARP"] = "NULL" THEN "start" ELSE "idle"

ip_config(a) ==
  /\ pc \in {"start", "idle"} /\ nconf < MaxConfig /\ nconf' = nconf + 1
  /\ my_ip' = a /\ pc' = "auto"
  /\ UNCHANGED <<tables, arp_tbl, cut>>

auto_return ==
  /\ pc = "auto" /\ Return
  /\ UNCHANGED <<tables, my_ip, arp_tbl, cut, nconf>>

dhcp_begin ==
  /\ pc = "auto" /\ my_ip = NONE /\ pc' = "dhcp"
  /\ pkt_hdlr_add("IP", "dhcp_recv") /\ cut' = TRUE
  /\ UNCHANGED <<ops, my_ip, arp_tbl, nconf>>

dhcp_end ==
  /\ pc = "dhcp" /\ Return
  /\ pkt_hdlr_del("IP") /\ my_ip' \in {my_ip, NONE}
  /\ UNCHANGED <<ops, arp_tbl, cut, nconf>>

(* The interrupt: a frame.  What dhcp_recv() does to my_ip is IpConfig's.   *)
Receive(f) ==
  LET out == recv_pkt_handler(f) IN
  /\ arp_tbl' = out.tbl
  /\ IF f.proto = "IP" /\ eth["IP"] = "dhcp_recv"
       THEN my_ip' \in {my_ip, NONE} \cup (Ip \ Multicast) ELSE UNCHANGED my_ip
  /\ UNCHANGED <<pc, tables, cut, nconf>>

Next == \/ arp_init \/ ip_init \/ auto_return \/ dhcp_begin \/ dhcp_end
        \/ \E a \in {my_ip, NONE} \cup (Ip \ Multicast) : ip_config(a)
        \/ \E f \in Frame : Receive(f)

Spec == Init /\ [][Next]_vars

-----------------------------------------------------------------------------
(* Types: in particular no frame is dispatched through an empty entry of the  *)
(* handler tables, at any moment of their initialisation.                     *)
TypeOK ==
  /\ pc \in Steps
  /\ eth \in [{"IP", "ARP"} -> {"NULL", "ip_recv", "arp_recv", "dhcp_recv"}]
  /\ ops \in [{"ICMP", "TCP", "UDP"} -> {"NULL", "icmp_recv"}]
  /\ my_ip \in Ip \cup {NONE}
  /\ arp_tbl \in [ip : Ip \cup {ZERO}, mac : Mac \cup {ZERO}]
  /\ \A f \in Frame : recv_pkt_handler(f).ret \in Rets
  /\ cut \in BOOLEAN /\ nconf \in 0 .. MaxConfig

(* The properties speak of every frame that may arrive in a reachable state. *)
Disposals(f) ==
  LET out == recv_pkt_handler(f) IN out.freed + Cardinality(out.sent)

(* A received buffer is not freed twice and not freed once it was handed to   *)
(* netdev_list_xmit() for the reply, which arp_proc() and icmp_echo() write   *)
(* into the buffer they were given: every function on the way up must tell    *)
(* a buffer that was consumed from one that it still has to free.             *)
DisposedAtMostOnce == \A f \in Frame : Disposals(f) <= 1

(* "drop if IP not ours" (icmp.c:52), where dropping is freeing the buffer    *)
(* (icmp.c:110): every buffer is freed or handed over.                        *)
DisposedAtLeastOnce == \A f \in Frame : Disposals(f) >= 1

(* A reply goes to the station that asked, in answer to a frame that was for  *)
(* this device, and speaks for the address the host has at that moment, also  *)
(* while dhcp() or ip_config() change my_ip; the fields of the reply are      *)
(* written over those of the request they are made from.                      *)
RepliesTruthful ==
  \A f \in Frame : \A r \in recv_pkt_handler(f).sent :
    /\ r.dest = f.src /\ r.src = Me /\ eth_type_proto(f) # "OTHERHOST"
    /\ r.proto = "ARP" => /\ r.spa = my_ip /\ f.tpa = my_ip /\ r.sha = Me
                          /\ r.tpa = f.spa /\ r.tha = f.sha
    /\ r.proto = "IP" => r.ip_src = my_ip /\ f.ip_dst = my_ip /\ r.ip_dst = f.ip_src

(* The frames of a network that truncates none: what carries a protocol of     *)
(* this stack, and is let through by ip_recv(), holds what its total length   *)
(* announces, type and checksum of a message at least, between the Ethernet   *)
(* header and the CRC.  ip_recv() itself does not ask for that: it compares   *)
(* the length of the whole frame.                                             *)
WholeFrames ==
  \A f \in Frame :
    f.proto = "IP" /\ f.p # "OTHER" /\ ip_len_ok(f.pkt_len, f.tot_len) =>
      /\ f.tot_len >= 24 /\ 20 + Len(f.msg) >= f.tot_len
      /\ f.pkt_len >= 14 + f.tot_len + 4

(* An echo reply, written over the request, returns its data with a checksum  *)
(* that the other side's in_checksum() accepts, and its frame is still long   *)
(* enough for it.                                                             *)
EchoReplyValid ==
  \A f \in Frame : \A r \in recv_pkt_handler(f).sent :
    r.proto = "IP" => /\ r.msg[1] = ICMP_ECHO_REPLY /\ in_checksum(r.msg) = 0
                      /\ SubSeq(r.msg, 5, Len(r.msg)) = SubSeq(f.msg, 5, f.tot_len - 20)
                      /\ r.pkt_len >= 14 + r.tot_len

(* From the end of network_init() until dhcp() takes the IP handler away, an  *)
(* echo request for this host is answered, however the tables were filled     *)
(* and whatever arrived meanwhile.  It must not be 256 bytes long or a        *)
(* multiple of it: LengthTests.                                               *)
EchoForUs(f) ==
  /\ f.proto = "IP" /\ eth_type_proto(f) # "OTHERHOST" /\ f.hdr
  /\ f.pkt_len >= f.tot_len /\ f.tot_len \in 28 .. 1500 /\ f.tot_len % 256 # 0
  /\ f.p = "ICMP" /\ f.msg[1] = ICMP_ECHO_REQ /\ in_checksum(icmp_msg(f)) = 0
  /\ f.ip_dst = my_ip /\ my_ip # NONE
EchoAnswered ==
  pc = "idle" /\ ~cut =>
    \A f \in Frame : EchoForUs(f) => recv_pkt_handler(f).sent # {}
=============================================================================
