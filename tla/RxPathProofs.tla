---------------------------- MODULE RxPathProofs ----------------------------
(***************************************************************************)
(* Proofs about RxPath, for every set of stations, addresses and frames.   *)
(***************************************************************************)
EXTENDS RxPath, InetProofs, SequenceTheorems, FiniteSetTheorems

(* A frame is one of three kinds, told apart by its type field. *)
LEMMA FrameKinds ==
  ASSUME NEW f \in Frame
  PROVE  /\ f \in ArpFrame \cup IpFrame \cup OtherFrame
         /\ f.proto = "ARP" => f \in ArpFrame
         /\ f.proto = "IP" => f \in IpFrame
         /\ f.src \in Mac
  BY RxAssumption DEF ArpFrame, IpFrame, OtherFrame

-----------------------------------------------------------------------------
(* What recv_pkt_handler() can make of a frame, with the reason for it: the  *)
(* buffer is freed at most once; or it becomes an ARP reply, or an entry of  *)
(* the table and is freed; or it becomes an echo reply.                      *)
Frees(out) == \E n \in {0, 1}, r \in Rets : out = Free(n, r)

ArpAnswers(f, out) ==
  /\ f.proto = "ARP" /\ ~ArpIgnored(f) /\ f.oper = "REQ"
  /\ eth_type_proto(f) # "OTHERHOST" /\ out = Xmit(arp_reply(f), "SUCCESS")

ArpLearns(f, out) ==
  /\ f.proto = "ARP" /\ ~ArpIgnored(f) /\ f.oper = "REPLY"
  /\ out = [Free(1, "SUCCESS") EXCEPT !.tbl = arp_tbl_set(f.spa, f.sha)]

EchoAnswers(f, out) ==
  /\ f.proto = "IP" /\ f.ip_dst = my_ip /\ eth_type_proto(f) # "OTHERHOST"
  /\ f.p # "OTHER" /\ ip_len_ok(f.pkt_len, f.tot_len)
  /\ out = Xmit(echo_reply(f), "SUCCESS")

(* The ways through arp_recv() and arp_proc(). *)
LEMMA ArpOutcomes ==
  ASSUME NEW f \in Frame, f.proto = "ARP"
  PROVE  \/ Frees(arp_recv(f, eth_type_proto(f)))
         \/ ArpAnswers(f, arp_recv(f, eth_type_proto(f)))
         \/ ArpLearns(f, arp_recv(f, eth_type_proto(f)))
<1>1. f.oper \in {"REQ", "REPLY", "OTHER"}
  BY FrameKinds DEF ArpFrame
<1>2. CASE eth_type_proto(f) = "OTHERHOST"
  BY <1>2 DEF arp_recv, Frees, Rets
<1>3. CASE eth_type_proto(f) # "OTHERHOST" /\ ~f.lens
  <2>1. arp_recv(f, eth_type_proto(f)) = Free(1, "DROP")
    BY <1>3 DEF arp_recv
  <2> QED
    BY <2>1 DEF Frees, Rets
<1>4. CASE eth_type_proto(f) # "OTHERHOST" /\ f.lens
  <2>1. arp_recv(f, eth_type_proto(f)) = arp_proc(f)
    BY <1>4 DEF arp_recv
  <2>2. CASE ArpIgnored(f)
    BY <2>1, <2>2 DEF arp_proc, Frees, Rets
  <2>3. CASE ~ArpIgnored(f) /\ f.oper = "REQ"
    BY <1>4, <2>1, <2>3 DEF arp_proc, ArpAnswers
  <2>4. CASE ~ArpIgnored(f) /\ f.oper # "REQ"
    <3>1. f.oper = "REPLY"
      BY <1>1, <2>4 DEF ArpIgnored
    <3>2. arp_proc(f) = [Free(1, "SUCCESS") EXCEPT !.tbl = arp_tbl_set(f.spa, f.sha)]
      BY <2>4 DEF arp_proc
    <3> QED
      BY <2>1, <2>4, <3>1, <3>2 DEF ArpLearns
  <2> QED
    BY <2>2, <2>3, <2>4
<1> QED
  BY <1>2, <1>3, <1>4

(* The ways through icmp_recv() and icmp_echo(): what icmp_recv() does with  *)
(* the buffer depends on the bool that icmp_echo() returned.                 *)
LEMMA IcmpOutcomes ==
  ASSUME NEW f
  PROVE  \/ icmp_recv(f) \in {Free(1, "DROP"), Free(0, "SUCCESS")}
         \/ f.ip_dst = my_ip /\ icmp_recv(f) = Xmit(echo_reply(f), "SUCCESS")
<1>1. PICK h \in {[ret |-> FALSE, sent |-> {}], icmp_echo(f)} :
        icmp_recv(f) = [(IF h.ret THEN Free(0, "SUCCESS") ELSE Free(1, "DROP"))
                          EXCEPT !.sent = h.sent]
  BY DEF icmp_recv
<1>2. \/ h = [ret |-> FALSE, sent |-> {}] \/ h = [ret |-> TRUE, sent |-> {}]
      \/ f.ip_dst = my_ip /\ h = [ret |-> TRUE, sent |-> {echo_reply(f)}]
  BY <1>1 DEF icmp_echo, NETDEV_RX_DROP
<1>3. CASE h = [ret |-> FALSE, sent |-> {}]
  BY <1>1, <1>3 DEF Free
<1>4. CASE h = [ret |-> TRUE, sent |-> {}]
  BY <1>1, <1>4 DEF Free
<1>5. CASE f.ip_dst = my_ip /\ h = [ret |-> TRUE, sent |-> {echo_reply(f)}]
  BY <1>1, <1>5 DEF Free, Xmit
<1> QED
  BY <1>2, <1>3, <1>4, <1>5

(* The ways through ip_recv(). *)
LEMMA IpOutcomes ==
  ASSUME NEW f \in Frame, f.proto = "IP"
  PROVE  \/ Frees(ip_recv(f, eth_type_proto(f)))
         \/ EchoAnswers(f, ip_recv(f, eth_type_proto(f)))
<1>1. Frees(Free(1, "DROP")) /\ Frees(Free(0, "SUCCESS"))
  BY DEF Frees, Rets
<1>2. CASE eth_type_proto(f) = "OTHERHOST" \/ ~f.hdr \/ ~ip_len_ok(f.pkt_len, f.tot_len)
  BY <1>1, <1>2 DEF ip_recv
<1>3. CASE ~(eth_type_proto(f) = "OTHERHOST" \/ ~f.hdr \/ ~ip_len_ok(f.pkt_len, f.tot_len))
  <2>1. ip_recv(f, eth_type_proto(f)) = ip_proto_handler(f)
    BY <1>3 DEF ip_recv
  <2>2. \/ ip_proto_handler(f) = Free(1, "DROP")
        \/ f.p # "OTHER" /\ ip_proto_handler(f) = icmp_recv(f)
    BY DEF ip_proto_handler
  <2>3. \/ icmp_recv(f) \in {Free(1, "DROP"), Free(0, "SUCCESS")}
        \/ f.ip_dst = my_ip /\ icmp_recv(f) = Xmit(echo_reply(f), "SUCCESS")
    BY IcmpOutcomes
  <2> QED
    BY <1>1, <1>3, <2>1, <2>2, <2>3 DEF EchoAnswers
<1> QED
  BY <1>2, <1>3

(* The ways through recv_pkt_handler(), whatever handlers are registered. *)
LEMMA Outcomes ==
  ASSUME NEW f \in Frame
  PROVE  LET out == recv_pkt_handler(f) IN
           Frees(out) \/ ArpAnswers(f, out) \/ ArpLearns(f, out) \/ EchoAnswers(f, out)
<1>1. Frees(Free(1, "DROP")) /\ Frees(Free(1, "SUCCESS"))
  BY DEF Frees, Rets
<1>2. CASE f.proto = "IP" /\ eth["IP"] = "ip_recv"
  <2>1. recv_pkt_handler(f) = ip_recv(f, eth_type_proto(f))
    BY <1>2 DEF recv_pkt_handler
  <2> QED
    BY <1>2, <2>1, IpOutcomes
<1>3. CASE f.proto = "IP" /\ eth["IP"] = "dhcp_recv"
  <2>1. recv_pkt_handler(f) = Free(1, "SUCCESS")
    BY <1>3 DEF recv_pkt_handler, dhcp_recv
  <2> QED
    BY <1>1, <2>1
<1>4. CASE f.proto = "ARP" /\ eth["ARP"] = "arp_recv"
  <2>1. recv_pkt_handler(f) = arp_recv(f, eth_type_proto(f))
    BY <1>4 DEF recv_pkt_handler
  <2> QED
    BY <1>4, <2>1, ArpOutcomes
<1>5. CASE ~(f.proto = "IP" /\ eth["IP"] \in {"ip_recv", "dhcp_recv"})
           /\ ~(f.proto = "ARP" /\ eth["ARP"] = "arp_recv")
  <2>1. recv_pkt_handler(f) = Free(1, "DROP")
    BY <1>5 DEF recv_pkt_handler
  <2> QED
    BY <1>1, <2>1
<1> QED
  BY <1>2, <1>3, <1>4, <1>5

(* The value returned to the driver, and the table after a frame. *)
LEMMA OutcomeTable ==
  ASSUME NEW f \in Frame
  PROVE  /\ recv_pkt_handler(f).ret \in Rets
         /\ arp_tbl \in [ip : Ip \cup {ZERO}, mac : Mac \cup {ZERO}] =>
              recv_pkt_handler(f).tbl \in [ip : Ip \cup {ZERO}, mac : Mac \cup {ZERO}]
<1> DEFINE Tables == [ip : Ip \cup {ZERO}, mac : Mac \cup {ZERO}]
<1> SUFFICES ASSUME NEW out, out = recv_pkt_handler(f)
             PROVE  out.ret \in Rets /\ (arp_tbl \in Tables => out.tbl \in Tables)
  OBVIOUS
<1>1. Frees(out) \/ ArpAnswers(f, out) \/ ArpLearns(f, out) \/ EchoAnswers(f, out)
  BY Outcomes
<1>2. CASE Frees(out)
  BY <1>2 DEF Frees, Free
<1>3. CASE ArpAnswers(f, out) \/ EchoAnswers(f, out)
  BY <1>3 DEF ArpAnswers, EchoAnswers, Xmit, Rets
<1>4. CASE ArpLearns(f, out)
  <2>1. out.ret = "SUCCESS" /\ out.tbl = arp_tbl_set(f.spa, f.sha)
    BY <1>4 DEF ArpLearns, Free
  <2>2. f.spa \in Ip /\ f.sha \in Mac
    BY <1>4, FrameKinds DEF ArpLearns, ArpFrame
  <2> QED
    BY <2>1, <2>2 DEF arp_tbl_set, Rets
<1> QED
  BY <1>1, <1>2, <1>3, <1>4

-----------------------------------------------------------------------------
(* How far the main thread has come tells which handlers are installed; an   *)
(* empty ARP entry is how Return tells that network_init() has not run.      *)
TablesInv ==
  /\ pc \in {"start", "arp_add"} => eth["ARP"] = "NULL"
  /\ pc \in {"icmp", "tcp", "udp", "ip_add", "idle"} => eth["ARP"] = "arp_recv"
  /\ pc \in {"tcp", "udp", "ip_add", "idle"} => ops["ICMP"] = "icmp_recv"
  /\ pc \in {"auto", "dhcp"} /\ eth["ARP"] # "NULL" => ops["ICMP"] = "icmp_recv"
  /\ pc = "dhcp" => cut
  /\ pc \in {"idle", "auto"} /\ eth["ARP"] # "NULL" /\ ~cut => eth["IP"] = "ip_recv"

(* The types of the variables alone; the rest of TypeOK follows from the     *)
(* handlers' definitions in every state.                                     *)
VarTypes ==
  /\ pc \in Steps
  /\ eth \in [{"IP", "ARP"} -> {"NULL", "ip_recv", "arp_recv", "dhcp_recv"}]
  /\ eth["ARP"] \in {"NULL", "arp_recv"}
  /\ ops \in [{"ICMP", "TCP", "UDP"} -> {"NULL", "icmp_recv"}]
  /\ my_ip \in (Ip \ Multicast) \cup {NONE}
  /\ arp_tbl \in [ip : Ip \cup {ZERO}, mac : Mac \cup {ZERO}]
  /\ cut \in BOOLEAN /\ nconf \in 0 .. MaxConfig

RxInv == VarTypes /\ TablesInv

(* Registering handlers, configuring and receiving keep RxInv. *)
LEMMA RxStep ==
  ASSUME RxInv, [Next]_vars
  PROVE  RxInv'
<1> USE DEF RxInv, VarTypes, TablesInv, Steps, tables
<1>1. CASE arp_init
  <2>1. arp_tbl' \in {arp_tbl, [ip |-> ZERO, mac |-> ZERO]}
    BY <1>1 DEF arp_init
  <2>2. arp_tbl' \in [ip : Ip \cup {ZERO}, mac : Mac \cup {ZERO}]
    BY <2>1
  <2> QED
    BY <1>1, <2>2 DEF arp_init, pkt_hdlr_add
<1>2. CASE ip_init
  <2>1. cut' \in BOOLEAN
    BY <1>2 DEF ip_init
  <2> QED
    BY <1>2, <2>1 DEF ip_init, pkt_hdlr_add, ip_proto_handler_add
<1>3. CASE auto_return \/ dhcp_begin \/ dhcp_end
  BY <1>3 DEF auto_return, dhcp_begin, dhcp_end, Return, pkt_hdlr_add, pkt_hdlr_del
<1>4. ASSUME NEW a \in {my_ip, NONE} \cup (Ip \ Multicast), ip_config(a)
      PROVE  RxInv'
  BY <1>4, RxAssumption DEF ip_config
<1>5. ASSUME NEW f \in Frame, Receive(f)
      PROVE  RxInv'
  <2>1. UNCHANGED <<pc, eth, ops, cut, nconf>> /\ arp_tbl' = recv_pkt_handler(f).tbl
    BY <1>5 DEF Receive
  <2>2. my_ip' \in (Ip \ Multicast) \cup {NONE}
    BY <1>5 DEF Receive
  <2>3. arp_tbl' \in [ip : Ip \cup {ZERO}, mac : Mac \cup {ZERO}]
    BY <2>1, OutcomeTable
  <2> QED
    BY <2>1, <2>2, <2>3
<1>6. CASE UNCHANGED vars
  BY <1>6 DEF vars
<1> QED
  BY <1>1, <1>2, <1>3, <1>4, <1>5, <1>6 DEF Next

(* RxInv holds in every reachable state. *)
LEMMA RxInvariant == Spec => []RxInv
<1>1. Init => RxInv
  <2> SUFFICES ASSUME Init PROVE RxInv
    OBVIOUS
  <2>1. VarTypes
    <3>1. nconf = 0 /\ 0 \in 0 .. MaxConfig
      BY RxAssumption DEF Init
    <3>2. cut \in BOOLEAN
      BY Zenon DEF Init
    <3>3. /\ eth \in [{"IP", "ARP"} -> {"NULL", "ip_recv", "arp_recv", "dhcp_recv"}]
          /\ eth["ARP"] = "NULL" /\ ops \in [{"ICMP", "TCP", "UDP"} -> {"NULL", "icmp_recv"}]
      BY DEF Init
    <3>4. arp_tbl \in [ip : Ip \cup {ZERO}, mac : Mac \cup {ZERO}]
      BY DEF Init
    <3> QED
      BY <3>1, <3>2, <3>3, <3>4 DEF Init, VarTypes, Steps
  <2>2. TablesInv
    BY DEF Init, TablesInv
  <2> QED
    BY <2>1, <2>2 DEF RxInv
<1>2. RxInv /\ [Next]_vars => RxInv'
  BY RxStep
<1> QED
  BY <1>1, <1>2, PTL DEF Spec

(* Types, and with them: in every reachable state every frame goes to a      *)
(* handler that is there, or is dropped.                                     *)
THEOREM RxTypes == Spec => []TypeOK
<1>1. RxInv => TypeOK
  <2> SUFFICES ASSUME RxInv PROVE TypeOK
    OBVIOUS
  <2>1. \A f \in Frame : recv_pkt_handler(f).ret \in Rets
    BY OutcomeTable
  <2> QED
    BY <2>1, RxAssumption DEF RxInv, VarTypes, TypeOK
<1> QED
  BY <1>1, RxInvariant, PTL

-----------------------------------------------------------------------------
(* No path through the handlers frees a buffer twice, or frees one that it   *)
(* has handed over as a reply.                                               *)
THEOREM DisposalTheorem == Spec => []DisposedAtMostOnce
<1>1. DisposedAtMostOnce
  <2> SUFFICES ASSUME NEW f \in Frame, NEW out, out = recv_pkt_handler(f)
               PROVE  out.freed + Cardinality(out.sent) <= 1
    BY DEF DisposedAtMostOnce, Disposals
  <2>1. Frees(out) \/ ArpAnswers(f, out) \/ ArpLearns(f, out) \/ EchoAnswers(f, out)
    BY Outcomes
  <2>2. \/ out.freed \in {0, 1} /\ out.sent = {}
        \/ out.freed = 0 /\ \E r : out.sent = {r}
    <3>1. CASE Frees(out)
      BY <3>1 DEF Frees, Free
    <3>2. CASE ArpLearns(f, out)
      BY <3>2 DEF ArpLearns, Free
    <3>3. CASE ArpAnswers(f, out) \/ EchoAnswers(f, out)
      <4>1. \E reply : out = Xmit(reply, "SUCCESS")
        BY <3>3 DEF ArpAnswers, EchoAnswers
      <4> QED
        BY <4>1 DEF Xmit
    <3> QED
      BY <2>1, <3>1, <3>2, <3>3
  <2>3. Cardinality({}) = 0 /\ \A r : Cardinality({r}) = 1
    BY FS_EmptySet, FS_Singleton
  <2>4. CASE out.freed \in {0, 1} /\ out.sent = {}
    BY <2>3, <2>4
  <2>5. CASE out.freed = 0 /\ \E r : out.sent = {r}
    <3>1. PICK r : out.sent = {r}
      BY <2>5
    <3>2. Cardinality(out.sent) = 1
      BY <2>3, <3>1, Zenon
    <3> QED
      BY <2>5, <3>2
  <2> QED
    BY <2>2, <2>4, <2>5
<1> QED
  BY <1>1, PTL

-----------------------------------------------------------------------------
(* The address fields of the two replies, which overwrite those of the       *)
(* request one after the other.                                              *)
LEMMA ArpReplyFields ==
  ASSUME NEW f \in Frame, f.proto = "ARP"
  PROVE  LET r == arp_reply(f) IN
           /\ r.proto = "ARP" /\ r.dest = f.src /\ r.src = Me /\ r.sha = Me
           /\ r.spa = my_ip /\ r.tpa = f.spa /\ r.tha = f.sha
<1> DEFINE oper == [f EXCEPT !.oper = "REPLY"]
           target == memcpy(memcpy(oper, "tha", "sha"), "tpa", "spa")
           sender == [target EXCEPT !.sha = Me, !.spa = my_ip]
           reply == [memcpy(sender, "dest", "src") EXCEPT !.src = Me]
<1>1. f \in ArpFrame
  BY FrameKinds
<1>2. /\ DOMAIN target = DOMAIN f /\ target.proto = f.proto /\ target.src = f.src
      /\ target.tha = f.sha /\ target.tpa = f.spa
  BY <1>1 DEF memcpy, ArpFrame
<1> HIDE DEF target
<1>3. /\ DOMAIN sender = DOMAIN f /\ sender.proto = f.proto /\ sender.src = f.src
      /\ sender.tha = f.sha /\ sender.tpa = f.spa /\ sender.sha = Me /\ sender.spa = my_ip
  BY <1>1, <1>2 DEF ArpFrame
<1> HIDE DEF sender
<1>4. /\ reply.proto = f.proto /\ reply.dest = f.src /\ reply.src = Me
      /\ reply.tha = f.sha /\ reply.tpa = f.spa /\ reply.sha = Me /\ reply.spa = my_ip
  BY <1>1, <1>3 DEF memcpy, ArpFrame
<1>5. arp_reply(f) = reply
  BY Zenon DEF arp_reply, target, sender
<1> HIDE DEF reply
<1> QED
  BY <1>4, <1>5

(* The addresses, the message and the lengths of an echo reply. *)
LEMMA EchoReplyFields ==
  ASSUME NEW f \in Frame, f.proto = "IP"
  PROVE  LET r == echo_reply(f) IN
           /\ r.proto = "IP" /\ r.dest = f.src /\ r.src = Me
           /\ r.ip_src = my_ip /\ r.ip_dst = f.ip_src
           /\ r.msg = EchoMsg(f) /\ r.tot_len = f.tot_len /\ r.pkt_len = f.pkt_len - 4
<1> DEFINE eth_hdr == [memcpy(f, "dest", "src") EXCEPT !.src = Me]
           ip_hdr == [memcpy(eth_hdr, "ip_dst", "ip_src") EXCEPT !.ip_src = my_ip]
           reply == [ip_hdr EXCEPT !.msg = EchoMsg(f), !.pkt_len = f.pkt_len - 4]
<1>1. f \in IpFrame
  BY FrameKinds
<1>2. /\ DOMAIN eth_hdr = DOMAIN f /\ eth_hdr.proto = f.proto /\ eth_hdr.dest = f.src
      /\ eth_hdr.src = Me /\ eth_hdr.ip_src = f.ip_src /\ eth_hdr.tot_len = f.tot_len
  BY <1>1 DEF memcpy, IpFrame
<1> HIDE DEF eth_hdr
<1>3. /\ DOMAIN ip_hdr = DOMAIN f /\ ip_hdr.proto = f.proto /\ ip_hdr.dest = f.src
      /\ ip_hdr.src = Me /\ ip_hdr.ip_src = my_ip /\ ip_hdr.ip_dst = f.ip_src
      /\ ip_hdr.tot_len = f.tot_len
  BY <1>1, <1>2 DEF memcpy, IpFrame
<1> HIDE DEF ip_hdr
<1>4. /\ reply.proto = f.proto /\ reply.dest = f.src /\ reply.src = Me
      /\ reply.ip_src = my_ip /\ reply.ip_dst = f.ip_src /\ reply.tot_len = f.tot_len
      /\ reply.msg = EchoMsg(f) /\ reply.pkt_len = f.pkt_len - 4
  BY <1>1, <1>3 DEF IpFrame
<1>5. echo_reply(f) = reply
  BY Zenon DEF echo_reply, eth_hdr, ip_hdr
<1> HIDE DEF reply
<1> QED
  BY <1>4, <1>5

(* Whatever arrives, and whatever address dhcp() has put in place at that    *)
(* moment, a reply goes back to who asked for this host and speaks for the   *)
(* address the host then has.                                                *)
THEOREM RepliesTheorem == Spec => []RepliesTruthful
<1>1. RepliesTruthful
  <2> SUFFICES ASSUME NEW f \in Frame, NEW out, out = recv_pkt_handler(f),
                      NEW r \in out.sent
               PROVE  /\ r.dest = f.src /\ r.src = Me /\ eth_type_proto(f) # "OTHERHOST"
                      /\ r.proto = "ARP" =>
                           /\ r.spa = my_ip /\ f.tpa = my_ip /\ r.sha = Me
                           /\ r.tpa = f.spa /\ r.tha = f.sha
                      /\ r.proto = "IP" =>
                           r.ip_src = my_ip /\ f.ip_dst = my_ip /\ r.ip_dst = f.ip_src
    BY DEF RepliesTruthful
  <2>1. Frees(out) \/ ArpAnswers(f, out) \/ ArpLearns(f, out) \/ EchoAnswers(f, out)
    BY Outcomes
  <2>2. CASE Frees(out) \/ ArpLearns(f, out)
    <3>1. out.sent = {}
      BY <2>2 DEF Frees, ArpLearns, Free
    <3> QED
      BY <3>1
  <2>3. CASE ArpAnswers(f, out)
    <3>1. r = arp_reply(f) /\ f.proto = "ARP" /\ eth_type_proto(f) # "OTHERHOST"
          /\ f.tpa = my_ip
      BY <2>3 DEF ArpAnswers, ArpIgnored, Xmit
    <3> QED
      BY <3>1, ArpReplyFields
  <2>4. CASE EchoAnswers(f, out)
    <3>1. r = echo_reply(f) /\ f.proto = "IP" /\ eth_type_proto(f) # "OTHERHOST"
          /\ f.ip_dst = my_ip
      BY <2>4 DEF EchoAnswers, Xmit
    <3> QED
      BY <3>1, EchoReplyFields
  <2> QED
    BY <2>1, <2>2, <2>3, <2>4
<1> QED
  BY <1>1, PTL

-----------------------------------------------------------------------------
(* The length test passes every datagram that the frame holds and that is    *)
(* not a multiple of 256 bytes long.                                         *)
LEMMA LengthPasses ==
  ASSUME NEW p \in Nat, NEW t \in Nat, p >= t, t % 256 # 0
  PROVE  ip_len_ok(p, t)
<1>1. t % 256 \in 1 .. 255 /\ t \div 256 \in Nat
  OBVIOUS
<1> QED
  BY <1>1 DEF ip_len_ok, htons

(* Once network_init() is done and until dhcp() takes the handler away, an   *)
(* echo request for this host is answered, in every state that calls of      *)
(* ip_config() before and after, and frames at any moment, can lead to.      *)
THEOREM EchoTheorem == Spec => []EchoAnswered
<1>1. RxInv => EchoAnswered
  <2> SUFFICES ASSUME RxInv, pc = "idle", ~cut, NEW f \in Frame, EchoForUs(f)
               PROVE  recv_pkt_handler(f).sent # {}
    BY DEF EchoAnswered
  <2>1. eth["IP"] = "ip_recv" /\ ops["ICMP"] = "icmp_recv"
    BY DEF RxInv, TablesInv
  <2>2. my_ip \in Ip \ Multicast /\ f.ip_dst \notin Multicast \cup {NONE}
    BY RxAssumption DEF RxInv, VarTypes, EchoForUs
  <2>3. f \in IpFrame
    BY FrameKinds DEF EchoForUs
  <2>4. ip_len_ok(f.pkt_len, f.tot_len)
    BY <2>3, LengthPasses DEF EchoForUs, IpFrame
  <2>5. recv_pkt_handler(f) = ip_recv(f, eth_type_proto(f))
    BY <2>1 DEF recv_pkt_handler, EchoForUs
  <2>6. ip_recv(f, eth_type_proto(f)) = ip_proto_handler(f)
    BY <2>4 DEF ip_recv, EchoForUs
  <2>7. ip_proto_handler(f) = icmp_recv(f)
    BY <2>1 DEF ip_proto_handler, EchoForUs
  <2>8. icmp_echo(f) = [ret |-> TRUE, sent |-> {echo_reply(f)}]
    BY DEF icmp_echo, EchoForUs
  <2>9. icmp_recv(f).sent = icmp_echo(f).sent
    BY <2>2, <2>8 DEF icmp_recv, EchoForUs, ICMP_ECHO_REQ, Free
  <2> QED
    BY <2>5, <2>6, <2>7, <2>8, <2>9
<1> QED
  BY <1>1, RxInvariant, PTL

-----------------------------------------------------------------------------
(* The message of the reply: that of the request with another type and a new  *)
(* checksum.                                                                  *)
LEMMA EchoMsgIs ==
  ASSUME NEW f \in IpFrame, f.tot_len >= 24, 20 + Len(f.msg) >= f.tot_len
  PROVE  LET n == f.tot_len - 20 IN
           /\ EchoMsg(f) \in Seq(Byte) /\ Len(EchoMsg(f)) = n
           /\ EchoMsg(f)[1] = ICMP_ECHO_REPLY /\ in_checksum(EchoMsg(f)) = 0
           /\ \A i \in 5 .. n : EchoMsg(f)[i] = f.msg[i]
<1> DEFINE n == f.tot_len - 20
           m == icmp_msg(f)
           c == [m EXCEPT ![1] = ICMP_ECHO_REPLY]
           g == ChecksumFilled(c)
<1>1. f.msg \in Seq(Byte) /\ n \in Nat /\ n >= 4 /\ n <= Len(f.msg)
  BY DEF IpFrame
<1> HIDE DEF n
<1>2. \A i \in 1 .. n : f.msg[i] \in Byte
  BY <1>1
<1>3. /\ m \in Seq(Byte) /\ Len(m) = n
      /\ \A i \in 1 .. n : m[i] = f.msg[i]
  <2>1. m = SubSeq(f.msg, 1, n)
    BY DEF icmp_msg, n
  <2>2. /\ m \in Seq(Byte) /\ Len(m) = IF 1 <= n THEN (n - 1) + 1 ELSE 0
        /\ \A i \in 1 .. (n - 1) + 1 : m[i] = f.msg[(1 + i) - 1]
    BY <1>1, <1>2, <2>1, SubSeqProperties
  <2> HIDE DEF m
  <2> QED
    BY <1>1, <2>2
<1> HIDE DEF m
<1>4. /\ c \in Seq(Byte) /\ Len(c) = n /\ c[1] = ICMP_ECHO_REPLY
      /\ \A i \in 5 .. n : c[i] = m[i]
  <2>1. ICMP_ECHO_REPLY \in Byte
    BY ByteIs DEF ICMP_ECHO_REPLY
  <2> QED
    BY <1>1, <1>3, <2>1
<1> HIDE DEF c
<1>5. /\ g \in Seq(Byte) /\ Len(g) = n /\ in_checksum(g) = 0
      /\ \A i \in 1 .. n : i # 3 /\ i # 4 => g[i] = c[i]
  BY <1>1, <1>4, FilledVerifies
<1>6. EchoMsg(f) = g
  BY DEF EchoMsg, g, c, m
<1> HIDE DEF g
<1>7. g[1] = ICMP_ECHO_REPLY
  BY <1>1, <1>4, <1>5
<1>8. \A i \in 5 .. n : g[i] = f.msg[i]
  BY <1>1, <1>3, <1>4, <1>5
<1> QED
  BY <1>5, <1>6, <1>7, <1>8 DEF n

(* Its data, from the fifth byte on. *)
LEMMA EchoData ==
  ASSUME NEW f \in IpFrame, f.tot_len >= 24, 20 + Len(f.msg) >= f.tot_len
  PROVE  SubSeq(EchoMsg(f), 5, Len(EchoMsg(f))) = SubSeq(f.msg, 5, f.tot_len - 20)
<1> DEFINE n == f.tot_len - 20
           g == EchoMsg(f)
           s == SubSeq(g, 5, n)
           t == SubSeq(f.msg, 5, n)
<1>1. f.msg \in Seq(Byte) /\ n \in Nat /\ n >= 4 /\ n <= Len(f.msg)
  BY DEF IpFrame
<1>2. g \in Seq(Byte) /\ Len(g) = n /\ \A i \in 5 .. n : g[i] = f.msg[i]
  BY EchoMsgIs
<1> HIDE DEF n, g
<1>3. \A i \in 5 .. n : g[i] \in Byte /\ f.msg[i] \in Byte
  BY <1>1, <1>2
<1>4. /\ s \in Seq(Byte) /\ Len(s) = IF 5 <= n THEN (n - 5) + 1 ELSE 0
      /\ \A i \in 1 .. (n - 5) + 1 : s[i] = g[(5 + i) - 1]
  BY <1>1, <1>3, SubSeqProperties
<1>5. /\ t \in Seq(Byte) /\ Len(t) = IF 5 <= n THEN (n - 5) + 1 ELSE 0
      /\ \A i \in 1 .. (n - 5) + 1 : t[i] = f.msg[(5 + i) - 1]
  BY <1>1, <1>3, SubSeqProperties
<1> HIDE DEF s, t
<1>6. Len(s) = Len(t) /\ \A i \in 1 .. Len(s) : s[i] = t[i]
  BY <1>1, <1>2, <1>4, <1>5
<1>7. s = t
  BY <1>4, <1>5, <1>6, SeqEqual
<1> QED
  BY <1>2, <1>7 DEF s, t, g, n

(* Where the network truncates no frame, every echo reply that leaves the     *)
(* host answers with the data it was sent, carries a checksum that verifies   *)
(* and lies within its frame, for messages of every length.                   *)
THEOREM EchoReplyTheorem == WholeFrames => (Spec => []EchoReplyValid)
<1>1. WholeFrames => EchoReplyValid
  <2> SUFFICES ASSUME WholeFrames, NEW f \in Frame, NEW out, out = recv_pkt_handler(f),
                      NEW r \in out.sent, r.proto = "IP"
               PROVE  /\ r.msg[1] = ICMP_ECHO_REPLY /\ in_checksum(r.msg) = 0
                      /\ SubSeq(r.msg, 5, Len(r.msg)) = SubSeq(f.msg, 5, f.tot_len - 20)
                      /\ r.pkt_len >= 14 + r.tot_len
    BY DEF EchoReplyValid
  <2>1. Frees(out) \/ ArpAnswers(f, out) \/ ArpLearns(f, out) \/ EchoAnswers(f, out)
    BY Outcomes
  <2>2. CASE Frees(out) \/ ArpLearns(f, out)
    <3>1. out.sent = {}
      BY <2>2 DEF Frees, ArpLearns, Free
    <3> QED
      BY <3>1
  <2>3. CASE ArpAnswers(f, out)
    <3>1. r = arp_reply(f) /\ f.proto = "ARP"
      BY <2>3 DEF ArpAnswers, Xmit
    <3> QED
      BY <3>1, ArpReplyFields
  <2>4. CASE EchoAnswers(f, out)
    <3>1. /\ r = echo_reply(f) /\ f.proto = "IP" /\ f.p # "OTHER"
          /\ ip_len_ok(f.pkt_len, f.tot_len)
      BY <2>4 DEF EchoAnswers, Xmit
    <3>2. f \in IpFrame
      BY <3>1, FrameKinds
    <3>3. /\ f.tot_len >= 24 /\ 20 + Len(f.msg) >= f.tot_len
          /\ f.pkt_len >= 14 + f.tot_len + 4
      BY <3>1 DEF WholeFrames
    <3>4. r.msg = EchoMsg(f) /\ r.tot_len = f.tot_len /\ r.pkt_len = f.pkt_len - 4
      BY <3>1, EchoReplyFields
    <3>5. r.pkt_len >= 14 + r.tot_len
      BY <3>2, <3>3, <3>4 DEF IpFrame
    <3>6. EchoMsg(f)[1] = ICMP_ECHO_REPLY /\ in_checksum(EchoMsg(f)) = 0
      BY <3>2, <3>3, EchoMsgIs
    <3>7. SubSeq(EchoMsg(f), 5, Len(EchoMsg(f))) = SubSeq(f.msg, 5, f.tot_len - 20)
      BY <3>2, <3>3, EchoData
    <3> QED
      BY <3>4, <3>5, <3>6, <3>7
  <2> QED
    BY <2>1, <2>2, <2>3, <2>4
<1>2. ASSUME WholeFrames PROVE Spec => []EchoReplyValid
  <2>1. EchoReplyValid
    BY <1>1, <1>2
  <2> QED
    BY <2>1, PTL
<1> QED
  BY <1>2
=============================================================================
