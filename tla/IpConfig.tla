------------------------------- MODULE IpConfig -------------------------------
(***************************************************************************)
(* Autoconfiguration of the IPv4 address: src/src/net/ipconfig.c with the  *)
(* parts of net_dev.c, pkt_hdlr.c and af_inet.c it calls.                  *)
(*                                                                         *)
(* Two threads of control share the module's globals.  The main thread     *)
(* runs ip_config() -> ip_auto_config() -> dhcp(); pc says where it is.    *)
(* The receive interrupt runs dhcp_recv() to completion between any two    *)
(* steps of the main thread.  A step of the main thread ends where it has  *)
(* read or written something the interrupt can write or read.              *)
(*                                                                         *)
(* DHCP and BOOTP servers and the wire are the environment: requests and   *)
(* replies in flight are sets, so they are delivered in any order, late or *)
(* never, and more than once when Dup holds.                               *)
(***************************************************************************)
EXTENDS Naturals

CONSTANTS
  Server,      \* servers (their addresses)
  Addr,        \* host addresses, without INADDR_NONE
  Val,         \* values of the mask, router and name server options
  XID,         \* transaction identifiers rand() may produce
  NONE,        \* INADDR_NONE
  NULL,        \* an argument of ip_config() that is not given
  Pool,        \* Pool[s]: the addresses s hands out
  Opts,        \* Opts[s][k]: option k in replies of s, NONE when left out
  SrvIdOpt,    \* SrvIdOpt[s]: the server identifier option of s, or NONE
  Relay,       \* Relay[s]: giaddr in replies of s, NONE for zero
  Reserved,    \* addresses of class D and E
  ClassMask,   \* ClassMask[a]: the mask inet_class_determine() finds
  CallIps,     \* values of the first argument of ip_config()
  CallCfgs,    \* values of the other arguments of ip_config()
  ReplyKinds,  \* ReplyKinds[s]: kinds of reply s sends
  StrayXids,   \* xids other clients may be using
  Dup,         \* whether the network duplicates frames
  Timely,      \* whether the network answers before a timeout unless it loses a frame
  MaxRetries,  \* 6 in dhcp()
  MaxCalls,    \* bound: calls of ip_config()
  MaxLosses    \* bound: faults of a timely environment

VARIABLES
  pc, retries,             \* main thread: where it is, the local of dhcp()
  msg_type, srv_id,        \* main thread: what dhcp_options_init() has written
  my_ip, serv_addr, cfg,   \* globals: address, boot server, {mask, router, dns}
  xid, got_reply, dhcp_msg_type,
  eth_ip,                  \* recv_ops.eth_ip of pkt_hdlr.c
  curr, up, link,          \* curr_net_dev # NULL, and its two flags
  tx, rx,                  \* requests and replies in flight
  lease,                   \* <<s, a>>: server s has leased address a to this host
  outcome, calls, losses   \* ghosts: last result, calls and faults so far

main == <<pc, retries, msg_type, srv_id>>
addrs == <<my_ip, serv_addr, cfg>>
proto == <<xid, got_reply, dhcp_msg_type, eth_ip>>
dev == <<curr, up, link>>
net == <<tx, rx, lease>>
ghost == <<outcome, calls, losses>>
vars == <<pc, retries, msg_type, srv_id, my_ip, serv_addr, cfg, xid, got_reply,
          dhcp_msg_type, eth_ip, curr, up, link, tx, rx, lease, outcome, calls,
          losses>>

Key == {"mask", "router", "dns"}

(* The frames as the code tells them apart.  BOOTP is a reply without the   *)
(* magic cookie, NOTYPE one without a message type option; "me" says that   *)
(* chaddr is the address of this device.  A request in flight is what one    *)
(* server makes of it: a DHCP server ignores a REQUEST that names another    *)
(* server and does not tell addresses apart that it does not have (ip is     *)
(* NONE then); a server without DHCP takes everything for the same (OTHER).  *)
Kinds == {"OFFER", "ACK", "NAK", "BOOTP", "NOTYPE"}
Reply == [kind : Kinds, src : Server, xid : XID, yi : Addr, me : BOOLEAN]
Request == [kind : {"DISCOVER", "REQUEST", "OTHER"}, xid : XID,
            ip : Addr \cup {NONE}, to : Server]

Dhcp(s) == "OFFER" \in ReplyKinds[s]

ASSUME SetsAssumption ==
  /\ NONE \notin Addr /\ NONE \notin Server /\ NONE \notin Val
  /\ NULL \notin Addr \cup Val \cup {NONE}

ASSUME EnvAssumption ==
  /\ Pool \in [Server -> SUBSET Addr]
  /\ Opts \in [Server -> [Key -> Val \cup {NONE}]]
  /\ SrvIdOpt \in [Server -> Server \cup {NONE}]
  /\ Relay \in [Server -> Val \cup {NONE}]
  /\ Reserved \subseteq Addr
  /\ ClassMask \in [Addr -> Val]
  /\ CallIps \subseteq Addr \cup {NONE, NULL}
  /\ CallCfgs \subseteq [Key -> Val \cup {NULL}]
  /\ ReplyKinds \in [Server -> SUBSET Kinds] /\ StrayXids \subseteq XID
  /\ Dup \in BOOLEAN /\ Timely \in BOOLEAN

ASSUME BoundAssumption ==
  MaxRetries \in Nat \ {0} /\ MaxCalls \in Nat /\ MaxLosses \in Nat

(* Where the main thread can be: outside dhcp() and inside it. *)
InDhcp == {"send", "srvid", "xmit", "wait", "check", "retry", "del"}
PCs == InDhcp \cup {"idle", "auto", "link", "dhcp", "ret", "mask"}

Outcomes == {"none", "dhcp", "leased", "static", "failed", "nodev", "openfail",
             "reserved"}

(* The types of ipconfig.c's globals and locals; retries does not wrap. *)
TypeOK ==
  /\ pc \in PCs /\ retries \in 0 .. MaxRetries
  /\ msg_type \in {"DISCOVER", "REQUEST"} /\ srv_id \in Server \cup {NONE}
  /\ my_ip \in Addr \cup {NONE} /\ serv_addr \in Server \cup {NONE}
  /\ cfg \in [Key -> Val \cup {NONE}]
  /\ xid \in XID \cup {NONE} /\ got_reply \in BOOLEAN
  /\ dhcp_msg_type \in {"0", "OFFER", "ACK"}
  /\ eth_ip \in {"NULL", "ip_recv", "dhcp_recv"}
  /\ curr \in BOOLEAN /\ up \in BOOLEAN /\ link \in BOOLEAN
  /\ tx \subseteq Request /\ rx \subseteq Reply /\ lease \subseteq Server \X Addr
  /\ outcome \in Outcomes /\ calls \in 0 .. MaxCalls /\ losses \in 0 .. MaxLosses

Init ==
  /\ pc = "idle" /\ retries = 0 /\ msg_type = "DISCOVER" /\ srv_id = NONE
  /\ my_ip = NONE /\ serv_addr = NONE /\ cfg = [k \in Key |-> NONE]
  /\ xid = NONE /\ got_reply = FALSE /\ dhcp_msg_type = "0"
  /\ eth_ip = "NULL"
  /\ curr = FALSE /\ up = FALSE /\ link = FALSE
  /\ tx = {} /\ rx = {} /\ lease = {}
  /\ outcome = "none" /\ calls = 0 /\ losses = 0

Goto(l) == pc' = l

(* A fault of the environment: free, or counted when the network is timely. *)
Fault == IF Timely THEN losses < MaxLosses /\ losses' = losses + 1
                   ELSE UNCHANGED losses

-----------------------------------------------------------------------------
(* The application, outside ip_config(). *)

netdev_register ==
  /\ pc = "idle" /\ ~curr
  /\ curr' = TRUE
  /\ UNCHANGED <<main, addrs, proto, up, link, net, ghost>>

(* network_init() -> inet_init(): pkt_hdlr_add(ETH_P_IP, ip_recv). *)
network_init ==
  /\ pc = "idle" /\ eth_ip = "NULL"
  /\ eth_ip' = "ip_recv"
  /\ UNCHANGED <<main, addrs, xid, got_reply, dhcp_msg_type, dev, net, ghost>>

ip_config(ip, c) ==
  /\ pc = "idle" /\ calls < MaxCalls
  /\ Goto("auto") /\ calls' = calls + 1 /\ outcome' = "none"
  /\ my_ip' = IF ip # NULL THEN ip ELSE my_ip
  /\ cfg' = [k \in Key |-> IF c[k] # NULL THEN c[k] ELSE cfg[k]]
  /\ UNCHANGED <<retries, msg_type, srv_id, serv_addr, proto, dev, net, losses>>

-----------------------------------------------------------------------------
(* The main thread inside ip_auto_config() and dhcp(). *)

(* Lines 426-441 of ip_auto_config(): no device; netdev_open() fails (only  *)
(* when the device is not running already); or it runs and the address is   *)
(* known or to be found.                                                    *)
AutoNoDev ==
  /\ pc = "auto" /\ ~curr
  /\ Goto("idle") /\ outcome' = "nodev"
  /\ UNCHANGED <<retries, msg_type, srv_id, addrs, proto, dev, net, calls, losses>>

AutoOpenFails ==
  /\ pc = "auto" /\ curr /\ ~up
  /\ Goto("idle") /\ outcome' = "openfail"
  /\ UNCHANGED <<retries, msg_type, srv_id, addrs, proto, dev, net, calls, losses>>

AutoOpen ==
  /\ pc = "auto" /\ curr
  /\ up' = TRUE
  /\ Goto(IF my_ip = NONE THEN "link" ELSE "mask")
  /\ UNCHANGED <<retries, msg_type, srv_id, addrs, proto, curr, link, net, ghost>>

(* The loop of line 443 ends. *)
LinkWait ==
  /\ pc = "link" /\ link
  /\ Goto("dhcp")
  /\ UNCHANGED <<retries, msg_type, srv_id, addrs, proto, dev, net, ghost>>

xid_gen == xid' \in XID

(* Entry of dhcp(): the handler is installed after xid is drawn, so the     *)
(* interrupt sees both or neither.                                          *)
DhcpEnter ==
  /\ pc = "dhcp"
  /\ retries' = MaxRetries
  /\ xid_gen
  /\ eth_ip' = "dhcp_recv"
  /\ outcome' = "dhcp"
  /\ Goto("send")
  /\ UNCHANGED <<msg_type, srv_id, addrs, got_reply, dhcp_msg_type, dev, net,
                 calls, losses>>

(* dhcp_send_request(): no memory for the request, nothing is sent. *)
AllocFails ==
  /\ pc = "send" /\ Fault
  /\ Goto("wait")
  /\ UNCHANGED <<retries, msg_type, srv_id, addrs, proto, dev, net, outcome, calls>>

(* dhcp_options_init(): the message type, the server identifier and the     *)
(* requested address come from three reads of globals the interrupt writes. *)
BuildType ==
  /\ pc = "send"
  /\ msg_type' = IF serv_addr = NONE THEN "DISCOVER" ELSE "REQUEST"
  /\ Goto(IF serv_addr = NONE THEN "xmit" ELSE "srvid")
  /\ UNCHANGED <<retries, srv_id, addrs, proto, dev, net, ghost>>

BuildSrvId ==
  /\ pc = "srvid"
  /\ srv_id' = serv_addr
  /\ Goto("xmit")
  /\ UNCHANGED <<retries, msg_type, addrs, proto, dev, net, ghost>>

(* The rest of dhcp_options_init() and dhcp_send_request(): the requested   *)
(* address is read and the request is broadcast.  The packet is gone when   *)
(* the header cannot be made, the link is down or the driver fails; dhcp()  *)
(* does not learn of it.                                                    *)
SeenBy(s) ==
  LET named == msg_type = "REQUEST" /\ srv_id = s
  IN  [kind |-> IF Dhcp(s) THEN IF named THEN "REQUEST" ELSE "DISCOVER" ELSE "OTHER",
       xid |-> xid,
       ip |-> IF Dhcp(s) /\ named /\ my_ip \in Pool[s] THEN my_ip ELSE NONE,
       to |-> s]

Listeners == {s \in Server : Dhcp(s) /\ msg_type = "REQUEST" => srv_id = s}

Copies == {SeenBy(s) : s \in Listeners}

Sent ==
  /\ pc = "xmit" /\ up /\ link
  /\ tx' = tx \cup Copies
  /\ msg_type' = "DISCOVER" /\ srv_id' = NONE
  /\ Goto("wait")
  /\ UNCHANGED <<retries, addrs, proto, dev, rx, lease, ghost>>

NotSent ==
  /\ pc = "xmit" /\ Fault
  /\ msg_type' = "DISCOVER" /\ srv_id' = NONE
  /\ Goto("wait")
  /\ UNCHANGED <<retries, addrs, proto, dev, net, outcome, calls>>

(* Nothing is in flight that could still answer the request. *)
Quiet == tx = {} /\ rx = {}

(* Lines 384-386: the loop ends with a reply or when t_out has run down. *)
Wait ==
  /\ pc = "wait"
  /\ got_reply \/ ~Timely \/ Quiet
  /\ Goto("check")
  /\ UNCHANGED <<retries, msg_type, srv_id, addrs, proto, dev, net, ghost>>

(* Lines 388-397.  While got_reply is set the interrupt writes nothing, so  *)
(* the branch taken with a reply is one step; the other one is not.         *)
CheckAck ==
  /\ pc = "check" /\ got_reply /\ dhcp_msg_type = "ACK"
  /\ Goto("del")
  /\ UNCHANGED <<retries, msg_type, srv_id, addrs, proto, dev, net, ghost>>

(* Mutant: got_reply is not reset before the next request. *)
CheckMoreLatched ==
  /\ pc = "check" /\ got_reply /\ dhcp_msg_type # "ACK"
  /\ Goto("send")
  /\ UNCHANGED <<retries, msg_type, srv_id, addrs, proto, dev, net, ghost>>

CheckMore ==
  /\ pc = "check" /\ got_reply /\ dhcp_msg_type # "ACK"
  /\ got_reply' = FALSE
  /\ Goto("send")
  /\ UNCHANGED <<retries, msg_type, srv_id, addrs, xid, dhcp_msg_type, eth_ip, dev,
                 net, ghost>>

CheckNone ==
  /\ pc = "check" /\ ~got_reply
  /\ Goto("retry")
  /\ UNCHANGED <<retries, msg_type, srv_id, addrs, proto, dev, net, ghost>>

(* Mutant: retries-- instead of --retries. *)
RetryPostDecrement ==
  /\ pc = "retry"
  /\ retries' = retries - 1
  /\ IF retries = 0 THEN Goto("del") /\ UNCHANGED xid
                    ELSE Goto("send") /\ xid_gen
  /\ UNCHANGED <<msg_type, srv_id, addrs, got_reply, dhcp_msg_type, eth_ip, dev,
                 net, ghost>>

(* Lines 399-403. *)
Retry ==
  /\ pc = "retry"
  /\ retries' = retries - 1
  /\ IF retries' = 0 THEN Goto("del") /\ UNCHANGED xid
                     ELSE Goto("send") /\ xid_gen
  /\ UNCHANGED <<msg_type, srv_id, addrs, got_reply, dhcp_msg_type, eth_ip, dev,
                 net, ghost>>

(* Mutant: the handler stays installed. *)
DelHandlerMissing ==
  /\ pc = "del"
  /\ Goto("ret")
  /\ UNCHANGED <<retries, msg_type, srv_id, addrs, proto, dev, net, ghost>>

(* Line 407: pkt_hdlr_del(ETH_P_IP). *)
DelHandler ==
  /\ pc = "del"
  /\ eth_ip' = "NULL"
  /\ Goto("ret")
  /\ UNCHANGED <<retries, msg_type, srv_id, addrs, xid, got_reply, dhcp_msg_type,
                 dev, net, ghost>>

(* Lines 409-414 of dhcp() and 449-454 of ip_auto_config(). *)
RetOk ==
  /\ pc = "ret" /\ got_reply
  /\ Goto("mask")
  /\ UNCHANGED <<retries, msg_type, srv_id, addrs, proto, dev, net, ghost>>

RetFail ==
  /\ pc = "ret" /\ ~got_reply
  /\ my_ip' = NONE
  /\ up' = FALSE /\ curr' = FALSE
  /\ Goto("idle") /\ outcome' = "failed"
  /\ UNCHANGED <<retries, msg_type, srv_id, serv_addr, cfg, proto, link, net, calls,
                 losses>>

(* Lines 457-478: a mask is derived from the class of the address unless    *)
(* one is known.  INADDR_NONE is a class E address.                         *)
NeedsMask == cfg["mask"] = NONE

MaskReserved ==
  /\ pc = "mask" /\ NeedsMask /\ my_ip \in Reserved \cup {NONE}
  /\ Goto("idle") /\ outcome' = "reserved"
  /\ UNCHANGED <<retries, msg_type, srv_id, addrs, proto, dev, net, calls, losses>>

MaskDone ==
  /\ pc = "mask"
  /\ NeedsMask => my_ip \in Addr \ Reserved
  /\ cfg' = IF NeedsMask THEN [cfg EXCEPT !["mask"] = ClassMask[my_ip]] ELSE cfg
  /\ Goto("idle") /\ outcome' = IF outcome = "dhcp" THEN "leased" ELSE "static"
  /\ UNCHANGED <<retries, msg_type, srv_id, my_ip, serv_addr, proto, dev, net, calls,
                 losses>>

-----------------------------------------------------------------------------
(* The receive interrupt: recv_pkt_handler() and dhcp_recv(). *)

(* Replies to another client that drew the same xid (rand() is not seeded); *)
(* they may come at any time, so they are not kept in rx.  A refusal meant  *)
(* for another client has the effect of one for this host, see ServerNak.   *)
StrayReplies ==
  {f \in [kind : {"OFFER", "ACK"}, src : Server, xid : StrayXids, yi : Addr,
          me : {FALSE}] : f.yi \in Pool[f.src]}

Arrive(f) == rx' = IF Dup THEN rx ELSE rx \ {f}

(* Mutant: no test of got_reply. *)
AcceptsUnlatched(f) == curr /\ f.xid = xid

(* The tests of dhcp_recv() before it parses anything (lines 106-142). *)
Accepts(f) == curr /\ ~got_reply /\ f.xid = xid

(* The value of msg_type at line 178: the option's, or when there is none   *)
(* the content of an uninitialised byte.                                    *)
MsgTypes(f) == IF f.kind = "NOTYPE" THEN {"OFFER", "ACK", "NAK"} ELSE {f.kind}

(* Mutant: an option does not replace a value already there. *)
WithOptionsKept(f) == [k \in Key |-> IF cfg[k] = NONE THEN Opts[f.src][k] ELSE cfg[k]]

(* Lines 203-233: each option present replaces the value in use. *)
WithOptions(f) ==
  [k \in Key |-> IF Opts[f.src][k] # NONE THEN Opts[f.src][k] ELSE cfg[k]]

(* Lines 236-241, after the options left configuration c and server sa. *)
TakeReply(f, c, sa) ==
  /\ my_ip' = f.yi
  /\ serv_addr' = IF sa = NONE THEN f.src ELSE sa
  /\ cfg' = IF c["router"] = NONE /\ Relay[f.src] # NONE
              THEN [c EXCEPT !["router"] = Relay[f.src]] ELSE c
  /\ got_reply' = TRUE

(* Mutant: an offer is taken though another one was. *)
dhcp_recv_offer_any(f) ==
  /\ eth_ip = "dhcp_recv" /\ Accepts(f) /\ "OFFER" \in MsgTypes(f)
  /\ TakeReply(f, WithOptions(f), SrvIdOpt[f.src])
  /\ dhcp_msg_type' = "OFFER"
  /\ Arrive(f)
  /\ UNCHANGED <<main, xid, eth_ip, dev, tx, lease, ghost>>

dhcp_recv_offer(f) ==
  /\ eth_ip = "dhcp_recv" /\ Accepts(f) /\ "OFFER" \in MsgTypes(f)
  /\ my_ip = NONE
  /\ TakeReply(f, WithOptions(f), SrvIdOpt[f.src])
  /\ dhcp_msg_type' = "OFFER"
  /\ Arrive(f)
  /\ UNCHANGED <<main, xid, eth_ip, dev, tx, lease, ghost>>

dhcp_recv_ack(f) ==
  /\ eth_ip = "dhcp_recv" /\ Accepts(f) /\ "ACK" \in MsgTypes(f)
  /\ f.me
  /\ TakeReply(f, WithOptions(f), serv_addr)
  /\ dhcp_msg_type' = "ACK"
  /\ Arrive(f)
  /\ UNCHANGED <<main, xid, eth_ip, dev, tx, lease, ghost>>

(* Mutant: a refusal is reported to the main thread as a reply. *)
dhcp_recv_failed_reply(f) ==
  /\ eth_ip = "dhcp_recv" /\ Accepts(f) /\ "NAK" \in MsgTypes(f)
  /\ my_ip' = NONE /\ serv_addr' = NONE /\ got_reply' = TRUE
  /\ Arrive(f)
  /\ UNCHANGED <<main, cfg, xid, dhcp_msg_type, eth_ip, dev, tx, lease, ghost>>

(* The default branch of line 195. *)
dhcp_recv_failed(f) ==
  /\ eth_ip = "dhcp_recv" /\ Accepts(f) /\ "NAK" \in MsgTypes(f)
  /\ my_ip' = NONE /\ serv_addr' = NONE
  /\ Arrive(f)
  /\ UNCHANGED <<main, cfg, proto, dev, tx, lease, ghost>>

(* A reply without options: line 146 skips to line 236. *)
dhcp_recv_bootp(f) ==
  /\ eth_ip = "dhcp_recv" /\ Accepts(f) /\ f.kind = "BOOTP"
  /\ TakeReply(f, cfg, serv_addr)
  /\ Arrive(f)
  /\ UNCHANGED <<main, xid, dhcp_msg_type, eth_ip, dev, tx, lease, ghost>>

(* Every other way out of dhcp_recv(), and frames that reach ip_recv() or   *)
(* no handler at all: the buffer is freed and nothing here changes.         *)
RecvDropped(f) ==
  /\ \/ eth_ip # "dhcp_recv" \/ ~Accepts(f)
     \/ "OFFER" \in MsgTypes(f) /\ my_ip # NONE
     \/ "ACK" \in MsgTypes(f) /\ ~f.me
  /\ Arrive(f)
  /\ UNCHANGED <<main, addrs, proto, dev, tx, lease, ghost>>

(* The driver's interrupt reports the state of the link of an open device. *)
LinkReport ==
  /\ up /\ link' \in BOOLEAN
  /\ Timely => link'
  /\ UNCHANGED <<main, addrs, proto, curr, up, net, ghost>>

-----------------------------------------------------------------------------
(* The environment: servers and wire. *)

Answer(m, kind, a) ==
  /\ kind \in ReplyKinds[m.to]
  /\ rx' = rx \cup {[kind |-> kind, src |-> m.to, xid |-> m.xid, yi |-> a,
                     me |-> TRUE]}
  /\ tx' = IF Dup THEN tx ELSE tx \ {m}

ServerOffer(m) ==
  /\ m.kind = "DISCOVER"
  /\ \E a \in Pool[m.to] : Answer(m, "OFFER", a)
  /\ UNCHANGED <<main, addrs, proto, dev, lease, ghost>>

ServerAck(m) ==
  /\ m.kind = "REQUEST" /\ m.ip # NONE
  /\ Answer(m, "ACK", m.ip)
  /\ lease' = lease \cup {<<m.to, m.ip>>}
  /\ UNCHANGED <<main, addrs, proto, dev, ghost>>

(* A server refuses what it has not leased; yiaddr is then of no account. *)
ServerNak(m) ==
  /\ m.kind = "REQUEST" /\ <<m.to, m.ip>> \notin lease
  /\ \E a \in Pool[m.to] : Answer(m, "NAK", a)
  /\ UNCHANGED <<main, addrs, proto, dev, lease, ghost>>

(* Servers without DHCP, or that leave out the message type. *)
ServerOther(m) ==
  /\ m.kind = "OTHER"
  /\ \E a \in Pool[m.to], k \in {"BOOTP", "NOTYPE"} : Answer(m, k, a)
  /\ UNCHANGED <<main, addrs, proto, dev, lease, ghost>>

(* A server that never refuses ignores what it does not have. *)
ServerIgnore(m) ==
  /\ m.kind = "REQUEST" /\ m.ip = NONE /\ ~Dup
  /\ tx' = tx \ {m}
  /\ UNCHANGED <<main, addrs, proto, dev, rx, lease, ghost>>

Lose ==
  /\ Timely /\ Fault
  /\ \/ \E m \in tx : tx' = tx \ {m} /\ UNCHANGED rx
     \/ \E f \in rx : rx' = rx \ {f} /\ UNCHANGED tx
  /\ UNCHANGED <<main, addrs, proto, dev, lease, outcome, calls>>

-----------------------------------------------------------------------------
Application == \/ netdev_register \/ network_init
               \/ \E ip \in CallIps, c \in CallCfgs : ip_config(ip, c)

MainStep == \/ AutoNoDev \/ AutoOpenFails \/ AutoOpen \/ LinkWait \/ DhcpEnter
            \/ AllocFails \/ BuildType \/ BuildSrvId \/ Sent \/ NotSent
            \/ Wait \/ CheckAck \/ CheckMore \/ CheckNone \/ Retry \/ DelHandler
            \/ RetOk \/ RetFail \/ MaskReserved \/ MaskDone

Recv(f) == \/ dhcp_recv_offer(f) \/ dhcp_recv_ack(f) \/ dhcp_recv_failed(f)
           \/ dhcp_recv_bootp(f) \/ RecvDropped(f)

Receive == \E f \in rx : Recv(f)

(* A stray ACK is not for this device, so only a stray OFFER can be taken. *)
ReceiveStray == \E f \in StrayReplies : dhcp_recv_offer(f) \/ RecvDropped(f)

Servers == \E m \in tx : \/ ServerOffer(m) \/ ServerAck(m) \/ ServerNak(m)
                         \/ ServerOther(m) \/ ServerIgnore(m)

Next == \/ Application \/ MainStep \/ Receive \/ LinkReport
        \/ ReceiveStray \/ Servers \/ Lose

Spec == Init /\ [][Next]_vars

(* The processor always runs on: an interrupt ends, and so does the loop of *)
(* line 385.  Nothing is assumed of servers, wire or application.           *)
CpuSpec == Spec /\ WF_vars(MainStep)

(* In addition frames that are not lost reach the interrupt and servers     *)
(* answer.                                                                  *)
NetSpec == CpuSpec /\ WF_vars(Receive) /\ WF_vars(Servers)
-----------------------------------------------------------------------------
(* When ip_config() reports a leased address and the last message dhcp_recv() *)
(* took was an ACK, the address in use is one a server committed to this      *)
(* host: no late, duplicated or foreign reply and no earlier call can put     *)
(* another one there between the ACK and the return (lines 137-241, 388-414). *)
LeaseSound ==
  pc = "idle" /\ outcome = "leased" /\ dhcp_msg_type = "ACK" =>
    \E s \in Server : <<s, my_ip>> \in lease

(* In the same case every option the leasing server sends is in force, though *)
(* offers of other servers were taken and given up before (lines 203-240).    *)
ConfigOfLessor ==
  pc = "idle" /\ outcome = "leased" /\ dhcp_msg_type = "ACK" =>
    \E s \in Server : /\ <<s, my_ip>> \in lease
                      /\ \A k \in Key : Opts[s][k] # NONE => cfg[k] = Opts[s][k]

(* A reply that has been taken is not disturbed before the main thread has    *)
(* looked at it: from got_reply = true until line 396 or the end of dhcp()    *)
(* no other reply changes what line 389 and the next request are based on.    *)
LatchHeld ==
  [][got_reply /\ eth_ip = "dhcp_recv" =>
       UNCHANGED <<my_ip, serv_addr, cfg, dhcp_msg_type>>]_vars

(* A REQUEST names a server and an address of this very server, though        *)
(* dhcp_options_init() reads the two at different moments and offers of       *)
(* other servers arrive in between (lines 180 and 255-272).  For servers      *)
(* that do not refuse and a first call: a refusal clears both globals at any  *)
(* moment (line 197), and an earlier call that failed leaves serv_addr        *)
(* behind (line 410).                                                         *)
RequestCoherent ==
  pc = "xmit" /\ msg_type = "REQUEST" => my_ip \in Pool[srv_id]

(* AddrService in terms of this module's variables. *)
Service == INSTANCE AddrService
             WITH addr <- my_ip, busy <- pc # "idle",
                  result <- IF pc = "idle" THEN outcome ELSE "none"

(* ip_config() keeps the promises of AddrService: the address changes only    *)
(* during a call, is there after success and gone after a failed dhcp().      *)
KeepsAddrService == Service!Spec

(* Once entered, dhcp() returns: it makes MaxRetries attempts, however        *)
(* replies and timeouts interleave (lines 381-405).                           *)
DhcpReturns == pc = "dhcp" ~> pc \in {"mask", "idle"}

(* When the network answers in time and fewer than MaxRetries faults (lost    *)
(* frames, no memory, failed transmissions) happen, dhcp() ends with a lease. *)
LeaseObtained ==
  pc = "dhcp" ~> pc = "mask" /\ \E s \in Server : <<s, my_ip>> \in lease

(* What the comment at lines 393-395 says of a reply that is not an ACK: a    *)
(* new request follows; success is reported for an acknowledged address only. *)
SuccessIsAcked == pc = "idle" /\ outcome = "leased" => dhcp_msg_type = "ACK"
=============================================================================
