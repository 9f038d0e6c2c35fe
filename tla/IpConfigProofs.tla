--------------------------- MODULE IpConfigProofs ---------------------------
(***************************************************************************)
(* Proofs about IpConfig, for every set of servers, addresses and options, *)
(* every number of retries and calls, and with frames lost, delayed,       *)
(* duplicated or meant for other clients.                                  *)
(***************************************************************************)
EXTENDS IpConfig, TLAPS

(* What ties the thread's place to the shared state.  TypeOK alone is not  *)
(* inductive: that xid is drawn and retries is positive inside dhcp() is   *)
(* needed for the frames sent and for the decrement of line 399.           *)
LoopInv == /\ pc \in InDhcp => xid \in XID
           /\ pc \in InDhcp \ {"del"} => retries \in 1 .. MaxRetries

(* The handler is installed exactly while the thread is inside dhcp(). *)
HandlerInv == eth_ip = "dhcp_recv" <=> pc \in InDhcp

TypeInv == TypeOK /\ LoopInv /\ HandlerInv

(* A reply that dhcp_recv() may be given has the fields of one. *)
LEMMA ReplyFields ==
  ASSUME NEW f \in rx \cup StrayReplies, rx \subseteq Reply
  PROVE  /\ f.kind \in Kinds /\ f.src \in Server /\ f.xid \in XID
         /\ f.yi \in Addr /\ f.me \in BOOLEAN
  BY EnvAssumption DEF StrayReplies, Reply, Kinds

(* A stray reply goes through dhcp_recv() like any other. *)
LEMMA StrayIsReceived ==
  ASSUME ReceiveStray
  PROVE  \E f \in StrayReplies : Recv(f)
  BY DEF ReceiveStray, Recv

(* TakeReply and the option tables keep the configuration well typed. *)
LEMMA ConfigTyped ==
  ASSUME TypeOK, NEW f \in rx \cup StrayReplies, NEW sa \in Server \cup {NONE},
         NEW c \in [Key -> Val \cup {NONE}], TakeReply(f, c, sa)
  PROVE  /\ my_ip' \in Addr /\ serv_addr' \in Server
         /\ cfg' \in [Key -> Val \cup {NONE}] /\ got_reply' = TRUE
<1>1. rx \subseteq Reply
  BY DEF TypeOK
<1>2. /\ f.src \in Server /\ f.yi \in Addr
  BY <1>1, ReplyFields
<1>3. Relay[f.src] \in Val \cup {NONE}
  BY <1>2, EnvAssumption
<1> QED
  BY <1>2, <1>3 DEF TakeReply, Key

(* The options of a reply: the second scan of dhcp_recv() writes typed values. *)
LEMMA OptionsTyped ==
  ASSUME TypeOK, NEW f \in rx \cup StrayReplies
  PROVE  /\ WithOptions(f) \in [Key -> Val \cup {NONE}]
         /\ SrvIdOpt[f.src] \in Server \cup {NONE}
<1>1. f.src \in Server
  BY ReplyFields DEF TypeOK
<1>2. Opts[f.src] \in [Key -> Val \cup {NONE}] /\ SrvIdOpt[f.src] \in Server \cup {NONE}
  BY <1>1, EnvAssumption
<1> QED
  BY <1>2 DEF WithOptions, TypeOK

(* What dhcp_send_request() puts on the wire is a request. *)
LEMMA CopiesTyped ==
  ASSUME TypeOK, xid \in XID
  PROVE  Copies \subseteq Request
  BY DEF Copies, SeenBy, Listeners, Request, TypeOK

(* Every step keeps the types, the range of retries and the place of the     *)
(* handler: one case per step of dhcp(), dhcp_recv() and the environment.    *)
LEMMA TypeStep ==
  ASSUME TypeInv, [Next]_vars
  PROVE  TypeInv'
<1> USE DEF TypeInv, TypeOK, LoopInv, HandlerInv, InDhcp, PCs, Outcomes, main, addrs,
    proto, dev, net, ghost, Goto, Fault
<1>1. CASE netdev_register
  BY <1>1 DEF netdev_register
<1>2. CASE network_init
  BY <1>2 DEF network_init
<1>3. ASSUME NEW ip \in CallIps, NEW c \in CallCfgs, ip_config(ip, c)
      PROVE  TypeInv'
  <2>1. my_ip' \in Addr \cup {NONE}
    BY <1>3, EnvAssumption DEF ip_config
  <2>2. cfg' \in [Key -> Val \cup {NONE}]
    BY <1>3, EnvAssumption DEF ip_config
  <2>3. calls' \in 0 .. MaxCalls
    BY <1>3, BoundAssumption DEF ip_config
  <2> QED
    BY <1>3, <2>1, <2>2, <2>3 DEF ip_config
<1>4. CASE AutoNoDev
  BY <1>4 DEF AutoNoDev
<1>5. CASE AutoOpenFails
  BY <1>5 DEF AutoOpenFails
<1>6. CASE AutoOpen
  BY <1>6 DEF AutoOpen
<1>7. CASE LinkWait
  BY <1>7 DEF LinkWait
<1>8. CASE DhcpEnter
  BY <1>8, BoundAssumption DEF DhcpEnter, xid_gen
<1>9. CASE AllocFails
  BY <1>9, BoundAssumption DEF AllocFails
<1>10. CASE BuildType
  BY <1>10 DEF BuildType
<1>11. CASE BuildSrvId
  BY <1>11 DEF BuildSrvId
<1>12. CASE Sent
  <2>1. Copies \subseteq Request
    BY <1>12, CopiesTyped DEF Sent
  <2> QED
    BY <1>12, <2>1 DEF Sent
<1>13. CASE NotSent
  BY <1>13, BoundAssumption DEF NotSent
<1>14. CASE Wait
  BY <1>14 DEF Wait
<1>15. CASE CheckAck
  BY <1>15 DEF CheckAck
<1>16. CASE CheckMore
  <2>1. got_reply' \in BOOLEAN /\ pc' = "send"
    BY <1>16 DEF CheckMore
  <2> QED
    BY <1>16, <2>1 DEF CheckMore
<1>17. CASE CheckNone
  BY <1>17 DEF CheckNone
<1>18. CASE Retry
  BY <1>18, BoundAssumption DEF Retry, xid_gen
<1>19. CASE DelHandler
  BY <1>19 DEF DelHandler
<1>20. CASE RetOk
  BY <1>20 DEF RetOk
<1>21. CASE RetFail
  BY <1>21 DEF RetFail
<1>22. CASE MaskReserved
  BY <1>22 DEF MaskReserved
<1>23. CASE MaskDone
  <2>1. cfg' \in [Key -> Val \cup {NONE}]
    BY <1>23, EnvAssumption DEF MaskDone, NeedsMask
  <2> QED
    BY <1>23, <2>1 DEF MaskDone
<1>24. ASSUME NEW f \in rx \cup StrayReplies, Recv(f)
       PROVE  TypeInv'
  <2>1. rx' \subseteq rx
    BY <1>24 DEF Recv, dhcp_recv_offer, dhcp_recv_ack, dhcp_recv_failed,
       dhcp_recv_bootp, RecvDropped, Arrive
  <2>2. CASE dhcp_recv_offer(f)
    <3>1. TakeReply(f, WithOptions(f), SrvIdOpt[f.src])
      BY <2>2 DEF dhcp_recv_offer
    <3>2. /\ my_ip' \in Addr /\ serv_addr' \in Server
          /\ cfg' \in [Key -> Val \cup {NONE}] /\ got_reply' = TRUE
      BY <3>1, ConfigTyped, OptionsTyped
    <3> QED
      BY <2>1, <2>2, <3>2 DEF dhcp_recv_offer
  <2>3. CASE dhcp_recv_ack(f)
    <3>1. TakeReply(f, WithOptions(f), serv_addr)
      BY <2>3 DEF dhcp_recv_ack
    <3>2. /\ my_ip' \in Addr /\ serv_addr' \in Server
          /\ cfg' \in [Key -> Val \cup {NONE}] /\ got_reply' = TRUE
      BY <3>1, ConfigTyped, OptionsTyped
    <3> QED
      BY <2>1, <2>3, <3>2 DEF dhcp_recv_ack
  <2>4. CASE dhcp_recv_failed(f)
    BY <2>1, <2>4 DEF dhcp_recv_failed
  <2>5. CASE dhcp_recv_bootp(f)
    <3>1. TakeReply(f, cfg, serv_addr)
      BY <2>5 DEF dhcp_recv_bootp
    <3>2. /\ my_ip' \in Addr /\ serv_addr' \in Server
          /\ cfg' \in [Key -> Val \cup {NONE}] /\ got_reply' = TRUE
      BY <3>1, ConfigTyped
    <3> QED
      BY <2>1, <2>5, <3>2 DEF dhcp_recv_bootp
  <2>6. CASE RecvDropped(f)
    BY <2>1, <2>6 DEF RecvDropped
  <2> QED
    BY <1>24, <2>2, <2>3, <2>4, <2>5, <2>6 DEF Recv
<1>25. CASE LinkReport
  BY <1>25 DEF LinkReport
<1>26. ASSUME NEW m \in tx,
              ServerOffer(m) \/ ServerAck(m) \/ ServerNak(m) \/ ServerOther(m)
                \/ ServerIgnore(m)
       PROVE  TypeInv'
  <2>1. /\ m.to \in Server /\ m.xid \in XID /\ m.ip \in Addr \cup {NONE}
    BY DEF Request
  <2>2. Pool[m.to] \subseteq Addr
    BY <2>1, EnvAssumption
  <2>3. ReplyKinds[m.to] \subseteq Kinds
    BY <2>1, EnvAssumption
  <2>4. ASSUME NEW a \in Addr, NEW k \in Kinds, Answer(m, k, a)
        PROVE  tx' \subseteq Request /\ rx' \subseteq Reply
    <3>1. [kind |-> k, src |-> m.to, xid |-> m.xid, yi |-> a, me |-> TRUE] \in Reply
      BY <2>1, <2>4 DEF Reply
    <3> QED
      BY <2>4, <3>1 DEF Answer
  <2>5. CASE ServerOffer(m)
    BY <2>2, <2>4, <2>5 DEF ServerOffer, Kinds
  <2>6. CASE ServerAck(m)
    BY <2>1, <2>4, <2>6 DEF ServerAck, Kinds
  <2>7. CASE ServerNak(m)
    BY <2>2, <2>4, <2>7 DEF ServerNak, Kinds
  <2>8. CASE ServerOther(m)
    BY <2>2, <2>4, <2>8 DEF ServerOther, Kinds
  <2>9. CASE ServerIgnore(m)
    BY <2>9 DEF ServerIgnore
  <2> QED
    BY <1>26, <2>5, <2>6, <2>7, <2>8, <2>9
<1>27. CASE Lose
  BY <1>27, BoundAssumption DEF Lose
<1>28. CASE UNCHANGED vars
  BY <1>28 DEF vars
<1> QED
  BY <1>1, <1>2, <1>3, <1>4, <1>5, <1>6, <1>7, <1>8, <1>9, <1>10, <1>11, <1>12,
     <1>13, <1>14, <1>15, <1>16, <1>17, <1>18, <1>19, <1>20, <1>21, <1>22, <1>23,
     <1>24, <1>25, <1>26, <1>27, <1>28, StrayIsReceived
     DEF Next, Application, MainStep, Receive, Servers

(* The inductive invariant behind type correctness. *)
LEMMA TypeInvariant == Spec => []TypeInv
<1>1. Init => TypeInv
  <2> SUFFICES ASSUME Init PROVE TypeInv
    OBVIOUS
  <2>1. pc = "idle" /\ retries \in 0 .. MaxRetries /\ eth_ip = "NULL"
    BY BoundAssumption DEF Init
  <2>2. LoopInv /\ HandlerInv
    BY <2>1 DEF LoopInv, HandlerInv, InDhcp
  <2>3. /\ cfg \in [Key -> Val \cup {NONE}]
        /\ calls \in 0 .. MaxCalls /\ losses \in 0 .. MaxLosses
    BY BoundAssumption DEF Init
  <2>4. TypeOK
    BY <2>1, <2>3 DEF Init, TypeOK, PCs, Outcomes
  <2> QED
    BY <2>2, <2>4 DEF TypeInv
<1>2. TypeInv /\ [Next]_vars => TypeInv'
  BY TypeStep
<1> QED
  BY <1>1, <1>2, PTL DEF Spec

(* Type correctness of the model of ipconfig.c: in particular retries stays *)
(* in range and every request on the wire carries a drawn xid.              *)
THEOREM TypeCorrect == Spec => []TypeOK
<1>1. TypeInv => TypeOK
  BY DEF TypeInv
<1> QED
  BY <1>1, TypeInvariant, PTL

-----------------------------------------------------------------------------
(* From got_reply = true to line 396 or 407 no interrupt disturbs the reply: *)
(* the test of line 137 and the place of the handler are enough.             *)
THEOREM LatchTheorem == Spec => LatchHeld
<1>1. ASSUME TypeInv, [Next]_vars, got_reply, eth_ip = "dhcp_recv"
      PROVE  UNCHANGED <<my_ip, serv_addr, cfg, dhcp_msg_type>>
  <2>1. pc \in InDhcp
    BY <1>1 DEF TypeInv, HandlerInv
  <2> USE DEF InDhcp, main, addrs, proto, dev, net, ghost, Goto
  <2>2. CASE Application
    BY <2>1, <2>2 DEF Application, netdev_register, network_init, ip_config
  <2>3. CASE AutoNoDev \/ AutoOpenFails \/ AutoOpen \/ LinkWait \/ DhcpEnter
    BY <2>1, <2>3 DEF AutoNoDev, AutoOpenFails, AutoOpen, LinkWait, DhcpEnter
  <2>4. CASE AllocFails \/ BuildType \/ BuildSrvId \/ Sent \/ NotSent \/ Wait
    BY <2>4 DEF AllocFails, BuildType, BuildSrvId, Sent, NotSent, Wait
  <2>5. CASE CheckAck \/ CheckMore \/ CheckNone \/ Retry \/ DelHandler
    BY <2>5 DEF CheckAck, CheckMore, CheckNone, Retry, DelHandler
  <2>6. CASE RetOk \/ RetFail \/ MaskReserved \/ MaskDone
    BY <2>1, <2>6 DEF RetOk, RetFail, MaskReserved, MaskDone
  <2>7. ASSUME NEW f \in rx \cup StrayReplies, Recv(f)
        PROVE  UNCHANGED <<my_ip, serv_addr, cfg, dhcp_msg_type>>
    <3>1. ~Accepts(f)
      BY <1>1 DEF Accepts
    <3>2. RecvDropped(f)
      BY <2>7, <3>1 DEF Recv, dhcp_recv_offer, dhcp_recv_ack, dhcp_recv_failed,
         dhcp_recv_bootp
    <3> QED
      BY <3>2 DEF RecvDropped
  <2>8. CASE LinkReport \/ Servers \/ Lose
    BY <2>8 DEF LinkReport, Servers, ServerOffer, ServerAck, ServerNak, ServerOther,
       ServerIgnore, Lose
  <2>9. CASE UNCHANGED vars
    BY <2>9 DEF vars
  <2> QED
    BY <1>1, <2>2, <2>3, <2>4, <2>5, <2>6, <2>7, <2>8, <2>9, StrayIsReceived
       DEF Next, MainStep, Receive
<1>2. TypeInv /\ [Next]_vars
        => [got_reply /\ eth_ip = "dhcp_recv" =>
              UNCHANGED <<my_ip, serv_addr, cfg, dhcp_msg_type>>]_vars
  BY <1>1
<1> QED
  BY <1>2, TypeInvariant, PTL DEF Spec, LatchHeld

-----------------------------------------------------------------------------
(* How far the thread has come tells what the address and the flags are.  A  *)
(* latched reply always brought an address, and an ACK stays latched.        *)
FlowInv ==
  /\ got_reply => my_ip # NONE
  /\ dhcp_msg_type = "ACK" => got_reply
  /\ pc \in {"link", "dhcp"} => my_ip = NONE
  /\ pc = "mask" => my_ip # NONE /\ outcome \in {"none", "dhcp"}
  /\ pc \in InDhcp \cup {"ret"} => outcome = "dhcp"
  /\ pc \in {"auto", "link", "dhcp"} => outcome = "none"
  /\ pc = "idle" => outcome # "dhcp"

(* Servers, wire and link do not touch what the thread works with. *)
LEMMA EnvironmentFrame ==
  ASSUME LinkReport \/ Servers \/ Lose
  PROVE  UNCHANGED <<main, addrs, proto, outcome>>
<1>1. CASE LinkReport \/ Lose
  BY <1>1 DEF LinkReport, Lose, ghost
<1>2. CASE Servers
  BY <1>2 DEF Servers, ServerOffer, ServerAck, ServerNak, ServerOther, ServerIgnore,
     ghost
<1> QED
  BY <1>1, <1>2

(* Every step keeps FlowInv: dhcp() reaches its end with got_reply set only  *)
(* when it has an address, one case per group of steps.                      *)
LEMMA FlowStep ==
  ASSUME NONE \notin CallIps, TypeInv, FlowInv, [Next]_vars
  PROVE  FlowInv'
<1> USE DEF FlowInv, InDhcp, main, addrs, proto, dev, net, ghost, Goto
<1>1. CASE netdev_register \/ network_init
  BY <1>1 DEF netdev_register, network_init
<1>2. ASSUME NEW ip \in CallIps, NEW c \in CallCfgs, ip_config(ip, c)
      PROVE  FlowInv'
  BY <1>2 DEF ip_config
<1>3. CASE AutoNoDev \/ AutoOpenFails \/ AutoOpen \/ LinkWait
  BY <1>3 DEF AutoNoDev, AutoOpenFails, AutoOpen, LinkWait
<1>4. CASE DhcpEnter
  BY <1>4 DEF DhcpEnter
<1>5. CASE AllocFails \/ BuildType \/ BuildSrvId
  BY <1>5 DEF AllocFails, BuildType, BuildSrvId
<1>6. CASE Sent \/ NotSent \/ Wait
  BY <1>6 DEF Sent, NotSent, Wait
<1>7. CASE CheckAck \/ CheckMore \/ CheckNone
  BY <1>7 DEF CheckAck, CheckMore, CheckNone
<1>8. CASE Retry \/ DelHandler
  BY <1>8 DEF Retry, DelHandler
<1>9. CASE RetOk \/ RetFail
  BY <1>9 DEF RetOk, RetFail
<1>10. CASE MaskReserved \/ MaskDone
  BY <1>10 DEF MaskReserved, MaskDone
<1>11. ASSUME NEW f \in rx \cup StrayReplies, Recv(f)
       PROVE  FlowInv'
  <2>1. f.yi # NONE
    BY ReplyFields, SetsAssumption DEF TypeInv, TypeOK
  <2>2. CASE eth_ip = "dhcp_recv"
    <3>1. pc \in InDhcp
      BY <2>2 DEF TypeInv, HandlerInv
    <3>2. CASE dhcp_recv_offer(f)
      BY <2>1, <3>1, <3>2 DEF dhcp_recv_offer, TakeReply
    <3>3. CASE dhcp_recv_ack(f)
      BY <2>1, <3>1, <3>3 DEF dhcp_recv_ack, TakeReply
    <3>4. CASE dhcp_recv_failed(f)
      BY <3>1, <3>4 DEF dhcp_recv_failed, Accepts
    <3>5. CASE dhcp_recv_bootp(f)
      BY <2>1, <3>1, <3>5 DEF dhcp_recv_bootp, TakeReply
    <3>6. CASE RecvDropped(f)
      BY <3>6 DEF RecvDropped
    <3> QED
      BY <1>11, <3>2, <3>3, <3>4, <3>5, <3>6 DEF Recv
  <2>3. CASE eth_ip # "dhcp_recv"
    BY <1>11, <2>3 DEF Recv, dhcp_recv_offer, dhcp_recv_ack, dhcp_recv_failed,
       dhcp_recv_bootp, RecvDropped
  <2> QED
    BY <2>2, <2>3
<1>12. CASE LinkReport \/ Servers \/ Lose
  BY <1>12, EnvironmentFrame
<1>13. CASE UNCHANGED vars
  BY <1>13 DEF vars
<1> QED
  BY <1>1, <1>2, <1>3, <1>4, <1>5, <1>6, <1>7, <1>8, <1>9, <1>10, <1>11, <1>12, <1>13, StrayIsReceived
     DEF Next, Application, MainStep, Receive

(* FlowInv holds throughout when ip_config() is not given INADDR_NONE. *)
LEMMA FlowCorrect ==
  ASSUME NONE \notin CallIps
  PROVE  Spec => []FlowInv
<1>1. Init => FlowInv
  <2> SUFFICES ASSUME Init PROVE FlowInv
    OBVIOUS
  <2>1. ~got_reply /\ dhcp_msg_type # "ACK" /\ pc = "idle" /\ outcome = "none"
    BY DEF Init
  <2> QED
    BY <2>1 DEF FlowInv, InDhcp
<1>2. TypeInv /\ FlowInv /\ [Next]_vars => FlowInv'
  BY FlowStep
<1> QED
  BY <1>1, <1>2, TypeInvariant, PTL DEF Spec

-----------------------------------------------------------------------------
(* ip_config() implements AddrService when it is never called with the text *)
(* of INADDR_NONE: the address changes only during a call, a call that      *)
(* succeeds leaves an address, and a failed dhcp() leaves none.  (With that *)
(* text a call after a successful dhcp() finds got_reply still set.)        *)
THEOREM ServiceTheorem ==
  ASSUME NONE \notin CallIps
  PROVE  Spec => KeepsAddrService
<1>1. Init => Service!Init
  BY DEF Init, Service!Init
<1>2. ASSUME TypeInv, FlowInv, [Next]_vars
      PROVE  [Service!Next]_(Service!vars)
  <2>1. ASSUME pc = "idle", pc' = "idle", my_ip' = my_ip, outcome' = outcome
        PROVE  UNCHANGED Service!vars
    BY <2>1 DEF Service!vars
  <2>2. ASSUME pc # "idle", pc' # "idle", my_ip' \in Addr \cup {NONE}
        PROVE  Service!Next
    BY <2>2 DEF Service!Next, Service!Learn
  <2>3. my_ip' \in Addr \cup {NONE}
    BY <1>2, TypeStep DEF TypeInv, TypeOK
  <2>4. my_ip \in Addr \cup {NONE}
    BY <1>2 DEF TypeInv, TypeOK
  <2> USE DEF InDhcp, main, addrs, proto, dev, net, ghost, Goto
  <2>5. CASE netdev_register \/ network_init
    BY <2>1, <2>5 DEF netdev_register, network_init
  <2>6. ASSUME NEW ip \in CallIps, NEW c \in CallCfgs, ip_config(ip, c)
        PROVE  Service!Next
    BY <2>3, <2>6 DEF ip_config, Service!Next, Service!Call
  <2>7. CASE AutoNoDev \/ AutoOpenFails
    BY <2>7 DEF AutoNoDev, AutoOpenFails, Service!Next, Service!Return, Service!Results
  <2>8. CASE AutoOpen \/ LinkWait \/ DhcpEnter \/ AllocFails \/ BuildType
             \/ BuildSrvId \/ Sent \/ NotSent \/ Wait
    BY <2>2, <2>3, <2>8 DEF AutoOpen, LinkWait, DhcpEnter, AllocFails, BuildType,
       BuildSrvId, Sent, NotSent, Wait
  <2>9. CASE CheckAck \/ CheckMore \/ CheckNone \/ Retry \/ DelHandler \/ RetOk
    BY <2>2, <2>3, <2>9 DEF CheckAck, CheckMore, CheckNone, Retry, DelHandler, RetOk
  <2>10. CASE RetFail
    BY <2>10 DEF RetFail, Service!Next, Service!Return, Service!Results
  <2>11. CASE MaskReserved
    BY <2>11 DEF MaskReserved, Service!Next, Service!Return, Service!Results
  <2>12. CASE MaskDone
    <3>1. my_ip # NONE /\ my_ip' = my_ip
      BY <1>2, <2>12 DEF FlowInv, MaskDone
    <3>2. /\ pc = "mask" /\ pc' = "idle" /\ outcome' \in {"leased", "static"}
      BY <2>12 DEF MaskDone
    <3> QED
      BY <3>1, <3>2 DEF Service!Next, Service!Return, Service!Results
  <2>13. ASSUME NEW f \in rx \cup StrayReplies, Recv(f)
         PROVE  [Service!Next]_(Service!vars)
    <3>1. UNCHANGED <<pc, outcome>>
      BY <2>13 DEF Recv, dhcp_recv_offer, dhcp_recv_ack, dhcp_recv_failed,
         dhcp_recv_bootp, RecvDropped
    <3>2. CASE pc = "idle"
      <4>1. eth_ip # "dhcp_recv"
        BY <1>2, <3>2 DEF TypeInv, HandlerInv
      <4>2. my_ip' = my_ip
        BY <2>13, <4>1 DEF Recv, dhcp_recv_offer, dhcp_recv_ack, dhcp_recv_failed,
           dhcp_recv_bootp, RecvDropped
      <4> QED
        BY <2>1, <3>1, <3>2, <4>2
    <3>3. CASE pc # "idle"
      BY <2>2, <2>3, <3>1, <3>3
    <3> QED
      BY <3>2, <3>3
  <2>14. CASE LinkReport \/ Servers \/ Lose
    BY <2>1, <2>2, <2>3, <2>14, EnvironmentFrame
  <2>15. CASE UNCHANGED vars
    BY <2>15 DEF vars, Service!vars
  <2> QED
    BY <1>2, <2>5, <2>6, <2>7, <2>8, <2>9, <2>10, <2>11, <2>12, <2>13, <2>14, <2>15, StrayIsReceived
       DEF Next, Application, MainStep, Receive
<1> QED
  BY <1>1, <1>2, TypeInvariant, FlowCorrect, PTL DEF Spec, KeepsAddrService, Service!Spec

-----------------------------------------------------------------------------
(* Servers acknowledge only what they have leased, and an acknowledged       *)
(* address stays in use until the call has returned.                         *)
Leased(a) == \E s \in Server : <<s, a>> \in lease

LeaseInv ==
  /\ \A f \in rx : f.kind # "NOTYPE" /\ (f.kind = "ACK" => <<f.src, f.yi>> \in lease)
  /\ dhcp_msg_type = "ACK" /\ outcome \in {"dhcp", "leased"} => Leased(my_ip)

(* Every step keeps LeaseInv: an ACK in flight speaks of a lease, and an     *)
(* address taken from an ACK is leased until it is given up.                 *)
LEMMA LeaseStep ==
  ASSUME \A s \in Server : "NOTYPE" \notin ReplyKinds[s],
         TypeInv, FlowInv, LeaseInv, [Next]_vars
  PROVE  LeaseInv'
<1> USE DEF LeaseInv, Leased, InDhcp, main, addrs, proto, dev, net, ghost, Goto
<1>1. CASE netdev_register \/ network_init
  BY <1>1 DEF netdev_register, network_init
<1>2. ASSUME NEW ip \in CallIps, NEW c \in CallCfgs, ip_config(ip, c)
      PROVE  LeaseInv'
  BY <1>2 DEF ip_config
<1>3. CASE AutoNoDev \/ AutoOpenFails \/ AutoOpen \/ LinkWait
  BY <1>3 DEF AutoNoDev, AutoOpenFails, AutoOpen, LinkWait
<1>4. CASE DhcpEnter
  <2>1. dhcp_msg_type' # "ACK"
    BY <1>4 DEF DhcpEnter, FlowInv
  <2> QED
    BY <1>4, <2>1 DEF DhcpEnter
<1>5. CASE AllocFails \/ BuildType \/ BuildSrvId
  BY <1>5 DEF AllocFails, BuildType, BuildSrvId
<1>6. CASE Sent \/ NotSent \/ Wait
  BY <1>6 DEF Sent, NotSent, Wait
<1>7. CASE CheckAck \/ CheckMore \/ CheckNone
  BY <1>7 DEF CheckAck, CheckMore, CheckNone
<1>8. CASE Retry \/ DelHandler
  BY <1>8 DEF Retry, DelHandler
<1>9. CASE RetOk \/ RetFail
  BY <1>9 DEF RetOk, RetFail
<1>10. CASE MaskReserved \/ MaskDone
  BY <1>10 DEF MaskReserved, MaskDone, FlowInv
<1>11. ASSUME NEW f \in rx \cup StrayReplies, Recv(f)
       PROVE  LeaseInv'
  <2>1. rx' \subseteq rx /\ lease' = lease /\ outcome' = outcome
    BY <1>11 DEF Recv, dhcp_recv_offer, dhcp_recv_ack, dhcp_recv_failed,
       dhcp_recv_bootp, RecvDropped, Arrive
  <2>2. CASE dhcp_recv_offer(f)
    BY <2>1, <2>2 DEF dhcp_recv_offer
  <2>3. CASE dhcp_recv_ack(f)
    <3>1. f \in rx
      BY <2>3 DEF dhcp_recv_ack, StrayReplies
    <3>2. f.kind = "ACK"
      BY <2>3, <3>1 DEF dhcp_recv_ack, MsgTypes
    <3>3. f.src \in Server /\ my_ip' = f.yi
      BY <2>3, ReplyFields DEF dhcp_recv_ack, TakeReply, TypeInv, TypeOK
    <3> QED
      BY <2>1, <3>1, <3>2, <3>3
  <2>4. CASE dhcp_recv_failed(f)
    BY <2>1, <2>4 DEF dhcp_recv_failed, Accepts, FlowInv
  <2>5. CASE dhcp_recv_bootp(f)
    BY <2>1, <2>5 DEF dhcp_recv_bootp, Accepts, FlowInv
  <2>6. CASE RecvDropped(f)
    BY <2>1, <2>6 DEF RecvDropped
  <2> QED
    BY <1>11, <2>2, <2>3, <2>4, <2>5, <2>6 DEF Recv
<1>12. CASE LinkReport \/ Lose
  BY <1>12 DEF LinkReport, Lose
<1>13. ASSUME NEW m \in tx,
              ServerOffer(m) \/ ServerAck(m) \/ ServerNak(m) \/ ServerOther(m)
                \/ ServerIgnore(m)
       PROVE  LeaseInv'
  <2>1. m.to \in Server
    BY DEF TypeInv, TypeOK, Request
  <2>2. UNCHANGED <<my_ip, dhcp_msg_type, outcome>> /\ lease \subseteq lease'
    BY <1>13 DEF ServerOffer, ServerAck, ServerNak, ServerOther, ServerIgnore
  <2>3. ASSUME NEW a, NEW k \in Kinds \ {"ACK"}, Answer(m, k, a)
        PROVE  \A f \in rx' : f.kind # "NOTYPE" /\ (f.kind = "ACK" => f \in rx)
    <3>1. k # "NOTYPE"
      BY <2>1, <2>3 DEF Answer
    <3>2. \A f \in rx' : f \in rx \/ f.kind = k
      BY <2>3 DEF Answer
    <3> QED
      BY <2>3, <3>1, <3>2
  <2>4. CASE ServerOffer(m)
    BY <2>2, <2>3, <2>4 DEF ServerOffer, Kinds
  <2>5. CASE ServerAck(m)
    <3>1. /\ rx' = rx \cup {[kind |-> "ACK", src |-> m.to, xid |-> m.xid,
                            yi |-> m.ip, me |-> TRUE]}
          /\ <<m.to, m.ip>> \in lease'
      BY <2>5 DEF ServerAck, Answer
    <3>2. ASSUME NEW f \in rx'
          PROVE  f.kind # "NOTYPE" /\ (f.kind = "ACK" => <<f.src, f.yi>> \in lease')
      <4>1. CASE f \in rx
        BY <2>2, <4>1
      <4>2. CASE f \notin rx
        <5>1. f.kind = "ACK" /\ f.src = m.to /\ f.yi = m.ip
          BY <3>1, <4>2
        <5> QED
          BY <3>1, <5>1
      <4> QED
        BY <4>1, <4>2
    <3>3. Leased(my_ip) => Leased(my_ip)'
      BY <2>2
    <3> QED
      BY <2>2, <3>2, <3>3
  <2>6. CASE ServerNak(m)
    BY <2>2, <2>3, <2>6 DEF ServerNak, Kinds
  <2>7. CASE ServerOther(m)
    <3>1. PICK a \in Pool[m.to], k \in {"BOOTP", "NOTYPE"} : Answer(m, k, a)
      BY <2>7 DEF ServerOther
    <3>2. \A f \in rx' : f.kind # "NOTYPE" /\ (f.kind = "ACK" => f \in rx)
      BY <2>3, <3>1 DEF Kinds
    <3> QED
      BY <2>2, <3>2
  <2>8. CASE ServerIgnore(m)
    BY <2>2, <2>8 DEF ServerIgnore
  <2> QED
    BY <1>13, <2>4, <2>5, <2>6, <2>7, <2>8
<1>14. CASE UNCHANGED vars
  BY <1>14 DEF vars
<1> QED
  BY <1>1, <1>2, <1>3, <1>4, <1>5, <1>6, <1>7, <1>8, <1>9, <1>10, <1>11, <1>12, <1>13,
     <1>14, StrayIsReceived DEF Next, Application, MainStep, Receive, Servers

(* An address that ip_config() reports as leased after an ACK was committed  *)
(* to this host by a server, however frames are delayed, duplicated or       *)
(* mixed up with those of other clients, provided every DHCP reply carries a *)
(* message type (dhcp_recv() reads an uninitialised one otherwise).          *)
THEOREM LeaseTheorem ==
  ASSUME NONE \notin CallIps, \A s \in Server : "NOTYPE" \notin ReplyKinds[s]
  PROVE  Spec => []LeaseSound
<1>1. Init => LeaseInv
  BY DEF Init, LeaseInv
<1>2. TypeInv /\ FlowInv /\ LeaseInv /\ [Next]_vars => LeaseInv'
  BY LeaseStep
<1>3. LeaseInv => LeaseSound
  BY DEF LeaseInv, LeaseSound, Leased
<1> QED
  BY <1>1, <1>2, <1>3, TypeInvariant, FlowCorrect, PTL DEF Spec

-----------------------------------------------------------------------------
(* The server whose acknowledgement is in force, with all its options. *)
Lessor(s) == /\ <<s, my_ip>> \in lease
             /\ \A k \in Key : Opts[s][k] # NONE => cfg[k] = Opts[s][k]

ConfigInv ==
  dhcp_msg_type = "ACK" /\ outcome \in {"dhcp", "leased"} => \E s \in Server : Lessor(s)

(* The options of an ACK are all in force when dhcp_recv() returns: the relay *)
(* only fills in a router that is missing (lines 203-240).                    *)
LEMMA AckConfigures ==
  ASSUME TypeInv, NEW f \in rx, dhcp_recv_ack(f)
  PROVE  \A k \in Key : Opts[f.src][k] # NONE => cfg'[k] = Opts[f.src][k]
<1>1. f.src \in Server
  BY ReplyFields DEF TypeInv, TypeOK
<1>2. WithOptions(f) \in [Key -> Val \cup {NONE}]
  BY OptionsTyped DEF TypeInv
<1>3. \A k \in Key : Opts[f.src][k] # NONE => WithOptions(f)[k] = Opts[f.src][k]
  BY DEF WithOptions
<1>4. cfg' = IF WithOptions(f)["router"] = NONE /\ Relay[f.src] # NONE
               THEN [WithOptions(f) EXCEPT !["router"] = Relay[f.src]] ELSE WithOptions(f)
  BY DEF dhcp_recv_ack, TakeReply
<1> HIDE DEF WithOptions
<1>5. CASE WithOptions(f)["router"] = NONE /\ Relay[f.src] # NONE
  <2>1. cfg' = [WithOptions(f) EXCEPT !["router"] = Relay[f.src]]
    BY <1>4, <1>5
  <2>2. \A k \in Key : k # "router" => cfg'[k] = WithOptions(f)[k]
    BY <1>2, <2>1
  <2>3. Opts[f.src]["router"] = NONE
    BY <1>3, <1>5 DEF Key
  <2> QED
    BY <1>3, <2>2, <2>3
<1>6. CASE ~(WithOptions(f)["router"] = NONE /\ Relay[f.src] # NONE)
  BY <1>3, <1>4, <1>6
<1> QED
  BY <1>5, <1>6

(* Every step keeps ConfigInv: once an ACK is latched only a missing mask is  *)
(* filled in.                                                                 *)
LEMMA ConfigStep ==
  ASSUME TypeInv, FlowInv, LeaseInv, ConfigInv, [Next]_vars
  PROVE  ConfigInv'
<1> USE DEF ConfigInv, InDhcp, main, addrs, proto, dev, net, ghost, Goto
<1>1. ASSUME UNCHANGED <<my_ip, cfg, dhcp_msg_type>>, lease \subseteq lease',
             outcome' \in {"dhcp", "leased"} => outcome \in {"dhcp", "leased"}
      PROVE  ConfigInv'
  BY <1>1 DEF Lessor
<1>2. ASSUME NEW ip \in CallIps, NEW c \in CallCfgs, ip_config(ip, c)
      PROVE  ConfigInv'
  BY <1>2 DEF ip_config
<1>3. CASE netdev_register \/ network_init \/ AutoNoDev \/ AutoOpenFails \/ AutoOpen
           \/ LinkWait
  BY <1>1, <1>3 DEF netdev_register, network_init, AutoNoDev, AutoOpenFails, AutoOpen,
     LinkWait
<1>4. CASE DhcpEnter
  BY <1>4 DEF DhcpEnter, FlowInv
<1>5. CASE AllocFails \/ BuildType \/ BuildSrvId \/ Sent \/ NotSent \/ Wait
  BY <1>1, <1>5 DEF AllocFails, BuildType, BuildSrvId, Sent, NotSent, Wait
<1>6. CASE CheckAck \/ CheckMore \/ CheckNone \/ Retry \/ DelHandler \/ RetOk
  BY <1>1, <1>6 DEF CheckAck, CheckMore, CheckNone, Retry, DelHandler, RetOk
<1>7. CASE RetFail
  BY <1>7 DEF RetFail
<1>8. CASE MaskReserved
  BY <1>8 DEF MaskReserved
<1>9. CASE MaskDone
  <2>1. UNCHANGED <<my_ip, dhcp_msg_type, lease>>
    BY <1>9 DEF MaskDone
  <2>2. outcome' \in {"dhcp", "leased"} => outcome = "dhcp"
    BY <1>9 DEF MaskDone
  <2>3. \A k \in Key : cfg[k] # NONE => cfg'[k] = cfg[k]
    BY <1>9 DEF MaskDone, NeedsMask, TypeInv, TypeOK
  <2>4. \A s \in Server : Lessor(s) => Lessor(s)'
    BY <2>1, <2>3 DEF Lessor
  <2> QED
    BY <2>1, <2>2, <2>4
<1>10. ASSUME NEW f \in rx \cup StrayReplies, Recv(f)
       PROVE  ConfigInv'
  <2>1. lease' = lease /\ outcome' = outcome
    BY <1>10 DEF Recv, dhcp_recv_offer, dhcp_recv_ack, dhcp_recv_failed,
       dhcp_recv_bootp, RecvDropped
  <2>2. CASE dhcp_recv_offer(f)
    BY <2>2 DEF dhcp_recv_offer
  <2>3. CASE dhcp_recv_ack(f)
    <3>1. f \in rx
      BY <2>3 DEF dhcp_recv_ack, StrayReplies
    <3>2. f.kind = "ACK"
      BY <2>3, <3>1 DEF dhcp_recv_ack, MsgTypes, LeaseInv
    <3>3. f.src \in Server /\ my_ip' = f.yi
      BY <2>3, ReplyFields DEF dhcp_recv_ack, TakeReply, TypeInv, TypeOK
    <3>4. <<f.src, f.yi>> \in lease
      BY <3>1, <3>2 DEF LeaseInv
    <3>5. Lessor(f.src)'
      BY <2>1, <2>3, <3>1, <3>3, <3>4, AckConfigures DEF Lessor
    <3> QED
      BY <3>3, <3>5
  <2>4. CASE dhcp_recv_failed(f)
    BY <2>4 DEF dhcp_recv_failed, Accepts, FlowInv
  <2>5. CASE dhcp_recv_bootp(f)
    BY <2>5 DEF dhcp_recv_bootp, Accepts, FlowInv
  <2>6. CASE RecvDropped(f)
    BY <1>1, <2>1, <2>6 DEF RecvDropped
  <2> QED
    BY <1>10, <2>2, <2>3, <2>4, <2>5, <2>6 DEF Recv
<1>11. CASE LinkReport \/ Servers \/ Lose
  <2>1. lease \subseteq lease'
    BY <1>11 DEF LinkReport, Lose, Servers, ServerOffer, ServerAck, ServerNak,
       ServerOther, ServerIgnore
  <2> QED
    BY <1>1, <1>11, <2>1, EnvironmentFrame
<1>12. CASE UNCHANGED vars
  BY <1>1, <1>12 DEF vars
<1> QED
  BY <1>2, <1>3, <1>4, <1>5, <1>6, <1>7, <1>8, <1>9, <1>10, <1>11, <1>12,
     StrayIsReceived DEF Next, Application, MainStep, Receive

(* A leased address comes with every option its lessor sends, though options  *)
(* of other servers were taken and given up before, under the hypotheses of   *)
(* LeaseTheorem.                                                              *)
THEOREM ConfigTheorem ==
  ASSUME NONE \notin CallIps, \A s \in Server : "NOTYPE" \notin ReplyKinds[s]
  PROVE  Spec => []ConfigOfLessor
<1>1. Init => LeaseInv /\ ConfigInv
  BY DEF Init, LeaseInv, ConfigInv
<1>2. TypeInv /\ FlowInv /\ LeaseInv /\ [Next]_vars => LeaseInv'
  BY LeaseStep
<1>3. TypeInv /\ FlowInv /\ LeaseInv /\ ConfigInv /\ [Next]_vars => ConfigInv'
  BY ConfigStep
<1>4. ConfigInv => ConfigOfLessor
  BY DEF ConfigInv, ConfigOfLessor, Lessor
<1> QED
  BY <1>1, <1>2, <1>3, <1>4, TypeInvariant, FlowCorrect, PTL DEF Spec

-----------------------------------------------------------------------------
(* In a first call against servers that do not refuse, the boot server is    *)
(* found once and never replaced, so every REQUEST and every ACK in flight   *)
(* is about it, and the address in use is one of its own.                    *)
Untouched == serv_addr = NONE /\ tx = {} /\ rx = {}

ServerChosen == serv_addr \in Server /\ my_ip \in Pool[serv_addr]

RequestInv ==
  /\ calls = 0 => pc = "idle" /\ Untouched
  /\ pc # "idle" => calls = 1
  /\ pc \in {"auto", "link", "dhcp"} => Untouched
  /\ pc \in {"link", "dhcp"} => my_ip = NONE
  /\ pc \in InDhcp => (serv_addr = NONE /\ my_ip = NONE) \/ ServerChosen
  /\ pc = "srvid" => serv_addr # NONE
  /\ pc = "xmit" /\ msg_type = "REQUEST" => serv_addr # NONE /\ srv_id = serv_addr

WireInv ==
  /\ \A m \in tx : m.kind = "REQUEST" =>
       m.to = serv_addr /\ (m.ip # NONE => m.ip \in Pool[m.to])
  /\ \A f \in rx : /\ f.kind \in {"OFFER", "ACK"} /\ f.yi \in Pool[f.src]
                   /\ f.kind = "ACK" => f.src = serv_addr

(* A reply that dhcp_recv() takes comes from the server in use, or is the    *)
(* first offer and makes its sender the server in use.                       *)
LEMMA ReplyOfServer ==
  ASSUME \A s \in Server : SrvIdOpt[s] \in {s, NONE},
         TypeInv, RequestInv, WireInv, NEW f \in rx \cup StrayReplies, Recv(f)
  PROVE  \/ UNCHANGED <<my_ip, serv_addr>>
         \/ pc \in InDhcp /\ serv_addr = NONE /\ ServerChosen'
         \/ pc \in InDhcp /\ ServerChosen /\ serv_addr' = serv_addr /\ ServerChosen'
<1>1. /\ f.src \in Server /\ f.kind \in {"OFFER", "ACK"} /\ f.yi \in Pool[f.src]
  BY ReplyFields DEF TypeInv, TypeOK, WireInv, StrayReplies
<1>2. CASE dhcp_recv_offer(f)
  <2>1. pc \in InDhcp /\ my_ip = NONE
    BY <1>2 DEF dhcp_recv_offer, TypeInv, HandlerInv
  <2>2. serv_addr = NONE
    BY <2>1, SetsAssumption, EnvAssumption DEF RequestInv, ServerChosen
  <2>3. my_ip' = f.yi /\ serv_addr' = f.src
    BY <1>1, <1>2 DEF dhcp_recv_offer, TakeReply
  <2> QED
    BY <1>1, <2>1, <2>2, <2>3 DEF ServerChosen
<1>3. CASE dhcp_recv_ack(f)
  <2>1. pc \in InDhcp /\ f.me
    BY <1>3 DEF dhcp_recv_ack, TypeInv, HandlerInv
  <2>2. f \in rx /\ f.kind = "ACK"
    BY <1>1, <1>3, <2>1 DEF StrayReplies, dhcp_recv_ack, MsgTypes
  <2>3. serv_addr = f.src
    BY <2>2 DEF WireInv
  <2>4. my_ip' = f.yi /\ serv_addr' = serv_addr
    BY <1>1, <1>3, <2>3, SetsAssumption DEF dhcp_recv_ack, TakeReply
  <2> QED
    BY <1>1, <2>1, <2>3, <2>4, SetsAssumption DEF RequestInv, ServerChosen
<1>4. CASE dhcp_recv_failed(f) \/ dhcp_recv_bootp(f)
  BY <1>1, <1>4 DEF dhcp_recv_failed, dhcp_recv_bootp, MsgTypes
<1>5. CASE RecvDropped(f)
  BY <1>5 DEF RecvDropped, addrs
<1> QED
  BY <1>2, <1>3, <1>4, <1>5 DEF Recv, addrs

(* Every step keeps RequestInv: dhcp() is entered once, with nothing in      *)
(* flight, and from the first offer on the server stays the same.            *)
LEMMA RequestStep ==
  ASSUME MaxCalls = 1, \A s \in Server : SrvIdOpt[s] \in {s, NONE},
         TypeInv, RequestInv, WireInv, [Next]_vars
  PROVE  RequestInv'
<1> USE DEF RequestInv, Untouched, ServerChosen, InDhcp, main, addrs, proto, dev, net,
    ghost, Goto
<1>1. CASE netdev_register \/ network_init
  BY <1>1 DEF netdev_register, network_init
<1>2. ASSUME NEW ip \in CallIps, NEW c \in CallCfgs, ip_config(ip, c)
      PROVE  RequestInv'
  <2>1. calls = 0
    BY <1>2 DEF ip_config, TypeInv, TypeOK
  <2> QED
    BY <1>2, <2>1 DEF ip_config
<1>3. CASE AutoNoDev \/ AutoOpenFails \/ AutoOpen \/ LinkWait
  BY <1>3 DEF AutoNoDev, AutoOpenFails, AutoOpen, LinkWait
<1>4. CASE DhcpEnter
  BY <1>4 DEF DhcpEnter
<1>5. CASE AllocFails \/ BuildType \/ BuildSrvId
  BY <1>5 DEF AllocFails, BuildType, BuildSrvId
<1>6. CASE Sent \/ NotSent \/ Wait
  BY <1>6 DEF Sent, NotSent, Wait
<1>7. CASE CheckAck \/ CheckMore \/ CheckNone
  BY <1>7 DEF CheckAck, CheckMore, CheckNone
<1>8. CASE Retry \/ DelHandler
  BY <1>8 DEF Retry, DelHandler
<1>9. CASE RetOk \/ RetFail \/ MaskReserved \/ MaskDone
  BY <1>9 DEF RetOk, RetFail, MaskReserved, MaskDone
<1>10. ASSUME NEW f \in rx \cup StrayReplies, Recv(f)
       PROVE  RequestInv'
  <2>1. /\ UNCHANGED <<pc, calls, msg_type, srv_id, tx>>
        /\ rx' \subseteq rx
    BY <1>10 DEF Recv, dhcp_recv_offer, dhcp_recv_ack, dhcp_recv_failed,
       dhcp_recv_bootp, RecvDropped, Arrive
  <2>2. CASE UNCHANGED <<my_ip, serv_addr>>
    BY <2>1, <2>2
  <2>3. CASE pc \in InDhcp /\ ServerChosen' /\ (serv_addr = NONE \/ serv_addr' = serv_addr)
    <3>1. calls = 1 /\ serv_addr' # NONE
      BY <2>3, SetsAssumption
    <3> QED
      BY <2>1, <2>3, <3>1
  <2> QED
    BY <1>10, <2>2, <2>3, ReplyOfServer
<1>11. CASE LinkReport
  BY <1>11 DEF LinkReport
<1>12. CASE Servers \/ Lose
  <2>1. UNCHANGED <<main, addrs, calls>>
    BY <1>12 DEF Lose, Servers, ServerOffer, ServerAck, ServerNak, ServerOther,
       ServerIgnore
  <2>2. tx # {} \/ rx # {}
    BY <1>12 DEF Lose, Servers
  <2>3. calls # 0 /\ pc \notin {"auto", "link", "dhcp"}
    BY <2>2
  <2> QED
    BY <2>1, <2>3
<1>13. CASE UNCHANGED vars
  BY <1>13 DEF vars
<1> QED
  BY <1>1, <1>2, <1>3, <1>4, <1>5, <1>6, <1>7, <1>8, <1>9, <1>10, <1>11, <1>12, <1>13,
     StrayIsReceived DEF Next, Application, MainStep, Receive

(* Every step keeps WireInv: a REQUEST names the server in use when it is    *)
(* sent, and what is in flight is answered by the server it names.           *)
LEMMA WireStep ==
  ASSUME \A s \in Server : ReplyKinds[s] \subseteq {"OFFER", "ACK"},
         \A s \in Server : SrvIdOpt[s] \in {s, NONE},
         TypeInv, RequestInv, WireInv, [Next]_vars
  PROVE  WireInv'
<1> USE DEF main, addrs, proto, dev, net, ghost, Goto
<1>1. ASSUME UNCHANGED serv_addr, tx' \subseteq tx, rx' \subseteq rx
      PROVE  WireInv'
  BY <1>1 DEF WireInv
<1>2. CASE Application
  BY <1>1, <1>2 DEF Application, netdev_register, network_init, ip_config
<1>3. CASE AutoNoDev \/ AutoOpenFails \/ AutoOpen \/ LinkWait \/ DhcpEnter
           \/ AllocFails \/ BuildType \/ BuildSrvId
  BY <1>1, <1>3 DEF AutoNoDev, AutoOpenFails, AutoOpen, LinkWait, DhcpEnter,
     AllocFails, BuildType, BuildSrvId
<1>4. CASE Sent
  <2>1. ASSUME NEW m \in Copies, m.kind = "REQUEST"
        PROVE  m.to = serv_addr /\ (m.ip # NONE => m.ip \in Pool[m.to])
    <3>1. PICK s \in Server : m = SeenBy(s)
      BY DEF Copies, Listeners
    <3>2. msg_type = "REQUEST" /\ srv_id = s
      BY <2>1, <3>1 DEF SeenBy
    <3>3. serv_addr = s
      BY <1>4, <3>2 DEF Sent, RequestInv
    <3> QED
      BY <3>1, <3>3 DEF SeenBy
  <2>2. tx' = tx \cup Copies /\ UNCHANGED <<serv_addr, rx>>
    BY <1>4 DEF Sent
  <2> QED
    BY <2>1, <2>2 DEF WireInv
<1>5. CASE NotSent \/ Wait \/ CheckAck \/ CheckMore \/ CheckNone \/ Retry \/ DelHandler
  BY <1>1, <1>5 DEF NotSent, Wait, CheckAck, CheckMore, CheckNone, Retry, DelHandler
<1>6. CASE RetOk \/ RetFail \/ MaskReserved \/ MaskDone
  BY <1>1, <1>6 DEF RetOk, RetFail, MaskReserved, MaskDone
<1>7. ASSUME NEW f \in rx \cup StrayReplies, Recv(f)
      PROVE  WireInv'
  <2>1. tx' = tx /\ rx' \subseteq rx
    BY <1>7 DEF Recv, dhcp_recv_offer, dhcp_recv_ack, dhcp_recv_failed,
       dhcp_recv_bootp, RecvDropped, Arrive
  <2>2. CASE UNCHANGED serv_addr
    BY <1>1, <2>1, <2>2
  <2>3. CASE serv_addr = NONE
    <3>1. \A m \in tx : m.kind # "REQUEST"
      BY <2>3, SetsAssumption DEF WireInv, TypeInv, TypeOK, Request
    <3>2. \A g \in rx : g.kind # "ACK"
      BY <2>3, SetsAssumption DEF WireInv, TypeInv, TypeOK, Reply
    <3> QED
      BY <2>1, <3>1, <3>2 DEF WireInv
  <2> QED
    BY <1>7, <2>2, <2>3, ReplyOfServer
<1>8. CASE LinkReport \/ Lose
  BY <1>1, <1>8 DEF LinkReport, Lose
<1>9. ASSUME NEW m \in tx,
             ServerOffer(m) \/ ServerAck(m) \/ ServerNak(m) \/ ServerOther(m)
               \/ ServerIgnore(m)
      PROVE  WireInv'
  <2>1. m.to \in Server /\ UNCHANGED serv_addr
    BY <1>9 DEF TypeInv, TypeOK, Request, ServerOffer, ServerAck, ServerNak,
       ServerOther, ServerIgnore
  <2>2. ASSUME NEW k \in {"OFFER", "ACK"}, NEW a \in Pool[m.to], Answer(m, k, a),
               k = "ACK" => m.to = serv_addr
        PROVE  WireInv'
    <3>1. /\ rx' = rx \cup {[kind |-> k, src |-> m.to, xid |-> m.xid, yi |-> a,
                             me |-> TRUE]}
          /\ tx' \subseteq tx
      BY <2>2 DEF Answer
    <3>2. \A f \in rx' : f \in rx \/ (f.kind = k /\ f.src = m.to /\ f.yi = a)
      BY <3>1
    <3> QED
      BY <2>1, <2>2, <3>1, <3>2 DEF WireInv
  <2>3. CASE ServerOffer(m)
    BY <2>2, <2>3 DEF ServerOffer
  <2>4. CASE ServerAck(m)
    BY <2>2, <2>4 DEF ServerAck, WireInv
  <2>5. CASE ServerNak(m) \/ ServerOther(m)
    BY <2>1, <2>5 DEF ServerNak, ServerOther, Answer
  <2>6. CASE ServerIgnore(m)
    BY <1>1, <2>6 DEF ServerIgnore
  <2> QED
    BY <1>9, <2>3, <2>4, <2>5, <2>6
<1>10. CASE UNCHANGED vars
  BY <1>1, <1>10 DEF vars
<1> QED
  BY <1>2, <1>3, <1>4, <1>5, <1>6, <1>7, <1>8, <1>9, <1>10, StrayIsReceived
     DEF Next, MainStep, Receive, Servers

(* In a first call, and with servers that do not refuse and identify         *)
(* themselves truthfully or not at all, the address a REQUEST asks for is    *)
(* one of the server it names, though dhcp_options_init() reads the two at   *)
(* different moments and offers of any server, for this client or another,   *)
(* arrive in between (lines 180 and 255-272).                                *)
THEOREM RequestTheorem ==
  ASSUME MaxCalls = 1, \A s \in Server : ReplyKinds[s] \subseteq {"OFFER", "ACK"},
         \A s \in Server : SrvIdOpt[s] \in {s, NONE}
  PROVE  Spec => []RequestCoherent
<1>1. Init => RequestInv /\ WireInv
  BY DEF Init, RequestInv, WireInv, Untouched, InDhcp
<1>2. TypeInv /\ RequestInv /\ WireInv /\ [Next]_vars => RequestInv' /\ WireInv'
  BY RequestStep, WireStep
<1>3. RequestInv => RequestCoherent
  <2> SUFFICES ASSUME RequestInv, pc = "xmit", msg_type = "REQUEST"
               PROVE  my_ip \in Pool[srv_id]
    BY DEF RequestCoherent
  <2> QED
    BY DEF RequestInv, ServerChosen, InDhcp
<1> QED
  BY <1>1, <1>2, <1>3, TypeInvariant, PTL DEF Spec
=============================================================================
