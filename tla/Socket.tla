-------------------------------- MODULE Socket --------------------------------
(***************************************************************************)
(* The socket interface: net/socket.c, the IPv4 family in                  *)
(* netinet/af_inet.c, sending in netinet/udp.c, and ip_create_nb() in      *)
(* netinet/ip.c.  Only the main thread uses sockets, so a call is a step.  *)
(* accept(), connect(), listen(), recv() and tcp_send_msg() are empty.     *)
(*                                                                         *)
(* The application passes sockets that it got from socket() and has not    *)
(* closed, and sends only while a device is registered: ip_create_nb()     *)
(* uses curr_net_dev without a test.  A call through a bad function        *)
(* pointer sets wild: what the processor does from there on is not known.  *)
(***************************************************************************)
EXTENDS Integers, Sequences, FiniteSets

CONSTANTS
  Sock, NULL,
  ByteSize,     \* values of a byte: 256
  FirstPort,    \* 49152
  Word,         \* values of a uint16_t: 65536
  Kinds,        \* the arguments of socket()
  SockAddr,     \* the addresses passed to bind() and sendto()
  Message,      \* the arguments of sendto()
  MaxDraws      \* bound: ports drawn

Families == {"UNSPEC", "INET", "OTHER"}   \* OTHER: AF_MAX and above
Types == {"0", "STREAM", "DGRAM", "OTHER"}
Protocols == {"0", "TCP", "UDP", "ICMP", "OTHER"}

Ports == ByteSize * ByteSize
ANY == 0        \* INADDR_ANY

ASSUME SocketAssumption ==
  /\ NULL \notin Sock /\ NULL \notin SockAddr /\ MaxDraws \in Nat
  \* nor is it a UDP header or an entry of SocketTable
  /\ NULL \notin [port_src : Nat, port_dst : Nat, len : Nat]
  /\ NULL \notin [type : Types, protocol : Protocols, port : Nat, peer : Nat \X Nat]
  /\ ByteSize \in Nat \ {0, 1} /\ FirstPort \in 1 .. Ports - 1
  /\ SockAddr \subseteq [short : BOOLEAN, family : {"UNSPEC", "INET", "OTHER"},
                         ip : Nat, port : 0 .. Ports - 1]
  /\ Message \subseteq [oob : BOOLEAN, addr : SockAddr \cup {NULL}, len : Nat]
  \* the message lies in RAM, of which an AVR has less than a word counts
  /\ Word \in Nat \ {0} /\ \A m \in Message : m.len + 42 < Word
  /\ Kinds \subseteq Families \X Types \X Protocols

VARIABLES
  socket_list, next, prev,
  alloc,        \* sockets that are allocated
  sk,           \* their other members; ports are as they lie in memory
  inet_port,
  wild,
  drawn,        \* ghost: per socket, the number of the draw its port is from, or 0
  draws,        \* ghost: ports drawn so far
  out           \* ghost: the last call that sent and what the device was given

vars == <<socket_list, next, prev, alloc, sk, inet_port, wild, drawn, draws, out>>
list == <<socket_list, next, prev, alloc>>
ports == <<inet_port, drawn, draws>>

htons(x) == ByteSize * (x % ByteSize) + (x \div ByteSize)

(* memset(); p_ops: the members are those of inet_stream_ops and             *)
(* inet_dgram_ops, which are equal, or it is NULL.  src_addr is overwritten  *)
(* before it is used, and the receive queue is never used.                   *)
Cleared(type) ==
  [type |-> type, protocol |-> "0", p_ops |-> FALSE, src_port |-> 0,
   dst_addr |-> 0, dst_port |-> 0, tx_q |-> <<>>]

Nothing == [from |-> NULL, addr |-> NULL, len |-> 0, peer |-> <<0, 0>>, bufs |-> <<>>]

Init ==
  /\ socket_list = NULL /\ alloc = {}
  /\ next = [s \in Sock |-> NULL] /\ prev = [s \in Sock |-> NULL]
  /\ sk = [s \in Sock |-> Cleared("0")] /\ inet_port = FirstPort
  /\ wild = FALSE /\ drawn = [s \in Sock |-> 0] /\ draws = 0 /\ out = Nothing

-----------------------------------------------------------------------------
(* The socket list. *)
socket_list_add(s) ==
  /\ socket_list' = s
  /\ next' = [next EXCEPT ![s] = socket_list]
  /\ prev' = [t \in Sock |-> IF t = s THEN NULL
                             ELSE IF t = socket_list THEN s ELSE prev[t]]

(* Mutant: a socket that is not the first is not taken out backwards. *)
socket_list_del_forward(s) ==
  /\ prev' = [prev EXCEPT ![s] = NULL]
  /\ next' = [t \in Sock |-> IF t = s THEN NULL
                             ELSE IF t = prev[s] THEN next[s] ELSE next[t]]
  /\ socket_list' = IF prev[s] = NULL THEN next[s] ELSE socket_list

(* Mutant: the head is moved even if another socket is deleted. *)
socket_list_del_head(s) ==
  /\ prev' = [t \in Sock |-> IF t = s THEN NULL
                             ELSE IF t = next[s] THEN prev[s] ELSE prev[t]]
  /\ next' = [t \in Sock |-> IF t = s THEN NULL
                             ELSE IF t = prev[s] THEN next[s] ELSE next[t]]
  /\ socket_list' = next[s]

(* What a freed socket points to does not matter; it is forgotten. *)
socket_list_del(s) ==
  /\ prev' = [t \in Sock |-> IF t = s THEN NULL
                             ELSE IF t = next[s] THEN prev[s] ELSE prev[t]]
  /\ next' = [t \in Sock |-> IF t = s THEN NULL
                             ELSE IF t = prev[s] THEN next[s] ELSE next[t]]
  /\ socket_list' = IF prev[s] = NULL THEN next[s] ELSE socket_list

-----------------------------------------------------------------------------
(* socket() *)
Default(type, protocol) ==
  CASE type = "STREAM" /\ protocol = "0" -> "TCP"
    [] type = "DGRAM" /\ protocol = "0" -> "UDP"
    [] OTHER -> protocol

Supported == {<<"STREAM", "TCP">>, <<"DGRAM", "UDP">>, <<"DGRAM", "ICMP">>}

(* The values of err: it is assigned in front of the first case label, that *)
(* is never, and not in every case.                                         *)
inet_sock_create(type, protocol) ==
  CASE <<type, Default(type, protocol)>> \in Supported -> {0}
    [] type = "0" /\ protocol = "0" -> {-1}
    [] OTHER -> {0, -1}

Err(family, type, protocol) ==
  IF family = "INET" /\ type # "OTHER" THEN inet_sock_create(type, protocol) ELSE {-1}

(* s is what malloc() returns; on failure it is freed again. *)
socket(s, family, type, protocol) ==
  /\ ~wild /\ s \notin alloc
  /\ 0 \in Err(family, type, protocol)
  /\ LET p == Default(type, protocol) IN
     sk' = [sk EXCEPT ![s] = [Cleared(type) EXCEPT !.protocol = p,
                                !.p_ops = <<type, p>> \in Supported]]
  /\ alloc' = alloc \cup {s} /\ socket_list_add(s)
  /\ drawn' = [drawn EXCEPT ![s] = 0] /\ out' = Nothing
  /\ UNCHANGED <<inet_port, draws, wild>>

(* err is not 0, or malloc() returned NULL. *)
socket_fails ==
  /\ ~wild /\ out' = Nothing /\ UNCHANGED <<list, sk, ports, wild>>

(* A call through p_ops = NULL, or shutdown(), which reads the pointer from  *)
(* RAM where it should read flash.                                          *)
Jump ==
  /\ wild' = TRUE /\ out' = Nothing /\ UNCHANGED <<list, sk, ports>>

-----------------------------------------------------------------------------
(* bind() *)
BindOk(s, a) ==
  /\ ~a.short
  /\ a.family = "INET" \/ (a.family = "UNSPEC" /\ a.ip = ANY)
  /\ sk[s].src_port = 0

inet_bind(s, a) ==
  /\ sk' = IF BindOk(s, a)
             THEN [sk EXCEPT ![s] = [@ EXCEPT !.src_port = htons(a.port),
                                              !.dst_addr = 0, !.dst_port = 0]]
             ELSE sk
  /\ out' = Nothing /\ UNCHANGED <<list, ports, wild>>

bind(s, a) ==
  /\ ~wild /\ s \in alloc
  /\ \/ sk[s].p_ops /\ inet_bind(s, a)
     \/ ~sk[s].p_ops /\ Jump

shutdown(s) ==
  /\ ~wild /\ s \in alloc
  /\ \/ out' = Nothing /\ UNCHANGED <<list, sk, ports, wild>>
     \/ Jump

-----------------------------------------------------------------------------
(* send(), sendto(), sendmsg().  A socket without a port draws one first. *)

(* Mutant: the counter runs into port 0. *)
inet_get_port_unbounded ==
  /\ draws < MaxDraws /\ draws' = draws + 1
  /\ inet_port' = (inet_port + 1) % Ports

inet_get_port ==
  /\ draws < MaxDraws /\ draws' = draws + 1
  /\ inet_port' = IF inet_port + 1 = Ports THEN FirstPort ELSE inet_port + 1

(* "verify address" *)
Refused(m) ==
  \/ m.oob
  \/ m.addr # NULL /\ (m.addr.short \/ m.addr.port = 0 \/ m.addr.family = "OTHER")

WithPort(r) == IF r.src_port = 0 THEN [r EXCEPT !.src_port = htons(inet_port)] ELSE r

WithPeer(r, m) ==
  IF m.addr = NULL THEN r ELSE [r EXCEPT !.dst_addr = m.addr.ip, !.dst_port = m.addr.port]

(* The buffer with its IP header; len counts the UDP header, which is not    *)
(* written yet.  Lengths are words.                                          *)
ip_create_nb(r, len) ==
  LET pkt_len == (len + 20 + 14) % Word IN
  [size |-> pkt_len, pkt_len |-> pkt_len, transport_hdr_offset |-> 14 + 20,
   tot_len |-> (len + 20) % Word, ip_dst |-> r.dst_addr, udph |-> NULL]

(* The header goes into the first buffer of the queue. *)
udp_send(r) ==
  LET nb == r.tx_q[1]
      udph == [port_src |-> r.src_port, port_dst |-> r.dst_port,
               len |-> (nb.pkt_len - nb.transport_hdr_offset) % Word]
  IN  [r EXCEPT !.tx_q = [@ EXCEPT ![1] = [nb EXCEPT !.udph = udph]]]

(* Mutant: what the device did not take stays in the queue. *)
netdev_queue_xmit_keeps(r, sent) ==
  [bufs |-> IF sent THEN r.tx_q ELSE <<>>, sk |-> IF sent THEN [r EXCEPT !.tx_q = <<>>] ELSE r]

(* Sent or not, the queue is empty afterwards: module NetDev. *)
netdev_queue_xmit(r, sent) ==
  [bufs |-> IF sent THEN r.tx_q ELSE <<>>, sk |-> [r EXCEPT !.tx_q = <<>>]]

(* How it ends: there is no memory for the buffer, or it is given to the     *)
(* device, or the device is down.                                            *)
udp_send_msg(r, m, end) ==
  IF Refused(m) THEN [bufs |-> <<>>, sk |-> r]
  ELSE LET to == WithPeer(r, m) IN
       IF end = "nomem" THEN [bufs |-> <<>>, sk |-> to]
       ELSE LET queued == [to EXCEPT !.tx_q = Append(@, ip_create_nb(to, m.len + 8))]
            IN  netdev_queue_xmit(udp_send(queued), end = "sent")

inet_sendmsg(s, m, end) ==
  LET r == WithPort(sk[s])
      res == IF r.protocol = "UDP" THEN udp_send_msg(r, m, end)
                                   ELSE [bufs |-> <<>>, sk |-> r]
  IN  /\ IF sk[s].src_port = 0
           THEN inet_get_port /\ drawn' = [drawn EXCEPT ![s] = draws + 1]
           ELSE UNCHANGED ports
      /\ sk' = [sk EXCEPT ![s] = res.sk]
      /\ out' = IF res.bufs = <<>> THEN Nothing
                 ELSE [from |-> s, addr |-> m.addr, len |-> m.len, bufs |-> res.bufs,
                       peer |-> <<sk[s].dst_addr, sk[s].dst_port>>]
      /\ UNCHANGED <<list, wild>>

sendto(s, m) ==
  /\ ~wild /\ s \in alloc
  /\ \/ sk[s].p_ops /\ \E end \in {"nomem", "sent", "down"} : inet_sendmsg(s, m, end)
     \/ ~sk[s].p_ops /\ Jump

(* inet_release() does nothing; the queues are cleared. *)
sock_close(s) ==
  /\ ~wild /\ s \in alloc
  /\ socket_list_del(s)
  /\ alloc' = alloc \ {s} /\ sk' = [sk EXCEPT ![s] = Cleared("0")]
  /\ drawn' = [drawn EXCEPT ![s] = 0]
  /\ out' = Nothing /\ UNCHANGED <<inet_port, draws, wild>>

Next ==
  \/ socket_fails
  \/ \E s \in Sock, k \in Kinds : socket(s, k[1], k[2], k[3])
  \/ \E s \in Sock :
       \/ sock_close(s) \/ shutdown(s)
       \/ \E a \in SockAddr : bind(s, a)
       \/ \E m \in Message : sendto(s, m)

Spec == Init /\ [][Next]_vars

-----------------------------------------------------------------------------
(* Types. *)
TypeOK ==
  /\ socket_list \in Sock \cup {NULL} /\ alloc \subseteq Sock
  /\ next \in [Sock -> Sock \cup {NULL}] /\ prev \in [Sock -> Sock \cup {NULL}]
  /\ \A s \in Sock : /\ sk[s].type \in Types /\ sk[s].protocol \in Protocols
                     /\ sk[s].p_ops \in BOOLEAN
                     /\ sk[s].src_port \in 0 .. Ports - 1 /\ sk[s].dst_port \in 0 .. Ports - 1
  /\ inet_port \in FirstPort .. Ports - 1 /\ draws \in 0 .. MaxDraws
  /\ drawn \in [Sock -> 0 .. draws] /\ wild \in BOOLEAN

(* The socket list, in whatever order sockets are created and closed: its     *)
(* links agree in both directions, begin at socket_list, and lead neither     *)
(* into freed memory nor past a socket that is still open.                    *)
ListSound ==
  /\ IF socket_list = NULL THEN alloc = {} ELSE socket_list \in alloc
  /\ \A s \in alloc :
       /\ prev[s] = NULL <=> s = socket_list
       /\ prev[s] # NULL => prev[s] \in alloc /\ next[prev[s]] = s
       /\ next[s] # NULL => next[s] \in alloc /\ prev[next[s]] = s

(* The sockets that socket_list_for_each() meets: the first one, and behind   *)
(* each of them the next.                                                     *)
Listed ==
  LET Closed(S) == {socket_list} \cup {next[s] : s \in S} \subseteq S \cup {NULL}
  IN  {t \in Sock : \A S \in SUBSET Sock : Closed(S) => t \in S}

(* What the application knows of its sockets. *)
TableOf(listed) ==
  [s \in Sock |->
     IF s \in listed
       THEN [type |-> sk[s].type, protocol |-> sk[s].protocol,
             port |-> sk[s].src_port, peer |-> <<sk[s].dst_addr, sk[s].dst_port>>]
       ELSE NULL]

Table == INSTANCE SocketTable WITH CLOSED <- NULL, table <- TableOf(Listed)

(* The list of sockets implements SocketTable: a call on one socket never     *)
(* shows in another one, nor drops or revives it.                             *)
KeepsSocketTable == Table!Spec

(* Ports drawn by inet_get_port() are dynamic ports, never 0, and two open    *)
(* sockets do not share one until the counter has gone once around: it does   *)
(* not look which ports are in use.                                           *)
AutoPortsDistinct ==
  \A s \in alloc : drawn[s] > 0 =>
    /\ htons(sk[s].src_port) \in FirstPort .. Ports - 1
    /\ \A t \in alloc :
         drawn[t] > drawn[s] /\ drawn[t] - drawn[s] < Ports - FirstPort =>
           sk[t].src_port # sk[s].src_port

(* A call hands over one datagram at most, its own: udp_send() writes the     *)
(* header into the first buffer of the queue, which must be the one that was  *)
(* just appended.  It is from the socket's port, to the address of the call   *)
(* or, without one, to the socket's peer, and all its lengths agree.          *)
DatagramsRight ==
  LET d == out.bufs[1] IN
  out.bufs # <<>> =>
    /\ Len(out.bufs) = 1 /\ d.udph # NULL
    /\ d.udph.port_src = sk[out.from].src_port /\ d.udph.port_src # 0
    /\ <<d.ip_dst, d.udph.port_dst>> =
         IF out.addr = NULL THEN out.peer ELSE <<out.addr.ip, out.addr.port>>
    /\ d.udph.len = out.len + 8 /\ d.tot_len = d.udph.len + 20
    /\ d.pkt_len = d.tot_len + 14 /\ d.pkt_len <= d.size
=============================================================================
