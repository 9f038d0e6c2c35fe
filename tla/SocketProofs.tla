----------------------------- MODULE SocketProofs -----------------------------
(***************************************************************************)
(* The socket list of socket.c is sound for any number of sockets, created *)
(* and closed in any order, and implements SocketTable; ports and          *)
(* datagrams are right for any number of ports, addresses and messages.    *)
(***************************************************************************)
EXTENDS Socket, ModArith

(* The list is the sequence f of n sockets, the first one at socket_list. *)
Order(n, f) ==
  /\ alloc = {f[i] : i \in 1 .. n}
  /\ \A i, j \in 1 .. n : f[i] = f[j] => i = j
  /\ socket_list = IF n = 0 THEN NULL ELSE f[1]
  /\ \A i \in 1 .. n : /\ prev[f[i]] = IF i = 1 THEN NULL ELSE f[i - 1]
                       /\ next[f[i]] = IF i = n THEN NULL ELSE f[i + 1]

(* ListSound is not inductive: links that agree in both directions may also  *)
(* form a cycle that cannot be reached from socket_list.  That there is an   *)
(* order of all open sockets excludes it.                                    *)
ListInv ==
  /\ next \in [Sock -> Sock \cup {NULL}] /\ prev \in [Sock -> Sock \cup {NULL}]
  /\ \E n \in Nat : \E f \in [1 .. n -> Sock] : Order(n, f)

(* An order of the sockets implies what ListSound says of the links. *)
LEMMA ListInvSound == ListInv => ListSound
<1> SUFFICES ASSUME ListInv PROVE ListSound
  OBVIOUS
<1>1. PICK n \in Nat : \E f \in [1 .. n -> Sock] : Order(n, f)
  BY DEF ListInv
<1>2. PICK f \in [1 .. n -> Sock] : Order(n, f)
  BY <1>1
<1>3. NULL \notin Sock
  BY SocketAssumption
<1>4. IF socket_list = NULL THEN alloc = {} ELSE socket_list \in alloc
  BY <1>2, <1>3 DEF Order
<1>5. ASSUME NEW s \in alloc
      PROVE  /\ prev[s] = NULL <=> s = socket_list
             /\ prev[s] # NULL => prev[s] \in alloc /\ next[prev[s]] = s
             /\ next[s] # NULL => next[s] \in alloc /\ prev[next[s]] = s
  <2>1. PICK i \in 1 .. n : s = f[i]
    BY <1>2 DEF Order
  <2>2. prev[s] = NULL <=> s = socket_list
    BY <1>2, <1>3, <2>1 DEF Order
  <2>3. prev[s] # NULL => prev[s] \in alloc /\ next[prev[s]] = s
    BY <1>2, <2>1 DEF Order
  <2>4. next[s] # NULL => next[s] \in alloc /\ prev[next[s]] = s
    <3>1. i = n => next[s] = NULL
      BY <1>2, <2>1 DEF Order
    <3>2. ASSUME i # n PROVE next[s] \in alloc /\ prev[next[s]] = s
      <4>1. i + 1 \in 1 .. n /\ next[s] = f[i + 1]
        BY <1>2, <2>1, <3>2 DEF Order
      <4> QED
        BY <1>2, <2>1, <4>1 DEF Order
    <3> QED
      BY <3>1, <3>2
  <2> QED
    BY <2>2, <2>3, <2>4
<1> QED
  BY <1>4, <1>5 DEF ListSound

(* socket_list_add() puts the new socket in front of the order. *)
LEMMA AddKeepsOrder ==
  ASSUME ListInv, NEW s \in Sock \ alloc, socket_list_add(s), alloc' = alloc \cup {s}
  PROVE  ListInv'
<1>1. PICK n \in Nat : \E f \in [1 .. n -> Sock] : Order(n, f)
  BY DEF ListInv
<1>2. PICK f \in [1 .. n -> Sock] : Order(n, f)
  BY <1>1
<1> DEFINE g == [i \in 1 .. n + 1 |-> IF i = 1 THEN s ELSE f[i - 1]]
<1>3. g \in [1 .. n + 1 -> Sock] /\ n + 1 \in Nat
  OBVIOUS
<1>4. NULL \notin Sock
  BY SocketAssumption
<1>5. socket_list \in Sock \cup {NULL}
  BY <1>2 DEF Order
<1>6. /\ next' \in [Sock -> Sock \cup {NULL}]
      /\ prev' \in [Sock -> Sock \cup {NULL}]
  BY <1>5 DEF ListInv, socket_list_add
<1>7. \A i \in 1 .. n : f[i] \in alloc /\ f[i] \in Sock /\ f[i] # s
  BY <1>2 DEF Order
<1>8. alloc' = {g[i] : i \in 1 .. n + 1}
  <2>1. \A i \in 1 .. n + 1 : g[i] \in alloc'
    BY <1>7
  <2>2. ASSUME NEW t \in alloc' PROVE \E i \in 1 .. n + 1 : t = g[i]
    <3>1. CASE t = s
      <4>1. 1 \in 1 .. n + 1 /\ g[1] = s
        OBVIOUS
      <4> QED
        BY <3>1, <4>1
    <3>2. CASE t \in alloc
      <4>1. PICK i \in 1 .. n : t = f[i]
        BY <1>2, <3>2 DEF Order
      <4>2. i + 1 \in 1 .. n + 1 /\ g[i + 1] = t
        BY <4>1
      <4> QED
        BY <4>2
    <3> QED
      BY <3>1, <3>2
  <2> QED
    BY <2>1, <2>2
<1>9. \A i, j \in 1 .. n + 1 : g[i] = g[j] => i = j
  BY <1>2, <1>7 DEF Order
<1>10. socket_list' = g[1]
  BY DEF socket_list_add
<1>11. ASSUME NEW i \in 1 .. n + 1
       PROVE  /\ prev'[g[i]] = IF i = 1 THEN NULL ELSE g[i - 1]
              /\ next'[g[i]] = IF i = n + 1 THEN NULL ELSE g[i + 1]
  <2>1. CASE i = 1
    BY <1>2, <2>1 DEF Order, ListInv, socket_list_add
  <2>2. CASE i # 1
    <3>1. i - 1 \in 1 .. n /\ g[i] = f[i - 1]
      BY <2>2
    <3>2. next'[g[i]] = next[f[i - 1]]
      BY <1>7, <3>1 DEF ListInv, socket_list_add
    <3>3. next'[g[i]] = IF i = n + 1 THEN NULL ELSE g[i + 1]
      BY <1>2, <3>1, <3>2 DEF Order
    <3>4. f[i - 1] = socket_list <=> i = 2
      BY <1>2, <3>1 DEF Order
    <3>5. prev'[g[i]] = IF i = 2 THEN s ELSE prev[f[i - 1]]
      BY <1>7, <3>1, <3>4 DEF socket_list_add
    <3>6. prev'[g[i]] = g[i - 1]
      BY <1>2, <3>1, <3>5 DEF Order
    <3> QED
      BY <2>2, <3>3, <3>6
  <2> QED
    BY <2>1, <2>2
<1>12. Order(n + 1, g)'
  <2>1. socket_list' = IF n + 1 = 0 THEN NULL ELSE g[1]
    BY <1>10
  <2> HIDE DEF g
  <2> QED
    BY <1>8, <1>9, <1>11, <2>1 DEF Order
<1> QED
  BY <1>3, <1>6, <1>12 DEF ListInv

(* socket_list_del() closes the gap the deleted socket leaves in the order. *)
LEMMA DelKeepsOrder ==
  ASSUME ListInv, NEW s \in alloc, s \in Sock, socket_list_del(s), alloc' = alloc \ {s}
  PROVE  ListInv'
<1>1. PICK n \in Nat : \E f \in [1 .. n -> Sock] : Order(n, f)
  BY DEF ListInv
<1>2. PICK f \in [1 .. n -> Sock] : Order(n, f)
  BY <1>1
<1>3. PICK k \in 1 .. n : s = f[k]
  BY <1>2 DEF Order
<1> DEFINE g == [i \in 1 .. n - 1 |-> IF i < k THEN f[i] ELSE f[i + 1]]
<1>4. g \in [1 .. n - 1 -> Sock] /\ n - 1 \in Nat
  BY <1>3
<1>5. NULL \notin Sock
  BY SocketAssumption
<1>6. /\ next[s] \in Sock \cup {NULL} /\ prev[s] \in Sock \cup {NULL}
      /\ prev[s] = IF k = 1 THEN NULL ELSE f[k - 1]
      /\ next[s] = IF k = n THEN NULL ELSE f[k + 1]
  BY <1>2, <1>3 DEF Order, ListInv
<1>7. /\ next' \in [Sock -> Sock \cup {NULL}]
      /\ prev' \in [Sock -> Sock \cup {NULL}]
  BY <1>6 DEF ListInv, socket_list_del
<1>8. alloc' = {g[i] : i \in 1 .. n - 1}
  <2>1. ASSUME NEW i \in 1 .. n - 1 PROVE g[i] \in alloc'
    BY <1>2, <1>3 DEF Order
  <2>2. ASSUME NEW t \in alloc' PROVE \E i \in 1 .. n - 1 : t = g[i]
    <3>1. PICK i \in 1 .. n : t = f[i]
      BY <1>2 DEF Order
    <3>2. i # k
      BY <1>3, <3>1
    <3>3. CASE i < k
      <4>1. i \in 1 .. n - 1 /\ g[i] = t
        BY <3>1, <3>3
      <4> QED
        BY <4>1
    <3>4. CASE i > k
      <4>1. i - 1 \in 1 .. n - 1 /\ g[i - 1] = t
        BY <3>1, <3>4
      <4> QED
        BY <4>1
    <3> QED
      BY <3>2, <3>3, <3>4
  <2> QED
    BY <2>1, <2>2
<1>9. \A i, j \in 1 .. n - 1 : g[i] = g[j] => i = j
  BY <1>2 DEF Order
<1>10. socket_list' = IF n - 1 = 0 THEN NULL ELSE g[1]
  <2>1. CASE k = 1
    BY <1>6, <2>1 DEF socket_list_del
  <2>2. CASE k # 1
    <3>1. k - 1 \in 1 .. n
      BY <2>2
    <3>2. prev[s] # NULL
      BY <1>5, <1>6, <2>2, <3>1
    <3> QED
      BY <1>2, <2>2, <3>2 DEF Order, socket_list_del
  <2> QED
    BY <2>1, <2>2
<1>11. ASSUME NEW i \in 1 .. n
       PROVE  /\ f[i] \in Sock
              /\ f[i] = s <=> i = k
              /\ f[i] = next[s] <=> i = k + 1
              /\ f[i] = prev[s] <=> i = k - 1
  <2>1. \A j \in 1 .. n : f[i] = f[j] <=> i = j
    BY <1>2 DEF Order
  <2>2. f[i] \in Sock /\ f[i] # NULL
    BY <1>5
  <2>3. f[i] = next[s] <=> i = k + 1
    <3>1. CASE k = n
      BY <1>6, <2>2, <3>1
    <3>2. CASE k # n
      <4>1. k + 1 \in 1 .. n /\ next[s] = f[k + 1]
        BY <1>6, <3>2
      <4> QED
        BY <2>1, <4>1
    <3> QED
      BY <3>1, <3>2
  <2>4. f[i] = prev[s] <=> i = k - 1
    <3>1. CASE k = 1
      BY <1>6, <2>2, <3>1
    <3>2. CASE k # 1
      <4>1. k - 1 \in 1 .. n /\ prev[s] = f[k - 1]
        BY <1>6, <3>2
      <4> QED
        BY <2>1, <4>1
    <3> QED
      BY <3>1, <3>2
  <2> QED
    BY <1>3, <2>1, <2>2, <2>3, <2>4
<1>12. ASSUME NEW i \in 1 .. n, i # k
       PROVE  /\ prev'[f[i]] = IF i = k + 1 THEN prev[s] ELSE prev[f[i]]
              /\ next'[f[i]] = IF i = k - 1 THEN next[s] ELSE next[f[i]]
  BY <1>11, <1>12 DEF socket_list_del
<1>13. ASSUME NEW i \in 1 .. n - 1
       PROVE  /\ prev'[g[i]] = IF i = 1 THEN NULL ELSE g[i - 1]
              /\ next'[g[i]] = IF i = n - 1 THEN NULL ELSE g[i + 1]
  <2>1. \A j \in 1 .. n : /\ prev[f[j]] = IF j = 1 THEN NULL ELSE f[j - 1]
                          /\ next[f[j]] = IF j = n THEN NULL ELSE f[j + 1]
    BY <1>2 DEF Order
  <2>2. CASE i < k
    <3>1. i \in 1 .. n /\ i # k /\ g[i] = f[i]
      BY <2>2
    <3> QED
      BY <1>6, <1>12, <2>1, <2>2, <3>1
  <2>3. CASE i >= k
    <3>1. i + 1 \in 1 .. n /\ i + 1 # k /\ g[i] = f[i + 1]
      BY <2>3
    <3>2. next'[g[i]] = IF i = n - 1 THEN NULL ELSE g[i + 1]
      <4>1. next'[g[i]] = next[f[i + 1]]
        BY <1>12, <2>3, <3>1
      <4> QED
        BY <2>1, <2>3, <3>1, <4>1
    <3>3. CASE i = k
      <4>1. prev'[g[i]] = prev[s]
        BY <1>12, <3>1, <3>3
      <4> QED
        BY <1>6, <3>2, <3>3, <4>1
    <3>4. CASE i > k
      <4>1. prev'[g[i]] = prev[f[i + 1]]
        BY <1>12, <3>1, <3>4
      <4>2. prev[f[i + 1]] = f[i] /\ i # 1
        BY <2>1, <3>1, <3>4
      <4>3. i - 1 \in 1 .. n - 1 /\ g[i - 1] = f[i]
        BY <3>4
      <4> QED
        BY <3>2, <4>1, <4>2, <4>3
    <3> QED
      BY <2>3, <3>3, <3>4
  <2> QED
    BY <2>2, <2>3
<1>14. Order(n - 1, g)'
  <2> HIDE DEF g
  <2> QED
    BY <1>8, <1>9, <1>10, <1>13 DEF Order
<1> QED
  BY <1>4, <1>7, <1>14 DEF ListInv

(* Before the first socket() the order is empty. *)
LEMMA ListInit == Init => ListInv
<1> SUFFICES ASSUME Init PROVE ListInv
  OBVIOUS
<1> DEFINE e == [i \in 1 .. 0 |-> NULL]
<1>1. e \in [1 .. 0 -> Sock] /\ 0 \in Nat
  OBVIOUS
<1>2. Order(0, e)
  BY DEF Init, Order
<1>3. /\ next \in [Sock -> Sock \cup {NULL}] /\ prev \in [Sock -> Sock \cup {NULL}]
  BY DEF Init
<1> QED
  BY <1>1, <1>2, <1>3 DEF ListInv

(* Only socket() and close() touch the list. *)
LEMMA ListStep == ListInv /\ [Next]_vars => ListInv'
<1> SUFFICES ASSUME ListInv, [Next]_vars PROVE ListInv'
  OBVIOUS
<1>1. ASSUME UNCHANGED list PROVE ListInv'
  BY <1>1 DEF list, ListInv, Order
<1>2. CASE socket_fails
  BY <1>1, <1>2 DEF socket_fails
<1>3. ASSUME NEW s \in Sock, NEW k \in Kinds, socket(s, k[1], k[2], k[3])
      PROVE  ListInv'
  BY <1>3, AddKeepsOrder DEF socket
<1>4. ASSUME NEW s \in Sock, sock_close(s) PROVE ListInv'
  BY <1>4, DelKeepsOrder DEF sock_close
<1>5. ASSUME NEW s \in Sock, shutdown(s) PROVE ListInv'
  BY <1>1, <1>5 DEF shutdown, Jump
<1>6. ASSUME NEW s \in Sock, NEW a \in SockAddr, bind(s, a) PROVE ListInv'
  BY <1>1, <1>6 DEF bind, inet_bind, Jump
<1>7. ASSUME NEW s \in Sock, NEW m \in Message, sendto(s, m) PROVE ListInv'
  <2>1. UNCHANGED list
    BY <1>7 DEF sendto, inet_sendmsg, Jump
  <2> QED
    BY <1>1, <2>1
<1>8. CASE UNCHANGED vars
  BY <1>1, <1>8 DEF vars, list
<1> QED
  BY <1>2, <1>3, <1>4, <1>5, <1>6, <1>7, <1>8 DEF Next

(* The socket list is sound in every reachable state: links agree in both     *)
(* directions, begin at socket_list and reach only open sockets.              *)
THEOREM ListTheorem == Spec => []ListSound
<1>1. Init => ListInv
  BY ListInit
<1>2. ListInv /\ [Next]_vars => ListInv'
  BY ListStep
<1>3. ListInv => ListSound
  BY ListInvSound
<1> QED
  BY <1>1, <1>2, <1>3, PTL DEF Spec

-----------------------------------------------------------------------------
(* The ports inet_get_port() goes through. *)
Dynamic == Ports - FirstPort

(* Numbers of ports: a byte has at least two values. *)
LEMMA PortNumbers ==
  /\ ByteSize \in Nat \ {0} /\ Ports = ByteSize * ByteSize /\ Ports \in Nat
  /\ Dynamic \in Nat \ {0} /\ FirstPort \in 1 .. Ports - 1
<1>1. ByteSize \in Nat \ {0} /\ Ports = ByteSize * ByteSize
  BY SocketAssumption DEF Ports
<1>2. Ports \in Nat
  BY <1>1
<1>3. FirstPort \in 1 .. Ports - 1
  BY SocketAssumption
<1> QED
  BY <1>1, <1>2, <1>3 DEF Dynamic

(* htons() maps ports to ports, is its own inverse and keeps 0 apart. *)
LEMMA Swap ==
  ASSUME NEW x \in 0 .. Ports - 1
  PROVE  /\ htons(x) \in 0 .. Ports - 1 /\ htons(htons(x)) = x
         /\ x # 0 => htons(x) # 0
<1> DEFINE B == ByteSize
           a == x \div B
           r == x % B
<1>1. B \in Nat \ {0} /\ Ports = B * B /\ x \in Nat /\ x < B * B
  BY PortNumbers
<1> HIDE DEF B
<1>2. x = a * B + r /\ r \in 0 .. B - 1 /\ a \in Nat
  BY <1>1, DivMod
<1>3. htons(x) = B * r + a
  BY DEF htons, B
<1> HIDE DEF a, r
<1>4. a \in 0 .. B - 1
  <2>1. CASE a >= B
    <3>1. a * B >= B * B
      BY <1>1, <1>2, <2>1
    <3> QED
      BY <1>1, <1>2, <3>1
  <2> QED
    BY <1>1, <1>2, <2>1
<1>5. B * r = r * B /\ B * a = a * B
  BY <1>1, <1>2
<1>6. htons(x) \div B = r /\ htons(x) % B = a
  <2>1. (r * B + a) \div B = r /\ (r * B + a) % B = a
    <3>1. r \in Nat
      BY <1>1, <1>2
    <3> QED
      BY <1>1, <1>4, <3>1, DivModOf
  <2> QED
    BY <1>3, <1>5, <2>1
<1>7. htons(htons(x)) = B * a + r
  BY <1>6 DEF htons, B
<1>8. B * r <= B * (B - 1) /\ B * (B - 1) = B * B - B /\ B * r >= 0
  BY <1>1, <1>2
<1>9. B * r \in Nat /\ htons(x) < B * B
  BY <1>1, <1>2, <1>3, <1>4, <1>8
<1>10. ASSUME htons(x) = 0 PROVE x = 0
  <2>1. htons(htons(x)) = B * 0 + 0
    <3>1. 0 \div B = 0 /\ 0 % B = 0
      BY <1>1, DivModOf
    <3>2. r = 0 /\ a = 0
      BY <1>6, <1>10, <3>1
    <3> QED
      BY <1>7, <3>2
  <2> QED
    BY <1>1, <1>2, <1>5, <1>7, <2>1
<1> QED
  BY <1>1, <1>2, <1>3, <1>4, <1>5, <1>7, <1>9, <1>10

(* The members of a socket; between two calls its queue is empty. *)
SockRec ==
  [type : Types, protocol : Protocols, p_ops : BOOLEAN, src_port : 0 .. Ports - 1,
   dst_addr : Nat, dst_port : 0 .. Ports - 1, tx_q : {<< >>}]

(* The counter goes around the dynamic ports, one for each draw. *)
PortsInv ==
  /\ draws \in 0 .. MaxDraws /\ drawn \in [Sock -> 0 .. draws]
  /\ inet_port = FirstPort + (draws % Dynamic)

(* A port that was drawn stays until the socket is closed: bind() refuses a  *)
(* socket that has one.                                                      *)
DrawnInv ==
  \A s \in Sock : drawn[s] > 0 =>
    sk[s].src_port = htons(FirstPort + ((drawn[s] - 1) % Dynamic))

SocketInv ==
  /\ sk \in [Sock -> SockRec] /\ alloc \subseteq Sock /\ wild \in BOOLEAN
  /\ PortsInv /\ DrawnInv

(* A draw that has a number is a dynamic port. *)
LEMMA DrawnPort ==
  ASSUME NEW n \in Nat
  PROVE  FirstPort + (n % Dynamic) \in FirstPort .. Ports - 1
<1>1. n % Dynamic \in 0 .. Dynamic - 1
  BY PortNumbers, DivMod
<1> QED
  BY <1>1, PortNumbers DEF Dynamic

(* A cleared socket, and what socket() makes of it. *)
LEMMA ClearedTyped ==
  ASSUME NEW t \in Types, NEW q \in Protocols
  PROVE  /\ Cleared(t) \in SockRec
         /\ Default(t, q) \in Protocols
         /\ \A b \in BOOLEAN :
              [Cleared(t) EXCEPT !.protocol = Default(t, q), !.p_ops = b] \in SockRec
<1>1. 0 \in 0 .. Ports - 1 /\ 0 \in Nat /\ "0" \in Protocols /\ FALSE \in BOOLEAN
  BY PortNumbers DEF Protocols
<1>2. Cleared(t) \in SockRec
  BY <1>1 DEF Cleared, SockRec
<1>3. Default(t, q) \in Protocols
  BY DEF Default, Protocols
<1> QED
  BY <1>2, <1>3 DEF SockRec

(* The fields of the address of a message. *)
LEMMA AddrFields ==
  ASSUME NEW a \in SockAddr
  PROVE  a.ip \in Nat /\ a.port \in 0 .. Ports - 1
  BY SocketAssumption

(* The fields of a message. *)
LEMMA MessageFields ==
  ASSUME NEW m \in Message
  PROVE  m.addr \in SockAddr \cup {NULL} /\ m.len \in Nat /\ m.len + 42 < Word
  BY SocketAssumption

(* A number that fits a word is not cut off. *)
LEMMA FitsWord ==
  ASSUME NEW x \in Nat, x < Word
  PROVE  x % Word = x
<1>1. Word \in Nat \ {0}
  BY SocketAssumption
<1>2. x \in 0 .. Word - 1
  BY <1>1
<1>3. (0 * Word + x) % Word = x
  BY <1>1, <1>2, DivModOf
<1> QED
  BY <1>1, <1>3

(* A socket that had no port gets the next one, which is not 0. *)
LEMMA PortGiven ==
  ASSUME NEW r \in SockRec, inet_port \in FirstPort .. Ports - 1
  PROVE  /\ WithPort(r) \in SockRec /\ WithPort(r).src_port # 0
         /\ WithPort(r).src_port = IF r.src_port = 0 THEN htons(inet_port) ELSE r.src_port
         /\ WithPort(r).dst_addr = r.dst_addr /\ WithPort(r).dst_port = r.dst_port
         /\ WithPort(r).type = r.type /\ WithPort(r).protocol = r.protocol
<1>1. inet_port \in 0 .. Ports - 1 /\ inet_port # 0
  BY PortNumbers
<1>2. htons(inet_port) \in 0 .. Ports - 1 /\ htons(inet_port) # 0
  BY <1>1, Swap
<1> QED
  BY <1>2 DEF WithPort, SockRec

(* A call with an address changes the peer and nothing else. *)
LEMMA PeerGiven ==
  ASSUME NEW r \in SockRec, NEW m \in Message
  PROVE  /\ WithPeer(r, m) \in SockRec /\ WithPeer(r, m).src_port = r.src_port
         /\ WithPeer(r, m).type = r.type /\ WithPeer(r, m).protocol = r.protocol
         /\ WithPeer(r, m).dst_addr = IF m.addr = NULL THEN r.dst_addr ELSE m.addr.ip
         /\ WithPeer(r, m).dst_port = IF m.addr = NULL THEN r.dst_port ELSE m.addr.port
<1>1. m.addr # NULL => m.addr.ip \in Nat /\ m.addr.port \in 0 .. Ports - 1
  BY MessageFields, AddrFields
<1> QED
  BY <1>1 DEF WithPeer, SockRec

(* What udp_send_msg() leaves behind and hands to the device: with an empty  *)
(* queue before, the buffer that gets the header is the one just appended.   *)
Datagram(r, m, d) ==
  /\ d.udph # NULL
  /\ d.udph.port_src = r.src_port
  /\ <<d.ip_dst, d.udph.port_dst>> =
       IF m.addr = NULL THEN <<r.dst_addr, r.dst_port>> ELSE <<m.addr.ip, m.addr.port>>
  /\ d.udph.len = m.len + 8 /\ d.tot_len = d.udph.len + 20
  /\ d.pkt_len = d.tot_len + 14 /\ d.pkt_len <= d.size

(* udp_send_msg() hands over the datagram it has made, or none. *)
LEMMA SendResult ==
  ASSUME NEW r \in SockRec, NEW m \in Message, NEW end \in {"nomem", "sent", "down"}
  PROVE  LET res == udp_send_msg(r, m, end) IN
           /\ res.sk \in SockRec /\ res.sk.src_port = r.src_port
           /\ res.sk.type = r.type /\ res.sk.protocol = r.protocol
           /\ res.bufs = << >> \/ (\E d : res.bufs = <<d>> /\ Datagram(r, m, d))
<1>1. CASE Refused(m)
  BY <1>1 DEF udp_send_msg
<1>2. CASE ~Refused(m) /\ end = "nomem"
  BY <1>2, PeerGiven DEF udp_send_msg
<1>3. CASE ~Refused(m) /\ end # "nomem"
  <2> DEFINE to == WithPeer(r, m)
             nb == ip_create_nb(to, m.len + 8)
             queued == [to EXCEPT !.tx_q = Append(@, nb)]
             udph == [port_src |-> to.src_port, port_dst |-> to.dst_port,
                      len |-> (nb.pkt_len - nb.transport_hdr_offset) % Word]
             full == [nb EXCEPT !.udph = udph]
  <2>1. /\ to \in SockRec /\ to.src_port = r.src_port
        /\ to.type = r.type /\ to.protocol = r.protocol
        /\ to.dst_addr = IF m.addr = NULL THEN r.dst_addr ELSE m.addr.ip
        /\ to.dst_port = IF m.addr = NULL THEN r.dst_port ELSE m.addr.port
    BY PeerGiven
  <2>2. udp_send_msg(r, m, end) = netdev_queue_xmit(udp_send(queued), end = "sent")
    BY <1>3 DEF udp_send_msg
  <2> HIDE DEF to
  <2>3. nb = [size |-> m.len + 42, pkt_len |-> m.len + 42, transport_hdr_offset |-> 34,
              tot_len |-> m.len + 28, ip_dst |-> to.dst_addr, udph |-> NULL]
    <3>1. m.len \in Nat /\ m.len + 42 < Word /\ Word \in Nat
      BY MessageFields, SocketAssumption
    <3>2. m.len + 8 + 20 + 14 = m.len + 42 /\ m.len + 8 + 20 = m.len + 28
      BY <3>1
    <3>3. (m.len + 42) % Word = m.len + 42 /\ (m.len + 28) % Word = m.len + 28
      BY <3>1, FitsWord
    <3> QED
      BY <3>2, <3>3 DEF ip_create_nb
  <2>4. Datagram(r, m, full)
    <3>1. /\ full.udph = udph /\ full.ip_dst = to.dst_addr /\ full.tot_len = m.len + 28
          /\ full.pkt_len = m.len + 42 /\ full.size = m.len + 42
      BY <2>3
    <3>2. udph.port_src = to.src_port /\ udph.port_dst = to.dst_port /\ udph.len = m.len + 8
      <4>1. m.len \in Nat /\ m.len + 8 < Word /\ m.len + 42 - 34 = m.len + 8
        BY MessageFields, SocketAssumption
      <4>2. (m.len + 8) % Word = m.len + 8
        BY <4>1, FitsWord
      <4> QED
        BY <2>3, <4>1, <4>2
    <3>3. udph # NULL
      <4>1. to.src_port \in Nat /\ to.dst_port \in Nat
        BY <2>1, PortNumbers DEF SockRec
      <4>2. udph \in [port_src : Nat, port_dst : Nat, len : Nat]
        BY <3>2, <4>1, MessageFields
      <4> QED
        BY <4>2, SocketAssumption
    <3> HIDE DEF full, udph
    <3> QED
      BY <2>1, <3>1, <3>2, <3>3, MessageFields DEF Datagram
  <2> HIDE DEF nb
  <2>5. to.tx_q = << >>
    BY <2>1 DEF SockRec
  <2>6. /\ queued = [to EXCEPT !.tx_q = <<nb>>] /\ queued.tx_q = <<nb>>
        /\ queued.src_port = to.src_port /\ queued.dst_port = to.dst_port
    <3>1. Append(to.tx_q, nb) = <<nb>>
      BY <2>5
    <3> QED
      BY <2>1, <3>1 DEF SockRec
  <2> HIDE DEF queued
  <2>7. udp_send(queued) = [queued EXCEPT !.tx_q = [@ EXCEPT ![1] = full]]
    BY <2>6 DEF udp_send
  <2> HIDE DEF full
  <2>8. [queued.tx_q EXCEPT ![1] = full] = <<full>>
    BY <2>6
  <2>9. udp_send(queued) = [to EXCEPT !.tx_q = <<full>>]
    BY <2>1, <2>6, <2>7, <2>8 DEF SockRec
  <2>10. /\ udp_send(queued).tx_q = <<full>>
         /\ [udp_send(queued) EXCEPT !.tx_q = << >>] = to
    BY <2>1, <2>5, <2>9 DEF SockRec
  <2> HIDE DEF udph
  <2> QED
    BY <2>1, <2>2, <2>4, <2>10 DEF netdev_queue_xmit
<1> QED
  BY <1>1, <1>2, <1>3

(* No socket exists yet and no port was drawn. *)
LEMMA SocketInit == Init => SocketInv
<1> SUFFICES ASSUME Init PROVE SocketInv
  OBVIOUS
<1>1. "0" \in Types /\ "0" \in Protocols
  BY DEF Types, Protocols
<1>2. sk \in [Sock -> SockRec] /\ alloc \subseteq Sock
  BY <1>1, ClearedTyped DEF Init
<1>3. wild \in BOOLEAN
  BY Zenon DEF Init
<1>4. 0 % Dynamic = 0
  BY PortNumbers, DivModOf
<1>5. PortsInv
  BY <1>4, PortNumbers, SocketAssumption DEF Init, PortsInv
<1>6. DrawnInv
  BY DEF Init, DrawnInv
<1> QED
  BY <1>2, <1>3, <1>5, <1>6 DEF SocketInv

(* The counter is a dynamic port. *)
LEMMA CounterRange == PortsInv => inet_port \in FirstPort .. Ports - 1
<1> SUFFICES ASSUME PortsInv PROVE inet_port \in FirstPort .. Ports - 1
  OBVIOUS
<1>1. draws \in Nat
  BY SocketAssumption DEF PortsInv
<1> QED
  BY <1>1, DrawnPort DEF PortsInv

(* A step that draws no port and leaves the members of the sockets with a    *)
(* drawn port alone keeps the ports right.                                   *)
LEMMA NoDraw ==
  ASSUME SocketInv, UNCHANGED <<inet_port, draws>>,
         drawn' \in [Sock -> 0 .. draws],
         \A s \in Sock : drawn'[s] > 0 =>
           drawn'[s] = drawn[s] /\ sk'[s].src_port = sk[s].src_port
  PROVE  PortsInv' /\ DrawnInv'
<1>1. PortsInv'
  BY DEF SocketInv, PortsInv
<1>2. DrawnInv'
  BY DEF SocketInv, DrawnInv
<1> QED
  BY <1>1, <1>2

(* inet_get_port() gives the socket the next port of the cycle. *)
LEMMA Draw ==
  ASSUME SocketInv, NEW s \in Sock, inet_get_port,
         drawn' = [drawn EXCEPT ![s] = draws + 1],
         sk'[s].src_port = htons(inet_port),
         \A t \in Sock \ {s} : sk'[t] = sk[t]
  PROVE  PortsInv' /\ DrawnInv'
<1>1. /\ draws \in 0 .. MaxDraws /\ draws \in Nat /\ draws < MaxDraws /\ draws' = draws + 1
      /\ drawn \in [Sock -> 0 .. draws] /\ MaxDraws \in Nat
      /\ inet_port = FirstPort + (draws % Dynamic)
  BY SocketAssumption DEF SocketInv, PortsInv, inet_get_port
<1>2. drawn' \in [Sock -> 0 .. draws']
  BY <1>1
<1>3. inet_port' = FirstPort + (draws' % Dynamic)
  <2>1. (draws + 1) % Dynamic =
          IF draws % Dynamic = Dynamic - 1 THEN 0 ELSE (draws % Dynamic) + 1
    BY <1>1, PortNumbers, ModSucc
  <2>2. draws % Dynamic \in 0 .. Dynamic - 1
    BY <1>1, PortNumbers, DivMod
  <2> QED
    BY <1>1, <2>1, <2>2, PortNumbers DEF inet_get_port, Dynamic
<1>4. ASSUME NEW t \in Sock, drawn'[t] > 0
      PROVE  sk'[t].src_port = htons(FirstPort + ((drawn'[t] - 1) % Dynamic))
  <2>1. CASE t = s
    <3>1. drawn'[t] - 1 = draws
      BY <1>1, <2>1
    <3> QED
      BY <1>1, <2>1, <3>1
  <2>2. CASE t # s
    BY <1>1, <1>4, <2>2 DEF SocketInv, DrawnInv
  <2> QED
    BY <2>1, <2>2
<1> QED
  BY <1>1, <1>2, <1>3, <1>4 DEF PortsInv, DrawnInv

(* What inet_sendmsg() does to the socket: it keeps its port or draws one. *)
LEMMA SendKeeps ==
  ASSUME SocketInv, NEW s \in Sock, NEW m \in Message,
         NEW end \in {"nomem", "sent", "down"}, inet_sendmsg(s, m, end)
  PROVE  /\ sk' \in [Sock -> SockRec] /\ PortsInv' /\ DrawnInv'
         /\ sk'[s].type = sk[s].type /\ sk'[s].protocol = sk[s].protocol
         /\ sk[s].src_port # 0 => sk'[s].src_port = sk[s].src_port
         /\ \A t \in Sock \ {s} : sk'[t] = sk[t]
         /\ \/ out' = Nothing
            \/ /\ out'.from = s /\ out'.addr = m.addr /\ out'.len = m.len
               /\ out'.peer = <<sk[s].dst_addr, sk[s].dst_port>>
               /\ sk'[s].src_port # 0
               /\ \E d : out'.bufs = <<d>> /\ Datagram(WithPort(sk[s]), m, d)
               /\ sk'[s].src_port = WithPort(sk[s]).src_port
<1> DEFINE r == WithPort(sk[s])
           res == IF r.protocol = "UDP" THEN udp_send_msg(r, m, end)
                                        ELSE [bufs |-> <<>>, sk |-> r]
<1>1. sk \in [Sock -> SockRec] /\ inet_port \in FirstPort .. Ports - 1
  BY CounterRange DEF SocketInv
<1>2. /\ r \in SockRec /\ r.src_port # 0
      /\ r.src_port = IF sk[s].src_port = 0 THEN htons(inet_port) ELSE sk[s].src_port
      /\ r.type = sk[s].type /\ r.protocol = sk[s].protocol
  BY <1>1, PortGiven
<1>3. /\ res.sk \in SockRec /\ res.sk.src_port = r.src_port
      /\ res.sk.type = r.type /\ res.sk.protocol = r.protocol
      /\ res.bufs = << >> \/ (\E d : res.bufs = <<d>> /\ Datagram(r, m, d))
  BY <1>2, SendResult
<1>4. /\ IF sk[s].src_port = 0
           THEN inet_get_port /\ drawn' = [drawn EXCEPT ![s] = draws + 1]
           ELSE UNCHANGED ports
      /\ sk' = [sk EXCEPT ![s] = res.sk]
      /\ out' = IF res.bufs = <<>> THEN Nothing
                 ELSE [from |-> s, addr |-> m.addr, len |-> m.len, bufs |-> res.bufs,
                       peer |-> <<sk[s].dst_addr, sk[s].dst_port>>]
  BY DEF inet_sendmsg
<1> HIDE DEF res, r
<1>5. /\ sk' \in [Sock -> SockRec] /\ sk'[s].src_port = r.src_port
      /\ sk'[s].type = r.type /\ sk'[s].protocol = r.protocol
      /\ \A t \in Sock \ {s} : sk'[t] = sk[t]
  BY <1>1, <1>3, <1>4
<1>6. PortsInv' /\ DrawnInv'
  <2>1. CASE sk[s].src_port = 0
    BY <1>2, <1>4, <1>5, <2>1, Draw
  <2>2. CASE sk[s].src_port # 0
    <3>1. \A t \in Sock : sk'[t].src_port = sk[t].src_port
      BY <1>2, <1>5, <2>2
    <3>2. UNCHANGED ports
      BY <1>4, <2>2
    <3> QED
      BY <3>1, <3>2, NoDraw DEF ports, SocketInv, PortsInv
  <2> QED
    BY <2>1, <2>2
<1>7. \/ out' = Nothing
      \/ /\ out'.from = s /\ out'.addr = m.addr /\ out'.len = m.len
         /\ out'.peer = <<sk[s].dst_addr, sk[s].dst_port>>
         /\ sk'[s].src_port # 0
         /\ \E d : out'.bufs = <<d>> /\ Datagram(r, m, d)
         /\ sk'[s].src_port = r.src_port
  <2>1. CASE res.bufs = << >>
    BY <1>4, <2>1
  <2>2. CASE res.bufs # << >>
    BY <1>2, <1>3, <1>4, <1>5, <2>2
  <2> QED
    BY <2>1, <2>2
<1> QED
  BY <1>2, <1>5, <1>6, <1>7 DEF r

(* Every call keeps the sockets, the counter and the drawn ports in order. *)
LEMMA SocketStep == SocketInv /\ [Next]_vars => SocketInv'
<1> SUFFICES ASSUME SocketInv, [Next]_vars PROVE SocketInv'
  OBVIOUS
<1>0. /\ sk \in [Sock -> SockRec] /\ alloc \subseteq Sock /\ wild \in BOOLEAN
      /\ drawn \in [Sock -> 0 .. draws] /\ draws \in Nat /\ 0 \in 0 .. draws
      /\ PortsInv /\ DrawnInv
  <2>1. draws \in Nat
    BY SocketAssumption DEF SocketInv, PortsInv
  <2> QED
    BY <2>1 DEF SocketInv, PortsInv
<1>1. ASSUME UNCHANGED <<sk, alloc, inet_port, draws, drawn>>, wild' \in BOOLEAN
      PROVE  SocketInv'
  BY <1>0, <1>1 DEF SocketInv, PortsInv, DrawnInv
<1>2. Jump => SocketInv'
  <2> SUFFICES ASSUME Jump PROVE SocketInv'
    OBVIOUS
  <2>1. wild' \in BOOLEAN
    BY Zenon DEF Jump
  <2> QED
    BY <1>1, <2>1 DEF Jump, list, ports
<1>3. CASE socket_fails
  BY <1>0, <1>1, <1>3 DEF socket_fails, list, ports
<1>4. ASSUME NEW s \in Sock, NEW k \in Kinds, socket(s, k[1], k[2], k[3])
      PROVE  SocketInv'
  <2>1. k[2] \in Types /\ k[3] \in Protocols
    BY SocketAssumption
  <2> DEFINE p == Default(k[2], k[3])
             b == <<k[2], p>> \in Supported
  <2>2. b \in BOOLEAN
    OBVIOUS
  <2>3. sk' = [sk EXCEPT ![s] = [Cleared(k[2]) EXCEPT !.protocol = p, !.p_ops = b]]
    BY <1>4 DEF socket
  <2> HIDE DEF b
  <2>4. sk' \in [Sock -> SockRec]
    BY <1>0, <2>1, <2>2, <2>3, ClearedTyped
  <2>5. /\ drawn' = [drawn EXCEPT ![s] = 0] /\ UNCHANGED <<inet_port, draws, wild>>
        /\ alloc' = alloc \cup {s}
    BY <1>4 DEF socket
  <2>6. \A t \in Sock : drawn'[t] > 0 =>
          drawn'[t] = drawn[t] /\ sk'[t].src_port = sk[t].src_port
    BY <1>0, <2>3, <2>5
  <2>7. drawn' \in [Sock -> 0 .. draws]
    BY <1>0, <2>5
  <2>8. PortsInv' /\ DrawnInv'
    BY <2>5, <2>6, <2>7, NoDraw
  <2> QED
    BY <1>0, <2>4, <2>5, <2>8 DEF SocketInv
<1>5. ASSUME NEW s \in Sock, sock_close(s) PROVE SocketInv'
  <2>1. "0" \in Types /\ "0" \in Protocols
    BY DEF Types, Protocols
  <2>2. /\ alloc' = alloc \ {s} /\ sk' = [sk EXCEPT ![s] = Cleared("0")]
        /\ drawn' = [drawn EXCEPT ![s] = 0] /\ UNCHANGED <<inet_port, draws, wild>>
    BY <1>5 DEF sock_close
  <2>3. sk' \in [Sock -> SockRec]
    BY <1>0, <2>1, <2>2, ClearedTyped
  <2>4. \A t \in Sock : drawn'[t] > 0 =>
          drawn'[t] = drawn[t] /\ sk'[t].src_port = sk[t].src_port
    BY <1>0, <2>2
  <2>5. drawn' \in [Sock -> 0 .. draws]
    BY <1>0, <2>2
  <2>6. PortsInv' /\ DrawnInv'
    BY <2>2, <2>4, <2>5, NoDraw
  <2> QED
    BY <1>0, <2>2, <2>3, <2>6 DEF SocketInv
<1>6. ASSUME NEW s \in Sock, shutdown(s) PROVE SocketInv'
  BY <1>0, <1>1, <1>2, <1>6 DEF shutdown, list, ports
<1>7. ASSUME NEW s \in Sock, NEW a \in SockAddr, bind(s, a) PROVE SocketInv'
  <2>1. CASE inet_bind(s, a) /\ ~BindOk(s, a)
    BY <1>0, <1>1, <2>1 DEF inet_bind, list, ports
  <2>2. CASE inet_bind(s, a) /\ BindOk(s, a)
    <3>1. /\ sk' = [sk EXCEPT ![s] = [sk[s] EXCEPT !.src_port = htons(a.port),
                                              !.dst_addr = 0, !.dst_port = 0]]
          /\ UNCHANGED <<alloc, inet_port, draws, drawn, wild>>
      BY <2>2 DEF inet_bind, list, ports
    <3>2. htons(a.port) \in 0 .. Ports - 1
      BY AddrFields, Swap
    <3>3. 0 \in Nat /\ 0 \in 0 .. Ports - 1
      BY PortNumbers
    <3>4. sk' \in [Sock -> SockRec]
      <4>1. [sk[s] EXCEPT !.src_port = htons(a.port), !.dst_addr = 0, !.dst_port = 0]
              \in SockRec
        BY <1>0, <3>2, <3>3 DEF SockRec
      <4> QED
        BY <1>0, <3>1, <4>1
    <3>5. ~(drawn[s] > 0)
      <4> SUFFICES ASSUME drawn[s] > 0 PROVE FALSE
        OBVIOUS
      <4> DEFINE port == FirstPort + ((drawn[s] - 1) % Dynamic)
      <4>1. drawn[s] - 1 \in Nat
        BY <1>0
      <4>2. port \in FirstPort .. Ports - 1
        BY <4>1, DrawnPort
      <4>3. sk[s].src_port = htons(port)
        BY <1>0 DEF DrawnInv
      <4>4. port \in 0 .. Ports - 1 /\ port # 0
        <5> HIDE DEF port
        <5> QED
          BY <4>2, PortNumbers
      <4>5. sk[s].src_port # 0
        <5> HIDE DEF port
        <5> QED
          BY <4>3, <4>4, Swap
      <4> QED
        BY <2>2, <4>5 DEF BindOk
    <3>6. \A t \in Sock : drawn[t] > 0 => sk'[t].src_port = sk[t].src_port
      BY <1>0, <3>1, <3>5
    <3>7. PortsInv' /\ DrawnInv'
      BY <1>0, <3>1, <3>6, NoDraw
    <3> QED
      BY <1>0, <3>1, <3>4, <3>7 DEF SocketInv
  <2> QED
    BY <1>2, <1>7, <2>1, <2>2 DEF bind
<1>8. ASSUME NEW s \in Sock, NEW m \in Message, sendto(s, m) PROVE SocketInv'
  <2>1. ASSUME NEW end \in {"nomem", "sent", "down"}, inet_sendmsg(s, m, end)
        PROVE  SocketInv'
    <3>1. UNCHANGED <<alloc, wild>>
      BY <2>1 DEF inet_sendmsg, list
    <3>2. sk' \in [Sock -> SockRec] /\ PortsInv' /\ DrawnInv'
      BY <2>1, SendKeeps
    <3> QED
      BY <1>0, <3>1, <3>2 DEF SocketInv
  <2> QED
    BY <1>2, <1>8, <2>1 DEF sendto
<1>9. CASE UNCHANGED vars
  BY <1>0, <1>1, <1>9 DEF vars
<1> QED
  BY <1>3, <1>4, <1>5, <1>6, <1>7, <1>8, <1>9 DEF Next

(* SocketInv is an invariant. *)
LEMMA SocketInvariant == Spec => []SocketInv
<1>1. Init => SocketInv
  BY SocketInit
<1>2. SocketInv /\ [Next]_vars => SocketInv'
  BY SocketStep
<1> QED
  BY <1>1, <1>2, PTL DEF Spec

(* Types of the socket interface: the links of the list, the members of the  *)
(* sockets, and inet_port, which stays between FirstPort and the last port.  *)
THEOREM SocketTypes == Spec => []TypeOK
<1>1. SocketInv /\ ListInv => TypeOK
  <2> SUFFICES ASSUME SocketInv, ListInv PROVE TypeOK
    OBVIOUS
  <2>1. socket_list \in Sock \cup {NULL} /\ alloc \subseteq Sock
    BY DEF ListInv, Order, SocketInv
  <2>2. \A s \in Sock : /\ sk[s].type \in Types /\ sk[s].protocol \in Protocols
                         /\ sk[s].p_ops \in BOOLEAN
                         /\ sk[s].src_port \in 0 .. Ports - 1
                         /\ sk[s].dst_port \in 0 .. Ports - 1
    BY DEF SocketInv, SockRec
  <2>3. inet_port \in FirstPort .. Ports - 1
    BY CounterRange DEF SocketInv
  <2> QED
    BY <2>1, <2>2, <2>3 DEF TypeOK, SocketInv, PortsInv, ListInv
<1>2. Init => ListInv
  BY ListInit
<1>3. ListInv /\ [Next]_vars => ListInv'
  BY ListStep
<1> QED
  BY <1>1, <1>2, <1>3, SocketInvariant, PTL DEF Spec

(* For any number of sockets and any range of ports: a drawn port is a        *)
(* dynamic port, and two sockets share one only if the counter went around    *)
(* between their draws.                                                       *)
THEOREM PortsTheorem == Spec => []AutoPortsDistinct
<1>1. SocketInv => AutoPortsDistinct
  <2> SUFFICES ASSUME SocketInv, NEW s \in alloc, drawn[s] > 0
               PROVE  /\ htons(sk[s].src_port) \in FirstPort .. Ports - 1
                      /\ \A t \in alloc :
                           drawn[t] > drawn[s] /\ drawn[t] - drawn[s] < Dynamic =>
                             sk[t].src_port # sk[s].src_port
    BY DEF AutoPortsDistinct, Dynamic
  <2> DEFINE port(t) == FirstPort + ((drawn[t] - 1) % Dynamic)
  <2>1. \A t \in alloc : t \in Sock /\ drawn[t] \in Nat
    BY SocketAssumption DEF SocketInv, PortsInv
  <2>2. ASSUME NEW t \in alloc, drawn[t] > 0
        PROVE  /\ htons(sk[t].src_port) = port(t)
               /\ port(t) \in FirstPort .. Ports - 1
    <3>1. drawn[t] - 1 \in Nat
      BY <2>1, <2>2
    <3>2. port(t) \in FirstPort .. Ports - 1
      BY <3>1, DrawnPort
    <3>3. sk[t].src_port = htons(port(t))
      BY <2>1, <2>2 DEF SocketInv, DrawnInv
    <3> HIDE DEF port
    <3>4. port(t) \in 0 .. Ports - 1
      BY <3>2, PortNumbers
    <3> QED
      BY <3>2, <3>3, <3>4, Swap
  <2>3. ASSUME NEW t \in alloc, drawn[t] > drawn[s], drawn[t] - drawn[s] < Dynamic
        PROVE  sk[t].src_port # sk[s].src_port
    <3>1. /\ drawn[t] > 0 /\ drawn[t] - 1 \in Nat /\ drawn[s] - 1 \in Nat
          /\ drawn[s] - 1 < drawn[t] - 1 /\ (drawn[t] - 1) - (drawn[s] - 1) < Dynamic
      BY <2>1, <2>3, PortNumbers
    <3>2. (drawn[s] - 1) % Dynamic # (drawn[t] - 1) % Dynamic
      BY <3>1, PortNumbers, ModApart
    <3>3. /\ (drawn[s] - 1) % Dynamic \in 0 .. Dynamic - 1
          /\ (drawn[t] - 1) % Dynamic \in 0 .. Dynamic - 1
      BY <3>1, PortNumbers, DivMod
    <3>4. port(s) # port(t)
      BY <3>2, <3>3, PortNumbers
    <3> HIDE DEF port
    <3> QED
      BY <2>2, <3>1, <3>4
  <2> QED
    BY <2>2, <2>3
<1> QED
  BY <1>1, SocketInvariant, PTL

(* For any messages: a call hands the device one datagram at most, with its   *)
(* own header, ports, addresses and lengths.                                  *)
THEOREM DatagramTheorem == Spec => []DatagramsRight
<1>1. Init => DatagramsRight
  BY DEF Init, Nothing, DatagramsRight
<1>2. SocketInv /\ DatagramsRight /\ [Next]_vars => DatagramsRight'
  <2> SUFFICES ASSUME SocketInv, DatagramsRight, [Next]_vars PROVE DatagramsRight'
    OBVIOUS
  <2>1. out' = Nothing => DatagramsRight'
    BY DEF Nothing, DatagramsRight
  <2>2. ASSUME NEW s \in Sock, NEW m \in Message,
               NEW end \in {"nomem", "sent", "down"}, inet_sendmsg(s, m, end)
        PROVE  DatagramsRight'
    <3>1. CASE out' # Nothing
      <4>1. /\ out'.from = s /\ out'.addr = m.addr /\ out'.len = m.len
            /\ out'.peer = <<sk[s].dst_addr, sk[s].dst_port>>
            /\ sk'[s].src_port # 0
            /\ \E d : out'.bufs = <<d>> /\ Datagram(WithPort(sk[s]), m, d)
            /\ sk'[s].src_port = WithPort(sk[s]).src_port
        BY <2>2, <3>1, SendKeeps
      <4>2. PICK d : out'.bufs = <<d>> /\ Datagram(WithPort(sk[s]), m, d)
        BY <4>1
      <4>3. /\ WithPort(sk[s]).dst_addr = sk[s].dst_addr
            /\ WithPort(sk[s]).dst_port = sk[s].dst_port
        BY CounterRange, PortGiven DEF SocketInv
      <4>4. Len(out'.bufs) = 1 /\ out'.bufs[1] = d
        BY <4>2
      <4> QED
        BY <4>1, <4>2, <4>3, <4>4 DEF DatagramsRight, Datagram
    <3> QED
      BY <2>1, <3>1
  <2>3. ASSUME NEW s \in Sock, NEW m \in Message, sendto(s, m) PROVE DatagramsRight'
    BY <2>1, <2>2, <2>3 DEF sendto, Jump
  <2>4. ASSUME NEW s \in Sock, NEW k \in Kinds, socket(s, k[1], k[2], k[3])
        PROVE  DatagramsRight'
    BY <2>1, <2>4 DEF socket
  <2>5. ASSUME NEW s \in Sock, NEW a \in SockAddr, bind(s, a) PROVE DatagramsRight'
    BY <2>1, <2>5 DEF bind, inet_bind, Jump
  <2>6. ASSUME NEW s \in Sock, sock_close(s) \/ shutdown(s) PROVE DatagramsRight'
    BY <2>1, <2>6 DEF sock_close, shutdown, Jump
  <2>7. CASE socket_fails
    BY <2>1, <2>7 DEF socket_fails
  <2>8. CASE UNCHANGED vars
    BY <2>8 DEF vars, DatagramsRight
  <2> QED
    BY <2>3, <2>4, <2>5, <2>6, <2>7, <2>8 DEF Next
<1> QED
  BY <1>1, <1>2, SocketInvariant, PTL DEF Spec
-----------------------------------------------------------------------------
(* socket_list_for_each() meets the open sockets and no others. *)
LEMMA ListedOpen == ListInv => Listed = alloc
<1> SUFFICES ASSUME ListInv PROVE Listed = alloc
  OBVIOUS
<1> DEFINE Closed(S) == {socket_list} \cup {next[s] : s \in S} \subseteq S \cup {NULL}
<1>1. PICK n \in Nat : \E f \in [1 .. n -> Sock] : Order(n, f)
  BY DEF ListInv
<1>2. PICK f \in [1 .. n -> Sock] : Order(n, f)
  BY <1>1
<1>3. NULL \notin Sock
  BY SocketAssumption
<1>4. alloc \in SUBSET Sock
  BY <1>2 DEF Order
<1>5. Closed(alloc)
  BY ListInvSound DEF ListSound
<1>6. ASSUME NEW S \in SUBSET Sock, Closed(S), NEW i \in 1 .. n PROVE f[i] \in S
  <2> SUFFICES ASSUME f[i] \notin S PROVE FALSE
    OBVIOUS
  <2> DEFINE T == {j \in 1 .. n : f[j] \notin S}
  <2>1. T \in SUBSET Nat /\ T # {}
    OBVIOUS
  <2>2. PICK k \in T : \A j \in T : k <= j
    <3> HIDE DEF T
    <3> QED
      BY <2>1, Least
  <2>3. CASE k = 1
    BY <1>2, <1>3, <1>6, <2>3 DEF Order
  <2>4. CASE k # 1
    <3>1. k - 1 \in 1 .. n /\ f[k - 1] \in S
      BY <2>2, <2>4
    <3>2. next[f[k - 1]] = f[k]
      BY <1>2, <2>4, <3>1 DEF Order
    <3>3. next[f[k - 1]] \in S \cup {NULL}
      BY <1>6, <3>1
    <3> QED
      BY <1>3, <3>2, <3>3
  <2> QED
    BY <2>3, <2>4
<1>7. Listed = {t \in Sock : \A S \in SUBSET Sock : Closed(S) => t \in S}
  BY DEF Listed
<1> HIDE DEF Closed
<1>8. alloc = {f[i] : i \in 1 .. n}
  BY <1>2 DEF Order
<1>9. \A t \in Listed : t \in alloc
  BY <1>4, <1>5, <1>7
<1>10. \A t \in alloc : t \in Listed
  BY <1>6, <1>7, <1>8
<1> QED
  BY <1>9, <1>10

(* What the table shows of a socket is its row; a row is not CLOSED. *)
Row(s) ==
  [type |-> sk[s].type, protocol |-> sk[s].protocol,
   port |-> sk[s].src_port, peer |-> <<sk[s].dst_addr, sk[s].dst_port>>]

RowsShown ==
  /\ Listed = alloc
  /\ \A s \in Sock : /\ TableOf(Listed)[s] = IF s \in alloc THEN Row(s) ELSE NULL
                     /\ Row(s) # NULL

TableInv == SocketInv /\ ListInv

(* A row has the types of its members, and socket_list_for_each() meets the  *)
(* open sockets.                                                             *)
LEMMA Rows == TableInv => RowsShown
<1> SUFFICES ASSUME TableInv, NEW s \in Sock
             PROVE  /\ TableOf(Listed)[s] = IF s \in alloc THEN Row(s) ELSE NULL
                    /\ Row(s) # NULL
  BY ListedOpen DEF RowsShown, TableInv
<1>1. TableOf(Listed)[s] = IF s \in alloc THEN Row(s) ELSE NULL
  BY ListedOpen DEF TableInv, TableOf, Row
<1>2. sk[s] \in SockRec
  BY DEF TableInv, SocketInv
<1>3. /\ sk[s].type \in Types /\ sk[s].protocol \in Protocols /\ sk[s].src_port \in Nat
      /\ sk[s].dst_addr \in Nat /\ sk[s].dst_port \in Nat
  BY <1>2, PortNumbers DEF SockRec
<1>4. Row(s) \in [type : Types, protocol : Protocols, port : Nat, peer : Nat \X Nat]
  BY <1>3 DEF Row
<1> QED
  BY <1>1, <1>4, SocketAssumption

(* Every step of the sockets is a step of the table or does not show in it. *)
LEMMA TableStep ==
  TableInv /\ TableInv' /\ [Next]_vars => [Table!Next]_(TableOf(Listed))
<1> SUFFICES ASSUME TableInv, TableInv', [Next]_vars
             PROVE  [Table!Next]_(TableOf(Listed))
  OBVIOUS
<1>0. RowsShown /\ RowsShown'
  BY Rows, PTL
<1>1. \A t \in Sock :
        /\ TableOf(Listed)[t] = IF t \in alloc THEN Row(t) ELSE NULL
        /\ TableOf(Listed)'[t] = IF t \in alloc' THEN Row(t)' ELSE NULL
        /\ Row(t) # NULL /\ Row(t)' # NULL
  BY <1>0 DEF RowsShown
<1>2. ASSUME UNCHANGED <<sk, alloc>> PROVE UNCHANGED TableOf(Listed)
  BY <1>0, <1>2 DEF RowsShown, TableOf
<1>3. ASSUME NEW s \in Sock, \A t \in Sock \ {s} : sk'[t] = sk[t],
             \A t \in Sock \ {s} : t \in alloc' <=> t \in alloc
      PROVE  Table!Others(s)
  <2>1. ASSUME NEW t \in Sock \ {s} PROVE TableOf(Listed)'[t] = TableOf(Listed)[t]
    <3>1. Row(t)' = Row(t)
      BY <1>3 DEF Row
    <3> QED
      BY <1>1, <1>3, <3>1
  <2> QED
    BY <2>1 DEF Table!Others
<1>4. ASSUME NEW s \in Sock, s \in alloc, alloc' = alloc,
             \A t \in Sock \ {s} : sk'[t] = sk[t],
             sk'[s].type = sk[s].type, sk'[s].protocol = sk[s].protocol,
             sk[s].src_port # 0 => sk'[s].src_port = sk[s].src_port
      PROVE  Table!Next
  <2>1. Table!Others(s)
    BY <1>3, <1>4
  <2>2. /\ TableOf(Listed)[s] = Row(s) /\ TableOf(Listed)'[s] = Row(s)'
        /\ Row(s) # NULL /\ Row(s)' # NULL
    BY <1>1, <1>4
  <2>3. /\ Row(s)'.type = Row(s).type /\ Row(s)'.protocol = Row(s).protocol
        /\ Row(s).port # 0 => Row(s)'.port = Row(s).port
    BY <1>4 DEF Row
  <2>4. Table!Use(s)
    BY <2>1, <2>2, <2>3 DEF Table!Use, Table!Open
  <2> QED
    BY <2>4 DEF Table!Next
<1>5. sk \in [Sock -> SockRec] /\ alloc \subseteq Sock
  BY DEF TableInv, SocketInv
<1>6. ASSUME NEW s \in Sock, NEW k \in Kinds, socket(s, k[1], k[2], k[3])
      PROVE  Table!Next
  <2> DEFINE p == Default(k[2], k[3])
             new == [Cleared(k[2]) EXCEPT !.protocol = p, !.p_ops = <<k[2], p>> \in Supported]
  <2>1. /\ s \notin alloc /\ alloc' = alloc \cup {s} /\ sk' = [sk EXCEPT ![s] = new]
    BY <1>6 DEF socket
  <2>2. new.src_port = 0
    BY DEF Cleared
  <2> HIDE DEF new
  <2>3. Table!Others(s)
    BY <1>3, <1>5, <2>1
  <2>4. Row(s)'.port = 0
    BY <1>5, <2>1, <2>2 DEF Row
  <2>5. Table!Create(s)
    BY <1>1, <2>1, <2>3, <2>4 DEF Table!Create, Table!Open
  <2> QED
    BY <2>5 DEF Table!Next
<1>7. ASSUME NEW s \in Sock, sock_close(s) PROVE Table!Next
  <2>1. /\ s \in alloc /\ alloc' = alloc \ {s} /\ sk' = [sk EXCEPT ![s] = Cleared("0")]
    BY <1>7 DEF sock_close
  <2>2. Table!Others(s)
    BY <1>3, <1>5, <2>1
  <2>3. Table!Close(s)
    BY <1>1, <2>1, <2>2 DEF Table!Close, Table!Open
  <2> QED
    BY <2>3 DEF Table!Next
<1>8. ASSUME NEW s \in Sock, NEW a \in SockAddr, bind(s, a)
      PROVE  Table!Next \/ UNCHANGED <<sk, alloc>>
  <2>1. CASE inet_bind(s, a) /\ BindOk(s, a)
    <3>1. /\ sk' = [sk EXCEPT ![s] = [sk[s] EXCEPT !.src_port = htons(a.port),
                                              !.dst_addr = 0, !.dst_port = 0]]
          /\ alloc' = alloc /\ s \in alloc /\ sk[s].src_port = 0
      BY <1>8, <2>1 DEF inet_bind, list, bind, BindOk
    <3>2. /\ \A t \in Sock \ {s} : sk'[t] = sk[t]
          /\ sk'[s].type = sk[s].type /\ sk'[s].protocol = sk[s].protocol
      BY <1>5, <3>1 DEF SockRec
    <3> QED
      BY <1>4, <3>1, <3>2
  <2> QED
    BY <1>8, <2>1 DEF bind, inet_bind, Jump, list
<1>9. ASSUME NEW s \in Sock, NEW m \in Message, sendto(s, m)
      PROVE  Table!Next \/ UNCHANGED <<sk, alloc>>
  <2>1. ASSUME NEW end \in {"nomem", "sent", "down"}, inet_sendmsg(s, m, end)
        PROVE  Table!Next
    <3>1. alloc' = alloc /\ s \in alloc
      BY <1>9, <2>1 DEF inet_sendmsg, list, sendto
    <3>2. /\ \A t \in Sock \ {s} : sk'[t] = sk[t]
          /\ sk'[s].type = sk[s].type /\ sk'[s].protocol = sk[s].protocol
          /\ sk[s].src_port # 0 => sk'[s].src_port = sk[s].src_port
      BY <2>1, SendKeeps DEF TableInv
    <3> QED
      BY <1>4, <3>1, <3>2
  <2> QED
    BY <1>9, <2>1 DEF sendto, Jump, list
<1>10. ASSUME NEW s \in Sock, shutdown(s) PROVE UNCHANGED <<sk, alloc>>
  BY <1>10 DEF shutdown, Jump, list
<1>11. socket_fails \/ UNCHANGED vars => UNCHANGED <<sk, alloc>>
  BY DEF socket_fails, vars, list
<1> QED
  BY <1>2, <1>6, <1>7, <1>8, <1>9, <1>10, <1>11 DEF Next

(* The list of sockets implements SocketTable, for any number of sockets:     *)
(* what is reached from socket_list are the open sockets, and a call shows    *)
(* only in the socket it is made on.                                          *)
THEOREM TableTheorem == Spec => KeepsSocketTable
<1>1. Init => Table!Init
  <2> SUFFICES ASSUME Init PROVE Table!Init
    OBVIOUS
  <2>1. Listed = {}
    BY ListInit, ListedOpen DEF Init
  <2> QED
    BY <2>1 DEF Table!Init, TableOf
<1>2. Init => ListInv
  BY ListInit
<1>3. ListInv /\ [Next]_vars => ListInv'
  BY ListStep
<1>4. SocketInv /\ ListInv => TableInv
  BY DEF TableInv
<1> QED
  BY <1>1, <1>2, <1>3, <1>4, SocketInvariant, TableStep, PTL
  DEF Spec, KeepsSocketTable, Table!Spec
=============================================================================
