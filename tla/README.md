# network-avr in TLA+

This directory holds a formal model of the network stack in `src/src`: TLA+
modules, TLC configurations, and theorems that TLAPS checks. `PROJECT.json`
lists the components, the runs with their mutants, the source lines behind every
definition, the hazards, the findings and the theorems.

## The system

network-avr is an IPv4 stack for AVR microcontrollers. There is no operating
system. The program has two threads of control: the **main thread** (the
application and everything it calls) and the **interrupt** of the Ethernet
driver, which can come between any two instructions of the main thread and runs
with interrupts off until it returns. They share globals without locks. The
driver itself is not in the repository; it is known by how `net_dev.c` calls it.

| Component | State | Operations | Interacts with |
|---|---|---|---|
| IP configuration, `net/ipconfig.c` | `my_ip`, mask, gateway, DNS, `serv_addr`, `xid`, `got_reply`, `dhcp_msg_type` | `ip_config`, `ip_auto_config`, `dhcp`, `dhcp_send_request`, `dhcp_recv` (interrupt) | handler table, device, servers |
| Network device, `net/net_dev.[ch]` | flag byte (up, link), `tx_allow`, `curr_net_dev` | open, close, `netdev_list_xmit`, `netdev_queue_xmit` | driver, both threads |
| Buffers and queues, `net/net.[ch]` | heap, `nb_queue_s` ring | allocate, free, enqueue, dequeue, clear | all |
| Handler tables, `net/pkt_hdlr.c`, `net/ip_proto.c` | one function pointer per protocol | add, delete, dispatch | written by main, read by the interrupt |
| Ethernet, ARP, IPv4, ICMP | one-entry ARP table | `eth_type_proto`, `arp_recv`, `ip_recv`, `icmp_recv`, replies in place | interrupt; `netdev_list_xmit` |
| UDP, sockets, `netinet/udp.c`, `af_inet.c`, `net/socket.c` | socket list, port counter, per socket ports, peer and transmit queue | create, bind, send, close, shutdown | `netdev_queue_xmit`; main thread only |
| Pure functions, `net/checksum.c`, `arpa/inet.c` | none | checksum, byte order, address class, parsing | used by IPv4, ICMP, DHCP |
| TCP | none | stubs | |

What is hard to get right here:

- every global of `ipconfig.c` is written by `dhcp_recv()` in the interrupt and
  read by `dhcp()` in several separate steps, while frames are delayed,
  duplicated or come from several servers;
- the retry loop ends by a counter *and* by a flag that the interrupt sets;
- both threads transmit over one transmitter, spin on a flag that only the
  interrupt sets, and lose the link meanwhile;
- a flag byte is read, changed and written with interrupts on;
- a buffer has one owner at a time, which is nowhere written down: each function
  infers from return values whether it still has to free it;
- lists and queues are pointers that several functions rewire by hand, and their
  counters (queue length, port, lengths in headers) are bytes or words that wrap
  or are compared in the wrong byte order.

Correctness, per component: an address in use was leased, with its lessor's
options, and changes only during a call (`IpConfig`); buffers are neither lost
nor freed twice, transmissions end, closed devices are left alone (`NetDev`);
received frames are disposed of exactly once and answered truthfully (`RxPath`);
a queue is a FIFO and clearing it ends (`NbQueue`); a call on one socket does not
show in another and sends its own datagram (`Socket`); checksums and addresses are
what the RFCs define (`Inet`).

## The modules

| Module | Models |
|---|---|
| `AddrService` | what an application may rely on when it calls `ip_config()`: an abstract specification with three actions |
| `IpConfig` | `ipconfig.c`, with registration, link flag and IP handler slot; servers and wire as environment |
| `MCIpConfig` | an instance for TLC: two servers with different options |
| `IpConfigProofs` | the theorems about `IpConfig` |
| `NetDev` | `net_dev.c`, the flags of `net_dev.h`, buffers and queue, callers in both threads, the driver |
| `NetDevProofs` | the theorems about `NetDev` |
| `RxPath` | `eth_type_proto`, both handler tables, ARP, IPv4 and ICMP reception |
| `RxPathProofs` | the theorems about `RxPath` |
| `MCRxPath` | an instance for TLC: the frames |
| `NbFifo` | what the users of a buffer queue rely on: an abstract specification |
| `NbQueue` | the pointer rings of `net.h` and `nb_queue.h` with their byte-wide length |
| `Inet` | `in_checksum`, `htons`, `inet_addr`, `inet_class_determine`, the two length tests, and their references |
| `InetProofs` | the theorems about the checksum, for every message |
| `NbQueueProofs` | the theorems about `NbQueue` |
| `MCPrimitives` | an instance for TLC of `NbQueue` and `Inet` |
| `PrimitivesProofs` | the theorems that the functions of `Inet` are right on the inputs of `MCPrimitives` |
| `SocketTable` | what an application with several sockets may rely on: an abstract specification |
| `Socket` | `socket.c`, `af_inet.c`, `udp.c` and `ip_create_nb()` |
| `SocketProofs` | the theorems about `Socket` |
| `ModArith` | lemmas shared by the proofs: `\div` and `%`, least elements and induction on numbers |
| `MCSocket` | an instance for TLC: kinds of sockets, addresses, messages |

### IpConfig

`pc` is the place of the main thread. A step ends where the thread has read or
written something the interrupt writes or reads: `BuildType`, `BuildSrvId` and
`Sent` are the three reads of `dhcp_options_init()`; `Wait`, `CheckAck`,
`CheckMore`, `CheckNone`, `Retry` are the loop of `dhcp()`; `DelHandler`,
`RetOk`, `RetFail` its end. While `got_reply` is set the interrupt changes
nothing (this is `LatchHeld`, proved), so the branch taken with a reply is one
step. `dhcp_recv()` is one atomic step with one action per kind of reply
(`dhcp_recv_offer`, `_ack`, `_failed`, `_bootp`, and `RecvDropped` for all
paths that free the frame and change nothing). A reply without message type
(`NOTYPE`) behaves as any type: the code reads an uninitialised byte.

Copies of multi-byte globals are one step each. On the 8-bit processor they are
several instructions; the interrupt could tear one. `LatchHeld` shows that what
the main thread reads after it has seen `got_reply` is stable; the reads of
`dhcp_options_init()` after a timeout are the exception.

A request in flight is kept as each server sees it, so that requests a server
cannot tell apart are one. `siaddr` is the server's own address. Messages in
flight are sets: delivered in any order, at any time or never, and again and
again when `Dup` is TRUE. `StrayXids` adds replies to another client with
the same transaction id (`rand()` is never seeded, so devices draw the same
numbers); a refusal meant for another client is not among them, since one sent
to this host has the same effect. `Timely` restricts the environment to a network that answers before
the timeout except for at most `MaxLosses` faults.

### NetDev

Two contexts, `main` and `isr`, run the same `netdev_list_xmit()` loop
(`ListTest`, `ListTx`, `ListExit`); `main` also runs `netdev_queue_xmit()`. The
main thread makes a step only when the handler is idle, and no other interrupt
is served until the handler is done. Testing `tx_allow` and calling `start_tx()`
are two steps. `net_dev_set_upstate_run()` is a read and a write of the byte
that also holds `link_status`. The driver is external: `start_tx()` takes the
buffer, is busy, or fails and frees it; its interrupt completes a transmission,
reports the link, or receives a frame that is answered (`IrqRx`, whose buffer
goes to `netdev_list_xmit()`). The application passes lists of up to `MaxList`
buffers, a reply is a list of one; `given` is a ghost, the length a list had when
its transmission began.

`ListKeepsBuffers` says when the list transmitter loses buffers. A single buffer is
never lost: it is taken by the driver or freed. With a longer list there is one
case, `CutOff`: the driver took a buffer, then the link went down or the device was
closed. The result of the buffer that was taken is still in `err`, so
`net_dev.c:171` returns it and the rest of the list is neither sent nor freed. The
property shows that this is the only case. It is a defect of
`netdev_list_xmit()` that no caller in the repository meets, since all of them pass
one buffer.

### RxPath

The interrupt handles a frame in one step, so the handlers are operators named
after the functions: what becomes of the buffer (`freed`, `sent`), of the ARP
table and of the return value. Replies are written over the request one field after
the other (`memcpy`), in the order of the code; `icmp_recv()` tests what
`icmp_echo()` returned, which is `NETDEV_RX_DROP` for a request to another host. The
main thread fills the tables in the order of
`network_init()`, one table write per step, and `ip_config()` changes `my_ip` and
the IP handler before or after that. The properties quantify over every frame
that may arrive in a reachable state. An IP frame carries its length in the buffer,
its `tot_len` as it lies in memory, and the bytes of the message; `icmp_recv()`
verifies them with `in_checksum` of `Inet`, and a reply is the changed bytes with
the checksum computed again. The other header tests are one flag each: `hdr` is the
verdict on version, header length, header checksum and options, `lens` and `types`
are those of ARP. What happens to a reply once it is given to `netdev_list_xmit()`
is `NetDev`'s subject.

### NbQueue

`next` and `prev` are the pointers of buffers and of queues (the code casts a
queue to a buffer). `nb_enqueue` and `nb_dequeue` make the code's
assignments; `nb_queue_clear` enters its loop and `ClearLoop` is one round of
it. `fifo` is a ghost, on which no pointer depends, and gives the refinement of
`NbFifo`. Only the main thread uses these queues, hence a call is a step.

### Inet

Functions without state, each with a reference beside it: the ones' complement
sum of RFC 1071 as a remainder modulo 65535, address classes by ranges, the
dotted text as a rule on its parts. The loops of `in_checksum()` are recursive
functions (`SumWords`, `Fold16`), the four rounds of `inet_addr()` are written out
(`Octet`, `Behind`, `Shifted`). `ip_len_ok` and `dhcp_opt_len` are the two
comparisons that the code makes on a length in network byte order. `LengthTests`
bounds what they refuse for that reason: `ip_recv()` nothing but datagrams of a
multiple of 256 bytes, `dhcp_recv()` no reply with options unless the low byte of
its UDP length is 0 or above 128. No comment says otherwise, so these are hazards
and no findings.

### Socket

A call is a step: only the main thread uses sockets. `socket_list`, `next`, `prev`
are the list; `sk` holds the other members. Ports are kept as they lie in memory,
so `bind()` stores `htons(a.port)` where the code does. `inet_sock_create` gives
the set of values that `err` can have: the assignment in front of the first `case`
label is never executed, so a socket with no operations (`p_ops` NULL) can be
created. A call through that pointer, and `shutdown()`, which reads the function
pointer from RAM instead of flash, set `wild`; from there on nothing is modelled.
`sendto` stands for `send`, `sendto`, `sendmsg`: port, checks of the address, peer,
`ip_create_nb` (lengths are words of `Word` values), `udp_send` (which writes the header into the *first* buffer of the
queue) and `netdev_queue_xmit`, with the three ways they end. What the device does
with a buffer is `NetDev`'s subject.

Two assumptions on the application: it sends only while a device is registered, as
`ip_create_nb()` dereferences `curr_net_dev` without a test; and a message with its
42 bytes of headers is shorter than a word can count (`SocketAssumption`), which the
RAM of an AVR guarantees. The datagrams of `DatagramsRight` do not wrap for that
reason.

## The runs

Passing runs, with 2 workers:

| Run | Shows | States |
|---|---|---|
| `ipconfig_safety` | `LeaseSound`, `ConfigOfLessor`, `LatchHeld`, `KeepsAddrService` | 578,634 |
| `ipconfig_returns` | `DhcpReturns` (liveness) | 446,998 |
| `ipconfig_timely` | `RequestCoherent`, `LeaseObtained` (liveness) | 15,438 |
| `netdev` | `OneOwner`, `ListKeepsBuffers`, `SilentWhenClosed`, `XmitReturns` (liveness) | 99,736 |
| `rxpath` | `DisposedAtMostOnce`, `RepliesTruthful`, `EchoReplyValid`, `EchoAnswered` | 377 |
| `primitives` | `RingSound`, `KeepsFifo`, `ClearEnds` (liveness), `ChecksumRight`, `AddrRight`, `LengthTests` | 12,409 |
| `socket` | `ListSound`, `KeepsSocketTable`, `AutoPortsDistinct`, `DatagramsRight` | 18,980 |

Runs that end in a violation, each a disagreement between the code and a comment
(`findings` in `PROJECT.json` quotes it):

- `ipconfig_late_offer`: an OFFER between the last timeout and the removal of the
  handler makes `dhcp()` report success without an ACK;
- `ipconfig_bootp`: replies without DHCP options keep the loop going for ever,
  since only a timeout uses up an attempt;
- `netdev_queue_leak`: `netdev_queue_xmit()` takes its own preset error for
  "consumed" and loses the dequeued buffer when the device is down;
- `netdev_link`: setting `up_state` overwrites a link report of the interrupt;
- `rxpath_echo_leak`: `icmp_echo()` returns `NETDEV_RX_DROP`, which is true, and
  the buffer of an echo request for another host is lost.

`RequestCoherent` (a REQUEST asks a server for an address of that server's pool)
is checked in `ipconfig_timely`, with servers that do not refuse and one call. It
does not hold beyond that: after a refusal, or when an earlier call failed and
left `serv_addr` set, a REQUEST may carry `INADDR_NONE` or one server's address
under another server's identifier; a NAK can arrive between the reads of
`serv_addr` and `my_ip`, and then perhaps another OFFER. No document of the
repository says this cannot happen, so it is a hazard and not a finding; what the
device concludes from the answer is covered by `LeaseSound`.

Deadlock is checked in `primitives` only: elsewhere the application may stop
calling and the network may be silent.

### Bounds

- Two servers are enough for one offer to disturb the other; one sends every
  option and a server identifier, the other neither and comes through a relay.
  One address each, one of them of a reserved class.
- `MaxRetries` is 6 in the code. The safety runs use 2: one attempt that is not
  the last and one that is. `ipconfig_timely` uses 6 with 5 faults.
- Two calls (`ipconfig_safety`, `ipconfig_returns`): the second starts from what the
  first left behind, after success and after failure, a `serv_addr` that is still set
  included. Two xids: the current one and an
  older one, also drawn again. Only their equality matters, so they are symmetric
  in `ipconfig_safety`, which has no liveness property; `ipconfig_returns` has one
  xid, drawn again by every call.
- Replies to another client (`StrayXids`) are part of `ipconfig_timely`, under
  every xid; `ipconfig_safety` leaves them out to stay small, and the theorems
  about its properties allow them. It also leaves out typeless replies, under which
  `LeaseSound` does not hold; the theorems below include them where they say so.
  `ipconfig_returns` has no strays: an endless stream of them is the case of
  `ipconfig_bootp`.
- `NetDev`: three buffers (one in the driver, one per context, or a list of two and
  a reply), `MaxList` 2 (one buffer that is taken and one that is left), four calls (open,
  send, close, send), two received frames, two changes of the link.
- `RxPath`: two other stations and two addresses, so that the one who asked can be
  told from others; two calls of `ip_config()`. Echo messages of even and
  odd length, right and wrong checksums.
- `Primitives`: two queues (one buffer may be in either) and more buffers than
  `Width`, so that `q_len` wraps, as 256 buffers would make it do. Checksums over
  bytes at both ends of their range, in messages of odd and even length; lengths
  over all that the tests tell apart.
- `Socket`: three sockets (first, middle, last of the list), bytes of two values
  and two dynamic ports, so that the counter wraps within three draws. The kinds
  are UDP, ICMP (a TCP socket goes through the same states: it has operations
  and sends nothing) and a pair of type and protocol without operations. One host
  to bind and send to; the theorems hold for any. The sockets are symmetric.

### Fairness

- `CpuSpec` (`ipconfig_returns`, `ipconfig_bootp`): weak fairness of the main
  thread only. The processor runs on and the wait loop counts down; nothing is
  assumed of servers, wire or application.
- `NetSpec` (`ipconfig_timely`): in addition frames that are not lost reach the
  interrupt and servers answer: the property is about such a network.
- `FairSpec` of `NbQueue` (`primitives`): weak fairness of the loop of
  `nb_queue_clear()`, which the main thread runs without waiting for anything.
- `FairSpec` of `NetDev`: strong fairness of the main thread (interrupts take it
  away, but the AVR executes an instruction after each), weak fairness of the
  handler, strong fairness of a pending link or transmit-complete interrupt (it
  is served once interrupts are on). A handler that spins on `tx_allow` with
  interrupts off never ends; `XmitReturns` names that state, `HandlerStuck`, as
  the one way a transmission does not return.

## The proofs

`IpConfigProofs` proves, for all sets of servers, addresses and xids, any
option tables and reply kinds, any number of attempts and calls:

- `TypeCorrect`: `Spec => []TypeOK`. `TypeOK` is not inductive: `retries` could
  leave its range and a request could carry no xid. `TypeInv` adds that inside
  the loop `retries` is positive and an xid has been drawn, and that the handler
  is installed exactly while the thread is inside `dhcp()`.
- `LatchTheorem`: `Spec => LatchHeld`, from `TypeInv`.
- `ServiceTheorem`: `Spec => KeepsAddrService`, the refinement of `AddrService`,
  provided `ip_config()` is never given the text of `INADDR_NONE`. `FlowInv` says
  what is known at each place of the thread: a latched reply came with an
  address, an ACK stays latched, `my_ip` is unset on the way into `dhcp()`. The
  hypothesis is needed: `got_reply` is not cleared after success, and a later
  call with that text would return at once on the old reply.
- `LeaseTheorem`: `Spec => []LeaseSound`, provided also that DHCP replies carry a
  message type. `LeaseInv` says that an ACK in flight speaks of a lease and that
  an address taken from an ACK is leased while the call lasts.
- `ConfigTheorem`: `Spec => []ConfigOfLessor`, under the same hypotheses. `ConfigInv`
  carries the options from the ACK to the return: taking an ACK overwrites every
  option its sender sends (`AckConfigures`), and nothing writes them afterwards.
- `RequestTheorem`: `Spec => []RequestCoherent`, for one call and servers that offer
  and acknowledge only and name themselves or nobody (`MaxCalls = 1`, as in
  `ipconfig_timely`; see above for what happens without that). The argument: the
  server that the first accepted OFFER names stays `serv_addr` to the end, so the
  reads of `dhcp_options_init()` may come at any time. `RequestInv` follows the
  thread (no server before, one server and an address of its pool after the first
  reply), `WireInv` says that REQUESTs and ACKs under way are about that server.
  Strays are included.

`NetDevProofs` proves, for any buffers and any number of calls, frames and changes
of the link, with the interrupt between any two steps of the main thread:

- `OwnerTheorem`: `Spec => []OneOwner`, and `NetDevTypes`: `Spec => []TypeOK`.
  Neither is inductive: a step that frees the rest of a list or offers `cur` to the
  driver must know that there is one. `PlaceInv` says what each context holds at
  each place of its code (`ListPlace`, `QueuePlace`) and that the driver is running
  wherever a buffer can be handed to it (`DriverPlace`); `OwnerInv` lists the six
  holders pairwise.
- `ListKeepsTheorem`: `Spec => ListKeepsBuffers`, for lists of any length (`MaxList`
  is any positive number). A round of the loop moves the first buffer of the list to
  the driver or to the heap, or leaves all of it (`TxMoves`, `TakeFirst`); at the end,
  by `ListPlace`, what is left is empty, freed, or the rest of a list that was cut
  off. `SilentTheorem`: `Spec => SilentWhenClosed`. Both are action properties and
  follow from the same invariant.

`RxPathProofs` proves, for any stations, addresses and frames:

- `DisposalTheorem`, `RepliesTheorem`: every frame takes one of the ways that
  `Outcomes` lists through the handlers that are registered (freed once, answered
  by ARP, learnt from, or answered by ICMP), and along each the buffer is disposed
  of at most once and the reply has the right addresses.
- `EchoTheorem`: `Spec => []EchoAnswered`, `RxTypes`: `Spec => []TypeOK`.
  `TablesInv` says which handlers are registered at each step of `network_init()` and
  of `ip_config()`.
- `EchoReplyTheorem`: `WholeFrames => (Spec => []EchoReplyValid)`. The message of a
  reply is the request's with another type and a new checksum (`EchoMsgIs`), which
  verifies by `FilledVerifies` below. `WholeFrames` says that IP frames which
  `ip_recv()` lets through carry what their total length announces. It is needed:
  `ip_recv()` compares that length with the length of the whole frame, 18 bytes of
  header and CRC included, so a truncated datagram can pass. `MCRxPath` asserts
  `WholeFrames` of the frames of the run.

`InetProofs` proves, for every sequence of bytes:

- `ChecksumIsRfc`: what `in_checksum()` returns is the checksum of RFC 1071 with its
  bytes swapped, that is, the right bytes in memory. The repeated fold leaves the
  remainder of the sum modulo 65535, where only 0 is 0 (`Fold16Is`): a fold makes the
  sum smaller and keeps the remainder (`FoldStep`). The sum of the little-endian
  words is 256 times that of the big-endian ones modulo 65535 (`SumSwapped`,
  `Ones16Swapped`), which is why the code need not swap anything.
- `FilledVerifies`, `ChangedByteFound`: a message in which the checksum is filled in
  verifies; one that verifies does not with one byte changed. Changing a byte
  changes one word of the sum (`SumChange`), by an amount that is no multiple of
  65535 (`FullApart`).
- `SumFits`: the sum over 65535 bytes, the most that `count` can be, is below `2^32`;
  `Inet` adds without width for that reason.

Facts about a loop are proved by its number of rounds. `Induction` of `ModArith`
restates the least-element principle for a set of numbers, so no operator has to be
passed to a library theorem; that a recursive sum satisfies its equation is proved
from the existence of the partial sums (`PartialSums`, `SumExists`, `SumDef`).

`PrimitivesProofs` proves about `MCSpec`, the specification of that run, for any sets of bytes
and octets and any length of messages:

- `ChecksumTheorem`: `MCSpec => []ChecksumRight`, from `InetProofs`.
- `AddrTheorem`: `MCSpec => []AddrRight`. An octet has one to three digits, none of
  them the dot, and `atol()` reads it back (`DecimalIs`); a round of `inet_addr()` on
  it and whatever follows yields it and stops behind the dot (`RoundOctet`).
- `LengthTheorem`: `MCSpec => []LengthTests`.

`NbQueueProofs` proves, for any buffers, queues and width of `q_len`:

- `RingTheorem`: `Spec => []RingSound`. With the types `RingSound` is inductive.
  The argument is that a node is in one place of one ring (`AtUnique`), so that the
  two pointers a call rewires belong to its own ring, and that a buffer without
  pointers is in none (`NotQueued`); the length needs arithmetic modulo its width.
- `FifoTheorem`: `Spec => KeepsFifo`. The pointers lead `nb_dequeue()` to the oldest
  buffer (`PeekOldest`).
- `QueueTypes`: `Spec => []TypeOK`.

`SocketProofs` proves, for any number of sockets and whatever calls are made:

- `ListTheorem`: `Spec => []ListSound`. `ListSound` is not inductive: links that
  agree in both directions may also form a cycle apart from `socket_list`, and
  closing the last listed socket would then lose it. `ListInv` says that there is an
  order of all open sockets that the links follow; `socket_list_add()` puts a socket
  in front of it and `socket_list_del()` closes a gap.

- `TableTheorem`: `Spec => KeepsSocketTable`, the refinement of `SocketTable`. What
  `socket_list_for_each()` meets is the least set that contains the first socket and
  the next of each; by the order it is `alloc` (`ListedOpen`, by the least place of
  a socket that is not met). Then each call is a step of the table.
- `PortsTheorem`: `Spec => []AutoPortsDistinct`, for any byte size and first port.
  `PortsInv` makes the counter a function of the number of draws modulo the number
  of dynamic ports, `DrawnInv` says that a socket keeps the port of its draw: `bind()`
  refuses it, because `htons()` maps no other port to 0 (`Swap`).
- `DatagramTheorem`: `Spec => []DatagramsRight`, because the queue of a socket is
  empty between calls (`SockRec`); and `SocketTypes`: `Spec => []TypeOK`.

Each step lemma has one case per action. Assumptions on the constants are the
named `ASSUME`s of the modules that declare them, which every run evaluates.
Every invariant, action property and refinement that a passing run checks is stated
by a theorem, some of them under the hypotheses given above.

Only model-checked:

- all liveness properties (`DhcpReturns`, `LeaseObtained`, `XmitReturns`,
  `ClearEnds`) and `ENABLED`, which are out of the prover's reach;
- the five violations, which are counterexamples.

## Not modelled, and the plan

Not modelled:

- `accept`, `connect`, `listen`, `recv`, TCP and UDP reception: empty or stubs;
- byte layouts and the option scanner of DHCP: a reply is a record of its options;
- set-up calls that only forward to the driver, `netdev_unregister()`,
  `socket_list_init()` (`network_init()` calls it while `socket_list` is NULL, so it
  writes to the first bytes of the address space; what they hold is not modelled);
- reentrancy of `malloc()`, which both threads call;
- the driver and the AVR library, which are external.

Next, in this order:

1. `System`: `IpConfig` with `RxPath`, to ask when ARP answers for an address that
   was only offered.
2. A `RequestCoherent` for several calls and servers that refuse: the
   weakest condition on what earlier calls left behind under which it holds.
