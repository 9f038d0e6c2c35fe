-------------------------------- MODULE NetDev --------------------------------
(***************************************************************************)
(* Transmission and device state: src/src/net/net_dev.c, the flags of      *)
(* net_dev.h, the buffers of net.c, the queue of net.h, and their callers  *)
(* in both contexts: ip.c and udp.c in the main thread, arp.c and icmp.c   *)
(* in the interrupt handler, which reply with the buffer they received.    *)
(*                                                                         *)
(* The main thread can be interrupted between any two steps.  The handler  *)
(* runs with interrupts off, so nothing interleaves with it and no other   *)
(* interrupt is served until it is done.                                   *)
(*                                                                         *)
(* The driver is not part of the repository.  It is modelled from how      *)
(* net_dev.c uses it: start_tx() takes the buffer and clears tx_allow,     *)
(* answers BUSY without taking it, or takes it and fails; its interrupt    *)
(* frees a sent buffer and sets tx_allow again, reports the link, and      *)
(* receives.                                                               *)
(***************************************************************************)
EXTENDS Naturals, Sequences, Functions

CONSTANTS Buf,        \* the network buffers the heap has room for
          NoBuf,      \* NULL
          MaxList,    \* bound: buffers in a list the application transmits
          MaxRx,      \* bound: frames received
          MaxPhy,     \* bound: changes of the physical link
          MaxCalls    \* bound: calls the application makes

ASSUME NetDevAssumption ==
  /\ NoBuf \notin Buf /\ MaxList \in Nat \ {0} /\ MaxRx \in Nat /\ MaxPhy \in Nat
  /\ MaxCalls \in Nat

Ctx == {"main", "isr"}

VARIABLES
  pc, list, err,   \* per context: place, rest of the list, result so far
  given,           \* ghost: length of the list the call began with, 0 outside it
  queue, cur,      \* nb_tx_q of the socket, and nb in netdev_queue_xmit()
  flags, reg,      \* the byte of up_state and link_status; main's copy of it
  allow,           \* tx_allow, in a byte of its own
  heap,            \* buffers that are not allocated
  drv, dev,        \* driver: its interrupt is on; the buffer being sent
  phy, linkirq,    \* the link itself; its change is not reported yet
  nrx, nphy, ncalls

ctx == <<pc, list, err, given>>
flg == <<flags, reg, allow>>
wire == <<drv, dev, phy, linkirq, nrx, nphy>>
vars == <<pc, list, err, given, queue, cur, flags, reg, allow, heap, drv, dev, phy,
          linkirq, nrx, nphy, ncalls>>

Results == {"OK", "BUSY", "ERR"}    \* NETDEV_TX_OK, NETDEV_TX_BUSY, < 0

PCs == {"idle", "open_rd", "open_wr", "close_rd", "close_wr",
        "l_test", "l_tx", "l_exit", "q_deq", "q_test", "q_tx", "q_exit"}

(* Types: NULL is never treated as a buffer, whichever allocation failed. *)
TypeOK ==
  /\ pc \in [Ctx -> PCs] /\ list \in [Ctx -> Seq(Buf)] /\ err \in [Ctx -> Results]
  /\ given \in [Ctx -> Nat]
  /\ queue \in Seq(Buf) /\ cur \in Buf \cup {NoBuf}
  /\ flags \in [up : BOOLEAN, link : BOOLEAN] /\ reg \in [up : BOOLEAN, link : BOOLEAN]
  /\ allow \in BOOLEAN /\ heap \subseteq Buf
  /\ drv \in BOOLEAN /\ dev \in Buf \cup {NoBuf}
  /\ phy \in BOOLEAN /\ linkirq \in BOOLEAN
  /\ nrx \in 0 .. MaxRx /\ nphy \in 0 .. MaxPhy /\ ncalls \in 0 .. MaxCalls

Init ==
  /\ pc = [c \in Ctx |-> "idle"] /\ list = [c \in Ctx |-> << >>]
  /\ err = [c \in Ctx |-> "OK"] /\ given = [c \in Ctx |-> 0]
  /\ queue = << >> /\ cur = NoBuf
  /\ flags = [up |-> FALSE, link |-> FALSE] /\ reg = [up |-> FALSE, link |-> FALSE]
  /\ allow = FALSE /\ heap = Buf
  /\ drv = FALSE /\ dev = NoBuf /\ phy = FALSE /\ linkirq = FALSE
  /\ nrx = 0 /\ nphy = 0 /\ ncalls = 0

(* The handler is not interrupted, the main thread runs when it is done. *)
Runs(c) == c = "main" => pc["isr"] = "idle"

At(c, l) == pc[c] = l /\ Runs(c)
Goto(c, l) == pc' = [pc EXCEPT ![c] = l]

Call == At("main", "idle") /\ ncalls < MaxCalls /\ ncalls' = ncalls + 1

(* Mutant: only a successful transmission consumes the buffer. *)
xmit_complete_ok(e) == e = "OK"

(* The driver is done with the buffer: it was sent, or failed (< 0). *)
net_dev_xmit_complete(e) == e # "BUSY"

Usable == flags.up /\ flags.link

-----------------------------------------------------------------------------
(* Buffers and the queue.  A buffer is allocated from the heap in one step; *)
(* the ring of nb_queue_s is the sequence of its buffers.                   *)
ndev_alloc_net_buff(b) == b \in heap /\ heap' = heap \ {b}
free_net_buff_list(bs) == heap' = heap \cup bs
nb_enqueue(b) == queue' = Append(queue, b)
nb_dequeue == cur' = Head(queue) /\ queue' = Tail(queue)
nb_queue_clear == free_net_buff_list(Range(queue)) /\ queue' = << >>

-----------------------------------------------------------------------------
(* netdev_open() and netdev_close(): setting up_state reads and writes the  *)
(* whole byte, link_status with it, as two steps.                           *)
netdev_open_drv ==
  /\ Call /\ ~flags.up
  /\ drv' = TRUE /\ allow' = TRUE
  /\ linkirq' = (phy # flags.link)
  /\ Goto("main", "open_rd")
  /\ UNCHANGED <<list, err, given, queue, cur, flags, reg, heap, dev, phy, nrx, nphy>>

netdev_open_fails ==
  /\ Call /\ ~flags.up
  /\ UNCHANGED <<ctx, queue, cur, flg, heap, wire>>

netdev_close_drv ==
  /\ Call /\ flags.up
  /\ drv' = FALSE /\ dev' = NoBuf
  /\ heap' = IF dev = NoBuf THEN heap ELSE heap \cup {dev}
  /\ linkirq' = FALSE
  /\ Goto("main", "close_rd")
  /\ UNCHANGED <<list, err, given, queue, cur, flg, phy, nrx, nphy>>

upstate_read(from, to) ==
  /\ At("main", from)
  /\ reg' = flags
  /\ Goto("main", to)
  /\ UNCHANGED <<list, err, given, queue, cur, flags, allow, heap, wire, ncalls>>

upstate_write(from, v) ==
  /\ At("main", from)
  /\ flags' = [reg EXCEPT !.up = v]
  /\ Goto("main", "idle")
  /\ UNCHANGED <<list, err, given, queue, cur, reg, allow, heap, wire, ncalls>>

net_dev_set_upstate_run ==
  upstate_read("open_rd", "open_wr") \/ upstate_write("open_wr", TRUE)

(* Mutant: netdev_close() forgets to clear up_state. *)
upstate_kept ==
  upstate_read("close_rd", "close_wr") \/ upstate_write("close_wr", TRUE)

net_dev_set_upstate_stop ==
  upstate_read("close_rd", "close_wr") \/ upstate_write("close_wr", FALSE)

-----------------------------------------------------------------------------
(* netdev_list_xmit(): dhcp_send_request() and arp_send() enter it with one  *)
(* buffer, as arp_proc() and icmp_echo() do in the handler; an application   *)
(* may pass any list of its buffers.                                         *)
XmitEnter(c, bs) ==
  /\ list' = [list EXCEPT ![c] = bs] /\ given' = [given EXCEPT ![c] = Len(bs)]
  /\ err' = [err EXCEPT ![c] = "BUSY"]
  /\ Goto(c, "l_test")

(* No buffer is twice in a list: the link to the next one is in the buffer. *)
Lists == UNION {Injection(1 .. n, Buf) : n \in 1 .. MaxList}

list_xmit_call(bs) ==
  /\ Call /\ Range(bs) \subseteq heap /\ heap' = heap \ Range(bs)
  /\ XmitEnter("main", bs)
  /\ UNCHANGED <<queue, cur, flg, wire>>

(* Mutant: the result of ndev_alloc_net_buff() is not tested. *)
create_unchecked ==
  /\ Call /\ heap = {}
  /\ XmitEnter("main", <<NoBuf>>)
  /\ UNCHANGED <<queue, cur, flg, heap, wire>>

(* arp_create(), ip_create_nb() and dhcp_send_request() give up: no memory,  *)
(* or the buffer is freed again when the header cannot be created.           *)
create_fails ==
  /\ Call
  /\ UNCHANGED <<ctx, queue, cur, flg, heap, wire>>

(* Mutant: the loop does not look at the device. *)
ListTestBlind(c) ==
  /\ At(c, "l_test")
  /\ \/ list[c] = << >> /\ Goto(c, "l_exit")
     \/ list[c] # << >> /\ allow /\ Goto(c, "l_tx")
  /\ UNCHANGED <<list, err, given, queue, cur, flg, heap, wire, ncalls>>

(* The loop condition; with tx_allow clear the loop only spins. *)
ListTest(c) ==
  /\ At(c, "l_test")
  /\ \/ ~(Usable /\ list[c] # << >>) /\ Goto(c, "l_exit")
     \/ Usable /\ list[c] # << >> /\ allow /\ Goto(c, "l_tx")
  /\ UNCHANGED <<list, err, given, queue, cur, flg, heap, wire, ncalls>>

(* start_tx() of the driver with buffer b and result r. *)
start_tx(b, r) ==
  /\ \/ r = "OK" /\ dev = NoBuf /\ dev' = b /\ allow' = FALSE /\ UNCHANGED heap
     \/ r = "BUSY" /\ dev # NoBuf /\ UNCHANGED <<dev, allow, heap>>
     \/ r = "ERR" /\ heap' = heap \cup {b} /\ UNCHANGED <<dev, allow>>

ListTx(c) ==
  /\ At(c, "l_tx")
  /\ \E r \in Results :
       /\ start_tx(Head(list[c]), r)
       /\ err' = [err EXCEPT ![c] = r]
       /\ list' = IF net_dev_xmit_complete(r)
                    THEN [list EXCEPT ![c] = Tail(@)] ELSE list
  /\ Goto(c, "l_test")
  /\ UNCHANGED <<given, queue, cur, flags, reg, drv, phy, linkirq, nrx, nphy, ncalls>>

(* Mutant: the list is not freed when the device is down. *)
ListExitNoFree(c) ==
  /\ At(c, "l_exit")
  /\ list' = [list EXCEPT ![c] = << >>] /\ given' = [given EXCEPT ![c] = 0]
  /\ Goto(c, "idle")
  /\ UNCHANGED <<err, queue, cur, flg, heap, wire, ncalls>>

(* The end of netdev_list_xmit(): what is left of the list is freed only    *)
(* when no buffer was handed to the driver last.                            *)
ListExit(c) ==
  /\ At(c, "l_exit")
  /\ free_net_buff_list(IF net_dev_xmit_complete(err[c]) THEN {} ELSE Range(list[c]))
  /\ list' = [list EXCEPT ![c] = << >>] /\ given' = [given EXCEPT ![c] = 0]
  /\ Goto(c, "idle")
  /\ UNCHANGED <<err, queue, cur, flg, wire, ncalls>>

-----------------------------------------------------------------------------
(* udp_send_msg(): a buffer is allocated and enqueued, and udp_send() fills *)
(* in the header of the first buffer of the queue and transmits the queue.  *)
ip_create_nb(b) == ndev_alloc_net_buff(b) /\ nb_enqueue(b)

udp_send_msg(b) ==
  /\ Call /\ ip_create_nb(b)
  /\ err' = [err EXCEPT !["main"] = "OK"]
  /\ Goto("main", "q_deq")
  /\ UNCHANGED <<list, given, cur, flg, wire>>

QueueDeq ==
  /\ At("main", "q_deq")
  /\ IF queue = << >>
       THEN Goto("main", "idle") /\ UNCHANGED <<queue, cur, err>>
       ELSE /\ nb_dequeue
            /\ err' = [err EXCEPT !["main"] = "ERR"]
            /\ Goto("main", "q_test")
  /\ UNCHANGED <<list, given, flg, heap, wire, ncalls>>

QueueTest ==
  /\ At("main", "q_test")
  /\ \/ ~Usable /\ Goto("main", "q_exit")
     \/ Usable /\ allow /\ Goto("main", "q_tx")
  /\ UNCHANGED <<list, err, given, queue, cur, flg, heap, wire, ncalls>>

QueueTx ==
  /\ At("main", "q_tx")
  /\ \E r \in Results :
       /\ start_tx(cur, r)
       /\ err' = [err EXCEPT !["main"] = r]
       /\ IF net_dev_xmit_complete(r)
            THEN cur' = NoBuf /\ Goto("main", "q_exit")
            ELSE UNCHANGED cur /\ Goto("main", "q_test")
  /\ UNCHANGED <<list, given, queue, flags, reg, drv, phy, linkirq, nrx, nphy, ncalls>>

(* Lines 204-208, and the loop again otherwise; nb is forgotten. *)
QueueExit ==
  /\ At("main", "q_exit")
  /\ cur' = NoBuf
  /\ IF net_dev_xmit_complete(err["main"])
       THEN Goto("main", "q_deq") /\ UNCHANGED <<queue, heap, err>>
       ELSE /\ nb_queue_clear
            /\ err' = [err EXCEPT !["main"] = "ERR"]
            /\ Goto("main", "idle")
  /\ UNCHANGED <<list, given, flg, wire, ncalls>>

-----------------------------------------------------------------------------
(* net_dev_irq_handler(): the driver's handler finds one of these causes.   *)
Irq == drv /\ pc["isr"] = "idle"

IrqLink ==
  /\ Irq /\ linkirq
  /\ flags' = [flags EXCEPT !.link = phy] /\ linkirq' = FALSE
  /\ UNCHANGED <<ctx, queue, cur, reg, allow, heap, drv, dev, phy, nrx, nphy, ncalls>>

IrqTxDone ==
  /\ Irq /\ dev # NoBuf
  /\ heap' = heap \cup {dev} /\ dev' = NoBuf /\ allow' = TRUE
  /\ UNCHANGED <<ctx, queue, cur, flags, reg, drv, phy, linkirq, nrx, nphy, ncalls>>

(* A frame arp_proc() or icmp_echo() answers; other frames are freed before *)
(* the handler ends and leave no trace here.                                *)
IrqRx(b) ==
  /\ Irq /\ phy /\ nrx < MaxRx /\ nrx' = nrx + 1
  /\ ndev_alloc_net_buff(b)
  /\ XmitEnter("isr", <<b>>)
  /\ UNCHANGED <<queue, cur, flg, drv, dev, phy, linkirq, nphy, ncalls>>

(* The cable. *)
PhyChange ==
  /\ nphy < MaxPhy /\ nphy' = nphy + 1
  /\ phy' = ~phy /\ linkirq' = drv
  /\ UNCHANGED <<ctx, queue, cur, flg, heap, drv, dev, nrx, ncalls>>

-----------------------------------------------------------------------------
MainXmit == ListTest("main") \/ ListTx("main") \/ ListExit("main")
            \/ QueueDeq \/ QueueTest \/ QueueTx \/ QueueExit

MainFlags == net_dev_set_upstate_run \/ net_dev_set_upstate_stop

Application == \/ netdev_open_drv \/ netdev_open_fails \/ netdev_close_drv
               \/ create_fails
               \/ \E bs \in Lists : list_xmit_call(bs)
               \/ \E b \in Buf : udp_send_msg(b)

Handler == ListTest("isr") \/ ListTx("isr") \/ ListExit("isr")

Next == \/ Application \/ MainFlags \/ MainXmit \/ Handler
        \/ IrqLink \/ IrqTxDone \/ \E b \in Buf : IrqRx(b)
        \/ PhyChange

Spec == Init /\ [][Next]_vars

(* The processor executes an instruction of the main thread after every     *)
(* interrupt, and a pending interrupt is served when interrupts are on.     *)
FairSpec == /\ Spec
            /\ SF_vars(MainXmit) /\ SF_vars(MainFlags) /\ WF_vars(Handler)
            /\ SF_vars(IrqTxDone) /\ SF_vars(IrqLink)

-----------------------------------------------------------------------------
(* Where the buffers are, and the buffers that nothing refers to any more. *)
Held == <<heap, Range(list["main"]), Range(list["isr"]), Range(queue),
          {cur} \ {NoBuf}, {dev} \ {NoBuf}>>
Lost == Buf \ UNION Range(Held)

(* A buffer has one owner: what the driver or one context holds is neither    *)
(* free nor held by anyone else, whichever way transmissions of the handler   *)
(* cut into those of the main thread (no double free, no use after free).     *)
OneOwner == \A i, j \in DOMAIN Held : i # j => Held[i] \cap Held[j] = {}

(* The loop has ended on a list of several buffers of which the driver took   *)
(* some and not all, and the result of the last one taken stands in err.      *)
CutOff(c) ==
  pc[c] = "l_exit" /\ net_dev_xmit_complete(err[c]) /\ 0 < Len(list[c]) /\ Len(list[c]) < given[c]

(* When netdev_list_xmit() loses buffers.  A list of one buffer, which is     *)
(* what every caller in the repository passes and every reply of the handler  *)
(* is, is never lost: the driver takes the buffer or it is freed, also when   *)
(* the link goes down while the loop waits.  A longer list is not safe: when  *)
(* the link goes down after the driver took a buffer, net_dev.c:171 returns   *)
(* that buffer's result and nobody frees the rest.  Nothing else is lost.     *)
ListKeepsBuffers ==
  [][\A c \in Ctx : list'[c] # list[c] =>
       Lost' \subseteq Lost \cup (IF CutOff(c) THEN Range(list[c]) ELSE {})]_vars

(* Nothing is handed to a device that is closed: between stop() of the driver *)
(* and its next open() the flags keep both transmit loops away from it,       *)
(* although the driver itself is not asked (net_dev.c:101-131,151,193).       *)
SilentWhenClosed == [][dev' \notin {dev, NoBuf} => drv]_vars

(* A transmission of the main thread ends when only finitely many frames      *)
(* arrive, unless a reply sent from the handler waits for the transmitter     *)
(* with interrupts off.                                                       *)
HandlerStuck == pc["isr"] = "l_test" /\ Usable /\ ~allow
XmitReturns == pc["main"] \in {"l_test", "q_deq"} ~> (pc["main"] = "idle" \/ HandlerStuck)

(* "True if buffer was consumed" (net_dev.h:163): when netdev_queue_xmit()    *)
(* goes on to the next buffer the last one is not lost.                       *)
QueueKeepsBuffers == Lost = {}

(* "True if Link is UP" (net_dev.h:130): when no change is waiting to be      *)
(* reported, link_status is the state of the link.                            *)
LinkHonest == drv /\ ~linkirq /\ pc["main"] # "open_wr" => flags.link = phy
=============================================================================
