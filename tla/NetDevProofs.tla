---------------------------- MODULE NetDevProofs ----------------------------
(***************************************************************************)
(* Proofs about NetDev, for every number of buffers, frames, calls and     *)
(* changes of the link, and every way the handler cuts into the main       *)
(* thread.                                                                 *)
(***************************************************************************)
EXTENDS NetDev, TLAPS

(* What the place of a context tells about what it holds.  A list holds no   *)
(* buffer twice and only becomes shorter; once the result of a buffer the    *)
(* driver took stands in err, it is shorter than the one that was given.     *)
ListPlace(c) ==
  /\ IsInjective(list[c])
  /\ pc[c] \notin {"l_test", "l_tx", "l_exit"} => list[c] = << >>
  /\ pc[c] = "l_tx" => list[c] # << >>
  /\ pc[c] \in {"l_test", "l_tx", "l_exit"} => Len(list[c]) <= given[c]
  /\ pc[c] \in {"l_test", "l_exit"} /\ err[c] # "BUSY" => Len(list[c]) < given[c]

(* A queue of at most one buffer: that of a socket is empty between two      *)
(* calls of udp_send_msg().                                                  *)
Short(s) == s = << >> \/ \E b \in Buf : s = <<b>>

QueuePlace ==
  /\ Short(queue)
  /\ pc["main"] # "q_deq" => queue = << >>
  /\ pc["main"] \in {"q_test", "q_tx"} => cur \in Buf

(* The driver runs wherever a buffer can be handed to it: the handler runs   *)
(* only then, and up_state outlives the driver inside netdev_close() only.   *)
DriverPlace ==
  /\ pc["isr"] \in {"idle", "l_test", "l_tx", "l_exit"}
  /\ pc["isr"] # "idle" => drv
  /\ flags.up => drv \/ pc["main"] \in {"close_rd", "close_wr"}
  /\ pc["main"] \in {"open_rd", "open_wr", "l_tx", "q_tx"} => drv

PlaceInv == ListPlace("main") /\ ListPlace("isr") /\ QueuePlace /\ DriverPlace

NetDevInv == TypeOK /\ PlaceInv

(* The buffers of the short sequences. *)
LEMMA ShortRange ==
  /\ Range(<< >>) = {}
  /\ \A b \in Buf : Range(<<b>>) = {b}
  BY DEF Range

(* Sequences of no and of one buffer: the queue, and the list of a reply. *)
LEMMA ShortSeq ==
  /\ << >> \in Seq(Buf)
  /\ \A b \in Buf : /\ <<b>> \in Seq(Buf) /\ <<b>> # << >>
                    /\ Head(<<b>>) = b /\ Tail(<<b>>) = << >>
                    /\ Append(<< >>, b) = <<b>>
  OBVIOUS

(* No buffer is twice in a list of none or one. *)
LEMMA ShortInjective ==
  /\ IsInjective(<< >>) /\ Len(<< >>) = 0
  /\ \A b \in Buf : IsInjective(<<b>>) /\ Len(<<b>>) = 1
  BY DEF IsInjective

(* Taking the first buffer off a list. *)
LEMMA TakeFirst ==
  ASSUME NEW s \in Seq(Buf), s # << >>, IsInjective(s)
  PROVE  /\ Head(s) \in Buf /\ Tail(s) \in Seq(Buf) /\ IsInjective(Tail(s))
         /\ Len(s) \in Nat /\ Len(Tail(s)) \in Nat /\ Len(s) = Len(Tail(s)) + 1
         /\ Head(s) \notin Range(Tail(s)) /\ Range(s) = {Head(s)} \cup Range(Tail(s))
<1>1. /\ Len(s) \in Nat \ {0} /\ DOMAIN s = 1 .. Len(s) /\ Head(s) = s[1]
      /\ \A i \in 1 .. Len(s) : s[i] \in Buf
  OBVIOUS
<1>2. /\ Tail(s) \in Seq(Buf) /\ Len(Tail(s)) = Len(s) - 1
      /\ DOMAIN Tail(s) = 1 .. Len(s) - 1
      /\ \A i \in 1 .. Len(s) - 1 : Tail(s)[i] = s[i + 1]
  OBVIOUS
<1>3. IsInjective(Tail(s))
  <2> SUFFICES ASSUME NEW i \in 1 .. Len(s) - 1, NEW j \in 1 .. Len(s) - 1, s[i + 1] = s[j + 1]
               PROVE  i = j
    BY <1>2 DEF IsInjective
  <2>1. i + 1 \in DOMAIN s /\ j + 1 \in DOMAIN s
    BY <1>1
  <2>2. i + 1 = j + 1
    BY <2>1 DEF IsInjective
  <2> QED
    BY <1>1, <2>2
<1>4. Head(s) \notin Range(Tail(s))
  <2> SUFFICES ASSUME NEW i \in 1 .. Len(s) - 1, s[i + 1] = s[1]
               PROVE  FALSE
    BY <1>1, <1>2 DEF Range
  <2>1. i + 1 \in DOMAIN s /\ 1 \in DOMAIN s
    BY <1>1
  <2>2. i + 1 = 1
    BY <2>1 DEF IsInjective
  <2> QED
    BY <1>1, <2>2
<1>5. ASSUME NEW b
      PROVE  b \in Range(s) <=> b = s[1] \/ b \in Range(Tail(s))
  <2>1. ASSUME NEW i \in 1 .. Len(s), i # 1
        PROVE  i - 1 \in 1 .. Len(s) - 1 /\ Tail(s)[i - 1] = s[i]
    BY <1>1, <1>2, <2>1
  <2>2. ASSUME NEW i \in 1 .. Len(s) - 1
        PROVE  i + 1 \in 1 .. Len(s) /\ Tail(s)[i] = s[i + 1]
    BY <1>1, <1>2
  <2>3. 1 \in 1 .. Len(s)
    BY <1>1
  <2>4. /\ b \in Range(s) <=> \E i \in 1 .. Len(s) : b = s[i]
        /\ b \in Range(Tail(s)) <=> \E i \in 1 .. Len(s) - 1 : b = Tail(s)[i]
    <3>1. \A t : b \in Range(t) <=> \E i \in DOMAIN t : b = t[i]
      BY Zenon DEF Range
    <3> QED
      BY <1>1, <1>2, <3>1, Zenon
  <2>5. ASSUME b \in Range(s), b # s[1] PROVE b \in Range(Tail(s))
    <3>1. PICK i \in 1 .. Len(s) : b = s[i]
      BY <2>4, <2>5
    <3>2. i # 1
      BY <2>5, <3>1
    <3> QED
      BY <2>1, <2>4, <3>1, <3>2, Zenon
  <2> QED
    BY <2>2, <2>3, <2>4, <2>5, Zenon
<1> QED
  BY <1>1, <1>2, <1>3, <1>4, <1>5

-----------------------------------------------------------------------------
(* How a context moves: its own place changes, the other one's stays. *)
LEMMA Moves ==
  ASSUME TypeOK, NEW c \in Ctx, NEW l \in PCs, Goto(c, l)
  PROVE  /\ pc' \in [Ctx -> PCs] /\ pc'[c] = l
         /\ \A d \in Ctx \ {c} : pc'[d] = pc[d]
  BY DEF TypeOK, Goto

(* What start_tx() may do with a buffer, and with the flag of the device. *)
LEMMA StartTx ==
  ASSUME TypeOK, NEW b \in Buf, NEW r \in Results, start_tx(b, r)
  PROVE  /\ heap' \subseteq Buf /\ dev' \in Buf \cup {NoBuf} /\ allow' \in BOOLEAN
  BY DEF TypeOK, start_tx

(* Every step of the two contexts keeps the types and what their places      *)
(* tell; one case per step.                                                  *)
LEMMA ListSteps ==
  ASSUME NetDevInv, NEW c \in Ctx, ListTest(c) \/ ListTx(c) \/ ListExit(c)
  PROVE  NetDevInv'
<1> USE DEF NetDevInv, PlaceInv
<1>1. c = "main" \/ c = "isr"
  BY DEF Ctx
<1>2. CASE ListTest(c)
  <2>1. PICK l \in {"l_exit", "l_tx"} :
          /\ Goto(c, l) /\ pc[c] = "l_test"
          /\ l = "l_tx" => flags.up /\ list[c] # << >>
    BY <1>2 DEF ListTest, At, Usable
  <2>2. /\ pc' \in [Ctx -> PCs] /\ pc'[c] = l /\ \A d \in Ctx \ {c} : pc'[d] = pc[d]
    BY <2>1, Moves DEF PCs
  <2>3. UNCHANGED <<list, err, given, queue, cur, flags, reg, allow, heap, drv, dev, phy,
                    linkirq, nrx, nphy, ncalls>>
    BY <1>2 DEF ListTest, flg, wire
  <2>4. TypeOK'
    BY <2>2, <2>3 DEF TypeOK
  <2>5. ListPlace("main")' /\ ListPlace("isr")'
    BY <1>1, <2>1, <2>2, <2>3 DEF ListPlace, Ctx
  <2>6. QueuePlace'
    BY <1>1, <2>1, <2>2, <2>3 DEF QueuePlace, Short, Ctx
  <2>7. DriverPlace'
    BY <1>1, <2>1, <2>2, <2>3 DEF DriverPlace, Ctx
  <2> QED
    BY <2>4, <2>5, <2>6, <2>7
<1>3. CASE ListTx(c)
  <2>1. PICK r \in Results :
          /\ start_tx(Head(list[c]), r)
          /\ err' = [err EXCEPT ![c] = r]
          /\ list' = IF r # "BUSY" THEN [list EXCEPT ![c] = Tail(@)] ELSE list
    BY <1>3 DEF ListTx, net_dev_xmit_complete
  <2>2. list[c] \in Seq(Buf) /\ list[c] # << >> /\ IsInjective(list[c])
        /\ Len(list[c]) <= given[c] /\ given[c] \in Nat
    BY <1>1, <1>3 DEF ListTx, At, ListPlace, TypeOK
  <2>3. PICK rest \in Seq(Buf) :
          /\ Head(list[c]) \in Buf /\ Tail(list[c]) = rest /\ IsInjective(rest)
          /\ Len(rest) \in Nat /\ Len(list[c]) = Len(rest) + 1
    BY <2>2, TakeFirst
  <2>4. heap' \subseteq Buf /\ dev' \in Buf \cup {NoBuf} /\ allow' \in BOOLEAN
    BY <2>1, <2>3, StartTx
  <2>5. /\ err' \in [Ctx -> Results] /\ err'[c] = r
        /\ \A d \in Ctx \ {c} : err'[d] = err[d]
    BY <2>1 DEF TypeOK
  <2>6. /\ list' \in [Ctx -> Seq(Buf)] /\ (IF r # "BUSY" THEN list'[c] = rest ELSE list' = list)
        /\ \A d \in Ctx \ {c} : list'[d] = list[d]
    <3>1. list' = IF r # "BUSY" THEN [list EXCEPT ![c] = rest] ELSE list
      BY <2>1, <2>3, Zenon
    <3> QED
      BY <3>1 DEF TypeOK
  <2>7. pc[c] = "l_tx" /\ Goto(c, "l_test")
    BY <1>3 DEF ListTx, At
  <2>8. /\ pc' \in [Ctx -> PCs] /\ pc'[c] = "l_test"
        /\ \A d \in Ctx \ {c} : pc'[d] = pc[d]
    BY <2>7, Moves DEF PCs
  <2>9. UNCHANGED <<given, queue, cur, flags, reg, drv, phy, linkirq, nrx, nphy, ncalls>>
    BY <1>3 DEF ListTx
  <2>10. TypeOK'
    BY <2>4, <2>5, <2>6, <2>8, <2>9 DEF TypeOK
  <2>11. ListPlace("main")' /\ ListPlace("isr")'
    <3>1. /\ IsInjective(list'[c]) /\ Len(list'[c]) <= given[c]
          /\ r # "BUSY" => Len(list'[c]) < given[c]
      <4>1. CASE r = "BUSY"
        BY <2>2, <2>6, <4>1
      <4>2. CASE r # "BUSY"
        <5>1. list'[c] = rest
          BY <2>6, <4>2
        <5>2. Len(rest) < given[c]
          BY <2>2, <2>3
        <5> QED
          BY <2>2, <2>3, <5>1, <5>2
      <4> QED
        BY <4>1, <4>2
    <3> QED
      BY <1>1, <2>5, <2>6, <2>7, <2>8, <2>9, <3>1 DEF ListPlace, Ctx
  <2>12. QueuePlace' /\ DriverPlace'
    BY <1>1, <2>7, <2>8, <2>9 DEF QueuePlace, DriverPlace, Short, Ctx
  <2> QED
    BY <2>10, <2>11, <2>12
<1>4. CASE ListExit(c)
  <2>1. list' = [list EXCEPT ![c] = << >>] /\ pc[c] = "l_exit" /\ Goto(c, "idle")
    BY <1>4 DEF ListExit, At
  <2>2. /\ list' \in [Ctx -> Seq(Buf)] /\ list'[c] = << >>
        /\ \A d \in Ctx \ {c} : list'[d] = list[d]
    BY <2>1 DEF TypeOK
  <2>3. Range(list[c]) \subseteq Buf
    <3>1. list[c] \in Seq(Buf)
      BY DEF TypeOK
    <3> QED
      BY <3>1 DEF Range
  <2>4. heap' \subseteq Buf
    BY <1>4, <2>3 DEF ListExit, free_net_buff_list, TypeOK
  <2>5. /\ pc' \in [Ctx -> PCs] /\ pc'[c] = "idle"
        /\ \A d \in Ctx \ {c} : pc'[d] = pc[d]
    BY <2>1, Moves DEF PCs
  <2>6. /\ UNCHANGED <<err, queue, cur, flags, reg, allow, drv, dev, phy, linkirq, nrx,
                       nphy, ncalls>>
        /\ given' \in [Ctx -> Nat] /\ \A d \in Ctx \ {c} : given'[d] = given[d]
    BY <1>4 DEF ListExit, flg, wire, TypeOK
  <2>7. TypeOK'
    BY <2>2, <2>4, <2>5, <2>6 DEF TypeOK
  <2>8. ListPlace("main")' /\ ListPlace("isr")'
    BY <1>1, <2>1, <2>2, <2>5, <2>6, ShortInjective DEF ListPlace, Ctx
  <2>9. QueuePlace' /\ DriverPlace'
    BY <1>1, <2>1, <2>5, <2>6 DEF QueuePlace, DriverPlace, Short, Ctx
  <2> QED
    BY <2>7, <2>8, <2>9
<1> QED
  BY <1>2, <1>3, <1>4

(* The steps of netdev_queue_xmit(). *)
LEMMA QueueSteps ==
  ASSUME NetDevInv, QueueDeq \/ QueueTest \/ QueueTx \/ QueueExit
  PROVE  NetDevInv'
<1> USE DEF NetDevInv, PlaceInv
<1> "main" \in Ctx /\ "isr" \in Ctx
  BY DEF Ctx
<1>1. CASE QueueDeq /\ queue = << >>
  <2>1. pc["main"] = "q_deq" /\ Goto("main", "idle")
    BY <1>1 DEF QueueDeq, At
  <2>2. /\ pc' \in [Ctx -> PCs] /\ pc'["main"] = "idle" /\ pc'["isr"] = pc["isr"]
    BY <2>1, Moves DEF PCs, Ctx
  <2>3. UNCHANGED <<list, err, given, queue, cur, flags, reg, allow, heap, drv, dev, phy,
                    linkirq, nrx, nphy, ncalls>>
    BY <1>1 DEF QueueDeq, flg, wire
  <2>4. TypeOK'
    BY <2>2, <2>3 DEF TypeOK
  <2>5. PlaceInv'
    BY <1>1, <2>1, <2>2, <2>3 DEF ListPlace, QueuePlace, DriverPlace, Short
  <2> QED
    BY <2>4, <2>5
<1>2. CASE QueueDeq /\ queue # << >>
  <2>1. pc["main"] = "q_deq" /\ Goto("main", "q_test")
    BY <1>2 DEF QueueDeq, At
  <2>2. /\ pc' \in [Ctx -> PCs] /\ pc'["main"] = "q_test" /\ pc'["isr"] = pc["isr"]
    BY <2>1, Moves DEF PCs, Ctx
  <2>3. PICK b \in Buf : queue = <<b>>
    BY <1>2 DEF QueuePlace, Short
  <2>4. cur' = b /\ queue' = << >> /\ << >> \in Seq(Buf)
    BY <1>2, <2>3, ShortSeq DEF QueueDeq, nb_dequeue
  <2>5. err' \in [Ctx -> Results] /\ err'["isr"] = err["isr"]
    BY <1>2 DEF QueueDeq, TypeOK, Results
  <2>6. UNCHANGED <<list, given, flags, reg, allow, heap, drv, dev, phy, linkirq, nrx, nphy,
                    ncalls>>
    BY <1>2 DEF QueueDeq, flg, wire
  <2>7. TypeOK'
    BY <2>2, <2>4, <2>5, <2>6 DEF TypeOK
  <2>8. PlaceInv'
    BY <2>1, <2>2, <2>4, <2>5, <2>6 DEF ListPlace, QueuePlace, DriverPlace, Short
  <2> QED
    BY <2>7, <2>8
<1>3. CASE QueueTest
  <2>1. PICK l \in {"q_exit", "q_tx"} :
          Goto("main", l) /\ pc["main"] = "q_test" /\ (l = "q_tx" => flags.up)
    BY <1>3 DEF QueueTest, At, Usable
  <2>2. /\ pc' \in [Ctx -> PCs] /\ pc'["main"] = l /\ pc'["isr"] = pc["isr"]
    BY <2>1, Moves DEF PCs, Ctx
  <2>3. UNCHANGED <<list, err, given, queue, cur, flags, reg, allow, heap, drv, dev, phy,
                    linkirq, nrx, nphy, ncalls>>
    BY <1>3 DEF QueueTest, flg, wire
  <2>4. TypeOK'
    BY <2>2, <2>3 DEF TypeOK
  <2>5. PlaceInv'
    BY <2>1, <2>2, <2>3 DEF ListPlace, QueuePlace, DriverPlace, Short
  <2> QED
    BY <2>4, <2>5
<1>4. CASE QueueTx
  <2>1. PICK r \in Results :
          /\ start_tx(cur, r)
          /\ err' = [err EXCEPT !["main"] = r]
          /\ IF r # "BUSY" THEN cur' = NoBuf /\ Goto("main", "q_exit")
                           ELSE UNCHANGED cur /\ Goto("main", "q_test")
    BY <1>4 DEF QueueTx, net_dev_xmit_complete
  <2>2. pc["main"] = "q_tx" /\ cur \in Buf
    BY <1>4 DEF QueueTx, At, QueuePlace
  <2>3. heap' \subseteq Buf /\ dev' \in Buf \cup {NoBuf} /\ allow' \in BOOLEAN
    BY <2>1, <2>2, StartTx
  <2>4. err' \in [Ctx -> Results] /\ err'["isr"] = err["isr"]
    BY <2>1 DEF TypeOK
  <2>5. /\ pc' \in [Ctx -> PCs] /\ pc'["isr"] = pc["isr"]
        /\ \/ pc'["main"] = "q_exit" /\ cur' = NoBuf
           \/ pc'["main"] = "q_test" /\ cur' = cur
    <3>1. CASE r # "BUSY"
      BY <2>1, <3>1, Moves DEF PCs, Ctx
    <3>2. CASE r = "BUSY"
      BY <2>1, <3>2, Moves DEF PCs, Ctx
    <3> QED
      BY <3>1, <3>2
  <2>6. UNCHANGED <<list, given, queue, flags, reg, drv, phy, linkirq, nrx, nphy, ncalls>>
    BY <1>4 DEF QueueTx
  <2>7. TypeOK'
    BY <2>2, <2>3, <2>4, <2>5, <2>6 DEF TypeOK
  <2>8. PlaceInv'
    BY <2>2, <2>4, <2>5, <2>6 DEF ListPlace, QueuePlace, DriverPlace, Short
  <2> QED
    BY <2>7, <2>8
<1>5. CASE QueueExit
  <2>1. PICK l \in {"q_deq", "idle"} : Goto("main", l) /\ pc["main"] = "q_exit"
    BY <1>5 DEF QueueExit, At
  <2>2. /\ pc' \in [Ctx -> PCs] /\ pc'["main"] = l /\ pc'["isr"] = pc["isr"]
    BY <2>1, Moves DEF PCs, Ctx
  <2>3. queue = << >> /\ Range(queue) = {} /\ << >> \in Seq(Buf)
    BY <2>1, ShortRange, ShortSeq DEF QueuePlace
  <2>4. queue' = << >> /\ heap' = heap /\ cur' = NoBuf
    BY <1>5, <2>3 DEF QueueExit, nb_queue_clear, free_net_buff_list
  <2>5. err' \in [Ctx -> Results] /\ err'["isr"] = err["isr"]
    BY <1>5 DEF QueueExit, TypeOK, Results
  <2>6. UNCHANGED <<list, given, flags, reg, allow, drv, dev, phy, linkirq, nrx, nphy, ncalls>>
    BY <1>5 DEF QueueExit, flg, wire
  <2>7. TypeOK'
    BY <2>2, <2>3, <2>4, <2>5, <2>6 DEF TypeOK
  <2>8. PlaceInv'
    BY <2>1, <2>2, <2>4, <2>5, <2>6 DEF ListPlace, QueuePlace, DriverPlace, Short
  <2> QED
    BY <2>7, <2>8
<1> QED
  BY <1>1, <1>2, <1>3, <1>4, <1>5

(* The lists an application passes, and the reply of the handler. *)
LEMMA ListsGiven ==
  /\ \A bs \in Lists : bs \in Seq(Buf) /\ IsInjective(bs)
  /\ \A b \in Buf : <<b>> \in Seq(Buf) /\ IsInjective(<<b>>)
<1>1. ASSUME NEW bs \in Lists
      PROVE  bs \in Seq(Buf) /\ IsInjective(bs)
  <2>1. PICK n \in 1 .. MaxList : bs \in [1 .. n -> Buf] /\ IsInjective(bs)
    BY <1>1, Zenon DEF Lists, Injection
  <2>2. n \in Nat
    BY NetDevAssumption
  <2> QED
    BY <2>1, <2>2
<1> QED
  BY <1>1, ShortSeq, ShortInjective

(* A list of buffers enters netdev_list_xmit(). *)
LEMMA EnterStep ==
  ASSUME NetDevInv, NEW c \in Ctx, NEW bs \in Seq(Buf), XmitEnter(c, bs)
  PROVE  /\ pc' \in [Ctx -> PCs] /\ list' \in [Ctx -> Seq(Buf)] /\ err' \in [Ctx -> Results]
         /\ given' \in [Ctx -> Nat] /\ Len(list'[c]) <= given'[c]
         /\ pc'[c] = "l_test" /\ list'[c] = bs /\ err'[c] = "BUSY"
         /\ \A d \in Ctx \ {c} : /\ pc'[d] = pc[d] /\ list'[d] = list[d]
                                  /\ err'[d] = err[d] /\ given'[d] = given[d]
<1>1. TypeOK /\ Len(bs) \in Nat
  BY DEF NetDevInv
<1>2. Goto(c, "l_test") /\ "l_test" \in PCs
  BY DEF XmitEnter, PCs
<1>3. /\ pc' \in [Ctx -> PCs] /\ pc'[c] = "l_test"
      /\ \A d \in Ctx \ {c} : pc'[d] = pc[d]
  BY <1>1, <1>2, Moves
<1>4. /\ list' \in [Ctx -> Seq(Buf)] /\ list'[c] = bs
      /\ \A d \in Ctx \ {c} : list'[d] = list[d]
  BY <1>1 DEF XmitEnter, TypeOK
<1>5. /\ given' \in [Ctx -> Nat] /\ given'[c] = Len(bs)
      /\ \A d \in Ctx \ {c} : given'[d] = given[d]
  BY <1>1 DEF XmitEnter, TypeOK
<1>6. /\ err' \in [Ctx -> Results] /\ err'[c] = "BUSY"
      /\ \A d \in Ctx \ {c} : err'[d] = err[d]
  BY <1>1 DEF XmitEnter, TypeOK, Results
<1> QED
  BY <1>1, <1>3, <1>4, <1>5, <1>6

(* The calls of the application: open and close, and the ways to send. *)
LEMMA ApplicationSteps ==
  ASSUME NetDevInv, Application
  PROVE  NetDevInv'
<1> USE DEF NetDevInv, PlaceInv
<1> "main" \in Ctx /\ "isr" \in Ctx
  BY DEF Ctx
<1>1. /\ pc["main"] = "idle" /\ pc["isr"] = "idle" /\ ncalls' \in 0 .. MaxCalls
      /\ queue = << >> /\ << >> \in Seq(Buf)
  BY NetDevAssumption, ShortSeq DEF Application, netdev_open_drv, netdev_open_fails,
     netdev_close_drv, create_fails, list_xmit_call, udp_send_msg, Call, At, Runs,
     TypeOK, QueuePlace
<1>2. CASE netdev_open_drv
  <2>1. /\ pc' \in [Ctx -> PCs] /\ pc'["main"] = "open_rd" /\ pc'["isr"] = pc["isr"]
    BY <1>2, Moves DEF netdev_open_drv, PCs, Ctx
  <2>2. UNCHANGED <<list, err, given, queue, cur, flags, reg, heap, dev, phy, nrx, nphy>>
    BY <1>2 DEF netdev_open_drv
  <2>3. drv' = TRUE /\ allow' = TRUE /\ linkirq' \in BOOLEAN
    BY <1>2 DEF netdev_open_drv
  <2>4. TypeOK'
    BY <1>1, <2>1, <2>2, <2>3 DEF TypeOK
  <2>5. PlaceInv'
    BY <1>1, <2>1, <2>2, <2>3 DEF ListPlace, QueuePlace, DriverPlace, Short
  <2> QED
    BY <2>4, <2>5
<1>3. CASE netdev_open_fails \/ create_fails
  <2>1. UNCHANGED <<pc, list, err, given, queue, cur, flags, reg, allow, heap, drv, dev, phy,
                    linkirq, nrx, nphy>>
    BY <1>3 DEF netdev_open_fails, create_fails, ctx, flg, wire
  <2>2. TypeOK'
    BY <1>1, <2>1 DEF TypeOK
  <2>3. PlaceInv'
    BY <2>1 DEF ListPlace, QueuePlace, DriverPlace, Short
  <2> QED
    BY <2>2, <2>3
<1>4. CASE netdev_close_drv
  <2>1. /\ pc' \in [Ctx -> PCs] /\ pc'["main"] = "close_rd" /\ pc'["isr"] = pc["isr"]
    BY <1>4, Moves DEF netdev_close_drv, PCs, Ctx
  <2>2. UNCHANGED <<list, err, given, queue, cur, flags, reg, allow, phy, nrx, nphy>>
    BY <1>4 DEF netdev_close_drv, flg
  <2>3. drv' = FALSE /\ linkirq' = FALSE /\ dev' = NoBuf /\ heap' \subseteq Buf
    BY <1>4 DEF netdev_close_drv, TypeOK
  <2>4. TypeOK'
    BY <1>1, <2>1, <2>2, <2>3 DEF TypeOK
  <2>5. PlaceInv'
    BY <1>1, <2>1, <2>2, <2>3 DEF ListPlace, QueuePlace, DriverPlace, Short
  <2> QED
    BY <2>4, <2>5
<1>5. ASSUME NEW bs \in Lists, list_xmit_call(bs)
      PROVE  NetDevInv'
  <2>1. XmitEnter("main", bs) /\ bs \in Seq(Buf) /\ IsInjective(bs) /\ heap' \subseteq Buf
    BY <1>5, ListsGiven DEF list_xmit_call, TypeOK
  <2>2. /\ pc' \in [Ctx -> PCs] /\ list' \in [Ctx -> Seq(Buf)] /\ err' \in [Ctx -> Results]
        /\ given' \in [Ctx -> Nat] /\ Len(list'["main"]) <= given'["main"]
        /\ pc'["main"] = "l_test" /\ list'["main"] = bs /\ err'["main"] = "BUSY"
        /\ pc'["isr"] = pc["isr"] /\ list'["isr"] = list["isr"] /\ err'["isr"] = err["isr"]
        /\ given'["isr"] = given["isr"]
    BY <2>1, EnterStep DEF Ctx
  <2>3. UNCHANGED <<queue, cur, flags, reg, allow, drv, dev, phy, linkirq, nrx, nphy>>
    BY <1>5 DEF list_xmit_call, flg, wire
  <2>4. TypeOK'
    BY <1>1, <2>1, <2>2, <2>3 DEF TypeOK
  <2>5. PlaceInv'
    BY <1>1, <2>1, <2>2, <2>3 DEF ListPlace, QueuePlace, DriverPlace, Short
  <2> QED
    BY <2>4, <2>5
<1>6. ASSUME NEW b \in Buf, udp_send_msg(b)
      PROVE  NetDevInv'
  <2>1. /\ pc' \in [Ctx -> PCs] /\ pc'["main"] = "q_deq" /\ pc'["isr"] = pc["isr"]
    BY <1>6, Moves DEF udp_send_msg, PCs, Ctx
  <2>2. queue' = <<b>> /\ <<b>> \in Seq(Buf) /\ heap' \subseteq Buf
    BY <1>1, <1>6, ShortSeq DEF udp_send_msg, ip_create_nb, nb_enqueue,
       ndev_alloc_net_buff, TypeOK
  <2>3. err' \in [Ctx -> Results] /\ err'["isr"] = err["isr"]
    BY <1>6 DEF udp_send_msg, TypeOK, Results
  <2>4. UNCHANGED <<list, given, cur, flags, reg, allow, drv, dev, phy, linkirq, nrx, nphy>>
    BY <1>6 DEF udp_send_msg, flg, wire
  <2>5. TypeOK'
    BY <1>1, <2>1, <2>2, <2>3, <2>4 DEF TypeOK
  <2>6. PlaceInv'
    BY <1>1, <2>1, <2>2, <2>3, <2>4 DEF ListPlace, QueuePlace, DriverPlace, Short
  <2> QED
    BY <2>5, <2>6
<1> QED
  BY <1>2, <1>3, <1>4, <1>5, <1>6 DEF Application

(* Setting up_state: a read and a write of the byte, in the main thread. *)
LEMMA FlagSteps ==
  ASSUME NetDevInv, MainFlags
  PROVE  NetDevInv'
<1> USE DEF NetDevInv, PlaceInv
<1> "main" \in Ctx /\ "isr" \in Ctx
  BY DEF Ctx
<1>1. ASSUME NEW from \in {"open_rd", "close_rd"}, NEW to \in {"open_wr", "close_wr"},
             upstate_read(from, to), from = "open_rd" <=> to = "open_wr"
      PROVE  NetDevInv'
  <2>1. pc["main"] = from /\ Goto("main", to) /\ reg' = flags
    BY <1>1 DEF upstate_read, At
  <2>2. /\ pc' \in [Ctx -> PCs] /\ pc'["main"] = to /\ pc'["isr"] = pc["isr"]
    BY <2>1, Moves DEF PCs, Ctx
  <2>3. UNCHANGED <<list, err, given, queue, cur, flags, allow, heap, drv, dev, phy, linkirq,
                    nrx, nphy, ncalls>>
    BY <1>1 DEF upstate_read, wire
  <2>4. TypeOK'
    BY <2>1, <2>2, <2>3 DEF TypeOK
  <2>5. PlaceInv'
    BY <1>1, <2>1, <2>2, <2>3 DEF ListPlace, QueuePlace, DriverPlace, Short
  <2> QED
    BY <2>4, <2>5
<1>2. ASSUME NEW from \in {"open_wr", "close_wr"}, NEW v \in BOOLEAN,
             upstate_write(from, v), v => from = "open_wr"
      PROVE  NetDevInv'
  <2>1. pc["main"] = from /\ Goto("main", "idle") /\ flags' = [reg EXCEPT !.up = v]
    BY <1>2 DEF upstate_write, At
  <2>2. flags' \in [up : BOOLEAN, link : BOOLEAN] /\ flags'.up = v
    BY <2>1 DEF TypeOK
  <2>3. /\ pc' \in [Ctx -> PCs] /\ pc'["main"] = "idle" /\ pc'["isr"] = pc["isr"]
    BY <2>1, Moves DEF PCs, Ctx
  <2>4. UNCHANGED <<list, err, given, queue, cur, reg, allow, heap, drv, dev, phy, linkirq,
                    nrx, nphy, ncalls>>
    BY <1>2 DEF upstate_write, wire
  <2>5. TypeOK'
    BY <2>2, <2>3, <2>4 DEF TypeOK
  <2>6. PlaceInv'
    BY <1>2, <2>1, <2>2, <2>3, <2>4 DEF ListPlace, QueuePlace, DriverPlace, Short
  <2> QED
    BY <2>5, <2>6
<1> QED
  BY <1>1, <1>2 DEF MainFlags, net_dev_set_upstate_run, net_dev_set_upstate_stop

(* The causes of an interrupt, and the cable. *)
LEMMA IrqSteps ==
  ASSUME NetDevInv, IrqLink \/ IrqTxDone \/ PhyChange \/ \E b \in Buf : IrqRx(b)
  PROVE  NetDevInv'
<1> USE DEF NetDevInv, PlaceInv
<1>1. CASE IrqLink
  <2>1. flags' \in [up : BOOLEAN, link : BOOLEAN] /\ flags'.up = flags.up
    BY <1>1 DEF IrqLink, TypeOK
  <2>2. /\ UNCHANGED <<pc, list, err, given, queue, cur, reg, allow, heap, drv, dev, phy, nrx,
                       nphy, ncalls>>
        /\ linkirq' = FALSE
    BY <1>1 DEF IrqLink, ctx
  <2>3. TypeOK'
    BY <2>1, <2>2 DEF TypeOK
  <2>4. PlaceInv'
    BY <2>1, <2>2 DEF ListPlace, QueuePlace, DriverPlace, Short
  <2> QED
    BY <2>3, <2>4
<1>2. CASE IrqTxDone
  <2>1. dev \in Buf /\ heap' = heap \cup {dev} /\ dev' = NoBuf /\ allow' = TRUE
    BY <1>2 DEF IrqTxDone, TypeOK
  <2>2. UNCHANGED <<pc, list, err, given, queue, cur, flags, reg, drv, phy, linkirq, nrx, nphy,
                    ncalls>>
    BY <1>2 DEF IrqTxDone, ctx
  <2>3. TypeOK'
    BY <2>1, <2>2 DEF TypeOK
  <2>4. PlaceInv'
    BY <2>2 DEF ListPlace, QueuePlace, DriverPlace, Short
  <2> QED
    BY <2>3, <2>4
<1>3. CASE PhyChange
  <2>1. UNCHANGED <<pc, list, err, given, queue, cur, flags, reg, allow, heap, drv, dev, nrx,
                    ncalls>>
    BY <1>3 DEF PhyChange, ctx, flg
  <2>2. phy' \in BOOLEAN /\ linkirq' \in BOOLEAN /\ nphy' \in 0 .. MaxPhy
    BY <1>3, NetDevAssumption DEF PhyChange, TypeOK
  <2>3. TypeOK'
    BY <2>1, <2>2 DEF TypeOK
  <2>4. PlaceInv'
    BY <2>1 DEF ListPlace, QueuePlace, DriverPlace, Short
  <2> QED
    BY <2>3, <2>4
<1>4. ASSUME NEW b \in Buf, IrqRx(b)
      PROVE  NetDevInv'
  <2>1. /\ XmitEnter("isr", <<b>>) /\ drv /\ nrx' \in 0 .. MaxRx /\ heap' \subseteq Buf
        /\ <<b>> \in Seq(Buf) /\ IsInjective(<<b>>)
    BY <1>4, NetDevAssumption, ListsGiven DEF IrqRx, Irq, TypeOK, ndev_alloc_net_buff
  <2>2. /\ pc' \in [Ctx -> PCs] /\ list' \in [Ctx -> Seq(Buf)] /\ err' \in [Ctx -> Results]
        /\ given' \in [Ctx -> Nat] /\ Len(list'["isr"]) <= given'["isr"]
        /\ pc'["isr"] = "l_test" /\ list'["isr"] = <<b>> /\ err'["isr"] = "BUSY"
        /\ pc'["main"] = pc["main"] /\ list'["main"] = list["main"]
        /\ err'["main"] = err["main"] /\ given'["main"] = given["main"]
    BY <2>1, EnterStep DEF Ctx
  <2>3. UNCHANGED <<queue, cur, flags, reg, allow, drv, dev, phy, linkirq, nphy, ncalls>>
    BY <1>4 DEF IrqRx, flg
  <2>4. TypeOK'
    BY <2>1, <2>2, <2>3 DEF TypeOK
  <2>5. PlaceInv'
    BY <2>1, <2>2, <2>3 DEF ListPlace, QueuePlace, DriverPlace, Short
  <2> QED
    BY <2>4, <2>5
<1> QED
  BY <1>1, <1>2, <1>3, <1>4

(* NetDevInv is inductive. *)
LEMMA NetDevStep ==
  ASSUME NetDevInv, [Next]_vars
  PROVE  NetDevInv'
<1>1. CASE UNCHANGED vars
  BY <1>1 DEF vars, NetDevInv, TypeOK, PlaceInv, ListPlace, QueuePlace, DriverPlace, Short
<1>2. CASE MainXmit \/ Handler
  BY <1>2, ListSteps, QueueSteps DEF MainXmit, Handler, Ctx
<1> QED
  BY <1>1, <1>2, ApplicationSteps, FlagSteps, IrqSteps DEF Next

(* NetDevInv holds in every reachable state. *)
LEMMA NetDevInvariant == Spec => []NetDevInv
<1>1. Init => NetDevInv
  <2> SUFFICES ASSUME Init PROVE NetDevInv
    OBVIOUS
  <2>1. TypeOK
    <3>1. /\ pc \in [Ctx -> PCs] /\ list \in [Ctx -> Seq(Buf)]
          /\ err \in [Ctx -> Results] /\ given \in [Ctx -> Nat] /\ queue \in Seq(Buf)
      BY ShortSeq DEF Init, PCs, Results
    <3>2. nrx \in 0 .. MaxRx /\ nphy \in 0 .. MaxPhy /\ ncalls \in 0 .. MaxCalls
      BY NetDevAssumption DEF Init
    <3>3. /\ cur \in Buf \cup {NoBuf} /\ dev \in Buf \cup {NoBuf} /\ heap \subseteq Buf
          /\ flags \in [up : BOOLEAN, link : BOOLEAN]
          /\ reg \in [up : BOOLEAN, link : BOOLEAN]
      BY DEF Init
    <3> QED
      BY <3>1, <3>2, <3>3 DEF Init, TypeOK
  <2>2. PlaceInv
    BY ShortInjective DEF Init, PlaceInv, ListPlace, QueuePlace, DriverPlace, Short, Ctx
  <2> QED
    BY <2>1, <2>2 DEF NetDevInv
<1>2. NetDevInv /\ [Next]_vars => NetDevInv'
  BY NetDevStep
<1> QED
  BY <1>1, <1>2, PTL DEF Spec

(* Types hold throughout; in particular neither loop ever takes NULL for a   *)
(* buffer, though the main thread and the handler share the driver.          *)
THEOREM NetDevTypes == Spec => []TypeOK
<1>1. NetDevInv => TypeOK
  BY DEF NetDevInv
<1> QED
  BY <1>1, NetDevInvariant, PTL

-----------------------------------------------------------------------------
(* Ownership: six sets of buffers, no two of which meet. *)
Apart(h, lm, li, q, k, d) ==
  /\ h \cap lm = {} /\ h \cap li = {} /\ h \cap q = {} /\ h \cap k = {} /\ h \cap d = {}
  /\ lm \cap li = {} /\ lm \cap q = {} /\ lm \cap k = {} /\ lm \cap d = {}
  /\ li \cap q = {} /\ li \cap k = {} /\ li \cap d = {}
  /\ q \cap k = {} /\ q \cap d = {} /\ k \cap d = {}

OwnerInv == Apart(heap, Range(list["main"]), Range(list["isr"]), Range(queue),
                  {cur} \ {NoBuf}, {dev} \ {NoBuf})

(* OwnerInv is OneOwner with the holders written out pairwise. *)
LEMMA OwnerIsOneOwner == OwnerInv => OneOwner
<1> SUFFICES ASSUME OwnerInv, NEW i \in DOMAIN Held, NEW j \in DOMAIN Held, i # j
             PROVE  Held[i] \cap Held[j] = {}
  BY DEF OneOwner
<1>1. /\ Held[1] = heap /\ Held[2] = Range(list["main"]) /\ Held[3] = Range(list["isr"])
      /\ Held[4] = Range(queue) /\ Held[5] = {cur} \ {NoBuf} /\ Held[6] = {dev} \ {NoBuf}
  BY DEF Held
<1>2. i \in 1 .. 6 /\ j \in 1 .. 6
  BY DEF Held
<1>3. ASSUME NEW m \in 1 .. 6, NEW n \in 1 .. 6, m < n
      PROVE  Held[m] \cap Held[n] = {}
  <2> HIDE DEF Held
  <2>1. CASE m = 1
    BY <1>1, <1>3, <2>1 DEF OwnerInv, Apart
  <2>2. CASE m = 2
    BY <1>1, <1>3, <2>2 DEF OwnerInv, Apart
  <2>3. CASE m \in 3 .. 5
    BY <1>1, <1>3, <2>3 DEF OwnerInv, Apart
  <2> QED
    BY <1>3, <2>1, <2>2, <2>3
<1> QED
  BY <1>2, <1>3

(* What ListTx() does with the first buffer of the list: it keeps it, or it  *)
(* gives it to the driver, or to the heap after a failure.                   *)
LEMMA TxMoves ==
  ASSUME NetDevInv, NEW c \in Ctx, ListTx(c)
  PROVE  /\ UNCHANGED <<queue, cur>>
         /\ \/ UNCHANGED <<list, heap, dev>>
            \/ \E b \in Buf, rest \in Seq(Buf) :
                 /\ b \notin Range(rest) /\ Range(list[c]) = {b} \cup Range(rest)
                 /\ list'[c] = rest /\ \A d \in Ctx \ {c} : list'[d] = list[d]
                 /\ \/ dev = NoBuf /\ dev' = b /\ heap' = heap
                    \/ dev' = dev /\ heap' = heap \cup {b}
<1>1. list[c] \in Seq(Buf) /\ list[c] # << >> /\ IsInjective(list[c])
  BY DEF ListTx, At, NetDevInv, TypeOK, PlaceInv, ListPlace, Ctx
<1>2. PICK b \in Buf, rest \in Seq(Buf) :
        /\ Head(list[c]) = b /\ Tail(list[c]) = rest
        /\ b \notin Range(rest) /\ Range(list[c]) = {b} \cup Range(rest)
  <2>1. /\ Head(list[c]) \in Buf /\ Tail(list[c]) \in Seq(Buf)
        /\ Head(list[c]) \notin Range(Tail(list[c]))
        /\ Range(list[c]) = {Head(list[c])} \cup Range(Tail(list[c]))
    BY <1>1, TakeFirst
  <2> QED
    BY <2>1
<1>3. PICK r \in Results :
        /\ start_tx(b, r)
        /\ list' = IF r # "BUSY" THEN [list EXCEPT ![c] = rest] ELSE list
  BY <1>2, Zenon DEF ListTx, net_dev_xmit_complete
<1>4. UNCHANGED <<queue, cur>> /\ list \in [Ctx -> Seq(Buf)]
  BY DEF ListTx, NetDevInv, TypeOK
<1>5. CASE r = "BUSY"
  BY <1>3, <1>4, <1>5 DEF start_tx
<1>6. CASE r # "BUSY"
  <2>1. list'[c] = rest /\ \A d \in Ctx \ {c} : list'[d] = list[d]
    BY <1>3, <1>4, <1>6
  <2>2. \/ dev = NoBuf /\ dev' = b /\ heap' = heap
        \/ dev' = dev /\ heap' = heap \cup {b}
    BY <1>3, <1>6 DEF start_tx
  <2> QED
    BY <1>2, <1>4, <2>1, <2>2, Zenon
<1> QED
  BY <1>5, <1>6

(* Every step moves a buffer from one owner to another, or leaves all alone. *)
LEMMA OwnerStep ==
  ASSUME NetDevInv, OwnerInv, [Next]_vars
  PROVE  OwnerInv'
<1> "main" \in Ctx /\ "isr" \in Ctx
  BY DEF Ctx
<1>1. ASSUME UNCHANGED <<heap, list, queue, cur, dev>>
      PROVE  OwnerInv'
  BY <1>1 DEF OwnerInv
<1>2. CASE netdev_open_drv \/ netdev_open_fails \/ create_fails \/ MainFlags
  BY <1>1, <1>2 DEF netdev_open_drv, netdev_open_fails, create_fails, MainFlags,
     net_dev_set_upstate_run, net_dev_set_upstate_stop, upstate_read, upstate_write,
     ctx, wire
<1>3. CASE netdev_close_drv \/ IrqTxDone
  <2>1. UNCHANGED <<list, queue, cur>> /\ dev' = NoBuf /\ heap' = heap \cup ({dev} \ {NoBuf})
    BY <1>3 DEF netdev_close_drv, IrqTxDone, ctx
  <2> QED
    BY <2>1 DEF OwnerInv, Apart
<1>4. ASSUME NEW c \in Ctx, NEW bs \in Seq(Buf), XmitEnter(c, bs),
             Range(bs) \subseteq heap, heap' = heap \ Range(bs), UNCHANGED <<queue, cur, dev>>
      PROVE  OwnerInv'
  <2>1. list'[c] = bs /\ \A d \in Ctx \ {c} : list'[d] = list[d]
    BY <1>4, EnterStep
  <2> QED
    BY <1>4, <2>1 DEF OwnerInv, Apart, Ctx
<1>5. ASSUME NEW b \in Buf, udp_send_msg(b)
      PROVE  OwnerInv'
  <2>1. queue = << >>
    BY <1>5 DEF udp_send_msg, Call, At, NetDevInv, PlaceInv, QueuePlace
  <2>2. /\ queue' = <<b>> /\ b \in heap /\ heap' = heap \ {b}
        /\ UNCHANGED <<list, cur, dev>>
    BY <1>5, <2>1, ShortSeq DEF udp_send_msg, ip_create_nb, nb_enqueue,
       ndev_alloc_net_buff, wire
  <2>3. Range(queue') = {b}
    BY <2>2, ShortRange
  <2> QED
    BY <2>2, <2>3 DEF OwnerInv, Apart
<1>6. ASSUME NEW c \in Ctx, ListTx(c)
      PROVE  OwnerInv'
  <2>1. CASE UNCHANGED <<list, heap, dev>>
    BY <1>1, <1>6, <2>1, TxMoves
  <2>2. ASSUME NEW b \in Buf, NEW rest \in Seq(Buf),
               b \notin Range(rest), Range(list[c]) = {b} \cup Range(rest),
               list'[c] = rest, \A d \in Ctx \ {c} : list'[d] = list[d],
               \/ dev = NoBuf /\ dev' = b /\ heap' = heap
               \/ dev' = dev /\ heap' = heap \cup {b}
        PROVE  OwnerInv'
    <3>1. UNCHANGED <<queue, cur>>
      BY <1>6, TxMoves
    <3> QED
      BY <2>2, <3>1 DEF OwnerInv, Apart, Ctx
  <2> QED
    BY <1>6, <2>1, <2>2, TxMoves, Zenon
<1>7. ASSUME NEW c \in Ctx, ListExit(c)
      PROVE  OwnerInv'
  <2>1. /\ list'[c] = << >> /\ \A d \in Ctx \ {c} : list'[d] = list[d]
        /\ UNCHANGED <<queue, cur, dev>>
    BY <1>7 DEF ListExit, wire, NetDevInv, TypeOK
  <2>2. heap' \in {heap, heap \cup Range(list[c])}
    BY <1>7 DEF ListExit, free_net_buff_list
  <2>3. Range(list'[c]) = {}
    BY <2>1, ShortRange
  <2> QED
    BY <2>1, <2>2, <2>3 DEF OwnerInv, Apart, Ctx
<1>8. ASSUME NEW c \in Ctx, ListTest(c)
      PROVE  OwnerInv'
  BY <1>1, <1>8 DEF ListTest, wire
<1>9. CASE QueueDeq
  <2>1. CASE queue = << >>
    BY <1>1, <1>9, <2>1 DEF QueueDeq, wire
  <2>2. CASE queue # << >>
    <3>1. PICK b \in Buf : queue = <<b>>
      BY <2>2 DEF NetDevInv, PlaceInv, QueuePlace, Short
    <3>2. cur' = b /\ queue' = << >> /\ UNCHANGED <<list, heap, dev>>
      BY <1>9, <2>2, <3>1, ShortSeq DEF QueueDeq, nb_dequeue, wire
    <3>3. Range(queue) = {b} /\ Range(queue') = {}
      BY <3>1, <3>2, ShortRange
    <3> QED
      BY <3>2, <3>3 DEF OwnerInv, Apart
  <2> QED
    BY <2>1, <2>2
<1>10. CASE QueueTest \/ IrqLink \/ PhyChange
  BY <1>1, <1>10 DEF QueueTest, IrqLink, PhyChange, wire, ctx
<1>11. CASE QueueTx
  <2>1. cur \in Buf /\ UNCHANGED <<list, queue>>
    BY <1>11 DEF QueueTx, At, NetDevInv, PlaceInv, QueuePlace
  <2>2. PICK r \in Results : start_tx(cur, r) /\ cur' = IF r # "BUSY" THEN NoBuf ELSE cur
    BY <1>11 DEF QueueTx, net_dev_xmit_complete
  <2>3. CASE r = "BUSY"
    BY <1>1, <2>1, <2>2, <2>3 DEF start_tx
  <2>4. CASE r # "BUSY"
    <3>1. \/ dev = NoBuf /\ dev' = cur /\ heap' = heap
          \/ dev' = dev /\ heap' = heap \cup {cur}
      BY <2>2, <2>4 DEF start_tx
    <3>2. cur # NoBuf /\ cur' = NoBuf
      BY <2>1, <2>2, <2>4, NetDevAssumption
    <3> QED
      BY <2>1, <3>1, <3>2 DEF OwnerInv, Apart
  <2> QED
    BY <2>3, <2>4
<1>12. CASE QueueExit
  <2>1. queue = << >> /\ Range(queue) = {}
    BY <1>12, ShortRange DEF QueueExit, At, NetDevInv, PlaceInv, QueuePlace
  <2>2. queue' = queue /\ heap' = heap /\ cur' = NoBuf /\ UNCHANGED <<list, dev>>
    BY <1>12, <2>1 DEF QueueExit, nb_queue_clear, free_net_buff_list, wire
  <2> QED
    BY <2>2 DEF OwnerInv, Apart
<1>13. ASSUME NEW bs \in Lists, list_xmit_call(bs)
       PROVE  OwnerInv'
  BY <1>4, <1>13, ListsGiven DEF list_xmit_call, wire
<1>14. ASSUME NEW b \in Buf, IrqRx(b)
       PROVE  OwnerInv'
  <2>1. <<b>> \in Seq(Buf) /\ Range(<<b>>) = {b}
    BY ShortSeq, ShortRange
  <2> QED
    BY <1>4, <1>14, <2>1 DEF IrqRx, ndev_alloc_net_buff
<1>15. CASE UNCHANGED vars
  BY <1>1, <1>15 DEF vars
<1> QED
  BY <1>2, <1>3, <1>5, <1>6, <1>7, <1>8, <1>9, <1>10, <1>11, <1>12, <1>13, <1>14, <1>15
     DEF Next, Application, MainXmit, Handler

(* No buffer is ever free and in use, or in use by two: not when the handler *)
(* transmits while the main thread is inside either loop, not when the       *)
(* driver fails, and not when the device is closed.                          *)
THEOREM OwnerTheorem == Spec => []OneOwner
<1>1. Init => OwnerInv
  <2> SUFFICES ASSUME Init PROVE OwnerInv
    OBVIOUS
  <2>1. /\ Range(list["main"]) = {} /\ Range(list["isr"]) = {} /\ Range(queue) = {}
        /\ cur = NoBuf /\ dev = NoBuf
    BY ShortRange DEF Init, Ctx
  <2> QED
    BY <2>1 DEF OwnerInv, Apart
<1>2. NetDevInv /\ OwnerInv /\ [Next]_vars => OwnerInv'
  BY OwnerStep
<1> QED
  BY <1>1, <1>2, OwnerIsOneOwner, NetDevInvariant, PTL DEF Spec

-----------------------------------------------------------------------------
(* The buffers that nobody refers to, written out. *)
LostOut ==
  Lost = Buf \ (heap \cup Range(list["main"]) \cup Range(list["isr"]) \cup Range(queue)
                \cup ({cur} \ {NoBuf}) \cup ({dev} \ {NoBuf}))

(* Lost is the set LostOut says it is. *)
LEMMA LostBuffers == LostOut
<1>1. UNION Range(Held) = heap \cup Range(list["main"]) \cup Range(list["isr"])
                            \cup Range(queue) \cup ({cur} \ {NoBuf}) \cup ({dev} \ {NoBuf})
  <2>1. DOMAIN Held = 1 .. 6
    BY DEF Held
  <2>2. /\ Held[1] = heap /\ Held[2] = Range(list["main"]) /\ Held[3] = Range(list["isr"])
        /\ Held[4] = Range(queue) /\ Held[5] = {cur} \ {NoBuf} /\ Held[6] = {dev} \ {NoBuf}
    BY DEF Held
  <2>3. \A n \in DOMAIN Held : n \in {1, 2, 3, 4, 5, 6}
    BY <2>1
  <2>4. Range(Held) = {Held[n] : n \in DOMAIN Held}
    BY Zenon DEF Range
  <2> HIDE DEF Held
  <2> QED
    BY <2>1, <2>2, <2>3, <2>4
<1> QED
  BY <1>1 DEF LostOut, Lost

(* The steps that change neither a list nor the buffer of the driver. *)
LEMMA QuietSteps ==
  ASSUME [Next]_vars,
         ~\E c \in Ctx : ListTx(c) \/ ListExit(c), ~QueueTx,
         ~\E bs \in Lists : list_xmit_call(bs), ~\E b \in Buf : IrqRx(b)
  PROVE  UNCHANGED list /\ dev' \in {dev, NoBuf}
<1>1. CASE netdev_open_drv \/ netdev_open_fails \/ netdev_close_drv \/ create_fails
           \/ MainFlags
  BY <1>1 DEF netdev_open_drv, netdev_open_fails, netdev_close_drv, create_fails,
     MainFlags, net_dev_set_upstate_run, net_dev_set_upstate_stop, upstate_read,
     upstate_write, ctx, wire
<1>2. ASSUME NEW b \in Buf, udp_send_msg(b)
      PROVE  UNCHANGED <<list, dev>>
  BY <1>2 DEF udp_send_msg, wire
<1>3. ASSUME NEW c \in Ctx, ListTest(c)
      PROVE  UNCHANGED <<list, dev>>
  BY <1>3 DEF ListTest, wire
<1>4. CASE QueueDeq \/ QueueTest \/ QueueExit
  BY <1>4 DEF QueueDeq, QueueTest, QueueExit, wire
<1>5. CASE IrqLink \/ IrqTxDone \/ PhyChange
  BY <1>5 DEF IrqLink, IrqTxDone, PhyChange, ctx
<1>6. CASE UNCHANGED vars
  BY <1>6 DEF vars
<1> QED
  BY <1>1, <1>2, <1>3, <1>4, <1>5, <1>6 DEF Next, Application, MainXmit, Handler, Ctx

(* In either context netdev_list_xmit() gives every buffer of its list to    *)
(* the driver or to the heap, for lists of every length, but for one case:   *)
(* the device went down after a buffer of a longer list was taken.           *)
THEOREM ListKeepsTheorem == Spec => ListKeepsBuffers
<1> DEFINE Loss(c) == IF CutOff(c) THEN Range(list[c]) ELSE {}
<1>0. LostOut /\ LostOut'
  BY LostBuffers, PTL
<1> "main" \in Ctx /\ "isr" \in Ctx
  BY DEF Ctx
<1>1. ASSUME NetDevInv, NEW c \in Ctx, ListTx(c)
      PROVE  Lost' \subseteq Lost
  <2>1. CASE UNCHANGED <<list, heap, dev>>
    BY <1>1, <2>1, TxMoves DEF Lost, Held
  <2>2. ASSUME NEW b \in Buf, NEW rest \in Seq(Buf),
               Range(list[c]) = {b} \cup Range(rest),
               list'[c] = rest, \A d \in Ctx \ {c} : list'[d] = list[d],
               \/ dev = NoBuf /\ dev' = b /\ heap' = heap
               \/ dev' = dev /\ heap' = heap \cup {b}
        PROVE  Lost' \subseteq Lost
    <3>1. UNCHANGED <<queue, cur>> /\ b # NoBuf
      BY <1>1, TxMoves, NetDevAssumption
    <3> QED
      BY <2>2, <3>1, <1>0 DEF LostOut, Ctx
  <2> QED
    BY <1>1, <2>1, <2>2, TxMoves, Zenon
<1>2. ASSUME NetDevInv, NEW c \in Ctx, ListExit(c)
      PROVE  Lost' \subseteq Lost \cup Loss(c)
  <2>1. /\ list'[c] = << >> /\ \A d \in Ctx \ {c} : list'[d] = list[d]
        /\ UNCHANGED <<queue, cur, dev>>
    BY <1>2 DEF ListExit, wire, NetDevInv, TypeOK
  <2>2. Range(list[c]) \subseteq heap' \cup Loss(c)
    <3>1. CASE err[c] = "BUSY"
      BY <1>2, <3>1 DEF ListExit, free_net_buff_list, net_dev_xmit_complete
    <3>2. CASE list[c] = << >>
      BY <3>2, ShortRange
    <3>3. CASE err[c] # "BUSY" /\ list[c] # << >>
      <4>1. pc[c] = "l_exit" /\ Len(list[c]) < given[c] /\ list[c] \in Seq(Buf)
        BY <1>2, <3>3 DEF ListExit, At, NetDevInv, PlaceInv, ListPlace, TypeOK, Ctx
      <4>2. 0 < Len(list[c])
        BY <3>3, <4>1
      <4> QED
        BY <3>3, <4>1, <4>2 DEF CutOff, net_dev_xmit_complete
    <3> QED
      BY <3>1, <3>2, <3>3
  <2>3. heap \subseteq heap'
    BY <1>2 DEF ListExit, free_net_buff_list
  <2> HIDE DEF Loss
  <2> QED
    BY <2>1, <2>2, <2>3, <1>0 DEF LostOut, Ctx
<1>3. ASSUME NetDevInv, NEW c \in Ctx, NEW bs \in Seq(Buf), XmitEnter(c, bs),
             heap' = heap \ Range(bs), pc[c] = "idle", UNCHANGED <<queue, cur, dev>>
      PROVE  Lost' \subseteq Lost
  <2>1. list[c] = << >> /\ Range(list[c]) = {}
    BY <1>3, ShortRange DEF NetDevInv, PlaceInv, ListPlace, Ctx
  <2>2. list'[c] = bs /\ \A d \in Ctx \ {c} : list'[d] = list[d]
    BY <1>3, EnterStep
  <2> QED
    BY <1>3, <2>1, <2>2, <1>0 DEF LostOut, Ctx
<1>4. ASSUME NetDevInv, NEW bs \in Lists, list_xmit_call(bs)
      PROVE  Lost' \subseteq Lost
  BY <1>3, <1>4, ListsGiven DEF list_xmit_call, Call, At, wire
<1>5. ASSUME NetDevInv, NEW b \in Buf, IrqRx(b)
      PROVE  Lost' \subseteq Lost
  <2>1. <<b>> \in Seq(Buf) /\ Range(<<b>>) = {b}
    BY ShortSeq, ShortRange
  <2> QED
    BY <1>3, <1>5, <2>1 DEF IrqRx, Irq, ndev_alloc_net_buff
<1>6. ASSUME NEW c \in Ctx, NEW d \in Ctx, NetDevInv, ListExit(c), list'[d] # list[d]
      PROVE  d = c
  BY <1>6 DEF ListExit, NetDevInv, TypeOK
<1>7. ASSUME NetDevInv, [Next]_vars, NEW c \in Ctx, list'[c] # list[c]
      PROVE  Lost' \subseteq Lost \cup Loss(c)
  <2> HIDE DEF Loss
  <2>1. CASE \E d \in Ctx : ListTx(d)
    BY <1>1, <1>7, <2>1
  <2>2. CASE \E d \in Ctx : ListExit(d)
    BY <1>2, <1>6, <1>7, <2>2
  <2>3. CASE (\E bs \in Lists : list_xmit_call(bs)) \/ \E b \in Buf : IrqRx(b)
    BY <1>4, <1>5, <1>7, <2>3
  <2>4. ~QueueTx
    BY <1>7 DEF QueueTx
  <2> QED
    BY <1>7, <2>1, <2>2, <2>3, <2>4, QuietSteps
<1>8. NetDevInv /\ [Next]_vars
        => [\A c \in Ctx : list'[c] # list[c] =>
              Lost' \subseteq Lost \cup (IF CutOff(c) THEN Range(list[c]) ELSE {})]_vars
  BY <1>7
<1> QED
  BY <1>8, NetDevInvariant, PTL DEF Spec, ListKeepsBuffers

(* The driver is given a buffer only while it is open: neither loop can have *)
(* passed its test of the flags when netdev_close() stops the driver, and    *)
(* none passes it until netdev_open() has started it again.                  *)
THEOREM SilentTheorem == Spec => SilentWhenClosed
<1>1. ASSUME NetDevInv, [Next]_vars, dev' \notin {dev, NoBuf}
      PROVE  drv
  <2>1. (~\E bs \in Lists : list_xmit_call(bs)) /\ ~\E b \in Buf : IrqRx(b)
    BY <1>1 DEF list_xmit_call, IrqRx, wire
  <2>2. ~\E c \in Ctx : ListExit(c)
    BY <1>1 DEF ListExit, wire
  <2>3. (\E c \in Ctx : ListTx(c)) \/ QueueTx
    BY <1>1, <2>1, <2>2, QuietSteps
  <2>4. CASE \E c \in Ctx : ListTx(c)
    BY <1>1, <2>4 DEF ListTx, At, NetDevInv, PlaceInv, DriverPlace, Ctx
  <2>5. CASE QueueTx
    BY <1>1, <2>5 DEF QueueTx, At, NetDevInv, PlaceInv, DriverPlace
  <2> QED
    BY <2>3, <2>4, <2>5
<1>2. NetDevInv /\ [Next]_vars => [dev' \notin {dev, NoBuf} => drv]_vars
  BY <1>1
<1> QED
  BY <1>2, NetDevInvariant, PTL DEF Spec, SilentWhenClosed
=============================================================================
