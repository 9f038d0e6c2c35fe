------------------------------- MODULE NbQueue -------------------------------
(***************************************************************************)
(* The queues of network buffers in net/net.h and net/nb_queue.h: rings of *)
(* next and prev pointers that start and end at the queue itself, which is *)
(* cast to a buffer, and a length in one byte.  A socket has two.  Only    *)
(* the main thread touches them.                                           *)
(***************************************************************************)
EXTENDS Naturals, Sequences

CONSTANTS Buf, Queue, NULL,
          Width     \* values of q_len: 256 in the code

Node == Buf \cup Queue

ASSUME QueueAssumption ==
  Buf \cap Queue = {} /\ NULL \notin Node /\ Width \in Nat \ {0}

VARIABLES
  next, prev,   \* of buffers and queues
  q_len,
  clearing,     \* queue that nb_queue_clear() is emptying, or NULL
  got,          \* what the last nb_dequeue() returned
  fifo          \* ghost: buffers put into each queue and not taken out yet

vars == <<next, prev, q_len, clearing, got, fifo>>

-----------------------------------------------------------------------------
(* nb_queue_init() on every queue; net_buff_alloc() clears a buffer. *)
Init ==
  /\ next = [n \in Node |-> IF n \in Queue THEN n ELSE NULL]
  /\ prev = [n \in Node |-> IF n \in Queue THEN n ELSE NULL]
  /\ q_len = [q \in Queue |-> 0]
  /\ clearing = NULL /\ got = NULL
  /\ fifo = [q \in Queue |-> <<>>]

(* Mutant: the newest buffer instead of the oldest. *)
nb_peek_last(q) == IF prev[q] = q THEN NULL ELSE prev[q]

nb_peek(q) == IF next[q] = q THEN NULL ELSE next[q]

(* Mutant: the tail of the ring is not moved. *)
Link_no_tail(b, q) ==
  /\ next' = [next EXCEPT ![b] = q, ![prev[q]] = b]
  /\ prev' = [prev EXCEPT ![b] = prev[q]]

(* The assignments to pointers in nb_enqueue(). *)
Link(b, q) ==
  /\ next' = [next EXCEPT ![b] = q, ![prev[q]] = b]
  /\ prev' = [prev EXCEPT ![b] = prev[q], ![q] = b]

(* Mutant: a length that does not wrap. *)
Longer_wide(q) == q_len' = [q_len EXCEPT ![q] = @ + 1]

Longer(q) == q_len' = [q_len EXCEPT ![q] = (@ + 1) % Width]

(* Every caller has just allocated or dequeued the buffer. *)
nb_enqueue(b, q) ==
  /\ clearing = NULL /\ next[b] = NULL /\ prev[b] = NULL
  /\ Link(b, q)
  /\ Longer(q)
  /\ fifo' = [fifo EXCEPT ![q] = Append(@, b)]
  /\ got' = NULL /\ UNCHANGED clearing

(* The assignments to pointers in nb_dequeue(). *)
Unlink(b) ==
  /\ next' = [next EXCEPT ![b] = NULL, ![prev[b]] = next[b]]
  /\ prev' = [prev EXCEPT ![b] = NULL, ![next[b]] = prev[b]]

nb_dequeue(q) ==
  LET b == nb_peek(q) IN
  /\ got' = b
  /\ \/ /\ b = NULL
        /\ UNCHANGED <<next, prev, q_len, fifo>>
     \/ /\ b # NULL
        /\ Unlink(b)
        /\ q_len' = [q_len EXCEPT ![q] = (@ + Width - 1) % Width]
        /\ fifo' = [fifo EXCEPT ![q] = Tail(@)]

Dequeue(q) == clearing = NULL /\ nb_dequeue(q) /\ UNCHANGED clearing

(* nb_queue_clear(): its loop takes a buffer out and frees it per step. *)
nb_queue_clear(q) ==
  /\ clearing = NULL /\ clearing' = q
  /\ UNCHANGED <<next, prev, q_len, got, fifo>>

(* Mutant: the loop counts on q_len. *)
ClearLoop_len(q) ==
  /\ clearing = q
  /\ IF q_len[q] = 0
       THEN clearing' = NULL /\ UNCHANGED <<next, prev, q_len, got, fifo>>
       ELSE nb_dequeue(q) /\ UNCHANGED clearing

ClearLoop(q) ==
  /\ clearing = q /\ nb_dequeue(q)
  /\ clearing' = IF nb_peek(q) = NULL THEN NULL ELSE q

Next ==
  \E q \in Queue :
    \/ \E b \in Buf : nb_enqueue(b, q)
    \/ Dequeue(q) \/ nb_queue_clear(q) \/ ClearLoop(q)

Spec == Init /\ [][Next]_vars

(* The loop runs on once it was entered. *)
FairSpec == Spec /\ \A q \in Queue : WF_vars(ClearLoop(q))

-----------------------------------------------------------------------------
(* Types. *)
TypeOK ==
  /\ next \in [Node -> Node \cup {NULL}] /\ prev \in [Node -> Node \cup {NULL}]
  /\ q_len \in [Queue -> 0 .. Width - 1]
  /\ clearing \in Queue \cup {NULL} /\ got \in Buf \cup {NULL}
  /\ fifo \in [Queue -> Seq(Buf)]

(* The i-th place of the ring of q; places 0 and Len + 1 are q itself. *)
At(q, i) == IF i \in 1 .. Len(fifo[q]) THEN fifo[q][i] ELSE q

(* The pointers of a queue, in both directions, go through the buffers that   *)
(* were put in and are not out yet, in this order, and back to the queue.     *)
Rings ==
  \A q \in Queue : \A i \in 0 .. Len(fifo[q]) :
    next[At(q, i)] = At(q, i + 1) /\ prev[At(q, i + 1)] = At(q, i)

(* A buffer is in one place of one queue at most. *)
Disjoint ==
  \A q, r \in Queue : \A i \in 1 .. Len(fifo[q]), j \in 1 .. Len(fifo[r]) :
    fifo[q][i] = fifo[r][j] => q = r /\ i = j

(* A buffer that is in no queue has no pointers into one. *)
Detached ==
  \A b \in Buf :
    \/ \E q \in Queue : \E i \in 1 .. Len(fifo[q]) : fifo[q][i] = b
    \/ next[b] = NULL /\ prev[b] = NULL

(* A queue is a ring that can be walked in both directions, whatever was put  *)
(* in, taken out and cleared; the byte q_len counts its buffers and wraps     *)
(* with them, never by itself.                                                *)
RingSound ==
  /\ Rings /\ Disjoint /\ Detached
  /\ \A q \in Queue : q_len[q] = Len(fifo[q]) % Width

Fifo == INSTANCE NbFifo

(* The ring implements NbFifo: what nb_dequeue() finds by its pointers is the *)
(* oldest buffer of this queue.                                               *)
KeepsFifo == Fifo!Spec

(* nb_queue_clear(), which sock_close() and netdev_queue_xmit() call, ends    *)
(* with an empty queue: its loop depends on the pointers alone.               *)
ClearEnds ==
  \A q \in Queue : clearing = q ~> clearing = NULL /\ next[q] = q /\ prev[q] = q
=============================================================================
