------------------------------- MODULE NbFifo --------------------------------
(***************************************************************************)
(* What the users of a buffer queue rely on (net.h:160-193): buffers leave *)
(* a queue in the order in which they were put in, each once.              *)
(***************************************************************************)
EXTENDS Sequences

CONSTANTS Buf, Queue, NULL

VARIABLES fifo,   \* the buffers of each queue, the oldest first
          got     \* what the last nb_dequeue() returned, NULL for nothing

Init == fifo = [q \in Queue |-> <<>>] /\ got = NULL

(* A buffer is in one queue at most. *)
Queued(b) == \E q \in Queue : \E i \in DOMAIN fifo[q] : fifo[q][i] = b

Put(b, q) ==
  /\ ~Queued(b)
  /\ fifo' = [fifo EXCEPT ![q] = Append(@, b)] /\ got' = NULL

Get(q) ==
  /\ fifo[q] # <<>>
  /\ got' = Head(fifo[q]) /\ fifo' = [fifo EXCEPT ![q] = Tail(@)]

GetNothing(q) == fifo[q] = <<>> /\ got' = NULL /\ UNCHANGED fifo

Next == \E q \in Queue : (\E b \in Buf : Put(b, q)) \/ Get(q) \/ GetNothing(q)

Spec == Init /\ [][Next]_<<fifo, got>>
=============================================================================
