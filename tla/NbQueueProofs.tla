---------------------------- MODULE NbQueueProofs ----------------------------
(***************************************************************************)
(* The pointer rings of net.h are sound and implement NbFifo, for any      *)
(* buffers, queues and width of the length.                                *)
(***************************************************************************)
EXTENDS NbQueue, ModArith

(* RingSound needs the types and nothing else to be inductive. *)
Inv == TypeOK /\ RingSound

(* The places of a ring are buffers, and the queue at either end. *)
LEMMA AtType ==
  ASSUME TypeOK, NEW q \in Queue, NEW i \in Nat
  PROVE  /\ Len(fifo[q]) \in Nat /\ At(q, i) \in Node
         /\ i \in 1 .. Len(fifo[q]) => At(q, i) = fifo[q][i] /\ At(q, i) \in Buf
         /\ i \notin 1 .. Len(fifo[q]) => At(q, i) = q
         /\ At(q, i) # NULL
<1>1. fifo[q] \in Seq(Buf)
  BY DEF TypeOK
<1>2. i \in 1 .. Len(fifo[q]) => fifo[q][i] \in Buf
  BY <1>1
<1> QED
  BY <1>1, <1>2, QueueAssumption DEF At, Node

(* Two places are the same node only if they are the same place, counted from *)
(* the queue in front of the buffers or behind them.                          *)
LEMMA AtUnique ==
  ASSUME TypeOK, Disjoint, NEW q \in Queue, NEW r \in Queue, NEW i \in Nat, NEW j \in Nat,
         At(q, i) = At(r, j),
         \/ i \in 0 .. Len(fifo[q]) /\ j \in 0 .. Len(fifo[r])
         \/ i \in 1 .. Len(fifo[q]) + 1 /\ j \in 1 .. Len(fifo[r]) + 1
  PROVE  q = r /\ i = j
<1>1. Len(fifo[q]) \in Nat /\ Len(fifo[r]) \in Nat
  BY AtType
<1>2. CASE i \in 1 .. Len(fifo[q]) /\ j \in 1 .. Len(fifo[r])
  BY <1>2, AtType DEF Disjoint
<1>3. CASE i \notin 1 .. Len(fifo[q]) /\ j \notin 1 .. Len(fifo[r])
  <2>1. q = r
    BY <1>3, AtType
  <2> QED
    BY <1>1, <1>3, <2>1
<1>4. CASE (i \in 1 .. Len(fifo[q])) # (j \in 1 .. Len(fifo[r]))
  BY <1>4, AtType, QueueAssumption
<1> QED
  BY <1>2, <1>3, <1>4

(* A buffer without pointers, which is what every caller of nb_enqueue() has,  *)
(* is in no queue.                                                             *)
LEMMA NotQueued ==
  ASSUME Inv, NEW b \in Buf, next[b] = NULL
  PROVE  \A q \in Queue : \A i \in 1 .. Len(fifo[q]) : fifo[q][i] # b
<1> SUFFICES ASSUME NEW q \in Queue, NEW i \in 1 .. Len(fifo[q]), fifo[q][i] = b
             PROVE  FALSE
  OBVIOUS
<1> USE DEF Inv, RingSound
<1>1. Len(fifo[q]) \in Nat
  BY AtType
<1>2. i \in Nat /\ i + 1 \in Nat /\ i \in 0 .. Len(fifo[q])
  BY <1>1
<1>3. next[b] = At(q, i + 1)
  BY <1>2, AtType DEF Rings
<1> QED
  BY <1>2, <1>3, AtType

(* nb_enqueue() puts the buffer behind the last one and touches no other ring. *)
LEMMA EnqueueStep ==
  ASSUME Inv, NEW b \in Buf, NEW q \in Queue, nb_enqueue(b, q)
  PROVE  Inv'
<1> DEFINE L == Len(fifo[q])
<1>1. TypeOK /\ Rings /\ Disjoint /\ Detached
  BY DEF Inv, RingSound
<1>2. L \in Nat /\ L + 1 \in Nat /\ fifo[q] \in Seq(Buf)
  BY <1>1, AtType DEF TypeOK
<1>3. \A r \in Queue : \A i \in 1 .. Len(fifo[r]) : fifo[r][i] # b
  BY NotQueued DEF nb_enqueue
<1>4. prev[q] = At(q, L)
  <2>1. At(q, L + 1) = q
    BY <1>1, <1>2, AtType
  <2> QED
    BY <1>1, <1>2, <2>1 DEF Rings
<1>5. b \in Node /\ q \in Node /\ b # q /\ At(q, L) \in Node /\ At(q, L) # b
  BY <1>1, <1>2, <1>3, AtType, QueueAssumption DEF Node
<1>6. /\ next' = [next EXCEPT ![b] = q, ![At(q, L)] = b]
      /\ prev' = [prev EXCEPT ![b] = At(q, L), ![q] = b]
  BY <1>4 DEF nb_enqueue, Link
<1>7. /\ next' \in [Node -> Node \cup {NULL}] /\ prev' \in [Node -> Node \cup {NULL}]
      /\ \A x \in Node : next'[x] = IF x = At(q, L) THEN b ELSE IF x = b THEN q ELSE next[x]
      /\ \A x \in Node : prev'[x] = IF x = q THEN b ELSE IF x = b THEN At(q, L) ELSE prev[x]
  BY <1>1, <1>5, <1>6 DEF TypeOK
<1>8. /\ fifo' \in [Queue -> Seq(Buf)]
      /\ Len(fifo'[q]) = L + 1 /\ fifo'[q][L + 1] = b
      /\ \A i \in 1 .. L : fifo'[q][i] = fifo[q][i]
      /\ \A r \in Queue \ {q} : fifo'[r] = fifo[r]
  BY <1>1, <1>2 DEF TypeOK, nb_enqueue
<1> HIDE DEF L
<1>9. TypeOK'
  <2>1. q_len' \in [Queue -> 0 .. Width - 1]
    BY <1>1, QueueAssumption DEF TypeOK, nb_enqueue, Longer
  <2> QED
    BY <1>1, <1>7, <1>8, <2>1 DEF TypeOK, nb_enqueue
<1>10. Rings'
  <2> SUFFICES ASSUME NEW r \in Queue, NEW i \in 0 .. Len(fifo'[r])
               PROVE  next'[At(r, i)'] = At(r, i + 1)' /\ prev'[At(r, i + 1)'] = At(r, i)'
    BY DEF Rings
  <2>1. CASE r # q
    <3>1. Len(fifo[r]) \in Nat /\ i \in Nat /\ i + 1 \in Nat /\ i \in 0 .. Len(fifo[r])
      BY <1>1, <1>8, <2>1, AtType
    <3>2. At(r, i)' = At(r, i) /\ At(r, i + 1)' = At(r, i + 1)
      BY <1>8, <2>1 DEF At
    <3>3. /\ At(r, i) \in Node /\ At(r, i) # b
          /\ At(r, i + 1) \in Node /\ At(r, i + 1) # b
      BY <1>1, <1>3, <3>1, AtType, QueueAssumption
    <3>4. At(r, i) # At(q, L)
      BY <1>1, <1>2, <2>1, <3>1, AtUnique DEF L
    <3>5. At(r, i + 1) # q
      BY <1>1, <2>1, <3>1, AtType, QueueAssumption
    <3>6. next[At(r, i)] = At(r, i + 1) /\ prev[At(r, i + 1)] = At(r, i)
      BY <1>1, <3>1 DEF Rings
    <3> QED
      BY <1>7, <3>2, <3>3, <3>4, <3>5, <3>6
  <2>2. CASE r = q /\ i < L
    <3>1. i \in Nat /\ i + 1 \in Nat /\ i \in 0 .. L /\ i + 1 \in 1 .. L
      BY <1>2, <1>8, <2>2
    <3>2. At(q, i)' = At(q, i) /\ At(q, i + 1)' = At(q, i + 1)
      BY <1>2, <1>8, <3>1 DEF At, L
    <3>3. /\ At(q, i) \in Node /\ At(q, i) # b
          /\ At(q, i + 1) \in Node /\ At(q, i + 1) # b /\ At(q, i + 1) # q
      BY <1>1, <1>3, <3>1, AtType, QueueAssumption DEF L
    <3>4. At(q, i) # At(q, L)
      <4>1. L \in 0 .. L
        BY <1>2
      <4>2. At(q, i) = At(q, L) => i = L
        BY <1>1, <1>2, <3>1, <4>1, AtUnique DEF L
      <4> QED
        BY <2>2, <3>1, <4>2
    <3>5. next[At(q, i)] = At(q, i + 1) /\ prev[At(q, i + 1)] = At(q, i)
      BY <1>1, <3>1 DEF Rings, L
    <3> QED
      BY <1>7, <2>2, <3>2, <3>3, <3>4, <3>5
  <2>3. CASE r = q /\ i = L
    <3>1. At(q, i)' = At(q, L) /\ At(q, i + 1)' = b
      BY <1>2, <1>8, <2>3 DEF At, L
    <3> QED
      BY <1>5, <1>7, <2>3, <3>1
  <2>4. CASE r = q /\ i = L + 1
    <3>1. At(q, i)' = b /\ At(q, i + 1)' = q
      BY <1>2, <1>8, <2>4 DEF At
    <3> QED
      BY <1>5, <1>7, <2>4, <3>1
  <2> QED
    BY <1>2, <1>8, <2>1, <2>2, <2>3, <2>4
<1>11. Disjoint'
  <2> SUFFICES ASSUME NEW r \in Queue, NEW s \in Queue, NEW i \in 1 .. Len(fifo'[r]),
                      NEW j \in 1 .. Len(fifo'[s]), fifo'[r][i] = fifo'[s][j]
               PROVE  r = s /\ i = j
    BY DEF Disjoint
  <2>1. \A x \in Queue, k \in Nat : k \in 1 .. Len(fifo'[x]) =>
          \/ x = q /\ k = L + 1 /\ fifo'[x][k] = b
          \/ k \in 1 .. Len(fifo[x]) /\ fifo'[x][k] = fifo[x][k] /\ fifo'[x][k] # b
    <3> SUFFICES ASSUME NEW x \in Queue, NEW k \in Nat, k \in 1 .. Len(fifo'[x])
                 PROVE  \/ x = q /\ k = L + 1 /\ fifo'[x][k] = b
                        \/ /\ k \in 1 .. Len(fifo[x]) /\ fifo'[x][k] = fifo[x][k]
                           /\ fifo'[x][k] # b
      OBVIOUS
    <3>1. CASE x # q
      BY <1>3, <1>8, <3>1
    <3>2. CASE x = q
      <4>1. k = L + 1 \/ k \in 1 .. L
        BY <1>2, <1>8, <3>2
      <4>2. k \in 1 .. L => k \in 1 .. Len(fifo[x]) /\ fifo[x][k] # b
        BY <1>3, <3>2 DEF L
      <4> QED
        BY <1>8, <3>2, <4>1, <4>2
    <3> QED
      BY <3>1, <3>2
  <2>2. i \in Nat /\ j \in Nat
    OBVIOUS
  <2> QED
    BY <1>1, <2>1, <2>2 DEF Disjoint
<1>12. Detached'
  <2> SUFFICES ASSUME NEW c \in Buf
               PROVE  \/ \E r \in Queue : \E i \in 1 .. Len(fifo'[r]) : fifo'[r][i] = c
                      \/ next'[c] = NULL /\ prev'[c] = NULL
    BY DEF Detached
  <2>1. CASE c = b
    <3>1. L + 1 \in 1 .. Len(fifo'[q])
      BY <1>2, <1>8
    <3> QED
      BY <1>8, <2>1, <3>1
  <2>2. CASE \E r \in Queue : \E i \in 1 .. Len(fifo[r]) : fifo[r][i] = c
    <3>1. PICK r \in Queue : \E i \in 1 .. Len(fifo[r]) : fifo[r][i] = c
      BY <2>2
    <3>2. PICK i \in 1 .. Len(fifo[r]) : fifo[r][i] = c
      BY <3>1
    <3>3. i \in 1 .. Len(fifo'[r]) /\ fifo'[r][i] = c
      <4>1. CASE r = q
        <5>1. i \in 1 .. L /\ Len(fifo'[r]) = L + 1
          BY <1>8, <3>2, <4>1 DEF L
        <5>2. i \in 1 .. L + 1
          BY <1>2, <5>1
        <5> QED
          BY <1>8, <3>2, <4>1, <5>1, <5>2
      <4>2. CASE r # q
        BY <1>8, <3>2, <4>2
      <4> QED
        BY <4>1, <4>2
    <3> QED
      BY <3>3
  <2>3. CASE c # b /\ ~(\E r \in Queue : \E i \in 1 .. Len(fifo[r]) : fifo[r][i] = c)
    <3>1. next[c] = NULL /\ prev[c] = NULL
      BY <1>1, <2>3 DEF Detached
    <3>2. c \in Node /\ c # q /\ c # At(q, L)
      BY <1>1, <1>2, <2>3, AtType, QueueAssumption DEF Node, L
    <3> QED
      BY <1>7, <2>3, <3>1, <3>2
  <2> QED
    BY <2>1, <2>2, <2>3
<1>13. ASSUME NEW r \in Queue PROVE q_len'[r] = Len(fifo'[r]) % Width
  <2>1. q_len[r] = Len(fifo[r]) % Width
    BY DEF Inv, RingSound
  <2>2. CASE r = q
    <3>1. q_len'[q] = ((L % Width) + 1) % Width
      BY <1>1, <2>1, <2>2 DEF TypeOK, nb_enqueue, Longer, L
    <3>2. ((L % Width) + 1) % Width = (L + 1) % Width
      BY <1>2, ModPlus, QueueAssumption
    <3> QED
      BY <1>8, <2>2, <3>1, <3>2
  <2>3. CASE r # q
    BY <1>1, <1>8, <2>1, <2>3 DEF TypeOK, nb_enqueue, Longer
  <2> QED
    BY <2>2, <2>3
<1> QED
  BY <1>9, <1>10, <1>11, <1>12, <1>13 DEF Inv, RingSound

(* What nb_dequeue() finds by the pointers: nothing if the queue is empty,     *)
(* else the oldest buffer.                                                     *)
LEMMA PeekOldest ==
  ASSUME Inv, NEW q \in Queue
  PROVE  /\ fifo[q] \in Seq(Buf)
         /\ fifo[q] = <<>> => nb_peek(q) = NULL
         /\ fifo[q] # <<>> => /\ Len(fifo[q]) >= 1 /\ nb_peek(q) = fifo[q][1]
                              /\ nb_peek(q) \in Buf
<1>1. TypeOK /\ Rings
  BY DEF Inv, RingSound
<1>2. fifo[q] \in Seq(Buf) /\ Len(fifo[q]) \in Nat
  BY <1>1 DEF TypeOK
<1>3. next[q] = At(q, 1)
  <2>1. 0 \in 0 .. Len(fifo[q]) /\ 0 + 1 = 1
    BY <1>2
  <2>2. next[At(q, 0)] = At(q, 0 + 1)
    BY <1>1, <2>1 DEF Rings
  <2>3. At(q, 0) = q
    BY <1>2 DEF At
  <2> QED
    BY <2>1, <2>2, <2>3
<1>4. CASE fifo[q] = <<>>
  BY <1>2, <1>3, <1>4 DEF nb_peek, At
<1>5. CASE fifo[q] # <<>>
  <2>1. Len(fifo[q]) >= 1
    BY <1>2, <1>5
  <2>2. At(q, 1) = fifo[q][1] /\ At(q, 1) \in Buf
    BY <1>1, <2>1, <1>2, AtType
  <2> QED
    BY <1>2, <1>3, <1>5, <2>1, <2>2, QueueAssumption DEF nb_peek
<1> QED
  BY <1>2, <1>4, <1>5

(* nb_dequeue() takes the first buffer out and touches no other ring; clearing *)
(* is the business of its callers.                                             *)
LEMMA DequeueStep ==
  ASSUME Inv, NEW q \in Queue, nb_dequeue(q), clearing' \in Queue \cup {NULL}
  PROVE  Inv'
<1> DEFINE L == Len(fifo[q])
           b == nb_peek(q)
<1>1. TypeOK /\ Rings /\ Disjoint /\ Detached
  BY DEF Inv, RingSound
<1>2. CASE fifo[q] = <<>>
  <2>1. b = NULL
    BY <1>2, PeekOldest
  <2>2. UNCHANGED <<next, prev, q_len, fifo>> /\ got' = NULL
    BY <2>1 DEF nb_dequeue
  <2>3. TypeOK'
    BY <1>1, <2>2 DEF TypeOK
  <2>4. RingSound'
    BY <2>2 DEF Inv, RingSound, Rings, Disjoint, Detached, At
  <2> QED
    BY <2>3, <2>4 DEF Inv
<1>3. CASE fifo[q] # <<>>
  <2>1. /\ fifo[q] \in Seq(Buf) /\ L \in Nat /\ L >= 1
        /\ b = fifo[q][1] /\ b \in Buf /\ b # NULL
    BY <1>3, PeekOldest, QueueAssumption DEF Node
  <2>2. At(q, 0) = q /\ At(q, 1) = b
    BY <2>1 DEF At
  <2>3. prev[b] = q /\ next[b] = At(q, 2)
    <3>1. 0 \in 0 .. L /\ 1 \in 0 .. L /\ 0 + 1 = 1 /\ 1 + 1 = 2
      BY <2>1
    <3>2. prev[At(q, 0 + 1)] = At(q, 0)
      BY <1>1, <3>1 DEF Rings
    <3>3. next[At(q, 1)] = At(q, 1 + 1)
      BY <1>1, <3>1 DEF Rings
    <3> QED
      BY <2>2, <3>1, <3>2, <3>3
  <2>4. /\ b \in Node /\ q \in Node /\ b # q /\ At(q, 2) \in Node
        /\ At(q, 2) # b
    <3>1. At(q, 2) = At(q, 1) => 2 = 1
      BY <1>1, <2>1, AtUnique
    <3> QED
      BY <1>1, <2>1, <2>2, <3>1, AtType, QueueAssumption DEF Node
  <2>5. /\ next' = [next EXCEPT ![b] = NULL, ![q] = At(q, 2)]
        /\ prev' = [prev EXCEPT ![b] = NULL, ![At(q, 2)] = q]
        /\ q_len' = [q_len EXCEPT ![q] = (@ + Width - 1) % Width]
        /\ fifo' = [fifo EXCEPT ![q] = Tail(@)] /\ got' = b
    BY <2>1, <2>3 DEF nb_dequeue, Unlink
  <2> HIDE DEF b
  <2>6. /\ next' \in [Node -> Node \cup {NULL}] /\ prev' \in [Node -> Node \cup {NULL}]
        /\ \A x \in Node :
             next'[x] = IF x = q THEN At(q, 2) ELSE IF x = b THEN NULL ELSE next[x]
        /\ \A x \in Node :
             prev'[x] = IF x = At(q, 2) THEN q ELSE IF x = b THEN NULL ELSE prev[x]
    BY <1>1, <2>4, <2>5 DEF TypeOK
  <2>7. /\ fifo' \in [Queue -> Seq(Buf)]
        /\ Len(fifo'[q]) = L - 1
        /\ \A i \in 1 .. L - 1 : fifo'[q][i] = fifo[q][i + 1]
        /\ \A r \in Queue \ {q} : fifo'[r] = fifo[r]
    BY <1>1, <1>3, <2>1, <2>5 DEF TypeOK
  <2> HIDE DEF L
  <2>8. TypeOK'
    <3>1. q_len' \in [Queue -> 0 .. Width - 1]
      BY <1>1, <2>5, QueueAssumption DEF TypeOK
    <3> QED
      BY <2>1, <2>5, <2>6, <2>7, <3>1 DEF TypeOK
  <2>9. Rings'
    <3> SUFFICES ASSUME NEW r \in Queue, NEW i \in 0 .. Len(fifo'[r])
                 PROVE  next'[At(r, i)'] = At(r, i + 1)' /\ prev'[At(r, i + 1)'] = At(r, i)'
      BY DEF Rings
    <3>1. CASE r # q
      <4>1. Len(fifo[r]) \in Nat /\ i \in Nat /\ i + 1 \in Nat /\ i \in 0 .. Len(fifo[r])
        BY <1>1, <2>7, <3>1, AtType
      <4>2. At(r, i)' = At(r, i) /\ At(r, i + 1)' = At(r, i + 1)
        BY <2>7, <3>1 DEF At
      <4>3. At(r, i) \in Node /\ At(r, i) # q /\ At(r, i + 1) \in Node
        BY <1>1, <3>1, <4>1, AtType, QueueAssumption
      <4>4. At(r, i) # b
        BY <1>1, <2>1, <2>2, <3>1, <4>1, AtUnique DEF L
      <4>5. At(r, i + 1) # b
        BY <1>1, <2>1, <2>2, <3>1, <4>1, AtUnique DEF L
      <4>6. At(r, i + 1) # At(q, 2)
        BY <1>1, <2>1, <3>1, <4>1, AtUnique DEF L
      <4>7. next[At(r, i)] = At(r, i + 1) /\ prev[At(r, i + 1)] = At(r, i)
        BY <1>1, <4>1 DEF Rings
      <4> QED
        BY <2>6, <4>2, <4>3, <4>4, <4>5, <4>6, <4>7
    <3>2. CASE r = q /\ i = 0
      <4>1. At(q, i)' = q /\ At(q, i + 1)' = At(q, 2)
        BY <2>1, <2>7, <3>2 DEF At, L
      <4> QED
        BY <2>4, <2>6, <3>2, <4>1
    <3>3. CASE r = q /\ i # 0
      <4>1. /\ i \in Nat /\ i + 1 \in Nat /\ i + 2 \in Nat /\ i \in 1 .. L - 1
            /\ i + 1 \in 2 .. L /\ i + 2 \in 3 .. L + 1 /\ i + 1 + 1 = i + 2
        BY <2>1, <2>7, <3>3
      <4>2. At(q, i)' = At(q, i + 1) /\ At(q, i + 1)' = At(q, i + 2)
        <5>1. At(q, i)' = At(q, i + 1)
          BY <2>1, <2>7, <4>1 DEF At, L
        <5>2. CASE i + 1 \in 1 .. L - 1
          <6>1. fifo'[q][i + 1] = fifo[q][i + 2]
            BY <2>7, <4>1, <5>2
          <6>2. i + 2 \in 1 .. L
            BY <2>1, <4>1, <5>2
          <6> QED
            BY <2>7, <5>1, <5>2, <6>1, <6>2 DEF At, L
        <5>3. CASE i + 1 \notin 1 .. L - 1
          <6>1. i + 2 \notin 1 .. L
            BY <2>1, <4>1, <5>3
          <6> QED
            BY <2>7, <5>1, <5>3, <6>1 DEF At, L
        <5> QED
          BY <5>2, <5>3
      <4>3. At(q, i + 1) \in Node /\ At(q, i + 1) # q /\ At(q, i + 2) \in Node
        BY <1>1, <2>1, <4>1, AtType, QueueAssumption DEF L
      <4>4. At(q, i + 1) # At(q, 1)
        BY <1>1, <2>1, <4>1, AtUnique DEF L
      <4>5. At(q, i + 2) # At(q, 1)
        BY <1>1, <2>1, <4>1, AtUnique DEF L
      <4>6. At(q, i + 2) # At(q, 2)
        BY <1>1, <2>1, <4>1, AtUnique DEF L
      <4>7. next[At(q, i + 1)] = At(q, i + 2) /\ prev[At(q, i + 2)] = At(q, i + 1)
        BY <1>1, <2>1, <4>1 DEF Rings, L
      <4> QED
        BY <2>2, <2>6, <3>3, <4>2, <4>3, <4>4, <4>5, <4>6, <4>7
    <3> QED
      BY <3>1, <3>2, <3>3
  <2>10. Disjoint'
    <3> SUFFICES ASSUME NEW r \in Queue, NEW s \in Queue, NEW i \in 1 .. Len(fifo'[r]),
                        NEW j \in 1 .. Len(fifo'[s]), fifo'[r][i] = fifo'[s][j]
                 PROVE  r = s /\ i = j
      BY DEF Disjoint
    <3> DEFINE At0(x, k) == IF x = q THEN k + 1 ELSE k
    <3>1. \A x \in Queue, k \in Nat : k \in 1 .. Len(fifo'[x]) =>
            At0(x, k) \in 1 .. Len(fifo[x]) /\ fifo'[x][k] = fifo[x][At0(x, k)]
      <4> SUFFICES ASSUME NEW x \in Queue, NEW k \in Nat, k \in 1 .. Len(fifo'[x])
                   PROVE  /\ At0(x, k) \in 1 .. Len(fifo[x])
                          /\ fifo'[x][k] = fifo[x][At0(x, k)]
        OBVIOUS
      <4>1. CASE x # q
        BY <2>7, <4>1
      <4>2. CASE x = q
        <5>1. k \in 1 .. L - 1
          BY <2>7, <4>2
        <5>2. k + 1 \in 1 .. L
          BY <2>1, <5>1
        <5> QED
          BY <2>7, <4>2, <5>1, <5>2 DEF L
      <4> QED
        BY <4>1, <4>2
    <3>2. i \in Nat /\ j \in Nat
      OBVIOUS
    <3>3. r = s /\ At0(r, i) = At0(s, j)
      <4> HIDE DEF At0
      <4>1. /\ At0(r, i) \in 1 .. Len(fifo[r]) /\ At0(s, j) \in 1 .. Len(fifo[s])
            /\ fifo[r][At0(r, i)] = fifo[s][At0(s, j)]
        BY <3>1, <3>2
      <4> QED
        BY <1>1, <4>1 DEF Disjoint
    <3> QED
      BY <3>2, <3>3
  <2>11. Detached'
    <3> SUFFICES ASSUME NEW c \in Buf
                 PROVE  \/ \E r \in Queue : \E i \in 1 .. Len(fifo'[r]) : fifo'[r][i] = c
                        \/ next'[c] = NULL /\ prev'[c] = NULL
      BY DEF Detached
    <3>1. CASE c = b
      BY <2>4, <2>6, <3>1
    <3>2. ASSUME c # b, NEW r \in Queue, NEW i \in 1 .. Len(fifo[r]), fifo[r][i] = c
          PROVE  \E k \in 1 .. Len(fifo'[r]) : fifo'[r][k] = c
      <4>1. CASE r # q
        BY <2>7, <3>2, <4>1
      <4>2. CASE r = q
        <5>1. i - 1 \in 1 .. L - 1 /\ i - 1 + 1 = i
          BY <2>1, <3>2, <4>2 DEF L
        <5>2. i - 1 \in 1 .. Len(fifo'[r]) /\ fifo'[r][i - 1] = c
          BY <2>7, <3>2, <4>2, <5>1
        <5> QED
          BY <5>2
      <4> QED
        BY <4>1, <4>2
    <3>3. CASE c # b /\ ~(\E r \in Queue : \E i \in 1 .. Len(fifo[r]) : fifo[r][i] = c)
      <4>1. next[c] = NULL /\ prev[c] = NULL
        BY <1>1, <3>3 DEF Detached
      <4>2. c \in Node /\ c # q /\ c # At(q, 2)
        BY <1>1, <3>3, AtType, QueueAssumption DEF Node
      <4> QED
        BY <2>6, <3>3, <4>1, <4>2
    <3> QED
      BY <3>1, <3>2, <3>3
  <2>12. ASSUME NEW r \in Queue PROVE q_len'[r] = Len(fifo'[r]) % Width
    <3>1. q_len[r] = Len(fifo[r]) % Width
      BY DEF Inv, RingSound
    <3>2. CASE r = q
      <4>1. q_len'[q] = ((L % Width) + (Width - 1)) % Width
        <5>1. q_len'[q] = (q_len[q] + Width - 1) % Width
          BY <1>1, <2>5 DEF TypeOK
        <5>2. q_len[q] = L % Width /\ L % Width \in Nat
          <6>1. q_len[q] = L % Width
            BY <3>1, <3>2 DEF L
          <6>2. Width \in Nat \ {0}
            BY QueueAssumption
          <6>3. L % Width \in Nat
            BY <2>1, <6>2
          <6> QED
            BY <6>1, <6>3
        <5>3. q_len[q] + Width - 1 = (L % Width) + (Width - 1)
          BY <5>2, QueueAssumption
        <5> QED
          BY <5>1, <5>3
      <4>2. ((L % Width) + (Width - 1)) % Width = (L + (Width - 1)) % Width
        <5>1. Width \in Nat \ {0} /\ Width - 1 \in Nat
          BY QueueAssumption
        <5> QED
          BY <2>1, <5>1, ModPlus
      <4>3. (L + (Width - 1)) % Width = (L - 1) % Width
        <5>1. L - 1 \in Nat /\ L + (Width - 1) = (L - 1) + Width
          BY <2>1, QueueAssumption
        <5>2. ((L - 1) + Width) % Width = (L - 1) % Width
          BY <5>1, ModTurn, QueueAssumption
        <5> QED
          BY <5>1, <5>2
      <4> QED
        BY <2>7, <3>2, <4>1, <4>2, <4>3
    <3>3. CASE r # q
      BY <1>1, <2>5, <2>7, <3>1, <3>3 DEF TypeOK
    <3> QED
      BY <3>2, <3>3
  <2> QED
    BY <2>8, <2>9, <2>10, <2>11, <2>12 DEF Inv, RingSound
<1> QED
  BY <1>2, <1>3

-----------------------------------------------------------------------------
(* nb_queue_init() makes empty rings. *)
LEMMA RingInit == Init => Inv
<1> SUFFICES ASSUME Init PROVE Inv
  OBVIOUS
<1>1. \A q \in Queue : fifo[q] = <<>> /\ Len(fifo[q]) = 0 /\ q \in Node
  BY DEF Init, Node
<1>2. TypeOK
  BY QueueAssumption DEF Init, TypeOK, Node
<1>3. Rings
  <2> SUFFICES ASSUME NEW q \in Queue, NEW i \in 0 .. Len(fifo[q])
               PROVE  next[At(q, i)] = At(q, i + 1) /\ prev[At(q, i + 1)] = At(q, i)
    BY DEF Rings
  <2>1. At(q, i) = q /\ At(q, i + 1) = q
    BY <1>1 DEF At
  <2> QED
    BY <1>1, <2>1 DEF Init
<1>4. Disjoint
  BY <1>1 DEF Disjoint
<1>5. Detached
  BY QueueAssumption DEF Detached, Init, Node
<1>6. ASSUME NEW q \in Queue PROVE q_len[q] = Len(fifo[q]) % Width
  <2>1. 0 % Width = 0
    BY QueueAssumption
  <2> QED
    BY <1>1, <2>1 DEF Init
<1> QED
  BY <1>2, <1>3, <1>4, <1>5, <1>6 DEF Inv, RingSound

(* Every call, and every round of the loop of nb_queue_clear(), keeps them. *)
LEMMA RingStep == Inv /\ [Next]_vars => Inv'
<1> SUFFICES ASSUME Inv, [Next]_vars PROVE Inv'
  OBVIOUS
<1>1. ASSUME UNCHANGED <<next, prev, q_len, got, fifo>>, clearing' \in Queue \cup {NULL}
      PROVE  Inv'
  BY <1>1 DEF Inv, TypeOK, RingSound, Rings, Disjoint, Detached, At
<1>2. clearing \in Queue \cup {NULL}
  BY DEF Inv, TypeOK
<1>3. ASSUME NEW q \in Queue, NEW b \in Buf, nb_enqueue(b, q) PROVE Inv'
  BY <1>3, EnqueueStep
<1>4. ASSUME NEW q \in Queue, Dequeue(q) PROVE Inv'
  BY <1>2, <1>4, DequeueStep DEF Dequeue
<1>5. ASSUME NEW q \in Queue, nb_queue_clear(q) PROVE Inv'
  BY <1>1, <1>5 DEF nb_queue_clear
<1>6. ASSUME NEW q \in Queue, ClearLoop(q) PROVE Inv'
  BY <1>6, DequeueStep DEF ClearLoop
<1>7. CASE UNCHANGED vars
  BY <1>1, <1>2, <1>7 DEF vars
<1> QED
  BY <1>3, <1>4, <1>5, <1>6, <1>7 DEF Next

(* The inductive invariant holds in every reachable state. *)
LEMMA RingInvariant == Spec => []Inv
<1> QED
  BY RingInit, RingStep, PTL DEF Spec

(* The rings of net.h stay sound under nb_enqueue(), nb_dequeue() and          *)
(* nb_queue_clear(), and q_len is the number of buffers modulo its width.      *)
THEOREM RingTheorem == Spec => []RingSound
<1>1. Inv => RingSound
  BY DEF Inv
<1> QED
  BY <1>1, RingInvariant, PTL

(* Types hold throughout: no next, prev or return value is ever anything but *)
(* a buffer, the queue itself or NULL, and q_len stays in its byte.          *)
THEOREM QueueTypes == Spec => []TypeOK
<1>1. Inv => TypeOK
  BY DEF Inv
<1> QED
  BY <1>1, RingInvariant, PTL

(* Every step of the rings is a step of the FIFO or leaves it alone. *)
LEMMA FifoStep == Inv /\ [Next]_vars => [Fifo!Next]_<<fifo, got>>
<1> SUFFICES ASSUME Inv, [Next]_vars PROVE [Fifo!Next]_<<fifo, got>>
  OBVIOUS
<1>1. ASSUME NEW q \in Queue, NEW b \in Buf, nb_enqueue(b, q) PROVE Fifo!Next
  <2>1. ~Fifo!Queued(b)
    <3>1. \A r \in Queue : DOMAIN fifo[r] = 1 .. Len(fifo[r])
      BY DEF Inv, TypeOK
    <3> QED
      BY <1>1, <3>1, NotQueued DEF Fifo!Queued, nb_enqueue
  <2>2. Fifo!Put(b, q)
    BY <1>1, <2>1 DEF Fifo!Put, nb_enqueue
  <2> QED
    BY <2>2 DEF Fifo!Next
<1>2. ASSUME NEW q \in Queue, nb_dequeue(q) PROVE Fifo!Next
  <2>1. CASE fifo[q] = <<>>
    <3>1. nb_peek(q) = NULL
      BY <2>1, PeekOldest
    <3>2. Fifo!GetNothing(q)
      BY <1>2, <2>1, <3>1 DEF Fifo!GetNothing, nb_dequeue
    <3> QED
      BY <3>2 DEF Fifo!Next
  <2>2. CASE fifo[q] # <<>>
    <3>1. nb_peek(q) = Head(fifo[q]) /\ nb_peek(q) # NULL
      BY <2>2, PeekOldest, QueueAssumption DEF Node
    <3>2. Fifo!Get(q)
      BY <1>2, <2>2, <3>1 DEF Fifo!Get, nb_dequeue
    <3> QED
      BY <3>2 DEF Fifo!Next
  <2> QED
    BY <2>1, <2>2
<1>3. ASSUME NEW q \in Queue, nb_queue_clear(q) PROVE UNCHANGED <<fifo, got>>
  BY <1>3 DEF nb_queue_clear
<1>4. CASE UNCHANGED vars
  BY <1>4 DEF vars
<1> QED
  BY <1>1, <1>2, <1>3, <1>4 DEF Next, Dequeue, ClearLoop

(* The rings implement NbFifo: nb_dequeue() returns the oldest buffer that was *)
(* put into this queue and not taken out.                                      *)
THEOREM FifoTheorem == Spec => KeepsFifo
<1>1. Init => Fifo!Init
  BY DEF Init, Fifo!Init
<1> QED
  BY <1>1, RingInvariant, FifoStep, PTL DEF Spec, KeepsFifo, Fifo!Spec
=============================================================================
