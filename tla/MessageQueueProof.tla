------------------------- MODULE MessageQueueProof -------------------------
(***************************************************************************)
(* Proofs about the message queue of fengnet_mq.cpp, for every queue size, *)
(* overload limit and set of messages.  TypeOK /\ RingIndexes is inductive *)
(* as it stands: a ring that is never full (a push that fills it doubles   *)
(* it at once) needs nothing else to keep its indexes inside the array.    *)
(***************************************************************************)
EXTENDS MessageQueue, SequenceTheorems, TLAPS

QInv == TypeOK /\ RingIndexes

USE DEF fengnet_mq_length

\* A new queue (fengnet_mq_create) is empty and well formed.
LEMMA QInvInit == Init => QInv
  BY QueueAssumption DEF Init, fengnet_mq_create, QInv, TypeOK, RingIndexes

\* fengnet_mq_push, with or without expand_queue, keeps the ring well formed.
LEMMA QInvPush ==
  ASSUME QInv, NEW m \in Message, fengnet_mq_push(m)
  PROVE  QInv'
<1> DEFINE filled == [queue EXCEPT ![tail] = m]
<1> USE QueueAssumption DEF QInv
<1>1. CASE Wrap(tail + 1) = head
  <2>1. expand_queue(filled)
    BY <1>1 DEF fengnet_mq_push
  <2>2. cap \in Nat /\ cap >= 2 /\ head \in 0 .. cap - 1 /\ tail \in 0 .. cap - 1
    BY DEF TypeOK, RingIndexes
  <2>3. cap' = 2 * cap /\ head' = 0 /\ tail' = cap
    BY <2>1 DEF expand_queue
  <2>4. filled \in [0 .. cap - 1 -> Message \cup {Empty}]
    BY <2>2 DEF TypeOK
  <2>5. \A i \in 0 .. cap - 1 : Wrap(head + i) \in 0 .. cap - 1
    BY <2>2 DEF Wrap
  <2>0. queue' = [i \in 0 .. 2 * cap - 1 |-> IF i < cap THEN filled[Wrap(head + i)] ELSE Empty]
    BY <2>1 DEF expand_queue
  <2>6. queue' \in [0 .. cap' - 1 -> Message \cup {Empty}]
    <3> HIDE DEF filled
    <3>1. \A i \in 0 .. 2 * cap - 1 :
            (IF i < cap THEN filled[Wrap(head + i)] ELSE Empty) \in Message \cup {Empty}
      BY <2>2, <2>4, <2>5
    <3> QED
      BY <2>0, <2>2, <2>3, <3>1
  <2>7. TypeOK'
    BY <2>2, <2>3, <2>6 DEF TypeOK, fengnet_mq_push
  <2>8. \A i \in 0 .. cap - 1 : filled[Wrap(head + i)] \in Message
    <3> SUFFICES ASSUME NEW i \in 0 .. cap - 1 PROVE filled[Wrap(head + i)] \in Message
      OBVIOUS
    <3>1. CASE Wrap(head + i) = tail
      BY <3>1, <2>2 DEF TypeOK
    <3>2. CASE Wrap(head + i) # tail
      <4>1. i \in 0 .. (IF head <= tail THEN tail - head ELSE tail + cap - head) - 1
        BY <1>1, <2>2, <3>2 DEF Wrap
      <4>2. queue[Wrap(head + i)] \in Message
        BY <4>1 DEF RingIndexes
      <4> QED
        BY <3>2, <4>2, <2>2, <2>5 DEF TypeOK
    <3> QED
      BY <3>1, <3>2
  <2>9. RingIndexes'
    <3>1. fengnet_mq_length' = cap /\ cap' > cap
      BY <2>2, <2>3
    <3>2. ASSUME NEW i \in 0 .. cap - 1 PROVE queue'[i] \in Message
      <4> HIDE DEF filled
      <4>1. queue'[i] = filled[Wrap(head + i)]
        BY <2>0, <2>2
      <4> QED
        BY <4>1, <2>8
    <3>3. \A i \in 0 .. cap - 1 : Wrap(head + i)' = i
      BY <2>2, <2>3 DEF Wrap
    <3> QED
      BY <2>2, <2>3, <3>1, <3>2, <3>3 DEF RingIndexes, Wrap
  <2> QED
    BY <2>7, <2>9
<1>2. CASE Wrap(tail + 1) # head
  <2>1. queue' = filled /\ tail' = Wrap(tail + 1) /\ head' = head /\ cap' = cap
    BY <1>2 DEF fengnet_mq_push
  <2>2. cap \in Nat /\ cap >= 2 /\ head \in 0 .. cap - 1 /\ tail \in 0 .. cap - 1
    BY DEF TypeOK, RingIndexes
  <2>3. TypeOK'
    BY <2>1, <2>2 DEF TypeOK, Wrap, fengnet_mq_push
  <2>4. ASSUME NEW i \in 0 .. fengnet_mq_length' - 1
        PROVE  filled[Wrap(head + i)] \in Message
    <3>1. Wrap(head + i) \in 0 .. cap - 1
      BY <2>1, <2>2 DEF Wrap
    <3>2. CASE Wrap(head + i) = tail
      BY <3>2, <2>2 DEF TypeOK
    <3>3. CASE Wrap(head + i) # tail
      <4>1. i \in 0 .. fengnet_mq_length - 1
        BY <1>2, <2>1, <2>2, <3>3 DEF Wrap
      <4>2. queue[Wrap(head + i)] \in Message
        BY <4>1 DEF RingIndexes
      <4> QED
        BY <3>1, <3>3, <4>2, <2>2 DEF TypeOK
    <3> QED
      BY <3>2, <3>3
  <2>5. RingIndexes'
    BY <2>1, <2>2, <2>4 DEF RingIndexes, Wrap
  <2> QED
    BY <2>3, <2>5
<1> QED
  BY <1>1, <1>2

\* fengnet_mq_pop keeps the ring well formed.
LEMMA QInvPop ==
  ASSUME QInv, fengnet_mq_pop
  PROVE  QInv'
<1> USE QueueAssumption DEF QInv
<1>1. cap \in Nat /\ cap >= 2 /\ head \in 0 .. cap - 1 /\ tail \in 0 .. cap - 1 /\ head # tail
  BY DEF TypeOK, RingIndexes, fengnet_mq_pop
<1>2. queue' = queue /\ tail' = tail /\ cap' = cap /\ head' = Wrap(head + 1)
  BY DEF fengnet_mq_pop
<1>3. message' \in Message \cup {Empty}
  BY <1>1 DEF TypeOK, fengnet_mq_pop
<1>4. overload' \in Nat /\ overload_threshold' \in Nat
  <2> DEFINE length == IF tail >= head' THEN tail - head' ELSE tail - head' + cap
  <2>1. length \in Nat
    BY <1>1, <1>2 DEF Wrap
  <2>2. CASE length > overload_threshold
    <3>1. overload' = length /\ overload_threshold' \in Doubled(overload_threshold, length)
      BY <2>2 DEF fengnet_mq_pop
    <3>2. overload_threshold' \in length .. 2 * length - 1
      BY <3>1 DEF Doubled
    <3> QED
      BY <2>1, <3>1, <3>2
  <2>3. CASE ~ (length > overload_threshold)
    BY <2>3 DEF fengnet_mq_pop, TypeOK
  <2> QED
    BY <2>2, <2>3
<1>5. TypeOK'
  BY <1>1, <1>2, <1>3, <1>4 DEF TypeOK, Wrap
<1>6. ASSUME NEW i \in 0 .. fengnet_mq_length' - 1
      PROVE  queue[Wrap(Wrap(head + 1) + i)] \in Message
  <2>1. i + 1 \in 0 .. fengnet_mq_length - 1
    BY <1>1, <1>2 DEF Wrap
  <2>2. Wrap(Wrap(head + 1) + i) = Wrap(head + (i + 1))
    BY <1>1, <1>2 DEF Wrap
  <2> QED
    BY <2>1, <2>2 DEF RingIndexes
<1>7. RingIndexes'
  BY <1>1, <1>2, <1>6 DEF RingIndexes, Wrap
<1> QED
  BY <1>5, <1>7

\* Every operation keeps the ring well formed.
LEMMA QInvNext == QInv /\ [Next]_vars => QInv'
<1> SUFFICES ASSUME QInv, [Next]_vars PROVE QInv'
  OBVIOUS
<1>1. CASE \E m \in Message : fengnet_mq_push(m)
  BY <1>1, QInvPush
<1>2. CASE fengnet_mq_pop
  BY <1>2, QInvPop
<1>3. CASE fengnet_mq_pop_empty
  BY <1>3, QueueAssumption DEF fengnet_mq_pop_empty, QInv, TypeOK, RingIndexes, Wrap
<1>4. CASE fengnet_mq_overload
  BY <1>4 DEF fengnet_mq_overload, QInv, TypeOK, RingIndexes, Wrap
<1>5. CASE UNCHANGED vars
  BY <1>5 DEF vars, QInv, TypeOK, RingIndexes, Wrap
<1> QED
  BY <1>1, <1>2, <1>3, <1>4, <1>5 DEF Next

\* The fields of struct message_queue keep their types.
THEOREM QueueTypeCorrect == Spec => []TypeOK
<1>1. QInv => TypeOK
  BY DEF QInv
<1> QED
  BY <1>1, QInvInit, QInvNext, PTL DEF Spec

\* No push, pop or expansion of fengnet_mq.cpp ever indexes outside the array,
\* and what lies between head and tail are messages that were pushed.
THEOREM QueueRingSafe == Spec => []RingIndexes
<1>1. QInv => RingIndexes
  BY DEF QInv
<1> QED
  BY <1>1, QInvInit, QInvNext, PTL DEF Spec

\* Growth of a queue is never silent and never reported twice at one threshold:
\* the while loop of fengnet_mq_pop.
THEOREM QueueOverload == Spec => OverloadTracksGrowth
<1> DEFINE Tracks ==
      /\ (head' # head /\ cap' = cap) => fengnet_mq_length' <= overload_threshold'
      /\ (overload' # overload /\ overload' # 0) =>
           /\ overload' = fengnet_mq_length'
           /\ overload_threshold < overload'
           /\ overload_threshold' < 2 * overload'
<1>1. QInv /\ [Next]_vars => [Tracks]_vars
  <2> SUFFICES ASSUME QInv, Next PROVE Tracks
    BY DEF vars
  <2>0. cap \in Nat /\ cap >= 2 /\ head \in 0 .. cap - 1 /\ tail \in 0 .. cap - 1
    BY DEF QInv, TypeOK, RingIndexes
  <2>1. CASE \E m \in Message : fengnet_mq_push(m)
    <3>1. overload' = overload
      BY <2>1 DEF fengnet_mq_push
    <3>2. (head' = head /\ cap' = cap) \/ cap' = 2 * cap
      BY <2>1 DEF fengnet_mq_push, expand_queue
    <3> QED
      BY <2>0, <3>1, <3>2
  <2>2. CASE fengnet_mq_pop
    <3> DEFINE length == IF tail >= head' THEN tail - head' ELSE tail - head' + cap
    <3>1. length \in Nat /\ length = fengnet_mq_length' /\ cap' = cap
      BY <2>0, <2>2 DEF fengnet_mq_pop, Wrap
    <3>2. overload_threshold \in Nat
      BY DEF QInv, TypeOK
    <3>3. CASE length > overload_threshold
      <4>1. overload' = length /\ overload_threshold' \in Doubled(overload_threshold, length)
        BY <2>2, <3>3 DEF fengnet_mq_pop
      <4>2. overload_threshold' \in length .. 2 * length - 1
        BY <4>1 DEF Doubled
      <4> HIDE DEF length
      <4> QED
        BY <3>1, <3>2, <3>3, <4>1, <4>2
    <3>4. CASE ~ (length > overload_threshold)
      <4>1. overload' = overload /\ overload_threshold' = overload_threshold
        BY <2>2, <3>4 DEF fengnet_mq_pop
      <4> HIDE DEF length
      <4> QED
        BY <3>1, <3>2, <3>4, <4>1
    <3> QED
      BY <3>3, <3>4
  <2>3. CASE fengnet_mq_pop_empty
    BY <2>3 DEF fengnet_mq_pop_empty
  <2>4. CASE fengnet_mq_overload
    BY <2>4 DEF fengnet_mq_overload
  <2> QED
    BY <2>1, <2>2, <2>3, <2>4 DEF Next
<1> QED
  BY <1>1, QInvInit, QInvNext, PTL DEF Spec, OverloadTracksGrowth
-----------------------------------------------------------------------------
(* The ring implements a FIFO *)

\* What the ring stands for, as a sequence.
ContentsOK ==
  /\ fengnet_mq_length \in Nat
  /\ Contents \in Seq(Message)
  /\ Len(Contents) = fengnet_mq_length
  /\ \A i \in 1 .. fengnet_mq_length : Contents[i] = queue[Wrap(head + i - 1)]

\* A well-formed ring stands for a sequence of messages of its length.
LEMMA ContentsAsSeq == QInv => ContentsOK
<1> SUFFICES ASSUME QInv PROVE ContentsOK
  OBVIOUS
<1>1. cap \in Nat /\ cap >= 2 /\ head \in 0 .. cap - 1 /\ tail \in 0 .. cap - 1
  BY DEF QInv, TypeOK, RingIndexes
<1>2. fengnet_mq_length \in Nat
  BY <1>1
<1>3. ASSUME NEW i \in 1 .. fengnet_mq_length PROVE queue[Wrap(head + i - 1)] \in Message
  <2>1. i - 1 \in 0 .. fengnet_mq_length - 1 /\ head + i - 1 = head + (i - 1)
    BY <1>1, <1>2
  <2> QED
    BY <2>1 DEF QInv, RingIndexes
<1> HIDE DEF fengnet_mq_length
<1>4. Contents \in [1 .. fengnet_mq_length -> Message]
  BY <1>3 DEF Contents
<1>5. Contents \in Seq(Message)
  BY <1>2, <1>4, SeqDef
<1>6. Len(Contents) = fengnet_mq_length
  BY <1>2, <1>4, <1>5, LenProperties DEF Contents
<1> QED
  BY <1>2, <1>5, <1>6 DEF Contents, ContentsOK

\* fengnet_mq_push appends, also when it unrolls the ring into a larger one.
LEMMA PushAppends ==
  ASSUME QInv, QInv', NEW m \in Message, fengnet_mq_push(m)
  PROVE  Contents' = Append(Contents, m)
<1>1. cap \in Nat /\ cap >= 2 /\ head \in 0 .. cap - 1 /\ tail \in 0 .. cap - 1
  BY DEF QInv, TypeOK, RingIndexes
<1>2. DOMAIN queue = 0 .. cap - 1
  BY DEF QInv, TypeOK
<1>3. /\ fengnet_mq_length' \in Nat
      /\ Contents' \in Seq(Message)
      /\ Len(Contents') = fengnet_mq_length'
      /\ \A i \in 1 .. fengnet_mq_length' : Contents'[i] = queue'[Wrap(head + i - 1)']
  <2>1. ContentsOK'
    BY ContentsAsSeq, PTL
  <2> QED
    BY <2>1 DEF ContentsOK
<1>4. /\ fengnet_mq_length \in Nat
      /\ Contents \in Seq(Message)
      /\ Len(Contents) = fengnet_mq_length
      /\ \A i \in 1 .. fengnet_mq_length : Contents[i] = queue[Wrap(head + i - 1)]
  BY ContentsAsSeq DEF ContentsOK
<1>5. fengnet_mq_length' = fengnet_mq_length + 1
  <2>1. CASE Wrap(tail + 1) = head
    BY SMTT(30), <1>1, <2>1 DEF fengnet_mq_push, expand_queue, Wrap
  <2>2. CASE Wrap(tail + 1) # head
    BY <1>1, <2>2 DEF fengnet_mq_push, Wrap
  <2> QED
    BY <2>1, <2>2
<1>6. ASSUME NEW i \in 1 .. fengnet_mq_length + 1
      PROVE  queue'[Wrap(head + i - 1)'] =
               IF i = fengnet_mq_length + 1 THEN m ELSE queue[Wrap(head + i - 1)]
  <2> DEFINE filled == [queue EXCEPT ![tail] = m]
  <2>1. i - 1 \in 0 .. cap - 1 /\ Wrap(head + i - 1) \in 0 .. cap - 1
    BY <1>1 DEF Wrap
  <2>2. Wrap(head + i - 1) = tail <=> i = fengnet_mq_length + 1
    BY <1>1 DEF Wrap
  <2>3. filled[Wrap(head + i - 1)] =
          IF i = fengnet_mq_length + 1 THEN m ELSE queue[Wrap(head + i - 1)]
    BY <1>1, <1>2, <2>1, <2>2
  <2>4. CASE Wrap(tail + 1) = head
    <3>1. cap' = 2 * cap /\ head' = 0
      BY <2>4 DEF fengnet_mq_push, expand_queue
    <3>2. queue' = [k \in 0 .. 2 * cap - 1 |-> IF k < cap THEN filled[Wrap(head + k)] ELSE Empty]
      BY <2>4 DEF fengnet_mq_push, expand_queue
    <3>3. Wrap(head + i - 1)' = i - 1 /\ head + (i - 1) = head + i - 1
      BY <1>1, <2>1, <3>1 DEF Wrap
    <3> HIDE DEF filled
    <3>4. queue'[i - 1] = filled[Wrap(head + (i - 1))]
      BY <1>1, <2>1, <3>2
    <3> QED
      BY <2>3, <3>3, <3>4
  <2>5. CASE Wrap(tail + 1) # head
    <3>1. queue' = filled /\ head' = head /\ cap' = cap
      BY <2>5 DEF fengnet_mq_push
    <3>2. Wrap(head + i - 1)' = Wrap(head + i - 1)
      BY <3>1 DEF Wrap
    <3> QED
      BY <2>3, <3>1, <3>2
  <2> QED
    BY <2>4, <2>5
<1> HIDE DEF fengnet_mq_length
<1>7. /\ Append(Contents, m) \in Seq(Message)
      /\ Len(Append(Contents, m)) = fengnet_mq_length + 1
      /\ \A i \in 1 .. fengnet_mq_length : Append(Contents, m)[i] = Contents[i]
      /\ Append(Contents, m)[fengnet_mq_length + 1] = m
  BY <1>4, AppendProperties
<1>8. ASSUME NEW i \in 1 .. fengnet_mq_length + 1
      PROVE  Contents'[i] = Append(Contents, m)[i]
  <2>1. CASE i = fengnet_mq_length + 1
    BY <2>1, <1>3, <1>5, <1>6, <1>7
  <2>2. CASE i # fengnet_mq_length + 1
    BY <2>2, <1>3, <1>4, <1>5, <1>6, <1>7
  <2> QED
    BY <2>1, <2>2
<1>9. Len(Contents') = Len(Append(Contents, m))
  BY <1>3, <1>5, <1>7
<1> QED
  BY <1>3, <1>5, <1>7, <1>8, <1>9, SeqEqual

\* fengnet_mq_pop takes the oldest message.
LEMMA PopTakesOldest ==
  ASSUME QInv, QInv', fengnet_mq_pop
  PROVE  Contents # <<>> /\ message' = Head(Contents) /\ Contents' = Tail(Contents)
<1>1. cap \in Nat /\ cap >= 2 /\ head \in 0 .. cap - 1 /\ tail \in 0 .. cap - 1 /\ head # tail
  BY DEF QInv, TypeOK, RingIndexes, fengnet_mq_pop
<1>2. queue' = queue /\ tail' = tail /\ cap' = cap /\ head' = Wrap(head + 1)
  BY DEF fengnet_mq_pop
<1>3. /\ fengnet_mq_length' \in Nat
      /\ Contents' \in Seq(Message)
      /\ Len(Contents') = fengnet_mq_length'
      /\ \A i \in 1 .. fengnet_mq_length' : Contents'[i] = queue'[Wrap(head + i - 1)']
  <2>1. ContentsOK'
    BY ContentsAsSeq, PTL
  <2> QED
    BY <2>1 DEF ContentsOK
<1>4. /\ fengnet_mq_length \in Nat
      /\ Contents \in Seq(Message)
      /\ Len(Contents) = fengnet_mq_length
      /\ \A i \in 1 .. fengnet_mq_length : Contents[i] = queue[Wrap(head + i - 1)]
  BY ContentsAsSeq DEF ContentsOK
<1>5. fengnet_mq_length > 0 /\ fengnet_mq_length' = fengnet_mq_length - 1
  BY <1>1, <1>2 DEF Wrap
<1>6. ASSUME NEW i \in 1 .. fengnet_mq_length - 1
      PROVE  Wrap(head + i - 1)' = Wrap(head + (i + 1) - 1)
  BY <1>1, <1>2 DEF Wrap
<1>7. message' = queue[Wrap(head + 1 - 1)]
  BY <1>1 DEF fengnet_mq_pop, Wrap
<1> HIDE DEF fengnet_mq_length
<1>8. Contents # <<>>
  BY <1>4, <1>5, EmptySeq
<1>9. message' = Head(Contents)
  BY <1>4, <1>5, <1>7
<1>10. /\ Tail(Contents) \in Seq(Message)
       /\ Len(Tail(Contents)) = fengnet_mq_length - 1
       /\ \A i \in 1 .. fengnet_mq_length - 1 : Tail(Contents)[i] = Contents[i + 1]
  BY <1>4, <1>8, HeadTailProperties
<1>11. ASSUME NEW i \in 1 .. fengnet_mq_length - 1
       PROVE  Contents'[i] = Tail(Contents)[i]
  <2>1. i + 1 \in 1 .. fengnet_mq_length
    BY <1>4
  <2>2. Contents'[i] = queue[Wrap(head + (i + 1) - 1)]
    BY <1>2, <1>3, <1>5, <1>6
  <2> QED
    BY <1>4, <1>10, <2>1, <2>2
<1>12. Len(Contents') = Len(Tail(Contents))
  BY <1>3, <1>5, <1>10
<1> QED
  BY <1>3, <1>5, <1>8, <1>9, <1>10, <1>11, <1>12, SeqEqual

\* An empty ring stands for the empty sequence, and only an empty ring does.
LEMMA EmptyContents == QInv => (head = tail <=> Contents = <<>>)
<1> SUFFICES ASSUME QInv PROVE head = tail <=> Contents = <<>>
  OBVIOUS
<1>1. fengnet_mq_length = 0 <=> head = tail
  BY DEF QInv, TypeOK, RingIndexes
<1>2. Contents \in Seq(Message) /\ Len(Contents) = fengnet_mq_length
  BY ContentsAsSeq DEF ContentsOK
<1> HIDE DEF fengnet_mq_length
<1> QED
  BY <1>1, <1>2, EmptySeq

\* Module MessageQueue implements module Fifo: messages leave a service's queue
\* in the order they were pushed, none lost and none repeated, through every
\* wrap-around and every doubling of the buffer.
THEOREM QueueIsFifo == Spec => ImplementsFifo
<1>1. Init => Abstract!FifoInit
  <2> SUFFICES ASSUME Init PROVE Abstract!FifoInit
    OBVIOUS
  <2>1. QInv /\ head = tail /\ message = Empty
    BY QInvInit DEF Init, fengnet_mq_create
  <2> QED
    BY <2>1, EmptyContents DEF Abstract!FifoInit
<1>2. QInv /\ QInv' /\ [Next]_vars => [Abstract!FifoNext]_(Abstract!fifoVars)
  <2> SUFFICES ASSUME QInv, QInv', [Next]_vars
               PROVE  Abstract!FifoNext \/ (Contents' = Contents /\ message' = message)
    BY DEF Abstract!fifoVars
  <2>1. ASSUME NEW m \in Message, fengnet_mq_push(m) PROVE Abstract!FifoNext
    <3>1. Contents' = Append(Contents, m)
      BY <2>1, PushAppends
    <3>2. message' = message
      BY <2>1 DEF fengnet_mq_push
    <3> QED
      BY <3>1, <3>2 DEF Abstract!FifoNext, Abstract!Enqueue
  <2>2. CASE fengnet_mq_pop
    BY <2>2, PopTakesOldest DEF Abstract!FifoNext, Abstract!Dequeue
  <2>3. CASE fengnet_mq_pop_empty
    <3>1. Contents' = Contents
      BY <2>3 DEF fengnet_mq_pop_empty, Contents, Wrap
    <3>2. Contents = <<>> /\ message' = Empty
      BY <2>3, EmptyContents DEF fengnet_mq_pop_empty
    <3> QED
      BY <3>1, <3>2 DEF Abstract!FifoNext, Abstract!DequeueEmpty
  <2>4. CASE fengnet_mq_overload
    BY <2>4 DEF fengnet_mq_overload, Contents, Wrap
  <2>5. CASE UNCHANGED vars
    BY <2>5 DEF vars, Contents, Wrap
  <2> QED
    BY <2>1, <2>2, <2>3, <2>4, <2>5 DEF Next
<1> QED
  BY <1>1, <1>2, QInvInit, QInvNext, PTL DEF Spec, ImplementsFifo, Abstract!FifoSpec
=============================================================================
