---------------------------- MODULE MessageQueue ----------------------------
(***************************************************************************)
(* One message_queue of fengnet_mq.cpp: a ring buffer that doubles when a  *)
(* push fills it, and the overload warning that pops raise as it grows.    *)
(* Push and pop run under the queue's spin lock, so each is one step;      *)
(* fengnet_mq_overload and fengnet_mq_length are steps of the one worker   *)
(* that is dispatching the queue.  Which thread may touch the queue, and   *)
(* when it is scheduled, is the subject of module Scheduler.               *)
(***************************************************************************)
EXTENDS Integers, Sequences

CONSTANTS
  Message,              \* the messages that can be queued
  Empty,                \* what a pop reports on an empty queue (ret = 1)
  DEFAULT_QUEUE_SIZE,   \* slots of a new queue
  MQ_OVERLOAD,          \* length above which the first warning is raised
  MaxLength             \* bound: no push beyond this many waiting messages

ASSUME QueueAssumption ==
  /\ DEFAULT_QUEUE_SIZE \in Nat \ {0, 1}
  /\ MQ_OVERLOAD \in Nat \ {0}
  /\ MaxLength \in Nat
  /\ Empty \notin Message

VARIABLES
  queue,                \* the slots, a function on 0 .. cap - 1
  head, tail, cap,
  overload,             \* length to be reported, 0 when there is none
  overload_threshold,
  message               \* what the last fengnet_mq_pop handed out

vars == <<queue, head, tail, cap, overload, overload_threshold, message>>

\* Mutant: the wrap test is off by one.
MutWrap(i) == IF i > cap THEN i - cap ELSE i

\* Index arithmetic modulo cap, for an index below 2 * cap.
Wrap(i) == IF i >= cap THEN i - cap ELSE i

fengnet_mq_length == IF head <= tail THEN tail - head ELSE tail + cap - head

fengnet_mq_create ==
  /\ cap = DEFAULT_QUEUE_SIZE
  /\ queue = [i \in 0 .. cap - 1 |-> Empty]
  /\ head = 0
  /\ tail = 0
  /\ overload = 0
  /\ overload_threshold = MQ_OVERLOAD
  /\ message = Empty

\* Mutant: the copy starts at slot 0 instead of at head.
MutExpandOrder(q) ==
  /\ queue' = [i \in 0 .. 2 * cap - 1 |-> IF i < cap THEN q[i] ELSE Empty]
  /\ head' = 0
  /\ tail' = cap
  /\ cap' = 2 * cap

\* Mutant: the new buffer is as small as the old one.
MutExpandSmall(q) ==
  /\ queue' = [i \in 0 .. cap - 1 |-> q[Wrap(head + i)]]
  /\ head' = 0
  /\ tail' = cap
  /\ cap' = 2 * cap

\* expand_queue, run on the slots q that a push has just filled: the ring is
\* unrolled to the front of a buffer of twice the size.
expand_queue(q) ==
  /\ queue' = [i \in 0 .. 2 * cap - 1 |-> IF i < cap THEN q[Wrap(head + i)] ELSE Empty]
  /\ head' = 0
  /\ tail' = cap
  /\ cap' = 2 * cap

fengnet_mq_push(m) ==
  LET filled == [queue EXCEPT ![tail] = m]
      next   == Wrap(tail + 1)
  IN  /\ fengnet_mq_length < MaxLength
      /\ \/ /\ next = head
            /\ expand_queue(filled)
         \/ /\ next # head
            /\ queue' = filled
            /\ tail' = next
            /\ UNCHANGED <<head, cap>>
      /\ UNCHANGED <<overload, overload_threshold, message>>

\* Mutant: "if" instead of "while": the threshold doubles once.
MutDoubled(t, n) == {2 * t}

\* The while loop of fengnet_mq_pop, for n > t: the first doubling of t that is
\* at least n, which is the only one below 2 * n.
Doubled(t, n) == {x \in n .. 2 * n - 1 : \E k \in 0 .. n : x = t * 2 ^ k}

fengnet_mq_pop ==
  /\ head # tail
  /\ message' = queue[head]
  /\ head' = Wrap(head + 1)
  /\ LET length == IF tail >= head' THEN tail - head' ELSE tail - head' + cap
     IN  IF length > overload_threshold
         THEN /\ overload' = length
              /\ overload_threshold' \in Doubled(overload_threshold, length)
         ELSE UNCHANGED <<overload, overload_threshold>>
  /\ UNCHANGED <<queue, tail, cap>>

fengnet_mq_pop_empty ==
  /\ head = tail
  /\ message' = Empty
  /\ overload_threshold' = MQ_OVERLOAD
  /\ UNCHANGED <<queue, head, tail, cap, overload>>

\* The dispatching worker fetches the pending warning, if any, and clears it.
fengnet_mq_overload ==
  /\ overload # 0
  /\ overload' = 0
  /\ UNCHANGED <<queue, head, tail, cap, overload_threshold, message>>

Init == fengnet_mq_create

Next ==
  \/ \E m \in Message : fengnet_mq_push(m)
  \/ fengnet_mq_pop
  \/ fengnet_mq_pop_empty
  \/ fengnet_mq_overload

Spec == Init /\ [][Next]_vars
-----------------------------------------------------------------------------
\* The waiting messages, oldest first: what the ring stands for.
Contents == [i \in 1 .. fengnet_mq_length |-> queue[Wrap(head + i - 1)]]

\* TypeOK: slots, indices, warning and threshold have the types of struct
\* message_queue (fengnet_mq.h).
TypeOK ==
  /\ cap \in Nat
  /\ queue \in [0 .. cap - 1 -> Message \cup {Empty}]
  /\ head \in Nat
  /\ tail \in Nat
  /\ overload \in Nat
  /\ overload_threshold \in Nat
  /\ message \in Message \cup {Empty}

\* RingIndexes: head and tail stay inside the slots however often the ring
\* wraps and doubles, so no push or pop of fengnet_mq.cpp indexes past the
\* array; every slot between them holds a message that was pushed.
RingIndexes ==
  /\ cap >= 2
  /\ head < cap
  /\ tail < cap
  /\ \A i \in 0 .. fengnet_mq_length - 1 : queue[Wrap(head + i)] \in Message

\* OverloadTracksGrowth: no pop leaves the queue longer than the threshold, so
\* growth is never silent; and a warning is raised only when the queue outgrew
\* the threshold in force, reports the length at that moment, and raises the
\* threshold to less than twice that length: a queue that stays the same size is
\* reported once, one that keeps doubling is reported at every doubling.
OverloadTracksGrowth ==
  [][ /\ (head' # head /\ cap' = cap) => fengnet_mq_length' <= overload_threshold'
      /\ (overload' # overload /\ overload' # 0) =>
           /\ overload' = fengnet_mq_length'
           /\ overload_threshold < overload'
           /\ overload_threshold' < 2 * overload' ]_vars

\* FifoSpec of module Fifo: the ring implements a plain first-in first-out
\* queue, across wrap-around and doubling.
Abstract == INSTANCE Fifo WITH items <- Contents, popped <- message
ImplementsFifo == Abstract!FifoSpec
=============================================================================
