-------------------------------- MODULE Fifo --------------------------------
(***************************************************************************)
(* What a service's message queue promises, whatever its representation:   *)
(* messages come out in the order they went in, none is lost or repeated,  *)
(* and a pop finds the queue empty exactly when nothing is waiting.        *)
(***************************************************************************)
EXTENDS Sequences

CONSTANTS
  Message,   \* the messages that can be queued
  Empty      \* what a pop reports when the queue is empty

VARIABLES
  items,     \* the waiting messages, oldest first
  popped     \* what the last pop returned

fifoVars == <<items, popped>>

FifoInit ==
  /\ items = <<>>
  /\ popped = Empty

Enqueue(m) ==
  /\ items' = Append(items, m)
  /\ UNCHANGED popped

Dequeue ==
  /\ items # <<>>
  /\ popped' = Head(items)
  /\ items' = Tail(items)

DequeueEmpty ==
  /\ items = <<>>
  /\ popped' = Empty
  /\ UNCHANGED items

FifoNext ==
  \/ \E m \in Message : Enqueue(m)
  \/ Dequeue
  \/ DequeueEmpty

FifoSpec == FifoInit /\ [][FifoNext]_fifoVars
=============================================================================
