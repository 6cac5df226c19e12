-------------------------------- MODULE Timer --------------------------------
(***************************************************************************)
(* The timing wheel of fengnet_timer.cpp: a near array of 2^N lists for    *)
(* the timeouts due within the current block of ticks, four levels of 2^L  *)
(* lists for later ones, and the spin lock that protects them.  The timer  *)
(* thread advances the wheel one tick at a time; any worker may add a      *)
(* timeout.  The bit operations of the code are written as \div and % of   *)
(* powers of two; time has N + 4 L bits, as uint32_t has 8 + 4 * 6.        *)
(***************************************************************************)
EXTENDS Integers, Sequences, FiniteSets, SequencesExt

CONSTANTS
  Node,               \* the timeouts, each requested once
  Client,             \* threads that call fengnet_timeout
  Ticker,             \* the timer thread
  TIME_NEAR_SHIFT,    \* N
  TIME_LEVEL_SHIFT,   \* L
  None

TimerAssumption ==
  /\ TIME_NEAR_SHIFT \in Nat \ {0}
  /\ TIME_LEVEL_SHIFT \in Nat \ {0}
  /\ Ticker \notin Client

TIME_NEAR  == 2 ^ TIME_NEAR_SHIFT
TIME_LEVEL == 2 ^ TIME_LEVEL_SHIFT
Shift(i)   == 2 ^ (TIME_NEAR_SHIFT + i * TIME_LEVEL_SHIFT)   \* weight of level i's digit
TimeRange  == Shift(4)
Thread     == Client \cup {Ticker}

VARIABLES
  time,      \* T->time
  wheel,     \* the lists: <<-1, i>> is T->near[i], <<l, i>> is T->t[l][i]
  expire,    \* node->expire
  state,     \* "unused", "asked", "linked", "batch" (unlinked for dispatch), "fired"
  lock,      \* T->lock
  pc,        \* where each thread is
  arg,       \* the timeout a client is adding: <<node, ticks>>
  batch,     \* the list timer_execute has unlinked
  due        \* history: ticks until a linked node should fire

vars == <<time, wheel, expire, state, lock, pc, arg, batch, due>>

List == ({-1} \X (0 .. TIME_NEAR - 1)) \cup ((0 .. 3) \X (0 .. TIME_LEVEL - 1))

\* The loop of add_node: the first level whose block holds both e and now.
Level(e, now) ==
  LET same == {i \in 0 .. 2 : e \div Shift(i + 1) = now \div Shift(i + 1)}
  IN  IF same = {} THEN 3 ELSE CHOOSE i \in same : \A j \in same : i <= j

\* add_node: the list that a node expiring at e belongs to.
add_node(e, now) ==
  IF e \div TIME_NEAR = now \div TIME_NEAR
  THEN <<-1, e % TIME_NEAR>>
  ELSE <<Level(e, now), (e \div Shift(Level(e, now))) % TIME_LEVEL>>

\* Mutant: the list is linked again without being cleared first.
MutMoveList(l, now) ==
  wheel' = [k \in List |->
              wheel[k] \o SelectSeq(wheel[l], LAMBDA n : add_node(expire[n], now) = k)]

\* move_list: every node of list l is linked again, in order, for time now.
move_list(l, now) ==
  wheel' = [k \in List |->
              (IF k = l THEN <<>> ELSE wheel[k])
                \o SelectSeq(wheel[l], LAMBDA n : add_node(expire[n], now) = k)]

\* Mutant: only the lowest level is ever moved down.
MutCascade(ct) ==
  IF ct = 0
  THEN move_list(<<3, 0>>, ct)
  ELSE LET idx == (ct \div Shift(0)) % TIME_LEVEL
       IN  IF ct % TIME_NEAR = 0 /\ idx # 0
           THEN move_list(<<0, idx>>, ct)
           ELSE UNCHANGED wheel

\* The rest of timer_shift, at the new time ct: the first non-zero digit names
\* the list to move down when all lower digits are zero.
cascade(ct) ==
  IF ct = 0
  THEN move_list(<<3, 0>>, ct)
  ELSE IF ct % TIME_NEAR = 0
  THEN LET Digit(i) == (ct \div Shift(i)) % TIME_LEVEL
           i == CHOOSE j \in 0 .. 3 : Digit(j) # 0 /\ \A k \in 0 .. j - 1 : Digit(k) = 0
       IN  move_list(<<i, Digit(i)>>, ct)
  ELSE UNCHANGED wheel
-----------------------------------------------------------------------------
(* The lock: every critical section of the module enters and leaves here *)

Entered == [lock_update |-> "execute", lock_add |-> "add",
            lock_dispatch |-> "dispatch", lock_dispatch2 |-> "dispatch2"]
Left    == [unlock_update |-> "idle", unlock_add |-> "idle",
            dispatch |-> "execute", dispatch2 |-> "execute2"]

\* SpinLock::lock.  The lock does not know who holds it.
Lock(x) ==
  /\ pc[x] \in DOMAIN Entered
  /\ lock = "free"
  /\ lock' = "held"
  /\ pc' = [pc EXCEPT ![x] = Entered[pc[x]]]
  /\ UNCHANGED <<time, wheel, expire, state, arg, batch, due>>

\* SpinLock::unlock; in timer_execute dispatch_list runs just before it and
\* pushes a message for every node of the batch.
Unlock(x) ==
  /\ pc[x] \in DOMAIN Left
  /\ lock' = "free"
  /\ pc' = [pc EXCEPT ![x] = Left[pc[x]]]
  /\ LET sent == IF pc[x] \in {"dispatch", "dispatch2"} THEN ToSet(batch) ELSE {}
     IN  /\ state' = [n \in Node |-> IF n \in sent THEN "fired" ELSE state[n]]
         /\ batch' = IF sent = {} THEN batch ELSE <<>>
  /\ UNCHANGED <<time, wheel, expire, arg, due>>
-----------------------------------------------------------------------------
\* fengnet_timeout: time <= 0 is answered at once, anything else is added to
\* the wheel.
fengnet_timeout(x, n, ticks) ==
  /\ pc[x] = "idle"
  /\ state[n] = "unused"
  /\ \/ /\ ticks <= 0
        /\ state' = [state EXCEPT ![n] = "fired"]
        /\ UNCHANGED <<pc, arg>>
     \/ /\ ticks > 0
        /\ state' = [state EXCEPT ![n] = "asked"]
        /\ arg' = [arg EXCEPT ![x] = <<n, ticks>>]
        /\ pc' = [pc EXCEPT ![x] = "lock_add"]
  /\ UNCHANGED <<time, wheel, expire, lock, batch, due>>

\* Mutant: the expiry is computed in a wider type than uint32_t.
MutTimerAdd(x) ==
  LET n == arg[x][1]
      e == arg[x][2] + time
  IN  /\ pc[x] = "add"
      /\ expire' = [expire EXCEPT ![n] = e]
      /\ wheel' = [wheel EXCEPT ![add_node(e, time)] = Append(@, n)]
      /\ state' = [state EXCEPT ![n] = "linked"]
      /\ due' = [due EXCEPT ![n] = arg[x][2]]
      /\ arg' = [arg EXCEPT ![x] = None]
      /\ pc' = [pc EXCEPT ![x] = "unlock_add"]
      /\ UNCHANGED <<time, lock, batch>>

\* timer_add under the lock.
timer_add(x) ==
  LET n == arg[x][1]
      e == (arg[x][2] + time) % TimeRange
  IN  /\ pc[x] = "add"
      /\ expire' = [expire EXCEPT ![n] = e]
      /\ wheel' = [wheel EXCEPT ![add_node(e, time)] = Append(@, n)]
      /\ state' = [state EXCEPT ![n] = "linked"]
      /\ due' = [due EXCEPT ![n] = arg[x][2]]
      /\ arg' = [arg EXCEPT ![x] = None]
      /\ pc' = [pc EXCEPT ![x] = "unlock_add"]
      /\ UNCHANGED <<time, lock, batch>>

\* fengnet_updatetime finds that a tick has passed and calls timer_update.
fengnet_updatetime ==
  /\ pc[Ticker] = "idle"
  /\ pc' = [pc EXCEPT ![Ticker] = "lock_update"]
  /\ UNCHANGED <<time, wheel, expire, state, lock, arg, batch, due>>

\* timer_execute: the list of the current tick is unlinked, and the lock taken
\* for dispatch_list.
timer_execute ==
  LET l == <<-1, time % TIME_NEAR>>
  IN  /\ pc[Ticker] \in {"execute", "execute2"}
      /\ wheel[l] # <<>>
      /\ batch' = wheel[l]
      /\ wheel' = [wheel EXCEPT ![l] = <<>>]
      /\ state' = [n \in Node |-> IF n \in ToSet(wheel[l]) THEN "batch" ELSE state[n]]
      /\ pc' = [pc EXCEPT ![Ticker] =
                  IF @ = "execute" THEN "lock_dispatch" ELSE "lock_dispatch2"]
      /\ UNCHANGED <<time, expire, lock, arg, due>>

\* timer_shift, once nothing is left for the current tick.
timer_shift ==
  LET ct == (time + 1) % TimeRange
  IN  /\ pc[Ticker] = "execute"
      /\ wheel[<<-1, time % TIME_NEAR>>] = <<>>
      /\ time' = ct
      /\ cascade(ct)
      /\ due' = [n \in Node |-> IF state[n] = "linked" THEN due[n] - 1 ELSE due[n]]
      /\ pc' = [pc EXCEPT ![Ticker] = "execute2"]
      /\ UNCHANGED <<expire, state, lock, arg, batch>>

\* The second timer_execute finds nothing more: timer_update is done.
timer_updated ==
  /\ pc[Ticker] = "execute2"
  /\ wheel[<<-1, time % TIME_NEAR>>] = <<>>
  /\ pc' = [pc EXCEPT ![Ticker] = "unlock_update"]
  /\ UNCHANGED <<time, wheel, expire, state, lock, arg, batch, due>>

Init ==
  /\ time = 0
  /\ wheel = [l \in List |-> <<>>]
  /\ expire = [n \in Node |-> 0]
  /\ state = [n \in Node |-> "unused"]
  /\ lock = "free"
  /\ pc = [x \in Thread |-> "idle"]
  /\ arg = [x \in Client |-> None]
  /\ batch = <<>>
  /\ due = [n \in Node |-> 0]

\* Ticks a client may ask for: an int, so less than half the range of time.
Ticks == 0 .. (TimeRange \div 2) - 1

Next ==
  \/ \E x \in Client, n \in Node, ticks \in Ticks : fengnet_timeout(x, n, ticks)
  \/ \E x \in Client : timer_add(x)
  \/ \E x \in Thread : Lock(x) \/ Unlock(x)
  \/ fengnet_updatetime \/ timer_execute \/ timer_shift \/ timer_updated

Spec == Init /\ [][Next]_vars

\* Every thread keeps running; the clock keeps ticking.
FairSpec ==
  /\ Spec
  /\ \A x \in Client : WF_vars(Lock(x) \/ timer_add(x) \/ Unlock(x))
  /\ WF_vars(Lock(Ticker) \/ Unlock(Ticker) \/ fengnet_updatetime \/ timer_execute
               \/ timer_shift \/ timer_updated)
-----------------------------------------------------------------------------
\* TypeOK: time and expiries stay in the range of uint32_t, lists hold nodes.
TypeOK ==
  /\ time \in 0 .. TimeRange - 1
  /\ wheel \in [List -> Seq(Node)]
  /\ expire \in [Node -> 0 .. TimeRange - 1]
  /\ state \in [Node -> {"unused", "asked", "linked", "batch", "fired"}]
  /\ lock \in {"free", "held"}
  /\ \A x \in Client : arg[x] = None \/ arg[x] \in Node \X Ticks

\* NeverLateNeverEarly: a timeout is handed to dispatch_list exactly at the tick
\* it was asked for, through every carry of the wheel and the wrap of time: a
\* linked node is never past due, and what timer_execute unlinks is due now.
NeverLateNeverEarly ==
  \A n \in Node :
    /\ state[n] = "linked" => due[n] >= 0
    /\ state[n] = "batch" => due[n] = 0
    /\ (state[n] = "linked" /\ pc[Ticker] = "unlock_update") => due[n] > 0

\* LinkedOnce: a pending timeout is in exactly one list of the wheel, once.
LinkedOnce ==
  \A n \in Node :
    Cardinality({<<l, i>> \in List \X (1 .. Cardinality(Node)) :
                   i <= Len(wheel[l]) /\ wheel[l][i] = n})
      = IF state[n] = "linked" THEN 1 ELSE 0

\* EveryTimeoutFires: a timeout that was asked for is eventually answered.
EveryTimeoutFires ==
  \A n \in Node : (state[n] = "linked") ~> (state[n] = "fired")

\* TimeoutsExact: the wheel keeps its types and every timeout until its tick.
TimeoutsExact == TypeOK /\ NeverLateNeverEarly /\ LinkedOnce

=============================================================================
