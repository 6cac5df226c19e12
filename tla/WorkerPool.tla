----------------------------- MODULE WorkerPool -----------------------------
(***************************************************************************)
(* The threads of fengnet_start.cpp: workers that sleep on a condition     *)
(* variable when the global queue is empty, the timer and socket threads   *)
(* that bring work and wake them, and the shutdown that begins when the    *)
(* number of contexts reaches 0.  Dispatching is abstracted to taking one  *)
(* queue from the global queue (module Scheduler has the rest); the timer  *)
(* thread's fengnet_updatetime is taken to return (module Timer).          *)
(***************************************************************************)
EXTENDS Integers, FiniteSetTheorems, TLAPS

CONSTANTS
  Worker,     \* worker threads; m->count is their number
  MaxWork,    \* bound: queues ever put into the global queue
  None

ASSUME PoolAssumption ==
  /\ IsFiniteSet(Worker) /\ Worker # {}
  /\ MaxWork \in Nat
  /\ None \notin Worker

VARIABLES
  work,       \* queues in the global queue
  made,       \* queues put there so far
  total,      \* contexts: 1 while there is any, then 0
  quit, sleep,
  mtx,        \* the worker that holds m->mtx, or None
  waiting,    \* workers inside m->cond.wait that no notify has reached
  wpc,        \* where each worker is
  timer, socket, monitor,   \* where the other threads are
  xcmd        \* the exit command has been written to the socket thread's pipe

vars == <<work, made, total, quit, sleep, mtx, waiting, wpc, timer, socket, monitor, xcmd>>

count == Cardinality(Worker)

\* One more queue has messages; only a context that exists can get them.
Schedule ==
  /\ total = 1 /\ made < MaxWork
  /\ work' = work + 1
  /\ made' = made + 1

\* wakeup(m, busy): notify_one when enough workers sleep.  m->sleep is read
\* without the mutex, and the notification is lost on a worker that has counted
\* itself in but does not wait yet.
wakeup(busy) ==
  IF sleep >= count - busy /\ waiting # {}
  THEN \E w \in waiting : waiting' = waiting \ {w}
  ELSE UNCHANGED waiting
-----------------------------------------------------------------------------
(* thread_worker *)

LoopTest(w) ==
  /\ wpc[w] = "loop"
  /\ wpc' = [wpc EXCEPT ![w] = IF quit = 1 THEN "done" ELSE "dispatch"]
  /\ UNCHANGED <<work, made, total, quit, sleep, mtx, waiting, timer, socket, monitor, xcmd>>

\* A queue is served; its callbacks may schedule others, or destroy the last
\* context.
Dispatch(w) ==
  /\ wpc[w] = "dispatch" /\ work > 0
  /\ wpc' = [wpc EXCEPT ![w] = "loop"]
  /\ \/ /\ work' = work - 1
        /\ UNCHANGED <<made, total>>
     \/ /\ total = 1 /\ made < MaxWork
        /\ made' = made + 1
        /\ UNCHANGED <<work, total>>
     \/ /\ total' = 0
        /\ work' = work - 1
        /\ UNCHANGED made
  /\ UNCHANGED <<quit, sleep, mtx, waiting, timer, socket, monitor, xcmd>>

NothingToDo(w) ==
  /\ wpc[w] = "dispatch" /\ work = 0
  /\ wpc' = [wpc EXCEPT ![w] = "lock"]
  /\ UNCHANGED <<work, made, total, quit, sleep, mtx, waiting, timer, socket, monitor, xcmd>>

SleepBegin(w) ==
  /\ wpc[w] = "lock" /\ mtx = None
  /\ mtx' = w
  /\ sleep' = sleep + 1
  /\ wpc' = [wpc EXCEPT ![w] = "test"]
  /\ UNCHANGED <<work, made, total, quit, waiting, timer, socket, monitor, xcmd>>

\* Mutant: the worker waits without looking at quit.
MutWait(w) ==
  /\ wpc[w] = "test"
  /\ waiting' = waiting \cup {w}
  /\ mtx' = None
  /\ wpc' = [wpc EXCEPT ![w] = "asleep"]
  /\ UNCHANGED <<work, made, total, quit, sleep, timer, socket, monitor, xcmd>>

\* if (!m->quit) m->cond.wait(lock).
Wait(w) ==
  /\ wpc[w] = "test"
  /\ \/ /\ quit = 0
        /\ waiting' = waiting \cup {w}
        /\ mtx' = None
        /\ wpc' = [wpc EXCEPT ![w] = "asleep"]
     \/ /\ quit = 1
        /\ wpc' = [wpc EXCEPT ![w] = "wake"]
        /\ UNCHANGED <<waiting, mtx>>
  /\ UNCHANGED <<work, made, total, quit, sleep, timer, socket, monitor, xcmd>>

\* A condition variable may return on its own.
SpuriousWakeup(w) ==
  /\ w \in waiting
  /\ waiting' = waiting \ {w}
  /\ UNCHANGED <<work, made, total, quit, sleep, mtx, wpc, timer, socket, monitor, xcmd>>

\* cond.wait returns once it has the mutex again.
Wake(w) ==
  /\ wpc[w] = "asleep" /\ w \notin waiting /\ mtx = None
  /\ mtx' = w
  /\ wpc' = [wpc EXCEPT ![w] = "wake"]
  /\ UNCHANGED <<work, made, total, quit, sleep, waiting, timer, socket, monitor, xcmd>>

\* Mutant: the sleeper is not counted out.
MutSleepEnd(w) ==
  /\ wpc[w] = "wake"
  /\ mtx' = None
  /\ wpc' = [wpc EXCEPT ![w] = "loop"]
  /\ UNCHANGED <<work, made, total, quit, sleep, waiting, timer, socket, monitor, xcmd>>

SleepEnd(w) ==
  /\ wpc[w] = "wake"
  /\ sleep' = sleep - 1
  /\ mtx' = None
  /\ wpc' = [wpc EXCEPT ![w] = "loop"]
  /\ UNCHANGED <<work, made, total, quit, waiting, timer, socket, monitor, xcmd>>
-----------------------------------------------------------------------------
(* thread_timer *)

\* fengnet_updatetime, which may answer timeouts.
TimerUpdate ==
  /\ timer = "update"
  /\ timer' = "check"
  /\ Schedule \/ UNCHANGED <<work, made>>
  /\ UNCHANGED <<total, quit, sleep, mtx, waiting, wpc, socket, monitor, xcmd>>

TimerCheckAbort ==
  /\ timer = "check"
  /\ timer' = IF total = 0 THEN "exit" ELSE "wakeup"
  /\ UNCHANGED <<work, made, total, quit, sleep, mtx, waiting, wpc, socket, monitor, xcmd>>

\* Mutant: the timer thread leaves the waking to the socket thread.
MutTimerWakeup ==
  /\ timer = "wakeup"
  /\ timer' = "update"
  /\ UNCHANGED <<work, made, total, quit, sleep, mtx, waiting, wpc, socket, monitor, xcmd>>

TimerWakeup ==
  /\ timer = "wakeup"
  /\ timer' = "update"
  /\ wakeup(count - 1)
  /\ UNCHANGED <<work, made, total, quit, sleep, mtx, wpc, socket, monitor, xcmd>>

\* Mutant: the socket thread is not told.
MutTimerSocketExit ==
  /\ timer = "exit"
  /\ timer' = "quit"
  /\ UNCHANGED <<work, made, total, quit, sleep, mtx, waiting, wpc, socket, monitor, xcmd>>

\* fengnet_socket_exit.
TimerSocketExit ==
  /\ timer = "exit"
  /\ timer' = "quit"
  /\ xcmd' = TRUE
  /\ UNCHANGED <<work, made, total, quit, sleep, mtx, waiting, wpc, socket, monitor>>

\* quit = 1 and notify_all, under the mutex.
TimerQuit ==
  /\ timer = "quit" /\ mtx = None
  /\ timer' = "done"
  /\ quit' = 1
  /\ waiting' = {}
  /\ UNCHANGED <<work, made, total, sleep, mtx, wpc, socket, monitor, xcmd>>
-----------------------------------------------------------------------------
(* thread_socket and thread_monitor *)

\* fengnet_socket_poll forwards an event to a service.
SocketEvent ==
  /\ socket = "poll"
  /\ Schedule
  /\ socket' = "wakeup"
  /\ UNCHANGED <<total, quit, sleep, mtx, waiting, wpc, timer, monitor, xcmd>>

SocketWakeup ==
  /\ socket = "wakeup"
  /\ socket' = "poll"
  /\ wakeup(0)
  /\ UNCHANGED <<work, made, total, quit, sleep, mtx, wpc, timer, monitor, xcmd>>

\* The exit command, or an event that is not forwarded when no context is left.
SocketExit ==
  /\ socket = "poll"
  /\ xcmd \/ total = 0
  /\ socket' = "done"
  /\ UNCHANGED <<work, made, total, quit, sleep, mtx, waiting, wpc, timer, monitor, xcmd>>

MonitorExit ==
  /\ monitor = "watch" /\ total = 0
  /\ monitor' = "done"
  /\ UNCHANGED <<work, made, total, quit, sleep, mtx, waiting, wpc, timer, socket, xcmd>>
-----------------------------------------------------------------------------
\* start(): the boot services are in the global queue and the threads begin.
Init ==
  /\ work = 1 /\ made = 1
  /\ total = 1
  /\ quit = 0 /\ sleep = 0
  /\ mtx = None
  /\ waiting = {}
  /\ wpc = [w \in Worker |-> "loop"]
  /\ timer = "update" /\ socket = "poll" /\ monitor = "watch"
  /\ xcmd = FALSE

WorkerStep(w) ==
  LoopTest(w) \/ Dispatch(w) \/ NothingToDo(w) \/ SleepBegin(w) \/ Wait(w)
    \/ Wake(w) \/ SleepEnd(w)

TimerStep ==
  TimerUpdate \/ TimerCheckAbort \/ TimerWakeup \/ TimerSocketExit \/ TimerQuit

Next ==
  \/ \E w \in Worker : WorkerStep(w) \/ SpuriousWakeup(w)
  \/ TimerStep
  \/ SocketEvent \/ SocketWakeup \/ SocketExit
  \/ MonitorExit

Spec == Init /\ [][Next]_vars

\* Every thread runs whenever it can, and one that waits for m->mtx gets it if
\* it is released again and again (the critical sections are a few instructions
\* long, and each is followed by a whole dispatch); the exit command wakes the
\* socket thread.  No event has to arrive from the network, and no wakeup is
\* spurious by duty.
FairSpec ==
  /\ Spec
  /\ \A w \in Worker :
       WF_vars(WorkerStep(w)) /\ SF_vars(SleepBegin(w)) /\ SF_vars(Wake(w))
  /\ WF_vars(TimerStep) /\ SF_vars(TimerQuit)
  /\ WF_vars(SocketWakeup) /\ WF_vars(xcmd /\ SocketExit)
  /\ WF_vars(MonitorExit)
-----------------------------------------------------------------------------
\* TypeOK: in particular m->sleep never leaves 0 .. m->count.
TypeOK ==
  /\ work \in Nat /\ made \in Nat
  /\ total \in {0, 1} /\ quit \in {0, 1}
  /\ sleep \in 0 .. count
  /\ mtx \in Worker \cup {None}
  /\ waiting \subseteq Worker
  /\ wpc \in [Worker -> {"loop", "dispatch", "lock", "test", "asleep", "wake", "done"}]
  /\ timer \in {"update", "check", "wakeup", "exit", "quit", "done"}
  /\ socket \in {"poll", "wakeup", "done"}
  /\ monitor \in {"watch", "done"}
  /\ xcmd \in BOOLEAN

\* QuitReachesSleepers: once quit is set no worker waits for a notification
\* that will not come: the test of quit and the wait are one critical section.
QuitReachesSleepers == quit = 1 => waiting = {}

\* WorkServed: queued work is served even though notifications get lost between
\* a worker's failed pop and its wait: the timer thread tries again.
WorkServed == (work > 0) ~> (work = 0 \/ quit = 1)

\* AllThreadsExit: when the last context is gone every thread ends, so the joins
\* in start() return.
AllThreadsExit ==
  (total = 0) ~> (/\ \A w \in Worker : wpc[w] = "done"
                  /\ timer = "done" /\ socket = "done" /\ monitor = "done")

\* The workers between the increment and the decrement of m->sleep.
Sleepers == {w \in Worker : wpc[w] \in {"test", "asleep", "wake"}}

\* SleepExact: m->sleep, which wakeup reads without the mutex, is the number of workers
\* that have counted themselves in and not out again; at most one thread is in the
\* critical section; and none sleeps after quit.
SleepExact ==
  /\ TypeOK
  /\ sleep = Cardinality(Sleepers)
  /\ \A w \in Worker : wpc[w] \in {"test", "wake"} <=> mtx = w
  /\ QuitReachesSleepers

-----------------------------------------------------------------------------
(* SleepExact for any number of workers and any amount of work.  The       *)
(* inductive invariant adds that whoever waits has counted itself in and   *)
(* left the critical section.                                              *)

\* TypeOK without the range of m->sleep, which follows from its exactness.
Typed ==
  /\ work \in Nat /\ made \in Nat
  /\ total \in {0, 1} /\ quit \in {0, 1}
  /\ sleep \in Nat
  /\ mtx \in Worker \cup {None}
  /\ waiting \subseteq Worker
  /\ wpc \in [Worker -> {"loop", "dispatch", "lock", "test", "asleep", "wake", "done"}]
  /\ timer \in {"update", "check", "wakeup", "exit", "quit", "done"}
  /\ socket \in {"poll", "wakeup", "done"}
  /\ monitor \in {"watch", "done"}
  /\ xcmd \in BOOLEAN

\* m->sleep counts the sleepers.
Counted == sleep = Cardinality(Sleepers)

\* m->mtx is held exactly inside the critical section.
Exclusive == \A w \in Worker : wpc[w] \in {"test", "wake"} <=> mtx = w

\* Who waits for a notification is asleep, and quit has left nobody waiting.
Waiters == (\A w \in waiting : wpc[w] = "asleep") /\ QuitReachesSleepers

PInv == Typed /\ Counted /\ Exclusive /\ Waiters
-----------------------------------------------------------------------------
\* There are finitely many sleepers.
LEMMA SleepersFinite ==
  /\ IsFiniteSet(Sleepers) /\ Cardinality(Sleepers) \in Nat
  /\ Cardinality(Sleepers) <= count /\ count \in Nat
  BY PoolAssumption, FS_Subset, FS_CardinalityType DEF Sleepers, count

\* A worker counts itself in, under the mutex.
LEMMA CountedIn ==
  ASSUME Typed, Counted, NEW w \in Worker, wpc[w] = "lock", sleep' = sleep + 1,
         wpc' = [wpc EXCEPT ![w] = "test"]
  PROVE  Counted'
<1>1. w \notin Sleepers /\ Sleepers' = Sleepers \cup {w}
  BY DEF Typed, Sleepers
<1>2. Cardinality(Sleepers \cup {w}) = Cardinality(Sleepers) + 1
  BY <1>1, SleepersFinite, FS_AddElement
<1> QED
  BY <1>1, <1>2 DEF Counted

\* A worker counts itself out, under the mutex; it was counted.
LEMMA CountedOut ==
  ASSUME Typed, Counted, NEW w \in Worker, wpc[w] = "wake", sleep' = sleep - 1,
         wpc' = [wpc EXCEPT ![w] = "loop"]
  PROVE  Counted' /\ sleep' \in Nat
<1>1. w \in Sleepers /\ Sleepers' = Sleepers \ {w}
  BY DEF Typed, Sleepers
<1>2. /\ IsFiniteSet(Sleepers \ {w})
      /\ Cardinality(Sleepers \ {w}) = Cardinality(Sleepers) - 1
  BY <1>1, SleepersFinite, FS_RemoveElement
<1>3. Cardinality(Sleepers \ {w}) \in Nat
  BY <1>2, FS_CardinalityType
<1> QED
  BY <1>1, <1>2, <1>3 DEF Counted

\* Nobody enters or leaves the sleep.
LEMMA CountedSame ==
  ASSUME Counted, sleep' = sleep, Sleepers' = Sleepers
  PROVE  Counted'
  BY DEF Counted

\* The threads start awake.
LEMMA PInvInit == Init => PInv
<1> SUFFICES ASSUME Init PROVE PInv
  OBVIOUS
<1>1. Typed /\ Exclusive /\ Waiters
  BY PoolAssumption DEF Init, Typed, Exclusive, Waiters, QuitReachesSleepers
<1>2. Counted
  <2>1. Sleepers = {}
    BY DEF Init, Sleepers
  <2> QED
    BY <2>1, FS_EmptySet DEF Init, Counted
<1> QED
  BY <1>1, <1>2 DEF PInv

\* A worker's step preserves the invariant.
LEMMA WorkerKeeps ==
  ASSUME PInv, NEW w \in Worker, WorkerStep(w) \/ SpuriousWakeup(w)
  PROVE  PInv'
<1> USE DEF PInv
<1>0. None \notin Worker
  BY PoolAssumption
<1>1. CASE LoopTest(w)
  <2>1. Typed' /\ Exclusive' /\ Waiters'
    BY <1>0, <1>1 DEF LoopTest, Typed, Exclusive, Waiters, QuitReachesSleepers
  <2>2. Sleepers' = Sleepers
    BY <1>1 DEF LoopTest, Typed, Sleepers
  <2> QED
    BY <1>1, <2>1, <2>2, CountedSame DEF LoopTest
<1>2. CASE Dispatch(w)
  <2>1. Typed'
    BY <1>2 DEF Dispatch, Typed
  <2>2. Exclusive' /\ Waiters'
    BY <1>0, <1>2 DEF Dispatch, Typed, Exclusive, Waiters, QuitReachesSleepers
  <2>3. Sleepers' = Sleepers
    BY <1>2 DEF Dispatch, Typed, Sleepers
  <2> QED
    BY <1>2, <2>1, <2>2, <2>3, CountedSame DEF Dispatch
<1>3. CASE NothingToDo(w)
  <2>1. Typed' /\ Exclusive' /\ Waiters'
    BY <1>0, <1>3 DEF NothingToDo, Typed, Exclusive, Waiters, QuitReachesSleepers
  <2>2. Sleepers' = Sleepers
    BY <1>3 DEF NothingToDo, Typed, Sleepers
  <2> QED
    BY <1>3, <2>1, <2>2, CountedSame DEF NothingToDo
<1>4. CASE SleepBegin(w)
  <2>1. Typed' /\ Exclusive' /\ Waiters'
    BY <1>0, <1>4 DEF SleepBegin, Typed, Exclusive, Waiters, QuitReachesSleepers
  <2>2. Counted'
    BY <1>4, CountedIn DEF SleepBegin
  <2> QED
    BY <2>1, <2>2
<1>5. CASE Wait(w)
  <2>1. Typed' /\ Exclusive' /\ Waiters'
    BY <1>0, <1>5 DEF Wait, Typed, Exclusive, Waiters, QuitReachesSleepers
  <2>2. Sleepers' = Sleepers
    BY <1>5 DEF Wait, Typed, Sleepers
  <2> QED
    BY <1>5, <2>1, <2>2, CountedSame DEF Wait
<1>6. CASE Wake(w)
  <2>1. Typed' /\ Exclusive' /\ Waiters'
    BY <1>0, <1>6 DEF Wake, Typed, Exclusive, Waiters, QuitReachesSleepers
  <2>2. Sleepers' = Sleepers
    BY <1>6 DEF Wake, Typed, Sleepers
  <2> QED
    BY <1>6, <2>1, <2>2, CountedSame DEF Wake
<1>7. CASE SleepEnd(w)
  <2>1. Counted' /\ sleep' \in Nat
    BY <1>7, CountedOut DEF SleepEnd
  <2>2. Typed' /\ Exclusive' /\ Waiters'
    BY <1>0, <1>7, <2>1 DEF SleepEnd, Typed, Exclusive, Waiters, QuitReachesSleepers
  <2> QED
    BY <2>1, <2>2
<1>8. CASE SpuriousWakeup(w)
  <2>1. Typed' /\ Exclusive' /\ Waiters'
    BY <1>8 DEF SpuriousWakeup, Typed, Exclusive, Waiters, QuitReachesSleepers
  <2>2. Sleepers' = Sleepers
    BY <1>8 DEF SpuriousWakeup, Sleepers
  <2> QED
    BY <1>8, <2>1, <2>2, CountedSame DEF SpuriousWakeup
<1> QED
  BY <1>1, <1>2, <1>3, <1>4, <1>5, <1>6, <1>7, <1>8 DEF WorkerStep

\* A step of another thread preserves the invariant: it leaves the workers where they
\* are, and wakes at most.
LEMMA OthersKeep ==
  ASSUME PInv,
         TimerStep \/ SocketEvent \/ SocketWakeup \/ SocketExit \/ MonitorExit
  PROVE  PInv'
<1> USE DEF PInv
<1>1. UNCHANGED <<sleep, mtx, wpc>> /\ waiting' \subseteq waiting
  BY DEF TimerStep, TimerUpdate, TimerCheckAbort, TimerWakeup, TimerSocketExit, TimerQuit,
         SocketEvent, SocketWakeup, SocketExit, MonitorExit, wakeup
<1>2. Counted' /\ Exclusive'
  BY <1>1 DEF Counted, Exclusive, Sleepers
<1>3. Typed' /\ Waiters'
  <2>1. CASE TimerUpdate
    BY <2>1 DEF TimerUpdate, Schedule, Typed, Waiters, QuitReachesSleepers
  <2>2. CASE TimerCheckAbort
    BY <2>2 DEF TimerCheckAbort, Typed, Waiters, QuitReachesSleepers
  <2>3. CASE TimerWakeup
    BY <1>1, <2>3 DEF TimerWakeup, Typed, Waiters, QuitReachesSleepers
  <2>4. CASE TimerSocketExit
    BY <2>4 DEF TimerSocketExit, Typed, Waiters, QuitReachesSleepers
  <2>5. CASE TimerQuit
    BY <2>5 DEF TimerQuit, Typed, Waiters, QuitReachesSleepers
  <2>6. CASE SocketEvent
    BY <2>6 DEF SocketEvent, Schedule, Typed, Waiters, QuitReachesSleepers
  <2>7. CASE SocketWakeup
    BY <1>1, <2>7 DEF SocketWakeup, Typed, Waiters, QuitReachesSleepers
  <2>8. CASE SocketExit
    BY <2>8 DEF SocketExit, Typed, Waiters, QuitReachesSleepers
  <2>9. CASE MonitorExit
    BY <2>9 DEF MonitorExit, Typed, Waiters, QuitReachesSleepers
  <2> QED
    BY <2>1, <2>2, <2>3, <2>4, <2>5, <2>6, <2>7, <2>8, <2>9 DEF TimerStep
<1> QED
  BY <1>2, <1>3

\* Every step preserves the invariant.
LEMMA PInvNext == PInv /\ [Next]_vars => PInv'
<1> SUFFICES ASSUME PInv, [Next]_vars PROVE PInv'
  OBVIOUS
<1>1. CASE UNCHANGED vars
  BY <1>1 DEF vars, PInv, Typed, Counted, Sleepers, Exclusive, Waiters, QuitReachesSleepers
<1> QED
  BY <1>1, WorkerKeeps, OthersKeep DEF Next

\* SleepCountExact: for any number of workers, m->sleep is the number of workers between
\* their count in and their count out, at most one of them is in the critical section of
\* m->mtx, and no worker waits for a notification once quit is set.
THEOREM SleepCountExact == Spec => []SleepExact
<1>1. PInv => SleepExact
  <2> SUFFICES ASSUME PInv PROVE SleepExact
    OBVIOUS
  <2>1. sleep \in 0 .. count
    BY SleepersFinite DEF PInv, Counted
  <2> QED
    BY <2>1 DEF PInv, Typed, Counted, Exclusive, Waiters, TypeOK, SleepExact
<1> QED
  BY <1>1, PInvInit, PInvNext, PTL DEF Spec

==============================================================================
