------------------------------ MODULE Scheduler ------------------------------
(***************************************************************************)
(* The heart of fengnet: services (fengnet_context) with a reference count *)
(* and a message queue each, the global queue of queues that have work,    *)
(* and the threads that push messages, dispatch them, launch services and  *)
(* kill them (fengnet_server.cpp, fengnet_mq.cpp, the retire and grab of   *)
(* fengnet_handle.cpp, the KILL, EXIT, ABORT and LAUNCH commands of        *)
(* fengnet.cpp).                                                           *)
(*                                                                         *)
(* A step is one critical section or one atomic access of the code; what a *)
(* thread does between two of them only touches its own locals.  A service *)
(* stands for its handle, its context and its queue: handles are handed    *)
(* out once (module HandleStorage).  A message is its source.              *)
(***************************************************************************)
EXTENDS Integers, Sequences, FiniteSets

CONSTANTS
  Service,     \* every service there can be
  Boot,        \* sequence of the services launched before the workers start
  Harbor,      \* the services that call fengnet_harbor_start when they init
  Monitor,     \* the service named by the MONITOR command, or None
  Worker,      \* worker threads
  Outside,     \* timer, socket and monitor thread: they call in, never dispatch
  Weight,      \* weight of each worker (fengnet_start.cpp)
  MaxCalls,    \* bound: calls that callbacks and outside threads make in all
  None         \* the null pointer, and handle 0

Thread == Worker \cup Outside
Maybe(S) == S \cup {None}

ASSUME SchedulerAssumption ==
  /\ None \notin Service \cup Worker \cup Outside
  /\ Worker \cap Outside = {}
  /\ IsFiniteSet(Worker) /\ IsFiniteSet(Outside)
  /\ Boot \in Seq(Service)
  /\ \A i, j \in 1 .. Len(Boot) : Boot[i] = Boot[j] => i = j
  /\ Harbor \subseteq Service
  /\ Monitor \in Maybe(Service)
  /\ Weight \in [Worker -> Int]
  /\ MaxCalls \in Nat

VARIABLES
  \* a fengnet_context
  slot,        \* services present in the handle storage
  ref,         \* ctx->ref
  init,        \* ctx->init
  life,        \* the context's memory: "none", "live", "dying" (queue marked), "freed"
  reserved,    \* services kept by fengnet_context_reserve
  total,       \* G_NODE.total
  \* a message_queue
  mq,          \* waiting messages (a ring buffer: module MessageQueue)
  mqlife,      \* the queue's memory: "none", "live", "freed"
  in_global, release,
  \* the global queue
  global,
  \* a worker in fengnet_context_message_dispatch
  pc, q, ctx, nq,
  left,        \* iterations the loop has left after the current one
  \* a worker in fengnet_context_new, called from a callback
  npc, born,
  dropq,       \* the queue a worker is emptying in _drop_queue
  \* a thread in a call made by a callback, a drop or an outside thread
  op,          \* what it does next
  cont,        \* what it does when it has released peer
  peer,        \* the context it holds a reference to
  letter,      \* the source of the message it is about to push
  victim,      \* the service KILL is about to retire
  del,         \* the context it is destroying in delete_context
  calls        \* calls made so far

ctxVars  == <<slot, ref, init, life, reserved, total>>
mqVars   == <<mq, mqlife, in_global, release, global>>
workVars == <<pc, q, ctx, nq, left>>
newVars  == <<npc, born, dropq>>
opVars   == <<op, cont, peer, letter, victim>>
vars == <<ctxVars, mqVars, workVars, newVars, opVars, del, calls>>
-----------------------------------------------------------------------------
(* Building blocks *)

\* The handle is set once fengnet_handle_register has returned, together with
\* the queue; before that fengnet_handle_grab does not find the context.
Registered(s) == s \in slot /\ mqlife[s] # "none"

\* A thread with nothing pending below its dispatch loop or launch.
Free(t) == op[t] = "none" /\ del[t] = None

\* Mutant: the test after the decrement is off by one.
MutContextRelease(t, s) ==
  /\ ref' = [ref EXCEPT ![s] = @ - 1]
  /\ del' = IF ref[s] = 2 THEN [del EXCEPT ![t] = s] ELSE del

\* fengnet_context_release: the thread that drops the last reference destroys.
fengnet_context_release(t, s) ==
  /\ ref' = [ref EXCEPT ![s] = @ - 1]
  /\ del' = IF ref[s] = 1 THEN [del EXCEPT ![t] = s] ELSE del

\* Mutant: the queue is scheduled by every push.
MutMqPush(s, m) ==
  /\ mq' = [mq EXCEPT ![s] = Append(@, m)]
  /\ in_global' = [in_global EXCEPT ![s] = 1]
  /\ global' = Append(global, s)
  /\ UNCHANGED <<mqlife, release>>

\* fengnet_mq_push on the queue of s.
fengnet_mq_push(s, m) ==
  /\ mq' = [mq EXCEPT ![s] = Append(@, m)]
  /\ in_global' = [in_global EXCEPT ![s] = 1]
  /\ global' = IF in_global[s] = 0 THEN Append(global, s) ELSE global
  /\ UNCHANGED <<mqlife, release>>

\* The threads whose code may call into the framework now: a callback or an
\* init function being run, or an outside thread.
Calling(t) ==
  /\ Free(t)
  /\ t \in Worker => (pc[t] = "run" /\ npc[t] \in {"none", "init"} /\ dropq[t] = None)
  /\ calls < MaxCalls

\* The service on whose behalf t calls: the source of what it sends.
Self(t) ==
  IF t \notin Worker THEN None ELSE IF npc[t] = "init" THEN born[t] ELSE ctx[t]
-----------------------------------------------------------------------------
(* Calls: sending, borrowing a context, killing *)

\* fengnet_context_push, first half: a handle that is not registered makes the
\* call return -1 and changes nothing.
Send(t, s) ==
  /\ Calling(t)
  /\ Registered(s)
  /\ ref' = [ref EXCEPT ![s] = @ + 1]
  /\ op' = [op EXCEPT ![t] = "push"]
  /\ peer' = [peer EXCEPT ![t] = s]
  /\ letter' = [letter EXCEPT ![t] = Self(t)]
  /\ calls' = calls + 1
  /\ UNCHANGED <<slot, init, life, reserved, total, mqVars, workVars, newVars,
                 cont, victim, del>>

\* fengnet_context_push, second half.
PushMessage(t) ==
  /\ op[t] = "push" /\ del[t] = None
  /\ fengnet_mq_push(peer[t], letter[t])
  /\ op' = [op EXCEPT ![t] = "unref"]
  /\ letter' = [letter EXCEPT ![t] = None]
  /\ UNCHANGED <<ctxVars, workVars, newVars, cont, peer, victim, del, calls>>

\* fengnet_context_endless, LOGON, LOGOFF, SIGNAL: grab, use, release.
Borrow(t, s) ==
  /\ Calling(t)
  /\ Registered(s)
  /\ ref' = [ref EXCEPT ![s] = @ + 1]
  /\ op' = [op EXCEPT ![t] = "unref"]
  /\ peer' = [peer EXCEPT ![t] = s]
  /\ calls' = calls + 1
  /\ UNCHANGED <<slot, init, life, reserved, total, mqVars, workVars, newVars,
                 cont, letter, victim, del>>

\* The release that ends a push, a borrow or a retire.
ReleasePeer(t) ==
  /\ op[t] = "unref" /\ del[t] = None
  /\ fengnet_context_release(t, peer[t])
  /\ op' = [op EXCEPT ![t] = cont[t]]
  /\ cont' = [cont EXCEPT ![t] = "none"]
  /\ peer' = [peer EXCEPT ![t] = None]
  /\ UNCHANGED <<slot, init, life, reserved, total, mqVars, workVars, newVars,
                 letter, victim, calls>>

\* Mutant: an idle queue is marked but not scheduled.
MutMarkRelease(t) ==
  LET s == del[t]
  IN  /\ s # None
      /\ life[s] = "live"
      /\ life' = [life EXCEPT ![s] = "dying"]
      /\ release' = [release EXCEPT ![s] = TRUE]
      /\ UNCHANGED <<slot, ref, init, reserved, total, mq, mqlife, in_global, global,
                     workVars, newVars, opVars, del, calls>>

\* delete_context up to fengnet_mq_mark_release: a queue that is not scheduled
\* is put in the global queue so that some worker finds it and drops it.
MarkRelease(t) ==
  LET s == del[t]
  IN  /\ s # None
      /\ life[s] = "live"
      /\ life' = [life EXCEPT ![s] = "dying"]
      /\ release' = [release EXCEPT ![s] = TRUE]
      /\ global' = IF in_global[s] = 0 THEN Append(global, s) ELSE global
      /\ UNCHANGED <<slot, ref, init, reserved, total, mq, mqlife, in_global,
                     workVars, newVars, opVars, del, calls>>

\* The rest of delete_context.
DeleteContext(t) ==
  LET s == del[t]
  IN  /\ s # None
      /\ life[s] = "dying"
      /\ life' = [life EXCEPT ![s] = "freed"]
      /\ total' = total - 1
      /\ del' = [del EXCEPT ![t] = None]
      /\ UNCHANGED <<slot, ref, init, reserved, mqVars, workVars, newVars, opVars, calls>>

\* handle_exit (KILL and EXIT): tell the monitor service, then retire.  The
\* handle may be one that is retired already.
Kill(t, s) ==
  /\ t \in Worker
  /\ Calling(t)
  /\ mqlife[s] # "none"
  /\ victim' = [victim EXCEPT ![t] = s]
  /\ calls' = calls + 1
  /\ \/ /\ Monitor # None /\ Registered(Monitor)
        /\ ref' = [ref EXCEPT ![Monitor] = @ + 1]
        /\ op' = [op EXCEPT ![t] = "push"]
        /\ cont' = [cont EXCEPT ![t] = "retire"]
        /\ peer' = [peer EXCEPT ![t] = Monitor]
        /\ letter' = [letter EXCEPT ![t] = s]
     \/ /\ ~ (Monitor # None /\ Registered(Monitor))
        /\ op' = [op EXCEPT ![t] = "retire"]
        /\ UNCHANGED <<ref, cont, peer, letter>>
  /\ UNCHANGED <<slot, init, life, reserved, total, mqVars, workVars, newVars, del>>

\* fengnet_handle_retire, the part under the write lock: the storage's
\* reference passes to the caller, who releases it after unlocking.
TakeFromStorage(t, s, next) ==
  /\ slot' = slot \ {s}
  /\ peer' = [peer EXCEPT ![t] = s]
  /\ op' = [op EXCEPT ![t] = "unref"]
  /\ cont' = [cont EXCEPT ![t] = next]

Retire(t) ==
  /\ op[t] = "retire" /\ del[t] = None
  /\ victim' = [victim EXCEPT ![t] = None]
  /\ \/ /\ Registered(victim[t])
        /\ TakeFromStorage(t, victim[t], "none")
     \/ /\ ~ Registered(victim[t])
        /\ op' = [op EXCEPT ![t] = "none"]
        /\ UNCHANGED <<slot, peer, cont>>
  /\ UNCHANGED <<ref, init, life, reserved, total, mqVars, workVars, newVars,
                 letter, del, calls>>

\* ABORT: fengnet_handle_retireall makes passes over the slots, retiring what
\* it finds, until a pass finds nothing.  A context whose handle is still 0 is
\* counted but not retired, so the pass is repeated.
Abort(t) ==
  /\ t \in Worker
  /\ Calling(t)
  /\ op' = [op EXCEPT ![t] = "abort"]
  /\ calls' = calls + 1
  /\ UNCHANGED <<ctxVars, mqVars, workVars, newVars, cont, peer, letter, victim, del>>

AbortRetire(t, s) ==
  /\ op[t] \in {"abort", "abort_pass"} /\ del[t] = None
  /\ Registered(s)
  /\ TakeFromStorage(t, s, "abort")
  /\ UNCHANGED <<ref, init, life, reserved, total, mqVars, workVars, newVars,
                 letter, victim, del, calls>>

\* A pass that starts on an empty storage; it may still meet a new context.
AbortPass(t) ==
  /\ op[t] = "abort" /\ del[t] = None
  /\ slot = {}
  /\ op' = [op EXCEPT ![t] = "abort_pass"]
  /\ UNCHANGED <<ctxVars, mqVars, workVars, newVars, cont, peer, letter, victim, del, calls>>

AbortReturn(t) ==
  /\ op[t] = "abort_pass" /\ del[t] = None
  /\ op' = [op EXCEPT ![t] = "none"]
  /\ UNCHANGED <<ctxVars, mqVars, workVars, newVars, cont, peer, letter, victim, del, calls>>

\* fengnet_harbor_send: a message for another node goes straight to the queue
\* of the reserved harbor service (REMOTE), without a grab.
SendRemote(t, s) ==
  /\ Calling(t)
  /\ s \in reserved
  /\ fengnet_mq_push(s, Self(t))
  /\ calls' = calls + 1
  /\ UNCHANGED <<ctxVars, workVars, newVars, opVars, del>>
-----------------------------------------------------------------------------
(* fengnet_context_new, called by LAUNCH from a callback *)

\* Allocation and fengnet_handle_register: the context is in the storage, its
\* handle still 0.
NewRegister(w, s) ==
  /\ Calling(w) /\ npc[w] = "none"
  /\ life[s] = "none"
  /\ life' = [life EXCEPT ![s] = "live"]
  /\ ref' = [ref EXCEPT ![s] = 2]
  /\ slot' = slot \cup {s}
  /\ npc' = [npc EXCEPT ![w] = "register"]
  /\ born' = [born EXCEPT ![w] = s]
  /\ calls' = calls + 1
  /\ UNCHANGED <<init, reserved, total, mqVars, workVars, dropq, opVars, del>>

\* Mutant: the queue is scheduled as soon as it exists.
MutNewQueue(w) ==
  /\ npc[w] = "register"
  /\ mqlife' = [mqlife EXCEPT ![born[w]] = "live"]
  /\ in_global' = [in_global EXCEPT ![born[w]] = 1]
  /\ global' = Append(global, born[w])
  /\ total' = total + 1
  /\ npc' = [npc EXCEPT ![w] = "init"]
  /\ UNCHANGED <<slot, ref, init, life, reserved, mq, release, workVars,
                 born, dropq, opVars, del, calls>>

\* The handle is stored, the queue created, the context counted, and the
\* module's init function starts.
NewQueue(w) ==
  /\ npc[w] = "register"
  /\ mqlife' = [mqlife EXCEPT ![born[w]] = "live"]
  /\ in_global' = [in_global EXCEPT ![born[w]] = 1]
  /\ total' = total + 1
  /\ npc' = [npc EXCEPT ![w] = "init"]
  /\ UNCHANGED <<slot, ref, init, life, reserved, mq, release, global, workVars,
                 born, dropq, opVars, del, calls>>

\* Mutant: the reserved context still counts.
MutReserveTotal(w) ==
  /\ npc[w] = "init" /\ Free(w)
  /\ born[w] \in Harbor \ reserved
  /\ ref' = [ref EXCEPT ![born[w]] = @ + 1]
  /\ reserved' = reserved \cup {born[w]}
  /\ UNCHANGED <<slot, init, life, total, mqVars, workVars, newVars, opVars, del, calls>>

\* The harbor service's init function calls fengnet_harbor_start.
Reserve(w) ==
  /\ npc[w] = "init" /\ Free(w)
  /\ born[w] \in Harbor \ reserved
  /\ ref' = [ref EXCEPT ![born[w]] = @ + 1]
  /\ reserved' = reserved \cup {born[w]}
  /\ total' = total - 1
  /\ UNCHANGED <<slot, init, life, mqVars, workVars, newVars, opVars, del, calls>>

\* Mutant: the queue is published without init being set.
MutInitDone(w) ==
  /\ npc[w] = "init" /\ Free(w)
  /\ born[w] \in Harbor => born[w] \in reserved
  /\ fengnet_context_release(w, born[w])
  /\ npc' = [npc EXCEPT ![w] = IF ref[born[w]] = 1 THEN "gone" ELSE "publish"]
  /\ UNCHANGED <<slot, init, life, reserved, total, mqVars, workVars, born, dropq,
                 opVars, calls>>

\* init returned 0: the creator's reference goes, and with it the context if
\* it has been retired meanwhile ("gone").
InitDone(w) ==
  /\ npc[w] = "init" /\ Free(w)
  /\ born[w] \in Harbor => born[w] \in reserved
  /\ fengnet_context_release(w, born[w])
  /\ npc' = [npc EXCEPT ![w] = IF ref[born[w]] = 1 THEN "gone" ELSE "ready"]
  /\ UNCHANGED <<slot, init, life, reserved, total, mqVars, workVars, born, dropq,
                 opVars, calls>>

\* ctx->init = true, through a pointer the creator holds no reference for.
SetInit(w) ==
  /\ npc[w] = "ready"
  /\ init' = IF life[born[w]] # "freed" THEN [init EXCEPT ![born[w]] = TRUE] ELSE init
  /\ npc' = [npc EXCEPT ![w] = "publish"]
  /\ UNCHANGED <<slot, ref, life, reserved, total, mqVars, workVars, born, dropq,
                 opVars, del, calls>>

\* The queue enters the global queue for the first time.
Publish(w) ==
  /\ npc[w] \in {"publish", "gone"} /\ del[w] = None
  /\ global' = Append(global, born[w])
  /\ \/ /\ npc[w] = "publish"
        /\ npc' = [npc EXCEPT ![w] = "report"]
        /\ UNCHANGED born
     \/ /\ npc[w] = "gone"
        /\ npc' = [npc EXCEPT ![w] = "none"]
        /\ born' = [born EXCEPT ![w] = None]
  /\ UNCHANGED <<ctxVars, mq, mqlife, in_global, release, workVars, dropq, opVars, del, calls>>

\* fengnet_error(ret, "LAUNCH ..."), and cmd_launch reads instance->handle.
Report(w) ==
  /\ npc[w] = "report"
  /\ npc' = [npc EXCEPT ![w] = "none"]
  /\ born' = [born EXCEPT ![w] = None]
  /\ UNCHANGED <<ctxVars, mqVars, workVars, dropq, opVars, del, calls>>

\* init failed: the creator's reference goes, the handle is retired, and the
\* queue is released.
InitFailed(w) ==
  /\ npc[w] = "init" /\ Free(w)
  /\ born[w] \notin Harbor
  /\ fengnet_context_release(w, born[w])
  /\ npc' = [npc EXCEPT ![w] = "failed"]
  /\ UNCHANGED <<slot, init, life, reserved, total, mqVars, workVars, born, dropq,
                 opVars, calls>>

FailedRetire(w) ==
  /\ npc[w] = "failed" /\ del[w] = None
  /\ npc' = [npc EXCEPT ![w] = "discard"]
  /\ \/ Registered(born[w]) /\ TakeFromStorage(w, born[w], "none")
     \/ ~ Registered(born[w]) /\ UNCHANGED <<slot, peer, op, cont>>
  /\ UNCHANGED <<ref, init, life, reserved, total, mqVars, workVars, born, dropq,
                 letter, victim, del, calls>>

\* fengnet_mq_release: a marked queue is emptied and freed, any other goes back
\* to the global queue until its context is gone.
fengnet_mq_release(w, s) ==
  IF release[s]
  THEN dropq' = [dropq EXCEPT ![w] = s] /\ UNCHANGED global
  ELSE global' = Append(global, s) /\ UNCHANGED dropq

FailedDiscard(w) ==
  /\ npc[w] = "discard" /\ Free(w)
  /\ fengnet_mq_release(w, born[w])
  /\ npc' = [npc EXCEPT ![w] = "none"]
  /\ born' = [born EXCEPT ![w] = None]
  /\ UNCHANGED <<ctxVars, mq, mqlife, in_global, release, workVars, opVars, del, calls>>
-----------------------------------------------------------------------------
(* _drop_queue: every waiting message is answered with an error *)

DropMessage(w) ==
  LET s == dropq[w]
  IN  /\ s # None /\ Free(w)
      /\ mq[s] # <<>>
      /\ mq' = [mq EXCEPT ![s] = Tail(@)]
      /\ LET source == Head(mq[s])
         IN  \/ /\ source # None /\ Registered(source)
                /\ ref' = [ref EXCEPT ![source] = @ + 1]
                /\ op' = [op EXCEPT ![w] = "push"]
                /\ peer' = [peer EXCEPT ![w] = source]
                /\ letter' = [letter EXCEPT ![w] = s]
             \/ /\ ~ (source # None /\ Registered(source))
                /\ UNCHANGED <<ref, op, peer, letter>>
      /\ UNCHANGED <<slot, init, life, reserved, total, mqlife, in_global, release,
                     global, workVars, newVars, cont, victim, del, calls>>

DropDone(w) ==
  LET s == dropq[w]
  IN  /\ s # None /\ Free(w)
      /\ mq[s] = <<>>
      /\ in_global' = [in_global EXCEPT ![s] = 0]
      /\ mqlife' = [mqlife EXCEPT ![s] = "freed"]
      /\ dropq' = [dropq EXCEPT ![w] = None]
      /\ UNCHANGED <<ctxVars, mq, release, global, workVars, npc, born, opVars, del, calls>>
-----------------------------------------------------------------------------
(* fengnet_context_message_dispatch *)

\* A worker between two steps of the dispatch function proper.
At(w, label) == pc[w] = label /\ Free(w) /\ npc[w] = "none" /\ dropq[w] = None

\* fengnet_globalmq_pop by a worker that holds no queue.
TakeQueue(w) ==
  /\ At(w, "idle")
  /\ global # <<>>
  /\ q' = [q EXCEPT ![w] = Head(global)]
  /\ global' = Tail(global)
  /\ pc' = [pc EXCEPT ![w] = "grab"]
  /\ UNCHANGED <<ctxVars, mq, mqlife, in_global, release, ctx, nq, left, newVars,
                 opVars, del, calls>>

\* Mutant: the worker uses the context without a reference of its own.
MutGrab(w) ==
  /\ At(w, "grab")
  /\ \/ /\ Registered(q[w])
        /\ ctx' = [ctx EXCEPT ![w] = q[w]]
        /\ pc' = [pc EXCEPT ![w] = "first"]
     \/ /\ ~ Registered(q[w])
        /\ pc' = [pc EXCEPT ![w] = "orphan"]
        /\ UNCHANGED ctx
  /\ UNCHANGED <<ctxVars, mqVars, q, nq, left, newVars, opVars, del, calls>>

\* fengnet_handle_grab of the queue's handle.
Grab(w) ==
  /\ At(w, "grab")
  /\ \/ /\ Registered(q[w])
        /\ ref' = [ref EXCEPT ![q[w]] = @ + 1]
        /\ ctx' = [ctx EXCEPT ![w] = q[w]]
        /\ pc' = [pc EXCEPT ![w] = "first"]
     \/ /\ ~ Registered(q[w])
        /\ pc' = [pc EXCEPT ![w] = "orphan"]
        /\ UNCHANGED <<ref, ctx>>
  /\ UNCHANGED <<slot, init, life, reserved, total, mqVars, q, nq, left, newVars,
                 opVars, del, calls>>

\* The context is gone: fengnet_mq_release.
Orphan(w) ==
  /\ At(w, "orphan")
  /\ fengnet_mq_release(w, q[w])
  /\ q' = [q EXCEPT ![w] = None]
  /\ pc' = [pc EXCEPT ![w] = "idle"]
  /\ UNCHANGED <<ctxVars, mq, mqlife, in_global, release, ctx, nq, left, npc, born,
                 opVars, del, calls>>

\* Mutant: the flag of a queue that leaves the schedule is not cleared.
MutPopEmpty(w) ==
  /\ At(w, "first") \/ At(w, "pop")
  /\ mq[q[w]] = <<>>
  /\ q' = [q EXCEPT ![w] = None]
  /\ left' = [left EXCEPT ![w] = 0]
  /\ pc' = [pc EXCEPT ![w] = "finish"]
  /\ UNCHANGED <<ctxVars, mqVars, ctx, nq, newVars, opVars, del, calls>>

\* fengnet_mq_pop on an empty queue: the queue is no longer scheduled.
PopEmpty(w) ==
  /\ At(w, "first") \/ At(w, "pop")
  /\ mq[q[w]] = <<>>
  /\ in_global' = [in_global EXCEPT ![q[w]] = 0]
  /\ q' = [q EXCEPT ![w] = None]
  /\ left' = [left EXCEPT ![w] = 0]
  /\ pc' = [pc EXCEPT ![w] = "finish"]
  /\ UNCHANGED <<ctxVars, mq, mqlife, release, global, ctx, nq, newVars, opVars, del, calls>>

\* fengnet_mq_pop of a message; the callback starts unless the queue's length
\* is read first (the turn's first message, weight >= 0).
Pop(w) ==
  /\ At(w, "first") \/ At(w, "pop")
  /\ mq[q[w]] # <<>>
  /\ mq' = [mq EXCEPT ![q[w]] = Tail(@)]
  /\ pc' = [pc EXCEPT ![w] =
              IF pc[w] = "first" /\ Weight[w] >= 0 THEN "length" ELSE "run"]
  /\ left' = [left EXCEPT ![w] = IF pc[w] = "first" THEN 0 ELSE @ - 1]
  /\ UNCHANGED <<ctxVars, mqlife, in_global, release, global, q, ctx, nq, newVars,
                 opVars, del, calls>>

\* Mutant: a shifted length of 0 is not treated apart.
MutIterations(n) == n - 1

\* n = length >> weight; the message already popped is one of the n.
Iterations(n) == IF n > 0 THEN n - 1 ELSE 0

Length(w) ==
  /\ At(w, "length")
  /\ \E n \in 0 .. Len(mq[q[w]]) :
       /\ n = Len(mq[q[w]]) \div 2 ^ Weight[w]
       /\ left' = [left EXCEPT ![w] = Iterations(n)]
  /\ pc' = [pc EXCEPT ![w] = "run"]
  /\ UNCHANGED <<ctxVars, mqVars, q, ctx, nq, newVars, opVars, del, calls>>

\* The callback returns.
Return(w) ==
  /\ At(w, "run")
  /\ pc' = [pc EXCEPT ![w] = IF left[w] > 0 THEN "pop" ELSE "next"]
  /\ UNCHANGED <<ctxVars, mqVars, q, ctx, nq, left, newVars, opVars, del, calls>>

\* The turn is over: fengnet_globalmq_pop; with nothing else to do the worker
\* keeps its queue.
NextQueue(w) ==
  /\ At(w, "next")
  /\ \/ /\ global # <<>>
        /\ nq' = [nq EXCEPT ![w] = Head(global)]
        /\ global' = Tail(global)
        /\ pc' = [pc EXCEPT ![w] = "requeue"]
     \/ /\ global = <<>>
        /\ pc' = [pc EXCEPT ![w] = "finish"]
        /\ UNCHANGED <<nq, global>>
  /\ UNCHANGED <<ctxVars, mq, mqlife, in_global, release, q, ctx, left, newVars,
                 opVars, del, calls>>

\* Mutant: the queue just served is not put back.
MutRequeue(w) ==
  /\ At(w, "requeue")
  /\ q' = [q EXCEPT ![w] = nq[w]]
  /\ nq' = [nq EXCEPT ![w] = None]
  /\ pc' = [pc EXCEPT ![w] = "finish"]
  /\ UNCHANGED <<ctxVars, mqVars, ctx, left, newVars, opVars, del, calls>>

\* fengnet_globalmq_push of the queue just served; the worker goes on with nq.
Requeue(w) ==
  /\ At(w, "requeue")
  /\ global' = Append(global, q[w])
  /\ q' = [q EXCEPT ![w] = nq[w]]
  /\ nq' = [nq EXCEPT ![w] = None]
  /\ pc' = [pc EXCEPT ![w] = "finish"]
  /\ UNCHANGED <<ctxVars, mq, mqlife, in_global, release, ctx, left, newVars,
                 opVars, del, calls>>

\* The dispatch reference is released and dispatch returns q, perhaps NULL.
Finish(w) ==
  /\ At(w, "finish")
  /\ fengnet_context_release(w, ctx[w])
  /\ ctx' = [ctx EXCEPT ![w] = None]
  /\ pc' = [pc EXCEPT ![w] = IF q[w] = None THEN "idle" ELSE "grab"]
  /\ UNCHANGED <<slot, init, life, reserved, total, mqVars, q, nq, left, newVars,
                 opVars, calls>>
-----------------------------------------------------------------------------
BootSet == {Boot[i] : i \in 1 .. Len(Boot)}

\* The workers start when the boot services are launched: each is registered,
\* initialised and in the global queue, and nobody else holds it.
Init ==
  /\ slot = BootSet
  /\ ref = [s \in Service |-> IF s \in BootSet THEN 1 ELSE 0]
  /\ init = [s \in Service |-> s \in BootSet]
  /\ life = [s \in Service |-> IF s \in BootSet THEN "live" ELSE "none"]
  /\ reserved = {}
  /\ total = Len(Boot)
  /\ mq = [s \in Service |-> <<>>]
  /\ mqlife = [s \in Service |-> IF s \in BootSet THEN "live" ELSE "none"]
  /\ in_global = [s \in Service |-> IF s \in BootSet THEN 1 ELSE 0]
  /\ release = [s \in Service |-> FALSE]
  /\ global = Boot
  /\ pc = [w \in Worker |-> "idle"]
  /\ q = [w \in Worker |-> None]
  /\ ctx = [w \in Worker |-> None]
  /\ nq = [w \in Worker |-> None]
  /\ left = [w \in Worker |-> 0]
  /\ npc = [w \in Worker |-> "none"]
  /\ born = [w \in Worker |-> None]
  /\ dropq = [w \in Worker |-> None]
  /\ op = [t \in Thread |-> "none"]
  /\ cont = [t \in Thread |-> "none"]
  /\ peer = [t \in Thread |-> None]
  /\ letter = [t \in Thread |-> None]
  /\ victim = [t \in Thread |-> None]
  /\ del = [t \in Thread |-> None]
  /\ calls = 0

\* What callbacks, init functions and outside threads may choose to do.
Call ==
  \/ \E t \in Thread, s \in Service :
       Send(t, s) \/ Borrow(t, s) \/ Kill(t, s) \/ SendRemote(t, s)
  \/ \E t \in Thread : Abort(t)
  \/ \E w \in Worker, s \in Service : NewRegister(w, s)

\* What a thread that has begun something goes on to do.
Continue(t) ==
  \/ PushMessage(t) \/ ReleasePeer(t) \/ MarkRelease(t) \/ DeleteContext(t)
  \/ Retire(t) \/ AbortPass(t) \/ AbortReturn(t)
  \/ \E s \in Service : AbortRetire(t, s)

Launching(w) ==
  \/ NewQueue(w) \/ Reserve(w) \/ InitDone(w) \/ SetInit(w) \/ Publish(w) \/ Report(w)
  \/ InitFailed(w) \/ FailedRetire(w) \/ FailedDiscard(w)

Dispatching(w) ==
  \/ DropMessage(w) \/ DropDone(w)
  \/ TakeQueue(w) \/ Grab(w) \/ Orphan(w) \/ PopEmpty(w) \/ Pop(w) \/ Length(w)
  \/ Return(w) \/ NextQueue(w) \/ Requeue(w) \/ Finish(w)

Next ==
  \/ Call
  \/ \E t \in Thread : Continue(t)
  \/ \E w \in Worker : Launching(w) \/ Dispatching(w)

Spec == Init /\ [][Next]_vars

\* Every thread that has something to do goes on doing it: callbacks return,
\* and the operating system does not starve a thread.  Nothing is assumed of
\* Call: a service need not send, launch or kill anything.
FairSpec ==
  /\ Spec
  /\ \A t \in Thread : WF_vars(Continue(t))
  /\ \A w \in Worker : WF_vars(Launching(w)) /\ WF_vars(Dispatching(w))
-----------------------------------------------------------------------------
PCs  == {"idle", "grab", "orphan", "first", "pop", "length", "run", "next",
         "requeue", "finish"}
NPCs == {"none", "register", "init", "ready", "publish", "gone", "report",
         "failed", "discard"}
Ops  == {"none", "push", "unref", "retire", "abort", "abort_pass"}

\* TypeOK: every variable has the type of the field or local it stands for.
TypeOK ==
  /\ slot \subseteq Service
  /\ ref \in [Service -> Nat]
  /\ init \in [Service -> BOOLEAN]
  /\ life \in [Service -> {"none", "live", "dying", "freed"}]
  /\ reserved \subseteq Service
  /\ total \in Int
  /\ mq \in [Service -> Seq(Maybe(Service))]
  /\ mqlife \in [Service -> {"none", "live", "freed"}]
  /\ in_global \in [Service -> {0, 1}]
  /\ release \in [Service -> BOOLEAN]
  /\ global \in Seq(Service)
  /\ pc \in [Worker -> PCs]
  /\ q \in [Worker -> Maybe(Service)]
  /\ ctx \in [Worker -> Maybe(Service)]
  /\ nq \in [Worker -> Maybe(Service)]
  /\ left \in [Worker -> Nat]
  /\ npc \in [Worker -> NPCs]
  /\ born \in [Worker -> Maybe(Service)]
  /\ dropq \in [Worker -> Maybe(Service)]
  /\ op \in [Thread -> Ops]
  /\ cont \in [Thread -> {"none", "retire", "abort"}]
  /\ peer \in [Thread -> Maybe(Service)]
  /\ letter \in [Thread -> Maybe(Service)]
  /\ victim \in [Thread -> Maybe(Service)]
  /\ del \in [Thread -> Maybe(Service)]
  /\ calls \in Nat

\* w creates r and has not dropped the creator's reference.
Making(w, r) == born[w] = r /\ npc[w] \in {"register", "init"}

\* The references to a context: the handle storage's, a dispatching worker's, a
\* call's, the creator's until its release, and the harbor's.
Token == {"slot", "ctx", "peer", "born", "reserved"} \X Maybe(Thread)

Holds(k, s) ==
  \/ k = <<"slot", None>> /\ s \in slot
  \/ k = <<"reserved", None>> /\ s \in reserved
  \/ k[1] = "ctx" /\ k[2] \in Worker /\ ctx[k[2]] = s
  \/ k[1] = "peer" /\ k[2] \in Thread /\ peer[k[2]] = s
  \/ k[1] = "born" /\ k[2] \in Worker /\ Making(k[2], s)

Holders(s) == {k \in Token : Holds(k, s)}

\* RefCountExact: ctx->ref is the number of references that exist, in every
\* interleaving of grabs, releases, retires and launches: none is leaked and
\* none is released twice.
RefCountExact == \A s \in Service : ref[s] = Cardinality(Holders(s))

\* The places a queue can be: the global queue, a worker's hands, a launch that
\* has not published it, a drop.
Place == {"q", "nq", "born", "drop"} \X Worker

PlacedAt(k, s) ==
  \/ k[1] = "q" /\ q[k[2]] = s
  \/ k[1] = "nq" /\ nq[k[2]] = s
  \/ k[1] = "born" /\ born[k[2]] = s /\ npc[k[2]] \in NPCs \ {"none", "register", "report"}
  \/ k[1] = "drop" /\ dropq[k[2]] = s

InGlobal(s) == \E i \in 1 .. Len(global) : global[i] = s
Held(s) == \E k \in Place : PlacedAt(k, s)

\* OneQueueOnePlace: a message queue is in one place at a time: once in the
\* global queue, or in the hands of one worker; so no two workers serve it and
\* fengnet_globalmq_push never links a queue that is already linked (its
\* assert(queue->next == nullptr)).
OneQueueOnePlace ==
  /\ \A i, j \in 1 .. Len(global) : global[i] = global[j] => i = j
  /\ \A s \in Service, k \in Place : PlacedAt(k, s) => ~ InGlobal(s)
  /\ \A s \in Service, k \in Place : PlacedAt(k, s) => \A l \in Place : PlacedAt(l, s) => k = l

\* NothingStranded: a queue is scheduled exactly when its in_global flag is set
\* or it is marked for release, and a queue with waiting messages always is:
\* no message waits in a queue that no worker will ever look at.
NothingStranded ==
  \A s \in Service : mqlife[s] = "live" =>
    /\ (in_global[s] = 1 \/ release[s]) <=> (InGlobal(s) \/ Held(s))
    /\ mq[s] # <<>> => (in_global[s] = 1 \/ release[s])

\* NoDanglingPointer: no thread, and not the global queue, keeps a pointer to a
\* context or a queue that has been freed while it may still use it.
NoDanglingPointer ==
  /\ \A s \in Service : s \in slot \cup reserved => life[s] = "live"
  /\ \A w \in Worker : ctx[w] # None => life[ctx[w]] = "live"
  /\ \A t \in Thread : peer[t] # None => life[peer[t]] = "live"
  /\ \A s \in Service : life[s] = "live" => mqlife[s] \in {"none", "live"}
  /\ \A s \in Service : InGlobal(s) \/ Held(s) => mqlife[s] = "live"

\* OneDispatcher: a service's callback never runs on two workers at once (the
\* CALLING_CHECK assertion), nor while its init function runs.
OneDispatcher ==
  \A v, w \in Worker :
    /\ v # w /\ pc[v] = "run" /\ pc[w] = "run" => ctx[v] # ctx[w]
    /\ pc[v] = "run" /\ npc[w] \in {"register", "init"} => ctx[v] # born[w]

\* InitBeforeDispatch: assert(ctx->init) in dispatch_message holds: no message
\* reaches a service before its launch has completed.
InitBeforeDispatch == \A w \in Worker : pc[w] = "run" => init[ctx[w]]

\* DispatchedAlone: the callback of a service runs on one worker at a time, and
\* only after its launch has completed.
DispatchedAlone == OneDispatcher /\ InitBeforeDispatch

\* TotalExact: G_NODE.total, which tells every thread to stop when it reaches 0,
\* counts the contexts that exist and are not reserved; so it is 0 only when
\* no callback can still be running for a context that counts.
TotalExact ==
  total = Cardinality({s \in Service : /\ life[s] \in {"live", "dying"}
                                       /\ mqlife[s] # "none"
                                       /\ s \notin reserved})

\* LaunchedContextAlive: the code after the creator's release treats a non-null
\* result as a context it may write and read.
LaunchedContextAlive ==
  \A w \in Worker : npc[w] \in {"ready", "report"} => life[born[w]] # "freed"

\* A retired service that fengnet_harbor_start reserved: the reservation keeps its
\* context, so its queue is never marked and goes round in the global list.
HarborKilled(s) == s \in reserved /\ s \notin slot

\* EveryMessageHandled: a waiting message does not wait for ever: its queue is
\* served until it is empty, or dropped with its service; only a harbor service
\* that was killed keeps what it has.
EveryMessageHandled ==
  \A s \in Service : (mq[s] # <<>>) ~> (mq[s] = <<>> \/ HarborKilled(s))

\* RetiredIsFreed: once a service is out of the handle storage, its context and
\* its queue are eventually freed, whoever was using them, unless it is the harbor.
RetiredIsFreed ==
  \A s \in Service :
    (mqlife[s] # "none" /\ s \notin slot)
      ~> ((life[s] = "freed" /\ mqlife[s] = "freed") \/ HarborKilled(s))
=============================================================================
