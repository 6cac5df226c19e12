--------------------------- MODULE EndlessMonitor ---------------------------
(***************************************************************************)
(* fengnet_monitor.cpp: each worker writes into its own fengnet_monitor    *)
(* what it is serving, before and after every callback, and the monitor    *)
(* thread looks at it every few seconds to find a callback that does not   *)
(* return.  Nothing is locked: the writes of fengnet_monitor_trigger and   *)
(* the reads of fengnet_monitor_check interleave one by one.  The source,  *)
(* which is only printed, is left out.                                     *)
(***************************************************************************)
EXTENDS Integers

CONSTANTS
  Service,      \* the handles that can be served
  Worker,
  MaxMessages,  \* bound: messages dispatched in all
  Zero          \* handle 0

MonitorAssumption ==
  /\ MaxMessages \in Nat
  /\ Zero \notin Service

VARIABLES
  destination, version, check_version,   \* a worker's fengnet_monitor
  endless,      \* ctx->endless of a service
  pc,           \* where a worker is
  target,       \* the service whose message the worker dispatches
  stuck,        \* workers whose callback never returns
  messages,     \* messages dispatched so far
  checker,      \* where the monitor thread is
  checked,      \* the worker it is checking
  handle,       \* the argument of fengnet_context_endless
  recent        \* history: what that worker has served since the check began

vars == <<destination, version, check_version, endless, pc, target, stuck, messages,
          checker, checked, handle, recent>>
workerVars == <<destination, version, pc, target, stuck, messages>>
checkVars  == <<check_version, checker, checked, handle, recent>>
-----------------------------------------------------------------------------
(* A worker; one service is dispatched by one worker at a time (Scheduler) *)

Dispatch(w, s) ==
  /\ pc[w] = "idle"
  /\ messages < MaxMessages
  /\ \A v \in Worker : target[v] # s
  /\ target' = [target EXCEPT ![w] = s]
  /\ pc' = [pc EXCEPT ![w] = "set"]
  /\ messages' = messages + 1
  /\ recent' = IF w = checked THEN recent \cup {s} ELSE recent
  /\ UNCHANGED <<destination, version, endless, stuck, check_version, checker, checked, handle>>

\* Mutant: what was served is not cleared after the callback.
MutWriteDestination(w) ==
  /\ pc[w] \in {"set", "clear"}
  /\ destination' = [destination EXCEPT ![w] = target[w]]
  /\ pc' = [pc EXCEPT ![w] = IF @ = "set" THEN "set_version" ELSE "clear_version"]
  /\ UNCHANGED <<version, endless, target, stuck, messages, checkVars>>

\* fengnet_monitor_trigger: the destination is written ...
WriteDestination(w) ==
  /\ pc[w] \in {"set", "clear"}
  /\ destination' = [destination EXCEPT ![w] = IF pc[w] = "set" THEN target[w] ELSE Zero]
  /\ pc' = [pc EXCEPT ![w] = IF @ = "set" THEN "set_version" ELSE "clear_version"]
  /\ UNCHANGED <<version, endless, target, stuck, messages, checkVars>>

\* ... and then the version incremented.
IncVersion(w) ==
  /\ pc[w] \in {"set_version", "clear_version"}
  /\ version' = [version EXCEPT ![w] = @ + 1]
  /\ \/ /\ pc[w] = "set_version"
        /\ pc' = [pc EXCEPT ![w] = "callback"]
        /\ UNCHANGED target
     \/ /\ pc[w] = "clear_version"
        /\ pc' = [pc EXCEPT ![w] = "idle"]
        /\ target' = [target EXCEPT ![w] = Zero]
  /\ UNCHANGED <<destination, endless, stuck, messages, checkVars>>

Return(w) ==
  /\ pc[w] = "callback" /\ w \notin stuck
  /\ pc' = [pc EXCEPT ![w] = "clear"]
  /\ UNCHANGED <<destination, version, endless, target, stuck, messages, checkVars>>

\* The callback enters an endless loop.
Loop(w) ==
  /\ pc[w] = "callback" /\ w \notin stuck
  /\ stuck' = stuck \cup {w}
  /\ UNCHANGED <<destination, version, endless, pc, target, messages, checkVars>>

\* STAT endless, called by the service: reports the flag and clears it.
StatEndless(w) ==
  /\ pc[w] = "callback" /\ w \notin stuck
  /\ endless[target[w]]
  /\ endless' = [endless EXCEPT ![target[w]] = FALSE]
  /\ UNCHANGED <<workerVars, checkVars>>
-----------------------------------------------------------------------------
(* fengnet_monitor_check, of one worker after the other *)

Check(w) ==
  /\ checker = "next"
  /\ checked' = w
  /\ checker' = "compare"
  /\ recent' = {target[w]} \ {Zero}
  /\ UNCHANGED <<workerVars, endless, check_version, handle>>

\* Mutant: a version that has not changed since the last check is accepted.
MutCompare ==
  /\ checker = "compare"
  /\ checker' = "save"
  /\ UNCHANGED <<workerVars, endless, check_version, checked, handle, recent>>

Compare ==
  /\ checker = "compare"
  /\ checker' = IF version[checked] = check_version[checked] THEN "test" ELSE "save"
  /\ UNCHANGED <<workerVars, endless, check_version, checked, handle, recent>>

\* The version is read again to be saved.
Save ==
  /\ checker = "save"
  /\ check_version' = [check_version EXCEPT ![checked] = version[checked]]
  /\ checker' = "next"
  /\ UNCHANGED <<workerVars, endless, checked, handle, recent>>

TestDestination ==
  /\ checker = "test"
  /\ \/ /\ destination[checked] # Zero
        /\ checker' = "mark"
     \/ /\ destination[checked] = Zero
        /\ checker' = "next"
  /\ UNCHANGED <<workerVars, endless, check_version, checked, handle, recent>>

\* The argument of fengnet_context_endless: sm->destination, read again, perhaps 0 by
\* now or another than the one tested.
ReadDestination ==
  /\ checker = "mark"
  /\ handle' = destination[checked]
  /\ checker' = "endless"
  /\ UNCHANGED <<workerVars, endless, check_version, checked, recent>>

\* The context of that handle is marked, whoever serves it by now; 0 finds none.
fengnet_context_endless ==
  /\ checker = "endless"
  /\ endless' = [s \in Service |-> s = handle \/ endless[s]]
  /\ checker' = "next"
  /\ handle' = Zero
  /\ UNCHANGED <<workerVars, check_version, checked, recent>>
-----------------------------------------------------------------------------
\* fengnet_monitor_new.
Init ==
  /\ destination = [w \in Worker |-> Zero]
  /\ version = [w \in Worker |-> 0]
  /\ check_version = [w \in Worker |-> 0]
  /\ endless = [s \in Service |-> FALSE]
  /\ pc = [w \in Worker |-> "idle"]
  /\ target = [w \in Worker |-> Zero]
  /\ stuck = {}
  /\ messages = 0
  /\ checker = "next"
  /\ checked \in Worker /\ handle = Zero /\ recent = {}

Trigger(w) == WriteDestination(w) \/ IncVersion(w)
Checking == Compare \/ Save \/ TestDestination \/ ReadDestination \/ fengnet_context_endless

Next ==
  \/ \E w \in Worker, s \in Service : Dispatch(w, s)
  \/ \E w \in Worker : Trigger(w) \/ Return(w) \/ Loop(w) \/ StatEndless(w) \/ Check(w)
  \/ Checking

Spec == Init /\ [][Next]_vars

\* Workers go on, and the monitor thread checks each worker again and again.
FairSpec ==
  /\ Spec
  /\ \A w \in Worker : WF_vars(Trigger(w)) /\ SF_vars(Check(w))
  /\ WF_vars(Checking)
-----------------------------------------------------------------------------
\* TypeOK: the fields have the types of struct fengnet_monitor.
TypeOK ==
  /\ destination \in [Worker -> Service \cup {Zero}]
  /\ version \in [Worker -> Nat]
  /\ check_version \in [Worker -> Nat]
  /\ endless \in [Service -> BOOLEAN]
  /\ pc \in [Worker -> {"idle", "set", "set_version", "callback", "clear", "clear_version"}]
  /\ target \in [Worker -> Service \cup {Zero}]
  /\ stuck \subseteq Worker
  /\ messages \in 0 .. MaxMessages
  /\ checker \in {"next", "compare", "save", "test", "mark", "endless"}
  /\ checked \in Worker /\ handle \in Service \cup {Zero} /\ recent \subseteq Service

\* OnlyServedIsMarked: a service is marked endless only if the worker that is checked
\* has dispatched a message to it since the check of it began, whatever is read in
\* between.  The message may have been handled before the mark is set.
OnlyServedIsMarked ==
  [][ \A s \in Service : (~ endless[s] /\ endless'[s]) => s \in recent ]_vars

\* LoopIsFound: a callback that does not return is reported in the end.
LoopIsFound ==
  \A w \in Worker, s \in Service : (w \in stuck /\ target[w] = s) ~> endless[s]

\* MonitorExact: the monitor finds every loop, and marks no service that the worker it
\* checks has not served meanwhile.
MonitorExact == []TypeOK /\ OnlyServedIsMarked /\ LoopIsFound

=============================================================================
