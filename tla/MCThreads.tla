------------------------------ MODULE MCThreads ------------------------------
(***************************************************************************)
(* The worker pool (extended) and the endless-loop monitor in one run with *)
(* fairness; the variable part names the one that moves.                   *)
(***************************************************************************)
EXTENDS WorkerPool

CONSTANTS Service, MaxMessages, Zero

VARIABLES
  part,
  destination, version, check_version, endless, pc, target, stuck, messages, checker, checked,
  handle, recent

mvars == <<destination, version, check_version, endless, pc, target, stuck, messages,
           checker, checked, handle, recent>>

M == INSTANCE EndlessMonitor

ASSUME M!MonitorAssumption

MCInit == part \in {"pool", "monitor"} /\ Init /\ M!Init

MCNext ==
  /\ \/ part = "pool" /\ Next /\ UNCHANGED mvars
     \/ part = "monitor" /\ M!Next /\ UNCHANGED vars
  /\ UNCHANGED part

\* The fairness of the part that moves: FairSpec of WorkerPool and EndlessMonitor.
MCSpec ==
  /\ MCInit
  /\ [][MCNext]_<<part, vars, mvars>>
  /\ \A w \in Worker :
       /\ WF_vars(part = "pool" /\ WorkerStep(w))
       /\ SF_vars(part = "pool" /\ SleepBegin(w))
       /\ SF_vars(part = "pool" /\ Wake(w))
       /\ WF_mvars(part = "monitor" /\ M!Trigger(w))
       /\ SF_mvars(part = "monitor" /\ M!Check(w))
  /\ WF_vars(part = "pool" /\ TimerStep) /\ SF_vars(part = "pool" /\ TimerQuit)
  /\ WF_vars(part = "pool" /\ SocketWakeup)
  /\ WF_vars(part = "pool" /\ xcmd /\ SocketExit)
  /\ WF_vars(part = "pool" /\ MonitorExit)
  /\ WF_mvars(part = "monitor" /\ M!Checking)

-----------------------------------------------------------------------------
\* Work that is scheduled is taken in the end, or the process quits: no wake-up
\* of fengnet_start.cpp is lost.
PoolServesWork == (part = "pool" /\ work > 0) ~> (work = 0 \/ quit = 1)

\* A callback that does not return is reported by fengnet_monitor_check in the end,
\* and a service is marked only if the worker it checks has served it meanwhile.
MonitorExact == M!MonitorExact

=============================================================================
