----------------------------- MODULE LuaSignal -----------------------------
(***************************************************************************)
(* How signal 0 interrupts the Lua code of a service (service_snlua.cpp):  *)
(* any thread may call snlua_signal while a worker runs the service's      *)
(* coroutines.  trap goes from 0 to 1 to -1 and, when the hook runs in the *)
(* worker, back to 0.  Loads and stores take effect in program order.      *)
(***************************************************************************)
EXTENDS Integers, Sequences, FiniteSets, TLAPS

CONSTANTS
  Coroutine,          \* coroutines
  Main,        \* the main state L
  Signaler,    \* threads in snlua_signal
  MaxResumes,  \* bound: coroutines resumed
  MaxSignals,  \* bound: calls of snlua_signal
  NoState

SignalAssumption == NoState \notin Coroutine \cup {Main} /\ {MaxResumes, MaxSignals} \subseteq Nat

VARIABLES
  trap, activeL,
  hook,        \* the states with signal_hook set
  stack,       \* the states the worker has resumed, the running one last
  wpc,         \* the worker: "run", "active" or "trap" (switchL), "wait" (lua_resumeX)
  next,        \* the state switchL was given
  spc, seen,   \* a signaler's step, the activeL it read
  resumes, signals,
  taken, errors  \* signals that set the trap, errors raised in the Lua code

signalVars == <<trap, activeL, hook, stack, wpc, next, spc, seen, resumes, signals, taken, errors>>
signaling == <<spc, seen, signals, taken>>

Running == stack[Len(stack)]

-----------------------------------------------------------------------------
\* The worker.

\* Mutant: switchL looks at the trap before it says which state is active.
MutSwitchSteps == <<"trap", "active">>

\* The order of the two halves of switchL.
SwitchSteps == <<"active", "trap">>

AfterSwitch(step) == IF step = SwitchSteps[1] THEN SwitchSteps[2] ELSE "run"

\* lua_resumeX up to the call of lua_resume
lua_resumeX(co) ==
  /\ wpc = "run" /\ resumes < MaxResumes
  /\ \A i \in 1 .. Len(stack) : stack[i] # co
  /\ resumes' = resumes + 1
  /\ stack' = Append(stack, co) /\ next' = co /\ wpc' = SwitchSteps[1]
  /\ UNCHANGED <<trap, activeL, hook, signaling, errors>>

\* lua_resume returns: the coroutine yielded or ended
Return ==
  /\ wpc = "run" /\ Len(stack) > 1
  /\ wpc' = IF trap # 0 THEN "wait" ELSE SwitchSteps[1]
  /\ stack' = SubSeq(stack, 1, Len(stack) - 1)
  /\ next' = stack[Len(stack) - 1]
  /\ UNCHANGED <<trap, activeL, hook, signaling, resumes, errors>>

\* Wait for lua_sethook.
Wait ==
  /\ wpc = "wait" /\ trap < 0
  /\ wpc' = SwitchSteps[1]
  /\ UNCHANGED <<trap, activeL, hook, stack, next, signaling, resumes, errors>>

SwitchActive ==
  /\ wpc = "active"
  /\ activeL' = next
  /\ wpc' = AfterSwitch("active")
  /\ UNCHANGED <<trap, hook, stack, next, signaling, resumes, errors>>

SwitchTrap ==
  /\ wpc = "trap"
  /\ hook' = IF trap # 0 THEN hook \cup {next} ELSE hook
  /\ wpc' = AfterSwitch("trap")
  /\ UNCHANGED <<trap, activeL, stack, next, signaling, resumes, errors>>

\* Mutant: the hook raises its error whoever has reset the trap.
MutRaises == TRUE

\* Whether the hook raises an error.
Raises == trap # 0

\* signal_hook, at the next instruction of the running state; the code may catch
\* the error and run on.
signal_hook ==
  /\ wpc = "run" /\ Running \in hook
  /\ hook' = hook \ {Running}
  /\ trap' = 0
  /\ errors' = errors + IF Raises THEN 1 ELSE 0
  /\ UNCHANGED <<activeL, stack, wpc, next, signaling, resumes>>

-----------------------------------------------------------------------------
\* snlua_signal with signal 0

Begin(s) ==
  /\ spc[s] = "idle" /\ signals < MaxSignals
  /\ signals' = signals + 1
  /\ spc' = [spc EXCEPT ![s] = IF trap = 0 THEN "set" ELSE "idle"]
  /\ UNCHANGED <<trap, activeL, hook, stack, wpc, next, seen, resumes, taken, errors>>

\* Only one thread can set trap, 0 to 1.
SetTrap(s) ==
  /\ spc[s] = "set"
  /\ IF trap = 0
     THEN /\ trap' = 1 /\ taken' = taken + 1
          /\ spc' = [spc EXCEPT ![s] = "read"]
     ELSE /\ spc' = [spc EXCEPT ![s] = "idle"]
          /\ UNCHANGED <<trap, taken>>
  /\ UNCHANGED <<activeL, hook, stack, wpc, next, seen, resumes, signals, errors>>

\* The argument of lua_sethook.
ReadActive(s) ==
  /\ spc[s] = "read"
  /\ seen' = [seen EXCEPT ![s] = activeL]
  /\ spc' = [spc EXCEPT ![s] = "hook"]
  /\ UNCHANGED <<trap, activeL, hook, stack, wpc, next, resumes, signals, taken, errors>>

SetHook(s) ==
  /\ spc[s] = "hook"
  /\ hook' = hook \cup {seen[s]}
  /\ spc' = [spc EXCEPT ![s] = "finish"]
  /\ UNCHANGED <<trap, activeL, stack, wpc, next, seen, resumes, signals, taken, errors>>

\* Mutant: the trap stays at 1.
MutFinished == trap

\* The trap after the exchange of 1 for -1.
Finished == IF trap = 1 THEN -1 ELSE trap

Finish(s) ==
  /\ spc[s] = "finish"
  /\ trap' = Finished
  /\ spc' = [spc EXCEPT ![s] = "idle"]
  /\ seen' = [seen EXCEPT ![s] = NoState]
  /\ UNCHANGED <<activeL, hook, stack, wpc, next, resumes, signals, taken, errors>>

-----------------------------------------------------------------------------
\* A service that has resumed a coroutine before: activeL is NULL until then.
SignalInit ==
  /\ trap = 0 /\ activeL = Main /\ hook = {} /\ stack = <<Main>>
  /\ wpc = "run" /\ next = Main
  /\ spc = [s \in Signaler |-> "idle"] /\ seen = [s \in Signaler |-> NoState]
  /\ resumes = 0 /\ signals = 0 /\ taken = 0 /\ errors = 0

SignalNext ==
  \/ Return \/ Wait \/ SwitchActive \/ SwitchTrap \/ signal_hook
  \/ \E co \in Coroutine : lua_resumeX(co)
  \/ \E s \in Signaler : Begin(s) \/ SetTrap(s) \/ ReadActive(s) \/ SetHook(s) \/ Finish(s)

SignalSpec == SignalInit /\ [][SignalNext]_signalVars

-----------------------------------------------------------------------------
\* A worker that waits for the hook to be set waits for a thread that is about
\* to finish: the loop in lua_resumeX ends.
SpinEnds == trap = 1 => \E s \in Signaler : spc[s] \in {"read", "hook", "finish"}

\* A signal that was taken interrupts the code that runs: once its thread has
\* finished, the running state has the hook, however the worker switched between
\* coroutines meanwhile.
Interrupts ==
  trap # 0 /\ wpc = "run" /\ (\A s \in Signaler : spc[s] \in {"idle", "set"}) => Running \in hook

\* A signal raises at most one error; hooks left in other coroutines are silent.
OneErrorPerSignal == errors <= taken

\* A worker that spins for a signal's hook waits for a thread that will set it; a
\* signal that was taken interrupts the code that runs, with one error.
SignalExact == SpinEnds /\ Interrupts /\ OneErrorPerSignal

-----------------------------------------------------------------------------
(* SignalExact for any number of signaling threads and of coroutines,      *)
(* resumed in any nesting.                                                 *)

\* The fields keep their types, and the worker runs some state.
SignalTyped ==
  /\ trap \in {-1, 0, 1}
  /\ stack \in Seq(Coroutine \cup {Main}) /\ Len(stack) > 0
  /\ activeL \in Coroutine \cup {Main} /\ next \in Coroutine \cup {Main}
  /\ wpc \in {"run", "active", "trap", "wait"}
  /\ spc \in [Signaler -> {"idle", "set", "read", "hook", "finish"}]
  /\ seen \in [Signaler -> Coroutine \cup {Main, NoState}]
  /\ taken \in Nat /\ errors \in Nat

\* switchL was given the state that runs next, which is active once it is done.
Switched ==
  /\ wpc # "run" => next = Running
  /\ wpc \in {"trap", "run"} => activeL = Running

\* While the trap is set, the running state has the hook, or a signaler will give it.
Pending ==
  trap # 0 /\ wpc = "run" =>
    \/ Running \in hook
    \/ \E s \in Signaler : spc[s] = "read" \/ (spc[s] = "hook" /\ seen[s] = Running)

\* A trap that is set has been paid for by a signal, and no error for it yet.
SignalsCounted == errors + (IF trap = 0 THEN 0 ELSE 1) <= taken

\* The inductive invariant.
GInv == SignalTyped /\ Switched /\ Pending /\ SpinEnds /\ SignalsCounted

-----------------------------------------------------------------------------
LEMMA GInvInit == ASSUME SignalInit PROVE GInv
  BY DEF SignalInit, GInv, SignalTyped, Switched, Pending, SpinEnds, SignalsCounted, Running

\* The steps of the worker
LEMMA ResumeKeeps == ASSUME GInv, NEW co \in Coroutine, lua_resumeX(co) PROVE GInv'
<1> USE DEF GInv, lua_resumeX, SwitchSteps
<1>1. stack' \in Seq(Coroutine \cup {Main}) /\ Len(stack') > 0 /\ Running' = co
  BY DEF SignalTyped, Running
<1>2. wpc' = "active"
  OBVIOUS
<1> QED BY <1>1, <1>2 DEF SignalTyped, Switched, Pending, SpinEnds, SignalsCounted, signaling

LEMMA ReturnKeeps == ASSUME GInv, Return PROVE GInv'
<1> USE DEF GInv, Return, SwitchSteps
<1>1. /\ stack' \in Seq(Coroutine \cup {Main}) /\ Len(stack') = Len(stack) - 1
      /\ Len(stack') > 0 /\ Running' = stack[Len(stack) - 1]
      /\ stack[Len(stack) - 1] \in Coroutine \cup {Main}
  BY DEF SignalTyped, Running
<1>2. wpc' \in {"active", "wait"}
  OBVIOUS
<1> QED BY <1>1, <1>2 DEF SignalTyped, Switched, Pending, SpinEnds, SignalsCounted, signaling

LEMMA WaitKeeps == ASSUME GInv, Wait PROVE GInv'
  BY DEF GInv, Wait, SwitchSteps, SignalTyped, Switched, Pending, SpinEnds, SignalsCounted,
         Running, signaling

LEMMA SwitchActiveKeeps == ASSUME GInv, SwitchActive PROVE GInv'
<1>1. wpc' = "trap" /\ next = Running
  BY DEF GInv, Switched, SwitchActive, AfterSwitch, SwitchSteps
<1> QED BY <1>1 DEF GInv, SwitchActive, SignalTyped, Switched, Pending, SpinEnds,
                    SignalsCounted, Running, signaling

LEMMA SwitchTrapKeeps == ASSUME GInv, SwitchTrap PROVE GInv'
<1>1. wpc' = "run" /\ next = Running /\ activeL = Running
  BY DEF GInv, Switched, SwitchTrap, AfterSwitch, SwitchSteps
<1> QED BY <1>1 DEF GInv, SwitchTrap, SignalTyped, Switched, Pending, SpinEnds,
                    SignalsCounted, Running, signaling

LEMMA HookKeeps == ASSUME GInv, signal_hook PROVE GInv'
<1>1. errors' = (IF trap = 0 THEN errors ELSE errors + 1) /\ trap' = 0
  BY DEF signal_hook, Raises, GInv, SignalTyped
<1> QED BY <1>1 DEF GInv, signal_hook, SignalTyped, Switched, Pending, SpinEnds,
                    SignalsCounted, Running, signaling

\* The steps of a signaler
LEMMA BeginKeeps == ASSUME GInv, NEW s \in Signaler, Begin(s) PROVE GInv'
  BY DEF GInv, Begin, SignalTyped, Switched, Pending, SpinEnds, SignalsCounted, Running

LEMMA SetTrapKeeps == ASSUME GInv, NEW s \in Signaler, SetTrap(s) PROVE GInv'
<1>1. CASE trap = 0
  <2>1. trap' = 1 /\ taken' = taken + 1 /\ spc' = [spc EXCEPT ![s] = "read"]
    BY <1>1 DEF SetTrap
  <2>2. spc'[s] = "read"
    BY <2>1 DEF GInv, SignalTyped
  <2> QED BY <1>1, <2>1, <2>2
          DEF GInv, SetTrap, SignalTyped, Switched, Pending, SpinEnds, SignalsCounted, Running
<1>2. CASE trap # 0
  BY <1>2 DEF GInv, SetTrap, SignalTyped, Switched, Pending, SpinEnds, SignalsCounted, Running
<1> QED BY <1>1, <1>2

LEMMA ReadActiveKeeps == ASSUME GInv, NEW s \in Signaler, ReadActive(s) PROVE GInv'
  BY DEF GInv, ReadActive, SignalTyped, Switched, Pending, SpinEnds, SignalsCounted, Running

LEMMA SetHookKeeps == ASSUME GInv, NEW s \in Signaler, SetHook(s) PROVE GInv'
  BY DEF GInv, SetHook, SignalTyped, Switched, Pending, SpinEnds, SignalsCounted, Running

LEMMA FinishKeeps == ASSUME GInv, NEW s \in Signaler, Finish(s) PROVE GInv'
  BY DEF GInv, Finish, Finished, SignalTyped, Switched, Pending, SpinEnds, SignalsCounted, Running

LEMMA GInvNext == ASSUME GInv, [SignalNext]_signalVars PROVE GInv'
<1>1. CASE SignalNext
  BY <1>1, ResumeKeeps, ReturnKeeps, WaitKeeps, SwitchActiveKeeps, SwitchTrapKeeps, HookKeeps,
     BeginKeeps, SetTrapKeeps, ReadActiveKeeps, SetHookKeeps, FinishKeeps DEF SignalNext
<1>2. CASE UNCHANGED signalVars
  BY <1>2 DEF signalVars, GInv, SignalTyped, Switched, Pending, SpinEnds, SignalsCounted, Running
<1> QED BY <1>1, <1>2

-----------------------------------------------------------------------------
\* A worker that spins in lua_resumeX waits for a thread that is about to end the
\* spin; a signal that was taken interrupts the code that runs, however coroutines
\* are resumed and return meanwhile; and it raises one error at most.
THEOREM SignalsInterrupt == SignalSpec => []SignalExact
<1>1. GInv => SignalExact
  BY DEF GInv, SignalTyped, Pending, SignalsCounted, SignalExact, SpinEnds, Interrupts,
         OneErrorPerSignal
<1> QED BY <1>1, GInvInit, GInvNext, PTL DEF SignalSpec

=============================================================================
