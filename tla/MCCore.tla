------------------------------- MODULE MCCore -------------------------------
(***************************************************************************)
(* The components inside one node, which share no state, in one run: the   *)
(* message queue and the other parts of the C core, the Lua runtime of a   *)
(* service, and the services and libraries built on it.  The variable part *)
(* names the one that moves; the others stay as they begin, so the run     *)
(* visits the sum of their states.  Parts with theorems are extended; of   *)
(* the rest, variables and constants that two parts call by one name are   *)
(* told apart by INSTANCE.                                                 *)
(***************************************************************************)
EXTENDS MessageQueue, LuaSignal, CriticalSection, Stm, Multicast, UniqueService, ServiceProvider,
        DataCenter, ModuleLoader

CONSTANTS
  Event, Client, Ticker, TIME_NEAR_SHIFT, TIME_LEVEL_SHIFT,                     \* Timer
  Context, Name, DEFAULT_SLOT_SIZE, HANDLE_MASK, MaxLaunching, MaxSlotSize,    \* HandleStorage
  Caller, File, NoFile,                                                        \* LogFile
  Peer, MaxSession, MaxRequest, MaxOps,                                        \* LuaService
  ZoneSize, ZoneLow, MaxPending, MaxLaps,                                      \* its sessions
  MaxObj, MaxBox, MaxQuery                                                     \* ShareData

\* Services with an even number are at home at the first node.
AtNode(x) == IF x % 2 = 1 THEN 2 ELSE 1

VARIABLES
  part,
  time, wheel, expire, timeout, lock, tpc, arg, batch, due,
  slot, slot_size, handle_index, handle, state, given, freed, strayed, clash, name,
  logfile, open, pc, f, registered, life, stale, twice,
  last, pending, zone, reused, laps, blind,
  co, session_id_coroutine, session_coroutine_id, session_coroutine_address, watching_session,
  sleep_session, wakeup_queue, error_queue, fork_queue, unresponse, session, mode, running,
  asleep, from, replies, down, unknown, killed, silent, ops,
  pool, objmap, sref, dirty, watch, made, boxes, cache, sd_mail, back, garbage, lost, asks,
  forgotten

tvars == <<time, wheel, expire, timeout, lock, tpc, arg, batch, due>>
hvars == <<slot, slot_size, handle_index, handle, state, given, freed, strayed, clash, name>>
fvars == <<logfile, open, pc, f, registered, life, stale, twice>>
zvars == <<last, pending, zone, reused, laps, blind>>
vvars == <<co, session_id_coroutine, session_coroutine_id, session_coroutine_address,
           watching_session, sleep_session, wakeup_queue, error_queue, fork_queue, unresponse,
           session, mode, running, asleep, from, replies, down, unknown, killed, silent, ops>>
dvars == <<pool, objmap, sref, dirty, watch, made, boxes, cache, sd_mail, back, garbage, lost,
           asks, forgotten>>

T == INSTANCE Timer WITH Node <- Event, state <- timeout, pc <- tpc
H == INSTANCE HandleStorage
F == INSTANCE LogFile
V == INSTANCE LuaService WITH due <- asleep, LastSession <- 9, clash <- reused
D == INSTANCE ShareData WITH Reader <- {1}, mail <- sd_mail

ASSUME
  /\ T!TimerAssumption /\ H!HandleAssumption /\ F!LogFileAssumption /\ LoaderAssumption
  /\ V!SessionAssumption /\ SignalAssumption /\ SectionAssumption /\ UniqueAssumption
  /\ ProviderAssumption /\ D!ShareAssumption /\ MulticastAssumption /\ DataAssumption

MCInit ==
  /\ part \in {"queue", "timer", "handles", "log", "loader", "sessions", "service", "signal",
               "section", "launcher", "provider", "stm", "sharedata", "multicast", "datacenter"}
  /\ Init /\ T!Init /\ H!Init /\ F!Init /\ LoaderInit /\ V!ZoneInit /\ V!Init /\ SignalInit
  /\ SectionInit /\ UniqueInit /\ ProviderInit /\ StmInit /\ D!Init /\ MulticastInit /\ DataInit

MCNext ==
  /\ part' = part
  /\ (part = "queue"      /\ Next)          \/ (part # "queue"      /\ UNCHANGED vars)
  /\ (part = "timer"      /\ T!Next)        \/ (part # "timer"      /\ UNCHANGED tvars)
  /\ (part = "handles"    /\ H!Next)        \/ (part # "handles"    /\ UNCHANGED hvars)
  /\ (part = "log"        /\ F!Next)        \/ (part # "log"        /\ UNCHANGED fvars)
  /\ (part = "loader"     /\ LoaderNext)    \/ (part # "loader"     /\ UNCHANGED loaderVars)
  /\ (part = "sessions"   /\ V!ZoneNext)        \/ (part # "sessions"   /\ UNCHANGED zvars)
  /\ (part = "service"    /\ V!Next)        \/ (part # "service"    /\ UNCHANGED vvars)
  /\ (part = "signal"     /\ SignalNext)    \/ (part # "signal"     /\ UNCHANGED signalVars)
  /\ (part = "section"    /\ SectionNext)   \/ (part # "section"    /\ UNCHANGED sectionVars)
  /\ (part = "launcher"   /\ UniqueNext)    \/ (part # "launcher"   /\ UNCHANGED uniqueVars)
  /\ (part = "provider"   /\ ProviderNext)  \/ (part # "provider"   /\ UNCHANGED providerVars)
  /\ (part = "stm"        /\ StmNext)       \/ (part # "stm"        /\ UNCHANGED stmVars)
  /\ (part = "sharedata"  /\ D!Next)        \/ (part # "sharedata"  /\ UNCHANGED dvars)
  /\ (part = "multicast"  /\ MulticastNext) \/ (part # "multicast"  /\ UNCHANGED multicastVars)
  /\ (part = "datacenter" /\ DataNext)      \/ (part # "datacenter" /\ UNCHANGED dataVars)

MCSpec ==
  MCInit /\ [][MCNext]_<<part, vars, tvars, hvars, fvars, loaderVars, zvars, vvars, signalVars,
                         sectionVars, uniqueVars, providerVars, stmVars, dvars, multicastVars,
                         dataVars>>

-----------------------------------------------------------------------------
\* A timeout reaches dispatch_list at exactly the tick it was asked for, through
\* every carry of the wheel and the wrap of time, and is in one list until then.
TimeoutsExact == part = "timer" => T!TimeoutsExact

\* A registered context sits alone in the slot its handle hashes to, and a retired
\* one in none, so fengnet_handle_grab finds exactly the live ones, but for those whose
\* handle was not in their memory when the table grew.  The file a live context points
\* to is open, however LOGON, LOGOFF and a retire race, until a file is closed twice.
ContextsExact ==
  /\ part = "handles" => H!HandlesExact
  /\ part = "log" => F!LogFileExact

\* The bisection of fengnet_handle_findname answers what a linear search would,
\* and a handle that is retired has no name any more.
NamesExact == H!NamesExact

\* The coroutines of a Lua service: above the first two, a session number that
\* one waits for is not given out again; a request is answered at most once, and
\* by a service that exits, at least once; one that waits can still be resumed,
\* an answer finds it, and none is left to be woken between two messages.  One
\* at a time is in a critical section, and a section others wait for is held by
\* one that will leave it.
CoroutinesExact ==
  /\ part = "sessions" => V!UniqueAboveTwo
  /\ part = "service" =>
       /\ V!AtMostOneReply /\ V!ExitAnswersAll
       /\ V!NobodyForgotten /\ V!QueuesDrained /\ V!AnswersAreKnown
  /\ part = "section" => Exclusive /\ HeldByLiving

\* The objects of sharedata are counted for everyone who can touch them, and who
\* waits for a change hears of it.
SharedExact == part = "sharedata" => D!RefsExact /\ D!NoFreedObject /\ D!UpToDate

=============================================================================
