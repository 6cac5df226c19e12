----------------------------- MODULE LuaService -----------------------------
(***************************************************************************)
(* The runtime of one Lua service (fengnet.lua): the coroutines that serve *)
(* requests, the sessions they wait for, and the queues of coroutines to   *)
(* be woken, failed or started that are emptied before the next message.   *)
(* A coroutine runs alone until it yields; what its code does is any       *)
(* sequence of the runtime's calls.  Peers answer a session once, with a   *)
(* response or an error; a peer that goes down answers everything with     *)
(* errors and sends session 0 to those it was calling.  Tracing, packing   *)
(* are left out; the danger zone of session numbers is at the end.         *)
(***************************************************************************)
EXTENDS Integers, Sequences, FiniteSets, SequencesExt

CONSTANTS
  Co,           \* coroutines; one that is closed is not used again
  Peer,         \* other services
  MaxSession,   \* bound: sessions
  MaxRequest,   \* bound: requests that want an answer
  MaxOps,       \* bound: runtime calls by user code
  None

Session == 1 .. MaxSession
Request == 1 .. MaxRequest
Break == "BREAK"
Blocked == {"call", "sleep", "wait", "start"}

VARIABLES
  co,                     \* per coroutine: where it is, and the session it waits for
  session_id_coroutine,   \* per session: a coroutine, Break or None
  session_coroutine_id,   \* per coroutine: the request it serves, 0 for a send, or None
  session_coroutine_address,   \* the coroutines that have an entry, until they end
  watching_session,       \* per session: the peer that is called, or None
  sleep_session,          \* per token (a coroutine): the session it sleeps on, or 0
  wakeup_queue, error_queue, fork_queue,
  unresponse,             \* requests whose answer was put off with fengnet.response
  session,                \* the last session
  mode, running,          \* "idle", "run", "wakeup", "fork" or "quit"; the running coroutine
  due,                    \* per session: who will answer, or None
  from,                   \* per request: the peer that sent it, or None
  replies,                \* per request: answers sent
  down,                   \* peers known to be gone
  unknown, killed,        \* sessions: answered in vain; killed in their sleep
  silent,                 \* requests whose coroutine ended without an answer
  ops

queues == <<wakeup_queue, error_queue, fork_queue>>
served == <<session_coroutine_id, session_coroutine_address>>
tables == <<session_id_coroutine, served, watching_session, sleep_session, unresponse>>
world == <<due, from, down>>
ghosts == <<unknown, killed, silent>>
vars == <<co, tables, queues, session, mode, running, world, replies, ghosts, ops>>

Free == {c \in Co : co[c].pc = "free"}
\* co_create: a coroutine of the pool, or a new one.
Created == {c \in Free : c = CHOOSE d \in Free : TRUE}

\* coroutine_resume, and what follows the yield in yield_call, sleep and wait;
\* table is session_id_coroutine so far.
Resume(c, table) ==
  LET s == co[c].s
      was == co[c].pc
  IN /\ co' = [co EXCEPT ![c] = [pc |-> "run", s |-> 0]]
     /\ running' = c /\ mode' = "run"
     /\ session_id_coroutine' = IF was = "wait" THEN [table EXCEPT ![s] = None] ELSE table
     /\ watching_session' = IF was = "call" THEN [watching_session EXCEPT ![s] = None]
                            ELSE watching_session
     /\ sleep_session' = IF was \in {"sleep", "wait"} THEN [sleep_session EXCEPT ![c] = 0]
                         ELSE sleep_session

Answer(q) == replies' = [r \in Request |-> IF r \in q THEN replies[r] + 1 ELSE replies[r]]

-----------------------------------------------------------------------------
(* Messages: raw_dispatch_message, one at a time.                          *)

\* The timer or a peer answers a session.
Response(s) ==
  /\ mode = "idle" /\ due[s] # None
  /\ due[s] \notin down
  /\ due' = [due EXCEPT ![s] = None]
  /\ LET c == session_id_coroutine[s]
         table == [session_id_coroutine EXCEPT ![s] = None]
     IN \/ /\ c \in Co
           /\ Resume(c, table)
           /\ UNCHANGED unknown
        \/ /\ c \notin Co
           /\ session_id_coroutine' = table
           /\ unknown' = IF c = None THEN unknown \cup {s} ELSE unknown
           /\ UNCHANGED <<co, running, mode, watching_session, sleep_session>>
  /\ UNCHANGED <<served, unresponse, queues, session, from, down, replies,
                 killed, silent, ops>>

\* Mutant: the error of a call is dropped.
MutCaptured(s) == error_queue

\* The error of a session that is watched is to reach its caller.
Captured(s) == IF watching_session[s] # None THEN Append(error_queue, s) ELSE error_queue

\* _error_dispatch for one session, in a coroutine that then ends.
ErrorResponse(s) ==
  /\ mode = "idle" /\ due[s] \in Peer
  /\ due' = [due EXCEPT ![s] = None]
  /\ error_queue' = Captured(s)
  /\ mode' = "wakeup"
  /\ UNCHANGED <<co, tables, wakeup_queue, fork_queue, session, running, from, down, replies,
                 ghosts, ops>>

\* _error_dispatch for session 0: the peer is down.  pairs has no order.
PeerDown(p) ==
  /\ mode = "idle" /\ p \notin down
  /\ down' = down \cup {p}
  /\ unresponse' = {q \in unresponse : from[q] # p}
  /\ \E order \in SetToSeqs({s \in Session : watching_session[s] = p}) :
       error_queue' = error_queue \o order
  /\ mode' = "wakeup"
  /\ UNCHANGED <<co, session_id_coroutine, served, watching_session, sleep_session,
                 wakeup_queue, fork_queue, session, running, due, from, replies, ghosts, ops>>

\* A request is served by a coroutine of its own; q = 0 wants no answer.
Serve(p, q) ==
  /\ mode = "idle" /\ p \notin down
  /\ q # 0 => q = Cardinality({r \in Request : from[r] # None}) + 1
  /\ \E c \in Created :
       /\ co' = [co EXCEPT ![c].pc = "run"]
       /\ session_coroutine_id' = [session_coroutine_id EXCEPT ![c] = q]
       /\ session_coroutine_address' = session_coroutine_address \cup {c}
       /\ running' = c
  /\ from' = [r \in Request |-> IF r = q THEN p ELSE from[r]]
  /\ mode' = "run"
  /\ UNCHANGED <<session_id_coroutine, watching_session, sleep_session, unresponse, queues,
                 session, due, down, replies, ghosts, ops>>

-----------------------------------------------------------------------------
(* The queues, emptied whenever a coroutine yields.                        *)

\* Mutant: a coroutine is resumed with the session still in its name.
MutBreak(s) == [session_id_coroutine EXCEPT ![s] = None]

\* A woken session's timer is still to come: its answer is to be dropped.
BreakSession(s) == [session_id_coroutine EXCEPT ![s] = Break]

\* dispatch_wakeup: a token whose coroutine no longer sleeps is skipped.
dispatch_wakeup ==
  /\ mode = "wakeup" /\ wakeup_queue # <<>>
  /\ wakeup_queue' = Tail(wakeup_queue)
  /\ LET s == sleep_session[Head(wakeup_queue)]
     IN \/ /\ s # 0
           /\ Resume(session_id_coroutine[s], BreakSession(s))
        \/ /\ s = 0
           /\ UNCHANGED <<co, running, mode, session_id_coroutine, watching_session, sleep_session>>
  /\ UNCHANGED <<served, unresponse, error_queue, fork_queue, session, world,
                 replies, ghosts, ops>>

\* dispatch_error_queue; resuming what is not a coroutine any more is an error
\* that ends the dispatch.
dispatch_error_queue ==
  /\ mode = "wakeup" /\ wakeup_queue = <<>> /\ error_queue # <<>>
  /\ error_queue' = Tail(error_queue)
  /\ LET s == Head(error_queue)
         table == [session_id_coroutine EXCEPT ![s] = None]
     IN \/ /\ session_id_coroutine[s] \in Co
           /\ Resume(session_id_coroutine[s], table)
        \/ /\ session_id_coroutine[s] \notin Co
           /\ session_id_coroutine' = table
           /\ mode' = "fork"
           /\ UNCHANGED <<co, running, watching_session, sleep_session>>
  /\ UNCHANGED <<served, unresponse, wakeup_queue, fork_queue, session, world,
                 replies, ghosts, ops>>

Drained ==
  /\ mode = "wakeup" /\ wakeup_queue = <<>> /\ error_queue = <<>>
  /\ mode' = "fork"
  /\ UNCHANGED <<co, tables, queues, session, running, world, replies, ghosts, ops>>

\* The loop of dispatch_message.  None stands for the empty function that an
\* error forks to have the queues emptied.
dispatch_message ==
  /\ mode = "fork"
  /\ IF fork_queue = <<>> THEN mode' = "idle" /\ UNCHANGED <<co, running, fork_queue>>
     ELSE /\ fork_queue' = Tail(fork_queue)
          /\ IF Head(fork_queue) = None THEN mode' = "wakeup" /\ UNCHANGED <<co, running>>
             ELSE /\ co' = [co EXCEPT ![Head(fork_queue)].pc = "run"]
                  /\ running' = Head(fork_queue) /\ mode' = "run"
  /\ UNCHANGED <<tables, wakeup_queue, error_queue, session, world, replies, ghosts, ops>>

-----------------------------------------------------------------------------
(* What the running coroutine may do.                                      *)

Op ==
  /\ mode = "run" /\ ops < MaxOps
  /\ ops' = ops + 1

me == running
Yield == mode' = "wakeup" /\ running' = None

\* fengnet.call: an address that is gone raises an error in the caller, which
\* goes on or not; otherwise the session is watched.
call(p) ==
  /\ Op
  /\ \/ /\ p \in down
        /\ UNCHANGED <<co, session_id_coroutine, watching_session, session, due, mode, running>>
     \/ /\ p \notin down /\ session < MaxSession
        /\ session' = session + 1
        /\ watching_session' = [watching_session EXCEPT ![session'] = p]
        /\ session_id_coroutine' = [session_id_coroutine EXCEPT ![session'] = me]
        /\ co' = [co EXCEPT ![me] = [pc |-> "call", s |-> session']]
        /\ due' = [due EXCEPT ![session'] = p]
        /\ Yield
  /\ UNCHANGED <<served, sleep_session, unresponse, queues, from, down, replies,
                 ghosts>>

\* fengnet.sleep ("sleep") and fengnet.wait ("wait": nobody answers the session).
suspend_sleep(kind) ==
  /\ Op /\ session < MaxSession
  /\ session' = session + 1
  /\ session_id_coroutine' = [session_id_coroutine EXCEPT ![session'] = me]
  /\ sleep_session' = [sleep_session EXCEPT ![me] = session']
  /\ co' = [co EXCEPT ![me] = [pc |-> kind, s |-> session']]
  /\ due' = [due EXCEPT ![session'] = IF kind = "sleep" THEN "timer" ELSE None]
  /\ Yield
  /\ UNCHANGED <<served, watching_session, unresponse, queues, from, down, replies,
                 ghosts>>

\* fengnet.wakeup
wakeup(c) ==
  /\ Op
  /\ wakeup_queue' = IF sleep_session[c] # 0 THEN Append(wakeup_queue, c) ELSE wakeup_queue
  /\ UNCHANGED <<co, tables, error_queue, fork_queue, session, mode, running, world, replies,
                 ghosts>>

\* fengnet.fork
fork ==
  /\ Op
  /\ \E c \in Created :
       /\ co' = [co EXCEPT ![c].pc = "forked"]
       /\ fork_queue' = Append(fork_queue, c)
  /\ UNCHANGED <<tables, wakeup_queue, error_queue, session, mode, running, world, replies, ghosts>>

\* fengnet.timeout: a coroutine that the timer starts.
timeout ==
  /\ Op /\ session < MaxSession
  /\ session' = session + 1
  /\ \E c \in Created :
       /\ co' = [co EXCEPT ![c] = [pc |-> "start", s |-> session']]
       /\ session_id_coroutine' = [session_id_coroutine EXCEPT ![session'] = c]
  /\ due' = [due EXCEPT ![session'] = "timer"]
  /\ UNCHANGED <<served, watching_session, sleep_session, unresponse, queues, mode,
                 running, from, down, replies, ghosts>>

\* Mutant: an answer does not end the request.
MutServed(c) == session_coroutine_id

\* The coroutine has no request to answer any more.
Served(c) == [session_coroutine_id EXCEPT ![c] = None]

\* fengnet.ret (fengnet.response puts the answer off instead).
ret(later) ==
  /\ Op /\ session_coroutine_id[me] # None
  /\ LET q == {session_coroutine_id[me]} \ {0}
     IN /\ Answer(IF later THEN {} ELSE q)
        /\ unresponse' = IF later THEN unresponse \cup q ELSE unresponse
  /\ session_coroutine_id' = Served(me)
  /\ UNCHANGED <<co, session_id_coroutine, session_coroutine_address, watching_session,
                 sleep_session, queues, session, mode, running, world, ghosts>>

\* The function that fengnet.response returned is called, by any coroutine.
respond(q) ==
  /\ Op /\ q \in unresponse
  /\ Answer({q})
  /\ unresponse' = unresponse \ {q}
  /\ UNCHANGED <<co, session_id_coroutine, served, watching_session, sleep_session,
                 queues, session, mode, running, world, ghosts>>

Killed(s) ==
  [session_id_coroutine EXCEPT ![s] = IF watching_session[s] # None THEN Break ELSE None]

\* The request of a coroutine that has an address is looked at before it is killed: if
\* it was answered, that is an error, raised in the caller, which goes on or not.
Answered(c) == c \in session_coroutine_address /\ session_coroutine_id[c] = None

\* fengnet.killthread of a coroutine that is forked or waits for a session
killthread(c) ==
  /\ Op /\ c # me
  /\ \/ /\ co[c].pc = "forked"
        /\ fork_queue' = SelectSeq(fork_queue, LAMBDA d : d # c)
        /\ co' = [co EXCEPT ![c].pc = "closed"]
        /\ UNCHANGED <<tables, replies, ghosts>>
     \/ /\ co[c].pc \in Blocked /\ Answered(c)
        /\ session_coroutine_address' = session_coroutine_address \ {c}
        /\ UNCHANGED <<co, session_id_coroutine, session_coroutine_id, watching_session,
                       sleep_session, unresponse, fork_queue, replies, ghosts>>
     \/ /\ co[c].pc \in Blocked /\ ~ Answered(c)
        /\ LET s == co[c].s
           IN /\ session_id_coroutine' = Killed(s)
              /\ watching_session' = [watching_session EXCEPT ![s] = None]
              /\ killed' = IF watching_session[s] = None THEN killed \cup {s} ELSE killed
        /\ Answer({session_coroutine_id[c]} \ {0, None})
        /\ session_coroutine_id' = [session_coroutine_id EXCEPT ![c] = None]
        /\ session_coroutine_address' = session_coroutine_address \ {c}
        /\ sleep_session' = [sleep_session EXCEPT ![c] = 0]
        /\ co' = [co EXCEPT ![c] = [pc |-> "closed", s |-> 0]]
        /\ UNCHANGED <<unresponse, fork_queue, unknown, silent>>
  /\ UNCHANGED <<wakeup_queue, error_queue, session, mode, running, world>>

\* The coroutine's function returns: it goes to the pool (co_create).
Return ==
  /\ mode = "run"
  /\ silent' = silent \cup ({session_coroutine_id[me]} \ {0, None})
  /\ session_coroutine_id' = Served(me)
  /\ session_coroutine_address' = session_coroutine_address \ {me}
  /\ co' = [co EXCEPT ![me].pc = "free"]
  /\ Yield
  /\ UNCHANGED <<session_id_coroutine, watching_session, sleep_session, unresponse, queues, session,
                 world, replies, unknown, killed, ops>>

\* Mutant: nothing is forked to have the queues emptied.
MutAfterError == fork_queue

AfterError == Append(fork_queue, None)

\* The coroutine raises an error nobody catches: suspend answers its request
\* with an error and raises it again to dispatch_message.
Raise ==
  /\ Op
  /\ Answer({session_coroutine_id[me]} \ {0, None})
  /\ session_coroutine_id' = [session_coroutine_id EXCEPT ![me] = None]
  /\ session_coroutine_address' = session_coroutine_address \ {me}
  /\ co' = [co EXCEPT ![me].pc = "closed"]
  /\ fork_queue' = AfterError
  /\ mode' = "fork" /\ running' = None
  /\ UNCHANGED <<session_id_coroutine, watching_session, sleep_session, unresponse, wakeup_queue,
                 error_queue, session, world, ghosts>>

\* Mutant: the answers that were put off are forgotten.
MutOwed == {session_coroutine_id[c] : c \in Co} \ {0, None}

\* The requests that have had no answer, as the tables tell.
Owed == ({session_coroutine_id[c] : c \in Co} \ {0, None}) \cup unresponse

\* fengnet.exit: whoever waits for this service is told.
exit ==
  /\ Op
  /\ Answer(Owed)
  /\ fork_queue' = <<>>
  /\ unresponse' = {}
  /\ co' = [c \in Co |-> IF co[c].pc \in Blocked THEN [pc |-> "closed", s |-> 0] ELSE co[c]]
  /\ mode' = "quit" /\ running' = None
  /\ UNCHANGED <<session_id_coroutine, served, watching_session, sleep_session,
                 wakeup_queue, error_queue, session, world, ghosts>>

Running ==
  \/ \E p \in Peer : call(p)
  \/ \E kind \in {"sleep", "wait"} : suspend_sleep(kind)
  \/ \E c \in Co : wakeup(c) \/ killthread(c)
  \/ fork \/ timeout \/ ret(TRUE) \/ ret(FALSE) \/ Return \/ Raise \/ exit
  \/ \E q \in Request : respond(q)

Init ==
  /\ co = [c \in Co |-> [pc |-> "free", s |-> 0]]
  /\ session_id_coroutine = [s \in Session |-> None]
  /\ session_coroutine_id = [c \in Co |-> None] /\ session_coroutine_address = {}
  /\ watching_session = [s \in Session |-> None]
  /\ sleep_session = [c \in Co |-> 0]
  /\ wakeup_queue = <<>> /\ error_queue = <<>> /\ fork_queue = <<>>
  /\ unresponse = {} /\ session = 0 /\ mode = "idle" /\ running = None
  /\ due = [s \in Session |-> None] /\ from = [q \in Request |-> None]
  /\ replies = [q \in Request |-> 0] /\ down = {}
  /\ unknown = {} /\ killed = {} /\ silent = {} /\ ops = 0

Next ==
  \/ \E s \in Session : Response(s) \/ ErrorResponse(s)
  \/ \E p \in Peer : PeerDown(p) \/ \E q \in 0 .. MaxRequest : Serve(p, q)
  \/ dispatch_wakeup \/ dispatch_error_queue \/ Drained \/ dispatch_message
  \/ Running

Spec == Init /\ [][Next]_vars

-----------------------------------------------------------------------------
\* A request gets at most one answer, however ret, response, errors, kills and
\* the exit of the service follow each other.
AtMostOneReply == \A q \in Request : replies[q] <= 1

\* A coroutine that waits can still be resumed: its session is filed under its
\* name, and an answer is to come, or the failure is queued; one that sleeps can
\* be woken by its token.
NobodyForgotten ==
  mode # "quit" =>
    \A c \in Co :
      /\ co[c].pc \in Blocked =>
           /\ session_id_coroutine[co[c].s] = c
           /\ co[c].pc # "wait" => due[co[c].s] # None \/ co[c].s \in Range(error_queue)
           /\ co[c].pc \in {"sleep", "wait"} => sleep_session[c] = co[c].s
      /\ co[c].pc = "forked" => c \in Range(fork_queue)

\* Between two messages no coroutine is left to be woken or started: errors of
\* other coroutines do not keep it waiting.
QueuesDrained == mode = "idle" => wakeup_queue = <<>> /\ fork_queue = <<>>

\* An answer meets a coroutine or the mark that it is no longer wanted; only the
\* timer of a coroutine killed in its sleep meets nothing (unknown_response).
AnswersAreKnown == unknown \subseteq killed

\* When the service exits, every request it has taken was answered, except those
\* whose coroutine returned without an answer or whose sender is gone.
ExitAnswersAll ==
  mode = "quit" =>
    \A q \in Request :
      from[q] # None /\ replies[q] = 0 => q \in silent \/ from[q] \in down

-----------------------------------------------------------------------------
(***************************************************************************)
(* The session numbers of a Lua service (fengnet.lua, "avoid session       *)
(* rewind conflict"). The core counts a session up for every call and      *)
(* timeout and starts again at 1 after 0x7fffffff, while the coroutine of  *)
(* an old call may still wait for its number. After an ordinary number     *)
(* only a range is tested; inside the danger zone the runtime looks one    *)
(* number ahead and burns the numbers that are in use.                     *)
(***************************************************************************)

CONSTANTS
  LastSession,    \* 0x7fffffff
  ZoneSize,       \* dangerzone_size
  ZoneLow,        \* the first danger zone starts here
  MaxPending,     \* bound: coroutines that wait
  MaxLaps         \* bound: how often the numbers start again

SessionAssumption ==
  /\ {LastSession, ZoneSize, ZoneLow, MaxPending, MaxLaps} \subseteq Nat \ {0}
  /\ ZoneSize > 2           \* room to enter, and for the first check
  /\ ZoneLow + ZoneSize <= LastSession

VARIABLES
  last,      \* ctx->session_id
  pending,   \* the keys of session_id_coroutine
  zone,      \* safe (checkrewind or checkconflict is installed), dangerzone, low, up
  clash,     \* the last number handed out, if a coroutine waits for it, or 0
  laps,      \* how often the numbers have started again
  blind      \* a number was taken by fengnet.wait in the danger zone

zoneVars == <<last, pending, zone, clash, laps, blind>>

\* fengnet_context_newsession: always positive.
fengnet_context_newsession(n) == IF n = LastSession THEN 1 ELSE n + 1

\* Mutant: the margin below the lowest number in use is forgotten.
MutResetDangerzone(safe, number) ==
  LET used == pending \cup {number}
  IN [safe |-> safe, set |-> used, low |-> Min(used), up |-> Max(used)]

reset_dangerzone(safe, number) ==
  LET used == pending \cup {number}
  IN [safe |-> safe, set |-> used, low |-> Min(used) - ZoneSize, up |-> Max(used)]

\* The loop of checkconflict: the first number after the given one that is not known
\* to be in use; those before it are burnt with genid.
NextFree(z, number) ==
  Min({n \in number + 1 .. LastSession + 1 : n \notin z.set \cap pending})

\* One pass of checkconflict: the number that comes next, and the zone then.
CheckOnce(z, number) ==
  IF number + 1 > z.up
  THEN [next |-> number + 1, zone |-> reset_dangerzone(TRUE, number)]
  ELSE LET n == NextFree(z, number)
       IN [next |-> n, zone |-> IF n \in z.set THEN reset_dangerzone(FALSE, number) ELSE z]

\* checkconflict: when the next number would be 1 and 1 is dangerous, 1 is
\* burnt and the check repeated from there.
checkconflict(number) ==
  LET c == CheckOnce(zone, number)
      d == CheckOnce(c.zone, 1)
  IN IF c.next = LastSession + 1 /\ 1 \in c.zone.set
     THEN last' = d.next - 1 /\ zone' = d.zone
     ELSE last' = c.next - 1 /\ zone' = c.zone

Lap ==
  /\ laps' = IF last' < last THEN laps + 1 ELSE laps
  /\ laps' <= MaxLaps

\* auxsend and auxtimeout: a number from the core, then the check in force;
\* the caller's coroutine waits for it (yield_call, sleep, timeout, select).
auxsend ==
  LET number == fengnet_context_newsession(last)
  IN /\ Cardinality(pending) < MaxPending
     /\ clash' = IF number \in pending THEN number ELSE 0
     /\ pending' = pending \cup {number}
     /\ \/ ~ zone.safe /\ checkconflict(number)
        \/ /\ zone.safe
           /\ last' = number
           /\ zone' = IF number > zone.low /\ number <= zone.up
                      THEN reset_dangerzone(FALSE, number) ELSE zone
     /\ Lap
     /\ UNCHANGED blind

\* fengnet.wait: genid, without a check.
wait ==
  /\ Cardinality(pending) < MaxPending
  /\ last' = fengnet_context_newsession(last)
  /\ clash' = IF last' \in pending THEN last' ELSE 0
  /\ pending' = pending \cup {last'}
  /\ blind' = (blind \/ ~ zone.safe \/ last' \in zone.low + 1 .. zone.up)
  /\ Lap
  /\ UNCHANGED zone

\* The response, or the end of the wait.
EndWait(s) ==
  /\ s \in pending
  /\ pending' = pending \ {s}
  /\ UNCHANGED <<last, zone, clash, laps, blind>>

ZoneInit ==
  /\ last = 0 /\ pending = {} /\ clash = 0 /\ laps = 0 /\ blind = FALSE
  /\ zone = [safe |-> TRUE, set |-> {}, low |-> ZoneLow, up |-> ZoneLow + ZoneSize]

ZoneNext == auxsend \/ wait \/ \E s \in pending : EndWait(s)

ZoneSpec == ZoneInit /\ [][ZoneNext]_zoneVars
-----------------------------------------------------------------------------
\* No call, sleep or timeout gets the number of a coroutine that still waits,
\* however old it is (the assertion in fengnet.timeout), or the answer of one would
\* resume the other.  It holds while the numbers start again once (MaxLaps = 1)
\* and with two exceptions: 1 and 2, which have no margin below them, so that the
\* one that enters the danger zone and the next are not checked; and numbers
\* after a fengnet.wait in the danger zone, which takes one without a check.
UniqueAboveTwo == ~ blind => clash <= 2

=============================================================================
