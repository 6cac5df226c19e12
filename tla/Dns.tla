-------------------------------- MODULE Dns --------------------------------
(***************************************************************************)
(* The resolver of dns.lua: coroutines ask for the address of a name, the  *)
(* answers are cached, and a timer ends each request that is not answered. *)
(* Requests and answers are datagrams: they may be lost, delayed and       *)
(* overtaken, and are told apart by a 16-bit id that is used again.        *)
(* Time is counted in units of TIMEOUT; a timer that is due runs before    *)
(* time goes on.  Names are those the local hosts file does not have.      *)
(***************************************************************************)
EXTENDS Integers, FiniteSets

CONSTANTS
  Name,           \* host names
  MaxTid,         \* 65535: ids of requests are 1 .. MaxTid
  RETIRE,         \* DNS_SERVER_RETIRE in units of TIMEOUT
  MaxRequests,    \* bound on requests; each has a coroutine of its own
  MaxTime,        \* bound on time
  None

DnsAssumption ==
  /\ MaxRequests \in Nat /\ MaxTid \in Nat \ {0} /\ RETIRE \in Nat \ {0} /\ MaxTime \in Nat
  /\ None \notin Name \union Nat

VARIABLES
  now,            \* fengnet.now()
  CACHE,          \* per name: when its answers expire, or Never
  request_pool,   \* per id: the coroutine whose request it is, or None
  next_tid,
  req,            \* per coroutine: its request; answers names whose addresses it has,
                  \* due and told are when it may time out and was answered itself
  timers,         \* forked coroutines that sleep until a request's TIMEOUT
  fd,             \* is dns_server.fd open
  retire,         \* dns_server.retire
  check_alive,    \* when check_alive runs next, or Never
  net,            \* answers on their way: [kind, tid, name]
  reused          \* ids given out while something of an earlier use was left

vars == <<now, CACHE, request_pool, next_tid, req, timers, fd, retire, check_alive, net, reused>>

Tid == 1 .. MaxTid
Asker == 1 .. MaxRequests
Never == -1
Idle == [st |-> "idle", name |-> None, tid |-> 0, answers |-> None, due |-> 0,
         told |-> FALSE]
Done == [Idle EXCEPT !.st = "done"]

TypeOK ==
  /\ now \in 0 .. MaxTime /\ CACHE \in [Name -> {Never} \union Nat]
  /\ request_pool \in [Tid -> Asker \union {None}] /\ next_tid \in Tid
  /\ \A c \in Asker : req[c].st \in {"idle", "wait", "woken", "done"}
  /\ timers \subseteq [tid : Tid, co : Asker, due : Nat] /\ fd \in BOOLEAN
  /\ net \subseteq [kind : {"answer", "empty"}, tid : Tid, name : Name]

-----------------------------------------------------------------------------
\* Mutant: the id is not tested.
Mut_gen_tid == next_tid

\* The next id, or the lowest free one; the code fails when there is none.
gen_tid ==
  IF request_pool[next_tid] = None THEN next_tid
  ELSE CHOOSE t \in Tid :
         request_pool[t] = None /\ \A u \in Tid : request_pool[u] = None => t <= u

lookup_cache(n, ignorettl) == CACHE[n] # Never /\ (ignorettl \/ CACHE[n] > now)

\* Mutant: the time of last use is set only when the socket is opened.
Mut_touch_server ==
  /\ retire' = IF fd THEN retire ELSE now
  /\ fd' = TRUE
  /\ check_alive' = IF fd THEN check_alive ELSE now + 2 * RETIRE

\* Opens the socket if it is not, and looks after it from then on.
touch_server ==
  /\ retire' = now
  /\ fd' = TRUE
  /\ check_alive' = IF fd THEN check_alive ELSE now + 2 * RETIRE

\* What comes back for a question: nothing, if it or the answer is lost, or an answer
\* with or without an address.
Served(tid, n) ==
  {{}} \union {{[kind |-> k, tid |-> tid, name |-> n]} : k \in {"answer", "empty"}}

\* A name that is in the cache is answered at once, without a step.  For another one
\* an id is given out, the question sent, and the coroutine waits.  (If the socket
\* cannot be opened, touch_server raises an error and only next_tid has changed.)
remote_resolve(c, n) ==
  /\ req[c].st = "idle" /\ \A d \in 1 .. c - 1 : req[d].st # "idle"
  /\ ~ lookup_cache(n, FALSE)
  /\ \E t \in Tid : request_pool[t] = None
  /\ LET tid == gen_tid
     IN /\ next_tid' = IF tid = MaxTid THEN 1 ELSE tid + 1
        /\ \/ /\ touch_server
              /\ req' = [req EXCEPT ![c] = [st |-> "wait", name |-> n, tid |-> tid,
                                            answers |-> None, due |-> now + 1, told |-> FALSE]]
              /\ request_pool' = [request_pool EXCEPT ![tid] = c]
              /\ timers' = timers \union {[tid |-> tid, co |-> c, due |-> now + 1]}
              /\ \E s \in Served(tid, n) : net' = net \union s
              /\ reused' = IF \/ \E m \in net : m.tid = tid
                              \/ \E t \in timers : t.tid = tid
                           THEN reused \union {c} ELSE reused
           \/ /\ ~ fd /\ retire' = now
              /\ req' = [req EXCEPT ![c] = Done]
              /\ UNCHANGED <<fd, check_alive, request_pool, timers, net, reused>>
  /\ UNCHANGED <<now, CACHE>>

\* Mutant: the answers in the datagram are taken, whatever name they are for.
MutFound(c, m, cache) ==
  [req EXCEPT ![c].st = "woken", ![c].told = m.name = req[c].name,
              ![c].answers = IF m.kind = "answer" THEN m.name ELSE None]

\* What the request in the pool gets: what the cache now has for its own name.
Found(c, m, cache) ==
  [req EXCEPT ![c].st = "woken", ![c].told = m.name = req[c].name,
              ![c].answers = IF cache[req[c].name] # Never THEN req[c].name ELSE None]

\* An answer comes: it is cached under the name in its question, for a time to
\* live of one unit, and wakes whoever has its id, even if that asked for another name.
resolve(m) ==
  /\ fd
  /\ CACHE' = IF m.kind = "answer" THEN [CACHE EXCEPT ![m.name] = now + 1] ELSE CACHE
  /\ req' = IF request_pool[m.tid] = None THEN req ELSE Found(request_pool[m.tid], m, CACHE')
  /\ net' = net \ {m}
  /\ UNCHANGED <<now, request_pool, next_tid, timers, fd, retire, check_alive, reused>>

\* What a woken coroutine returns, None for an error: an expired answer is better than
\* none.
Returns(r) ==
  IF r.answers = None /\ lookup_cache(r.name, TRUE) THEN r.name ELSE r.answers

\* The coroutine goes on after its wait, gives the id back, and returns.
suspend(c) ==
  /\ req[c].st = "woken"
  /\ request_pool' = [request_pool EXCEPT ![req[c].tid] = None]
  /\ req' = [req EXCEPT ![c] = Done]
  /\ UNCHANGED <<now, CACHE, next_tid, timers, fd, retire, check_alive, net, reused>>

\* The sleep of a forked coroutine ends: whatever request has the id now is given up.
Expire(t) ==
  /\ t.due <= now
  /\ timers' = timers \ {t}
  /\ LET c == request_pool[t.tid]
     IN IF c = None THEN UNCHANGED <<request_pool, req>>
        ELSE /\ request_pool' = [request_pool EXCEPT ![t.tid] = None]
             /\ req' = [req EXCEPT ![c].st = "woken"]
  /\ UNCHANGED <<now, CACHE, next_tid, fd, retire, check_alive, net, reused>>

\* check_alive closes the socket when it has not been used for a while.
CheckAlive ==
  /\ check_alive # Never /\ check_alive <= now
  /\ IF now > retire + RETIRE
     THEN fd' = FALSE /\ check_alive' = Never /\ net' = {}
     ELSE check_alive' = now + 2 * RETIRE /\ UNCHANGED <<fd, net>>
  /\ UNCHANGED <<now, CACHE, request_pool, next_tid, req, timers, retire, reused>>

\* CACHE is weak: the collector may drop an entry at any time; dns.flush drops all.
Forget(n) ==
  /\ CACHE[n] # Never
  /\ CACHE' = [CACHE EXCEPT ![n] = Never]
  /\ UNCHANGED <<now, request_pool, next_tid, req, timers, fd, retire, check_alive, net, reused>>

\* Woken coroutines run first, then the timers that are due.
Tick ==
  /\ now < MaxTime
  /\ \A c \in Asker : req[c].st # "woken"
  /\ \A t \in timers : t.due > now
  /\ check_alive = Never \/ check_alive > now
  /\ now' = now + 1
  /\ UNCHANGED <<CACHE, request_pool, next_tid, req, timers, fd, retire, check_alive, net, reused>>

Init ==
  /\ now = 0 /\ CACHE = [n \in Name |-> Never]
  /\ request_pool = [t \in Tid |-> None] /\ next_tid = 1
  /\ req = [c \in Asker |-> Idle] /\ timers = {}
  /\ fd = FALSE /\ retire = 0 /\ check_alive = Never /\ net = {} /\ reused = {}

Next ==
  \/ \E c \in Asker : suspend(c)
  \/ /\ \A c \in Asker : req[c].st # "woken"
     /\ \/ \E c \in Asker, n \in Name : remote_resolve(c, n)
        \/ \E t \in timers : Expire(t)
        \/ \E m \in net : resolve(m)
        \/ CheckAlive
  \/ \E n \in Name : Forget(n)
  \/ Tick

Spec == Init /\ [][Next]_vars

-----------------------------------------------------------------------------
\* A coroutine that waits has an id of its own, a timer that will end the wait, and
\* the socket on which its answer can come is open; what it gets is of its name.
Awaited ==
  \A c \in Asker :
    /\ req[c].st = "wait" =>
         /\ request_pool[req[c].tid] = c
         /\ \E t \in timers : t.co = c /\ t.tid = req[c].tid
         /\ fd
    /\ req[c].st = "woken" => Returns(req[c]) \in {None, req[c].name}

\* A request that was sent fails when the server has no address or TIMEOUT is over,
\* not before, unless its id was used by another request shortly before.
NotCutShort ==
  \A c \in Asker \ reused :
    req[c].st = "woken" /\ Returns(req[c]) = None => req[c].told \/ now >= req[c].due

=============================================================================
