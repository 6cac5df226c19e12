--------------------------- MODULE SocketChannel ---------------------------
(***************************************************************************)
(* A socket channel in order mode (socketchannel.lua): coroutines write    *)
(* requests to one connection and wait; a dispatch thread reads the        *)
(* answers and hands each to the coroutine that is first in line.  The     *)
(* channel connects when it is needed, one coroutine at a time, may have   *)
(* to authenticate, and tells everybody who waits when the connection      *)
(* breaks.  (The session mode is in Cluster.)  One coroutine runs at a     *)
(* time, until it waits.                                                   *)
(***************************************************************************)
EXTENDS Naturals, Sequences

CONSTANTS
  Client,       \* coroutines that use the channel
  Ops,          \* what else is done with it: a subset of {"close", "changehost"}
  MaxRequests, MaxConns, MaxOps,   \* bounds
  None

ChannelAssumption ==
  /\ None \notin Client
  /\ Ops \subseteq {"close", "changehost"}
  /\ {MaxRequests, MaxConns, MaxOps} \subseteq Nat

VARIABLES
  sock,        \* __sock: a connection, or 0
  auth,        \* the channel has an __auth function
  closed,      \* __closed
  authco,      \* __authcoroutine
  connecting,  \* __connecting[1]
  line,        \* __request and __thread: coroutines, or None for the close signal
  result,      \* __result: per coroutine the request that was answered, Error or 0 (nil)
  dt,          \* __dispatch_thread: "none", "forked", "loop", "wait" (__wait_response),
               \* "woken", "read", or "closing" (in socket.close)
  dco, dfd,    \* for whom it reads, and from which connection
  running,     \* the coroutine that runs ("dispatch" for the thread), or None
  pc, want,    \* per coroutine: where it is, and "request" or "connect"
  mine,        \* the request it waits for
  conns,       \* connections made
  shut,        \* connections closed at this end
  broken,      \* connections whose close was reported
  stream,      \* per connection: the requests the server has to answer, in order
  requests, ops,
  hasty        \* the channel was closed or sent elsewhere while it was in use

svars == <<auth, sock, closed, authco, connecting>>
lvars == <<line, result>>
dvars == <<dt, dco, dfd>>
nvars == <<conns, shut, broken, stream>>
vars  == <<svars, lvars, dvars, running, pc, want, mine, nvars, requests, ops, hasty>>

Goto(c, l) == pc' = [pc EXCEPT ![c] = l] /\ running' = c
Wait(c, l) == pc' = [pc EXCEPT ![c] = l] /\ running' = None
Free == running = None

\* A result that is an error.
Error == MaxRequests + 1

\* Coroutines that were woken run before the next message of the service is
\* dispatched, and so does, after them, one that was forked.
Awake == dt = "woken" \/ \E c \in Client : pc[c] = "woken" \/ result[c] # 0
Idle  == Free /\ ~ Awake /\ dt # "forked"

close_channel_socket ==
  /\ sock' = 0
  /\ shut' = IF sock = 0 THEN shut ELSE shut \cup {sock}

\* Mutant: the line is left as it is.
Mut_wakeup_all(C) == result' = [c \in Client |-> IF c \in C THEN Error ELSE result[c]] /\ UNCHANGED line

\* The line is cleared; those in it, and those of C, fail.
wakeup_all(C) ==
  /\ line' = <<>>
  /\ result' = [c \in Client |->
                  IF c \in C \/ \E i \in DOMAIN line : line[i] = c THEN Error ELSE result[c]]

\* One more in line; a dispatch thread that waits is woken.
push_response(c) ==
  /\ line' = Append(line, c)
  /\ dt' = IF dt = "wait" THEN "woken" ELSE dt

-----------------------------------------------------------------------------
\* The users of the channel

\* channel:request and channel:connect
Call(c, w) ==
  /\ Free /\ pc[c] = "idle" /\ requests < MaxRequests
  /\ closed' = (closed /\ w = "request")
  /\ want' = [want EXCEPT ![c] = w]
  /\ Goto(c, "check")
  /\ UNCHANGED <<auth, sock, authco, connecting, lvars, dvars, mine, nvars, requests, ops, hasty>>

\* check_connection: TRUE, FALSE or None (nil)
Usable(c) ==
  CASE sock # 0 /\ sock \in broken -> IF authco = c THEN FALSE ELSE None
    [] sock # 0 /\ sock \notin broken /\ authco \in {None, c} -> TRUE
    [] OTHER -> IF closed THEN FALSE ELSE None

GiveUpBroken ==
  IF sock \in broken THEN close_channel_socket ELSE UNCHANGED <<sock, shut>>

\* block_connect, first half: use the connection, fail, get behind the coroutine
\* that connects, or connect.
block_connect(c) ==
  /\ running = c /\ pc[c] = "check"
  /\ GiveUpBroken
  /\ \/ Usable(c) = TRUE /\ Goto(c, "use") /\ UNCHANGED connecting
     \/ /\ Usable(c) = FALSE /\ UNCHANGED connecting
        /\ IF authco = c THEN Goto(c, "unauth") ELSE Wait(c, "idle")
     \/ Usable(c) = None /\ connecting /\ Wait(c, "queue") /\ UNCHANGED connecting
     \/ Usable(c) = None /\ ~ connecting /\ connecting' = TRUE /\ Goto(c, "try")
  /\ UNCHANGED <<auth, closed, authco, lvars, dvars, want, mine, conns, broken, stream, requests, ops, hasty>>

\* try_connect and connect_once, up to socket.open
try_connect(c) ==
  /\ \/ running = c /\ pc[c] = "try"
     \/ Idle /\ pc[c] = "sleep"
  /\ IF closed THEN Goto(c, "tried") ELSE Wait(c, "open")
  /\ UNCHANGED <<svars, lvars, dvars, want, mine, nvars, requests, ops, hasty>>

\* No address is left: a request tries once, connect sleeps and tries again.
GiveUp(c) == IF want[c] = "request" THEN Goto(c, "tried") ELSE Wait(c, "sleep")

\* Mutant: the old dispatch thread is not told to end.
Mut_term_dispatch_thread == UNCHANGED <<line, dt>>

term_dispatch_thread == IF dt # "none" THEN push_response(None) ELSE UNCHANGED <<line, dt>>

\* _connect_once, after socket.open: the next address, none is left, or connected.
Opened(c) ==
  /\ Idle /\ pc[c] = "open"
  /\ \/ GiveUp(c) /\ UNCHANGED <<line, dt, conns>>
     \/ /\ conns < MaxConns
        /\ conns' = conns + 1
        /\ term_dispatch_thread
        /\ Wait(c, "drain")
  /\ UNCHANGED <<svars, result, dco, dfd, want, mine, shut, broken, stream, requests, ops, hasty>>

\* The old dispatch thread has ended; a new one is forked.
Drained(c) ==
  /\ Idle /\ pc[c] = "drain" /\ dt = "none"
  /\ sock' = conns /\ dt' = "forked"
  /\ authco' = IF auth THEN c ELSE None
  /\ Goto(c, IF auth THEN "check" ELSE "tried")
  /\ UNCHANGED <<auth, closed, connecting, lvars, dco, dfd, want, mine, nvars, requests, ops, hasty>>

\* The auth function has failed: the connection is closed, the next address tried.
AuthFailed(c) ==
  /\ running = c /\ pc[c] = "unauth"
  /\ close_channel_socket
  /\ authco' = None
  /\ Wait(c, "open") \/ GiveUp(c)
  /\ UNCHANGED <<auth, closed, connecting, lvars, dvars, want, mine, conns, broken, stream, requests,
                 ops, hasty>>

\* block_connect, second half of the coroutine that connected: the others are woken.
Tried(c) ==
  /\ running = c /\ pc[c] = "tried"
  /\ connecting' = FALSE
  /\ pc' = [d \in Client |-> IF d = c THEN "check2" ELSE IF pc[d] = "queue" THEN "woken" ELSE pc[d]]
  /\ UNCHANGED <<auth, sock, closed, authco, lvars, dvars, running, want, mine, nvars, requests, ops, hasty>>

\* check_connection once more, for that coroutine and for those it woke
Check2(c) ==
  /\ \/ running = c /\ pc[c] = "check2"
     \/ Free /\ pc[c] = "woken"
  /\ GiveUpBroken
  /\ IF Usable(c) = TRUE THEN Goto(c, "use") ELSE Wait(c, "idle")
  /\ UNCHANGED <<auth, closed, authco, connecting, lvars, dvars, want, mine, conns, broken, stream,
                 requests, ops, hasty>>

\* connect returns; a request is written and its coroutine gets in line
\* (wait_for_response), or the write fails (sock_err).
Use(c) ==
  /\ running = c /\ pc[c] = "use"
  /\ \/ /\ want[c] = "connect" /\ authco # c
        /\ Wait(c, "idle")
        /\ UNCHANGED <<sock, shut, broken, line, result, dt, mine, stream, requests>>
     \/ /\ want[c] = "request" \/ authco = c
        /\ requests < MaxRequests
        /\ requests' = requests + 1
        /\ \/ /\ mine' = [mine EXCEPT ![c] = requests']
              /\ stream' = [stream EXCEPT ![sock] = Append(@, requests')]
              /\ push_response(c)
              /\ Wait(c, "answer")
              /\ UNCHANGED <<sock, shut, broken, result>>
           \/ /\ close_channel_socket /\ broken' = broken \cup {sock}
              /\ wakeup_all({})
              /\ IF authco = c THEN Goto(c, "unauth") ELSE Wait(c, "idle")
              /\ UNCHANGED <<dt, mine, stream>>
  /\ UNCHANGED <<auth, closed, authco, connecting, dco, dfd, want, conns, ops, hasty>>

\* wait_for_response, after the wait; an auth function that has succeeded may find
\* the connection closed (it changed the host), and connects again.
wait_for_response(c) ==
  /\ Free /\ pc[c] = "answer" /\ result[c] # 0
  /\ result' = [result EXCEPT ![c] = 0]
  /\ mine' = [mine EXCEPT ![c] = 0]
  /\ \/ /\ authco # c
        /\ Wait(c, "idle") /\ UNCHANGED authco
     \/ /\ authco = c /\ result[c] = Error
        /\ Goto(c, "unauth") /\ UNCHANGED authco
     \/ /\ authco = c /\ result[c] # Error
        /\ authco' = None
        /\ Goto(c, IF sock = 0 THEN "try" ELSE "tried")
  /\ UNCHANGED <<auth, sock, closed, connecting, line, dvars, want, nvars, requests, ops, hasty>>

Quiet == dt \in {"none", "wait"} /\ line = <<>> /\ ~ connecting

\* channel:close
close ==
  /\ Free /\ "close" \in Ops /\ ops < MaxOps
  /\ ops' = ops + 1 /\ hasty' = (hasty \/ ~ Quiet)
  /\ ~ closed /\ closed' = TRUE
  /\ term_dispatch_thread
  /\ close_channel_socket
  /\ UNCHANGED <<auth, authco, connecting, result, dco, dfd, running, pc, want, mine, conns, broken,
                 stream, requests>>

\* channel:changehost
changehost ==
  /\ Free /\ "changehost" \in Ops /\ ops < MaxOps /\ ~ closed
  /\ ops' = ops + 1 /\ hasty' = (hasty \/ ~ Quiet)
  /\ close_channel_socket
  /\ UNCHANGED <<auth, closed, authco, connecting, lvars, dvars, running, pc, want, mine, conns, broken,
                 stream, requests>>

-----------------------------------------------------------------------------
\* The dispatch thread (dispatch_by_order)

\* Exit
Ended == dt' = "none" /\ dco' = None /\ dfd' = 0

\* The head of the loop, after the fork and after an answer.
Loop ==
  /\ \/ running = "dispatch" /\ dt = "loop"
     \/ Free /\ ~ Awake /\ dt = "forked"
  /\ IF sock = 0
     THEN Ended /\ running' = None
     ELSE dt' = "woken" /\ running' = "dispatch" /\ UNCHANGED <<dco, dfd>>
  /\ UNCHANGED <<svars, lvars, pc, want, mine, nvars, requests, ops, hasty>>

\* pop_response, and what is done with the first in line
pop_response ==
  /\ running \in {None, "dispatch"} /\ dt = "woken"
  /\ running' = None
  /\ \/ /\ line = <<>>
        /\ dt' = "wait"
        /\ UNCHANGED <<dco, dfd, lvars>>
     \/ /\ line # <<>> /\ (Head(line) = None \/ sock = 0)
        /\ wakeup_all({})
        /\ Ended
     \/ /\ line # <<>> /\ Head(line) # None /\ sock # 0
        /\ dt' = "read" /\ dco' = Head(line) /\ dfd' = sock
        /\ line' = Tail(line)
        /\ UNCHANGED result
  /\ UNCHANGED <<svars, pc, want, mine, nvars, requests, ops, hasty>>

\* get_response has returned the next answer of the connection.
Answered ==
  /\ Idle /\ dt = "read" /\ dfd \notin broken /\ stream[dfd] # <<>>
  /\ result' = [result EXCEPT ![dco] = Head(stream[dfd])]
  /\ stream' = [stream EXCEPT ![dfd] = Tail(@)]
  /\ dt' = "loop" /\ dco' = None /\ dfd' = 0 /\ running' = "dispatch"
  /\ UNCHANGED <<svars, line, pc, want, mine, conns, shut, broken, requests, ops, hasty>>

\* get_response has failed with an error of the answer's own; socket.close waits
\* for the close of the connection.
BadAnswer ==
  /\ Idle /\ dt = "read" /\ dfd \notin broken /\ stream[dfd] # <<>>
  /\ close_channel_socket
  /\ dt' = "closing"
  /\ UNCHANGED <<auth, closed, authco, connecting, lvars, dco, dfd, running, pc, want, mine, conns,
                 broken, stream, requests, ops, hasty>>

\* get_response has failed because the connection is closed, or the connection is
\* closed after a bad answer.
ReadFailed ==
  /\ Idle /\ dt \in {"read", "closing"} /\ dfd \in broken
  /\ close_channel_socket
  /\ wakeup_all({dco})
  /\ dt' = "loop" /\ dco' = None /\ dfd' = 0 /\ running' = "dispatch"
  /\ UNCHANGED <<auth, closed, authco, connecting, pc, want, mine, conns, broken, stream,
                 requests, ops, hasty>>

\* The close of a connection is reported; autoclose_cb closes an idle channel.
SocketClosed(f) ==
  /\ Idle /\ f \in 1 .. conns /\ f \notin broken
  /\ broken' = broken \cup {f}
  /\ IF dt = "wait" /\ sock = f THEN close_channel_socket ELSE UNCHANGED <<sock, shut>>
  /\ UNCHANGED <<auth, closed, authco, connecting, lvars, dvars, running, pc, want, mine, conns, stream,
                 requests, ops, hasty>>

Init ==
  /\ auth \in BOOLEAN /\ sock = 0 /\ closed = FALSE /\ authco = None /\ connecting = FALSE
  /\ line = <<>> /\ result = [c \in Client |-> 0]
  /\ dt = "none" /\ dco = None /\ dfd = 0
  /\ running = None
  /\ pc = [c \in Client |-> "idle"] /\ want = [c \in Client |-> "request"]
  /\ mine = [c \in Client |-> 0]
  /\ conns = 0 /\ shut = {} /\ broken = {} /\ stream = [f \in 1 .. MaxConns |-> <<>>]
  /\ requests = 0 /\ ops = 0 /\ hasty = FALSE

Next ==
  \/ \E c \in Client :
       \/ \E w \in {"request", "connect"} : Call(c, w)
       \/ block_connect(c) \/ try_connect(c) \/ Opened(c) \/ Drained(c) \/ AuthFailed(c)
       \/ Tried(c) \/ Check2(c) \/ Use(c) \/ wait_for_response(c)
  \/ close \/ changehost
  \/ Loop \/ pop_response \/ Answered \/ BadAnswer \/ ReadFailed
  \/ \E f \in 1 .. MaxConns : SocketClosed(f)

Spec == Init /\ [][Next]_vars

-----------------------------------------------------------------------------
\* A coroutine never gets the answer to another's request: those in line are in
\* the order of the answers that are still to come on this connection, through
\* failures, reconnections and authentication.
OwnAnswer == ~ hasty => \A c \in Client : result[c] \in {0, Error, mine[c]}

\* A coroutine that waits for an answer is in line, or its answer is being read,
\* or it has been told; and somebody will look at the line.
NobodyLost ==
  ~ hasty =>
  /\ \A c \in Client : pc[c] = "answer" =>
       result[c] # 0 \/ dco = c \/ \E i \in DOMAIN line : line[i] = c
  /\ line # <<>> => dt \notin {"none", "wait"}
  /\ \A c \in Client : pc[c] = "queue" => connecting

\* A coroutine that waits for the old dispatch thread to end does not wait for
\* ever: that thread is going to look at the line, or its connection is closed.
DrainEnds ==
  \A c \in Client : pc[c] = "drain" => dt # "wait" /\ (dt = "read" => dfd \in shut \cup broken)

=============================================================================
