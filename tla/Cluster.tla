------------------------------ MODULE Cluster ------------------------------
(***************************************************************************)
(* A call from one node of a cluster to another: the sender                *)
(* (clustersender.lua) with its channel (socketchannel.lua, by session),   *)
(* the packages of lua-cluster.cpp and the agent (clusteragent.lua) that   *)
(* puts large requests together and calls the service.  Each end writes    *)
(* small packages at high and the parts of large ones at low priority, so  *)
(* they overtake each other.  The connection may be lost at any time; the  *)
(* next request connects again, to a new agent.                            *)
(***************************************************************************)
EXTENDS Frames, Integers, FiniteSets

CONSTANTS
  Client,      \* coroutines that call or push
  Size,        \* sizes of requests and of responses
  MULTI_PART,
  MaxSession,  \* INT32_MAX
  FirstSession,  \* the session of the first request
  MaxRequests, MaxLosses,  \* bounds: requests, lost connections
  None

ClusterAssumption ==
  /\ Size \subseteq Nat /\ {MULTI_PART, MaxSession, MaxRequests, MaxLosses} \subseteq Nat \ {0}
  /\ FirstSession \in 1 .. MaxSession /\ MaxRequests < MaxSession

VARIABLES
  session,     \* clustersender: the next session
  connected,   \* the channel has a socket
  thread,      \* __thread: the client of a session
  data,        \* __result_data: per client, the parts of a large response, its size first
  client,      \* per client: "idle", "wait", "ok", "error" or "bad" (concat failed)
  asks, answer,  \* per client: the request it is about, the response it got
  out, back,   \* what either end has still to write: [high, low], sequences of packages
  large,       \* large_request: per session, the beginning and the parts
  calls,       \* requests the agent has passed to the service and not answered
  served,      \* what the service was given, per request
  replies,     \* per request: its size, and what the service replied
  requests, losses

vars == <<session, connected, thread, data, client, asks, answer, out, back, large, calls, served,
          replies, requests, losses>>
sender == <<session, thread, data, client, asks, answer, requests>>
agent == <<large, calls, served, replies>>

SessionId == 0 .. MaxSession
Request == 1 .. MaxRequests
Quiet == [high |-> <<>>, low |-> <<>>]

\* Requests and responses are told apart by the numbers their bytes begin with.
Asked(r, size) == Body(r, size)
Replied(r, size) == Body(r + MaxRequests, size)

-----------------------------------------------------------------------------
\* lua-cluster.cpp

\* Mutant: the session wraps to 0.
MutNextSession(s) == IF s + 1 > MaxSession THEN 0 ELSE s + 1

NextSession(s) == IF s + 1 > MaxSession THEN 1 ELSE s + 1

Package(type, s, r, bytes) == [type |-> type, session |-> s, request |-> r, bytes |-> bytes]

\* How many parts a message has.
Parts(size) == (size - 1) \div MULTI_PART + 1

\* Mutant: the pointer to the message is not advanced.
MutPtr(i) == 0

\* Where the i-th part begins.
Ptr(i) == (i - 1) * MULTI_PART

\* The parts of a message: packreq_multi, and the loop of lpackresponse.
Multi(s, r, bytes) ==
  [i \in 1 .. Parts(Len(bytes)) |->
     LET left == Len(bytes) - (i - 1) * MULTI_PART
         size == IF left > MULTI_PART THEN MULTI_PART ELSE left
     IN Package(IF left > MULTI_PART THEN "part" ELSE "end", s, r, First(Drop(bytes, Ptr(i)), size))]

\* packrequest; a small push has session 0
packrequest(s, r, bytes, push) ==
  IF Len(bytes) < MULTI_PART
  THEN [high |-> <<Package("request", IF push THEN 0 ELSE s, r, bytes)>>, low |-> <<>>]
  ELSE [high |-> <<>>,
        low |-> <<Package(IF push THEN "mpush" ELSE "mreq", s, r, <<Len(bytes)>>)>>
                \o Multi(s, r, bytes)]

\* lpackresponse; socket.write for one package, socket.lwrite for several
packresponse(s, r, bytes, ok) ==
  IF ~ ok \/ Len(bytes) <= MULTI_PART
  THEN [high |-> <<Package(IF ok THEN "ok" ELSE "error", s, r, First(bytes, MULTI_PART))>>,
        low |-> <<>>]
  ELSE [high |-> <<>>,
        low |-> <<Package("begin", s, r, <<Len(bytes)>>)>> \o Multi(s, r, bytes)]

\* lconcat: the size, then the parts; None when they do not fit
concat(parts) ==
  LET all == FlattenSeq(Tail(parts))
  IN IF Len(all) = parts[1][1] THEN <<all>> ELSE None

Write(list, packages) ==
  [high |-> list.high \o packages.high, low |-> list.low \o packages.low]

-----------------------------------------------------------------------------
\* The next package of a list: high priority first.
next(list) == IF list.high # <<>> THEN Head(list.high) ELSE Head(list.low)

After(list) ==
  IF list.high # <<>> THEN [list EXCEPT !.high = Tail(@)] ELSE [list EXCEPT !.low = Tail(@)]

\* clustersender: command.req and command.push; channel:request connects first
Ask(c, size, push) ==
  LET r == requests + 1
      bytes == Asked(r, size)
  IN /\ client[c] \in {"idle", "ok", "error", "bad"} /\ r \in Request
     /\ requests' = r
     /\ connected' = TRUE
     /\ asks' = [asks EXCEPT ![c] = r]
     /\ session' = IF push /\ size < MULTI_PART THEN session ELSE NextSession(session)
     /\ out' = Write(out, packrequest(session, r, bytes, push))
     /\ replies' = [replies EXCEPT ![r].size = size]
     /\ IF push
        THEN /\ client' = [client EXCEPT ![c] = "idle"]
             /\ UNCHANGED thread
        ELSE /\ client' = [client EXCEPT ![c] = "wait"]
             /\ thread' = [thread EXCEPT ![session] = c]
     /\ UNCHANGED <<data, answer, back, large, calls, served, losses>>

\* unpackrequest and dispatch_request
dispatch_request ==
  /\ connected /\ out # Quiet
  /\ LET p == next(out)
         s == p.session
         parts == Append(large[s].parts, p.bytes)
         pass(r, msg, push) ==
           /\ served' = [served EXCEPT ![r] = Append(@, msg)]
           /\ calls' = IF push THEN calls ELSE calls \cup {[session |-> s, request |-> r]}
     IN \/ /\ p.type = "request"
           /\ pass(p.request, p.bytes, s = 0)
           /\ UNCHANGED <<large, back>>
        \/ /\ p.type \in {"mreq", "mpush"}
           /\ large' = [large EXCEPT ![s] = [push |-> p.type = "mpush", parts |-> <<p.bytes>>]]
           /\ UNCHANGED <<calls, served, back>>
        \/ /\ p.type = "part"
           /\ large' = [large EXCEPT ![s].parts = parts]
           /\ UNCHANGED <<calls, served, back>>
        \/ /\ p.type = "end"
           /\ large' = [large EXCEPT ![s] = [push |-> FALSE, parts |-> <<>>]]
           /\ IF concat(parts) # None
              THEN pass(p.request, concat(parts)[1], large[s].push) /\ UNCHANGED back
              ELSE /\ back' = Write(back, packresponse(s, p.request, <<0>>, FALSE))
                   /\ UNCHANGED <<calls, served>>
  /\ out' = After(out)
  /\ UNCHANGED <<sender, connected, replies, losses>>

\* The service replies, or fails, and dispatch_request goes on.
Reply(call, size, ok) ==
  /\ call \in calls
  /\ calls' = calls \ {call}
  /\ LET bytes == IF ok THEN Replied(call.request, size) ELSE <<0>>
     IN /\ replies' = [replies EXCEPT ![call.request].bytes = bytes, ![call.request].ok = ok]
        /\ back' = Write(back, packresponse(call.session, call.request, bytes, ok))
  /\ UNCHANGED <<sender, connected, out, large, served, losses>>

\* A request is over: its client goes on with the result.
Finish(c, how, bytes) ==
  /\ client' = [client EXCEPT ![c] = how]
  /\ answer' = [answer EXCEPT ![c] = bytes]
  /\ data' = [data EXCEPT ![c] = <<>>]

\* dispatch_by_session and wait_for_response
dispatch_by_session ==
  /\ connected /\ back # Quiet
  /\ LET p == next(back)
         c == thread[p.session]
         all == Append(data[c], p.bytes)
     IN \/ /\ c # None /\ p.type \in {"begin", "part"}
           /\ data' = [data EXCEPT ![c] = all]
           /\ UNCHANGED <<thread, client, answer>>
        \/ /\ c # None /\ p.type \in {"ok", "end", "error"}
           /\ thread' = [thread EXCEPT ![p.session] = None]
           /\ IF p.type = "error" THEN Finish(c, "error", p.bytes)
              ELSE IF data[c] = <<>> THEN Finish(c, "ok", p.bytes)
              ELSE IF concat(all) = None THEN Finish(c, "bad", <<>>)
              ELSE Finish(c, "ok", concat(all)[1])
        \/ /\ c = None
           /\ UNCHANGED <<thread, data, client, answer>>
  /\ back' = After(back)
  /\ UNCHANGED <<session, connected, asks, out, agent, requests, losses>>

\* The clients wakeup_all wakes.
Failing(c) == \E s \in SessionId : thread[s] = c

\* The connection is lost: both ends forget it; wakeup_all
Lose ==
  /\ connected /\ losses < MaxLosses
  /\ losses' = losses + 1
  /\ connected' = FALSE /\ out' = Quiet /\ back' = Quiet
  /\ large' = [s \in SessionId |-> [push |-> FALSE, parts |-> <<>>]] /\ calls' = {}
  /\ client' = [c \in Client |-> IF Failing(c) THEN "error" ELSE client[c]]
  /\ data' = [c \in Client |-> IF Failing(c) THEN <<>> ELSE data[c]]
  /\ thread' = [s \in SessionId |-> None]
  /\ UNCHANGED <<session, asks, answer, served, replies, requests>>

Init ==
  /\ session = FirstSession /\ connected = FALSE
  /\ thread = [s \in SessionId |-> None] /\ data = [c \in Client |-> <<>>]
  /\ client = [c \in Client |-> "idle"]
  /\ asks = [c \in Client |-> 0] /\ answer = [c \in Client |-> <<>>]
  /\ out = Quiet /\ back = Quiet
  /\ large = [s \in SessionId |-> [push |-> FALSE, parts |-> <<>>]] /\ calls = {}
  /\ served = [r \in Request |-> <<>>]
  /\ replies = [r \in Request |-> [size |-> 0, bytes |-> <<>>, ok |-> FALSE]]
  /\ requests = 0 /\ losses = 0

Next ==
  \/ dispatch_request \/ dispatch_by_session \/ Lose
  \/ \E c \in Client, size \in Size, push \in BOOLEAN : Ask(c, size, push)
  \/ \E call \in calls, size \in Size, ok \in BOOLEAN : Reply(call, size, ok)

Spec == Init /\ [][Next]_vars

-----------------------------------------------------------------------------
\* The service gets every request at most once and whole, however its parts and
\* other requests overtook each other, and a caller whose call succeeded has
\* what the service replied to it, whole.
CallsExact ==
  /\ \A r \in Request : served[r] \in {<<>>, <<Asked(r, replies[r].size)>>}
  /\ \A c \in Client :
       /\ client[c] # "bad"
       /\ client[c] = "ok" => replies[asks[c]].ok /\ answer[c] = replies[asks[c]].bytes

Packages(list) ==
  {list.high[i] : i \in DOMAIN list.high} \cup {list.low[i] : i \in DOMAIN list.low}

\* A caller that waits is known by its session, and its request or the response
\* is on its way or with the service: nobody waits for ever, also after the
\* connection was lost.
CallerRemembered ==
  \A c \in Client : client[c] = "wait" =>
    /\ \E s \in SessionId : thread[s] = c
    /\ connected
    /\ \/ \E p \in Packages(out) \cup Packages(back) :
            p.request = asks[c] /\ p.type \in {"request", "end", "ok", "error"}
       \/ \E call \in calls : call.request = asks[c]

=============================================================================
