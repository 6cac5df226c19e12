--------------------------- MODULE ClusterSenders ---------------------------
(***************************************************************************)
(* The senders of a cluster, one for each node. clusterd.lua and the       *)
(* address of one node of the cluster: requests for its sender open a      *)
(* channel, one coroutine at a time while the others wait; the             *)
(* configuration may give the node another address, turn it off or tell    *)
(* that nobody shall wait for unknown nodes, at any time. What runs        *)
(* between two waits, the coroutines it wakes included, is one step. The   *)
(* second part: cluster.lua in one service, for one node: calls and sends  *)
(* that are made before clusterd has told the sender of the node wait in a *)
(* queue, which a coroutine of its own works off. It hands over to each    *)
(* call that waits, and goes on when that call has sent its message.       *)
(***************************************************************************)
EXTENDS Naturals, Sequences, FiniteSets, SequencesExt

CONSTANTS
  Co,              \* coroutines
  Address,         \* addresses, numbers from 1
  MaxReloads,      \* bound
  None             \* nil

False == 0         \* the address of a node that is turned off

OpenAssumption == Address \subseteq Nat \ {0} /\ MaxReloads \in Nat

VARIABLES
  node_address, nowaiting,
  node_sender,          \* the node has a sender, a service
  node_sender_closed,
  node_channel,         \* node_channel[key] is set, to the sender
  connecting,           \* None, or the coroutines that wait, in order
  co,                   \* per coroutine: "idle", "name", "named", "create", "change", "off", "wait"
  address,              \* per coroutine: the address it opens
  host,                 \* the address the sender's channel is for; False when closed
  awake,                \* history: a sender that was closed could not connect again
  got,                  \* per coroutine: "none", "sender" or "error"
  reloads               \* reloads so far

vars == <<node_address, nowaiting, node_sender, node_sender_closed, node_channel, connecting, co,
          address, host, awake, got, reloads>>

Set(f, ks, v) == [k \in DOMAIN f |-> IF k \in ks THEN v ELSE f[k]]

\* open_channel when nobody connects: where the coroutine waits for the address a,
\* or "end" if it does not; closed: node_sender_closed
Begin(a, closed) ==
  CASE a = None -> IF nowaiting THEN "end" ELSE "name"
    [] a = False -> IF ~ node_sender \/ closed THEN "end" ELSE "off"
    [] OTHER -> IF node_sender THEN "change" ELSE "create"

\* Mutant: the address is not compared when the channel is open.
MutStale(k) == FALSE

\* The address has changed while the channel was opened: it is opened again.
Stale(k) == node_address # address[k]

\* The end of open_channel: the coroutine k and those that waited have the sender or
\* fail.  When the address has changed all of this begins again.
End(k, succ, channel, closed) ==
  LET again == IF Stale(k) THEN Begin(node_address, closed) ELSE "end"
  IN /\ node_sender_closed' = closed
     /\ IF again # "end"
        THEN /\ co' = [co EXCEPT ![k] = again]
             /\ address' = [address EXCEPT ![k] = node_address]
             /\ UNCHANGED <<connecting, got>>
        ELSE /\ connecting' = None
             /\ co' = Set(co, {k} \cup ToSet(connecting), "idle")
             /\ got' = [j \in Co |->
                  CASE j = k -> IF succ \/ Stale(k) THEN "sender" ELSE "error"
                    [] j \in ToSet(connecting) ->
                         IF node_address \in Address /\ channel THEN "sender" ELSE "error"
                    [] OTHER -> got[j]]
             /\ UNCHANGED address

\* open_channel from its start, for the address a
open_channel(k, a) ==
  LET first == Begin(a, node_sender_closed)
  IN \/ /\ connecting # None
        /\ connecting' = Append(connecting, k)
        /\ co' = [co EXCEPT ![k] = "wait"]
        /\ UNCHANGED <<address, got>>
     \/ /\ connecting = None /\ first # "end"
        /\ connecting' = <<>>
        /\ address' = [address EXCEPT ![k] = a]
        /\ co' = [co EXCEPT ![k] = first]
        /\ UNCHANGED got
     \/ /\ connecting = None /\ first = "end"
        /\ got' = [got EXCEPT ![k] = IF a = False THEN "sender" ELSE "error"]
        /\ UNCHANGED <<connecting, co, address>>

\* command.sender
command_sender(k) ==
  /\ co[k] = "idle" /\ got[k] = "none"
  /\ IF node_channel
     THEN got' = [got EXCEPT ![k] = "sender"] /\ UNCHANGED <<connecting, co, address>>
     ELSE open_channel(k, node_address)
  /\ UNCHANGED <<node_address, nowaiting, node_sender, node_sender_closed, node_channel, host,
                 awake, reloads>>

\* The name query is woken.
Named(k) ==
  /\ co[k] = "named"
  /\ LET first == Begin(node_address, node_sender_closed)
     IN IF first = "end"
        THEN /\ connecting' = None
             /\ co' = Set(co, {k} \cup ToSet(connecting), "idle")
             /\ got' = [Set(got, ToSet(connecting), "error") EXCEPT
                          ![k] = IF node_address = False THEN "sender" ELSE "error"]
             /\ UNCHANGED address
        ELSE /\ co' = [co EXCEPT ![k] = first]
             /\ address' = [address EXCEPT ![k] = node_address]
             /\ UNCHANGED <<connecting, got>>
  /\ UNCHANGED <<node_address, nowaiting, node_sender, node_sender_closed, node_channel, host,
                 awake, reloads>>

\* The new service is there.  Only one coroutine is between the two tests of
\* node_sender.
Created(k) ==
  /\ co[k] = "create"
  /\ node_sender' = TRUE /\ host' = address[k]
  /\ co' = [co EXCEPT ![k] = "change"]
  /\ UNCHANGED <<node_address, nowaiting, node_sender_closed, node_channel, connecting, address,
                 awake, got, reloads>>

\* changenode is answered: the sender has the new host, but may be unable to connect.
Changed(k, succ) ==
  /\ co[k] = "change"
  /\ host' = address[k]
  /\ awake' = (node_sender_closed /\ ~ succ)
  /\ node_channel' = (node_channel \/ succ)
  /\ End(k, succ, succ, node_sender_closed /\ ~ succ)
  /\ UNCHANGED <<node_address, nowaiting, node_sender, reloads>>

TurnedOff(k) ==
  /\ co[k] = "off"
  /\ host' = False /\ awake' = FALSE
  /\ End(k, TRUE, FALSE, TRUE)
  /\ UNCHANGED <<node_address, nowaiting, node_sender, node_channel, reloads>>

\* loadconfig with another address for the node; who asked for its name is woken, and
\* a sender that is there is told by a coroutine of its own.
reload(a) ==
  /\ reloads < MaxReloads /\ a # node_address
  /\ reloads' = reloads + 1
  /\ node_address' = a
  /\ IF node_sender
     THEN /\ node_channel' = FALSE
          /\ \E k \in Co : co[k] = "idle" /\ open_channel(k, a)
     ELSE /\ co' = [k \in Co |-> IF co[k] = "name" /\ ~ nowaiting THEN "named" ELSE co[k]]
          /\ UNCHANGED <<node_channel, connecting, address, got>>
  /\ UNCHANGED <<nowaiting, node_sender, node_sender_closed, host, awake>>

\* loadconfig with __nowaiting
reload_nowaiting ==
  /\ ~ nowaiting
  /\ nowaiting' = TRUE
  /\ co' = [k \in Co |-> IF co[k] = "name" THEN "named" ELSE co[k]]
  /\ UNCHANGED <<node_address, node_sender, node_sender_closed, node_channel, connecting, address,
                 host, awake, got, reloads>>

\* A coroutine is done; another request may use it.
Done(k) ==
  /\ co[k] = "idle" /\ got[k] # "none"
  /\ got' = [got EXCEPT ![k] = "none"]
  /\ UNCHANGED <<node_address, nowaiting, node_sender, node_sender_closed, node_channel,
                 connecting, co, address, host, awake, reloads>>

Init ==
  /\ node_address \in {None} \cup Address /\ nowaiting = FALSE
  /\ node_sender = FALSE /\ node_sender_closed = FALSE /\ node_channel = FALSE
  /\ connecting = None
  /\ co = [k \in Co |-> "idle"] /\ address = [k \in Co |-> None] /\ host = None /\ awake = FALSE
  /\ got = [k \in Co |-> "none"] /\ reloads = 0

Next ==
  \/ reload_nowaiting
  \/ \E a \in Address \cup {False} : reload(a)
  \/ \E k \in Co : command_sender(k) \/ Named(k) \/ Created(k) \/ TurnedOff(k) \/ Done(k)
                   \/ \E succ \in BOOLEAN : Changed(k, succ)

Spec == Init /\ [][Next]_vars

-----------------------------------------------------------------------------
Opening == {"name", "named", "create", "change", "off"}

\* One coroutine opens while the others wait for it, and the one that waits for the
\* node's address waits only as long as it must.
OneOpens ==
  /\ Cardinality({k \in Co : co[k] \in Opening}) = (IF connecting = None THEN 0 ELSE 1)
  /\ connecting # None => {k \in Co : co[k] = "wait"} = ToSet(connecting)
  /\ \A k \in Co : co[k] = "name" => node_address = None /\ ~ nowaiting

\* When nothing is being opened, the sender is for the address that is configured
\* now, however often it has changed, unless it was closed, could not connect again
\* and is closed once more; and a channel that is kept is to a sender.
SenderCurrent ==
  /\ connecting = None /\ node_sender => host = node_address \/ (node_address = False /\ awake)
  /\ node_channel => node_sender

-----------------------------------------------------------------------------
(* The queue of messages to a node whose sender is not known yet *)

CONSTANTS
  Caller,         \* coroutines of the service
  MaxMessages     \* bound: calls and sends

QueueAssumption == MaxMessages \in Nat

VARIABLES
  sender,     \* sender[node] is set
  queue,      \* task_queue[node]: numbers of sends and calls
  request,    \* request_sender: "none", "ask", "run", "confirm" (it waits) or "resumed"
  c,          \* what clusterd answered: a sender or not
  at,         \* the task it is at
  caller,     \* per coroutine: "idle", "wait", "woken", "sent" or "failed"
  number,     \* per coroutine: the number of its call
  made,       \* calls and sends so far
  calls,      \* numbers that are calls
  out,        \* what was sent to the sender
  failed      \* numbers that were dropped or raised an error

queueVars == <<sender, queue, request, c, at, caller, number, made, calls, out, failed>>

\* request_sender runs from one wait to the next without being interrupted.
Yielded == request # "run"

\* task_queue[node], which get_queue makes with a fork of request_sender
Queued(m) ==
  /\ queue' = Append(queue, m)
  /\ request' = IF request = "none" THEN "ask" ELSE request

send ==
  /\ Yielded /\ made < MaxMessages
  /\ made' = made + 1
  /\ \/ sender /\ out' = Append(out, made') /\ UNCHANGED <<queue, request>>
     \/ ~ sender /\ Queued(made') /\ UNCHANGED out
  /\ UNCHANGED <<sender, c, at, caller, number, calls, failed>>

\* cluster.call, up to get_sender's wait or to the call of the sender
call(k) ==
  /\ Yielded /\ made < MaxMessages /\ caller[k] \notin {"wait", "woken"}
  /\ made' = made + 1
  /\ calls' = calls \cup {made'}
  /\ number' = [number EXCEPT ![k] = made']
  /\ \/ /\ sender
        /\ out' = Append(out, made')
        /\ caller' = [caller EXCEPT ![k] = "sent"]
        /\ UNCHANGED <<queue, request>>
     \/ /\ ~ sender
        /\ Queued(made')
        /\ caller' = [caller EXCEPT ![k] = "wait"]
        /\ UNCHANGED out
  /\ UNCHANGED <<sender, c, at, failed>>

\* clusterd answers with a sender, or with nil or an error.
Told(ok) ==
  /\ request = "ask"
  /\ request' = "run" /\ c' = ok /\ at' = 1
  /\ UNCHANGED <<sender, queue, caller, number, made, calls, out, failed>>

\* Mutant: the coroutine does not wait until the call has sent its message.
MutHandOver(k) ==
  /\ caller' = [caller EXCEPT ![k] = "woken"]
  /\ request' = "run"

\* wakeup(task) and wait(confirm)
HandOver(k) ==
  /\ caller' = [caller EXCEPT ![k] = "woken"]
  /\ request' = "confirm"

\* One task of the queue, or its end
request_sender ==
  /\ request \in {"run", "resumed"}
  /\ \/ /\ at <= Len(queue) /\ queue[at] \notin calls
        /\ IF c THEN out' = Append(out, queue[at]) /\ UNCHANGED failed
                ELSE failed' = failed \cup {queue[at]} /\ UNCHANGED out
        /\ at' = at + 1 /\ request' = "run"
        /\ UNCHANGED <<sender, queue, caller>>
     \/ /\ at <= Len(queue) /\ queue[at] \in calls
        /\ \E k \in Caller : number[k] = queue[at] /\ HandOver(k)
        /\ at' = at + 1
        /\ UNCHANGED <<sender, queue, out, failed>>
     \/ /\ at > Len(queue)
        /\ queue' = <<>> /\ sender' = c /\ request' = "none"
        /\ UNCHANGED <<at, caller, out, failed>>
  /\ UNCHANGED <<c, number, made, calls>>

\* The rest of get_sender and of call; without a sender the call is an error.
get_sender(k) ==
  /\ Yielded /\ caller[k] = "woken"
  /\ request' = IF request = "confirm" THEN "resumed" ELSE request
  /\ IF c
     THEN /\ out' = Append(out, number[k])
          /\ caller' = [caller EXCEPT ![k] = "sent"] /\ UNCHANGED failed
     ELSE /\ failed' = failed \cup {number[k]}
          /\ caller' = [caller EXCEPT ![k] = "failed"] /\ UNCHANGED out
  /\ UNCHANGED <<sender, queue, c, at, number, made, calls>>

QueueInit ==
  /\ sender = FALSE /\ queue = <<>> /\ request = "none" /\ c = FALSE /\ at = 1
  /\ caller = [k \in Caller |-> "idle"] /\ number = [k \in Caller |-> 0]
  /\ made = 0 /\ calls = {} /\ out = <<>> /\ failed = {}

QueueNext ==
  \/ send \/ request_sender
  \/ \E ok \in BOOLEAN : Told(ok)
  \/ \E k \in Caller : call(k) \/ get_sender(k)

QueueSpec == QueueInit /\ [][QueueNext]_queueVars

-----------------------------------------------------------------------------
\* Messages reach the sender in the order of the calls and sends that made them.
SentInOrder == \A i, j \in DOMAIN out : i < j => out[i] < out[j]

\* Every message was sent, failed, or waits in a queue that is worked off; and nobody
\* waits otherwise.
NoneLost ==
  /\ \A m \in 1 .. made :
       \/ \E i \in DOMAIN out : out[i] = m
       \/ m \in failed
       \/ /\ \E i \in DOMAIN queue : queue[i] = m
          /\ request # "none"
  /\ request = "confirm" => \E k \in Caller : caller[k] = "woken"
  /\ \A k \in Caller : caller[k] = "wait" =>
       \E i \in DOMAIN queue : queue[i] = number[k] /\ (request # "ask" => i >= at)

=============================================================================
