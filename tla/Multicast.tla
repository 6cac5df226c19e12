----------------------------- MODULE Multicast -----------------------------
(***************************************************************************)
(* One multicast channel: the multicastd services of the node that owns it *)
(* and of the other nodes, the services that subscribe and publish, and    *)
(* the counted packages (lua-multicast.cpp) that local receivers share.    *)
(* Between two multicastds messages keep their order (a harbor             *)
(* connection); those of a service to its multicastd do too.  SUB waits    *)
(* for the owner in the middle of the handler, while others are served.    *)
(***************************************************************************)
EXTENDS Integers, Sequences, FiniteSets

CONSTANTS
  Node, Owner,          \* nodes; the one whose multicastd made the channel
  Service, NodeOf(_),   \* services (numbers) that use the channel, and where they are
  MaxCalls, MaxPublish  \* bounds: calls of the services; packages

MulticastAssumption ==
  /\ IsFiniteSet(Service) /\ 0 \notin Service
  /\ Owner \in Node /\ \A s \in Service : NodeOf(s) \in Node

VARIABLES
  channel, channel_n,   \* per node: the subscribers or Dead (nil); their number
  channel_remote,       \* the owner's table: nodes that subscribe
  waiting,              \* services whose SUB waits for the owner's answer
  mail,                 \* per service: messages to its multicastd
  link,                 \* per node but the owner: messages to and from the owner
  chan,                 \* per service: "out", "calling" or "in" (__subscribe)
  inbox,                \* per service: packages to be dispatched
  mc_reference,         \* the packages in the order they were made: mc_package.reference
  mc_freed,             \* the packages freed
  calls, deleted

multicastVars == <<channel, channel_n, channel_remote, waiting, mail, link, chan, inbox,
                   mc_reference, mc_freed, calls, deleted>>

Dead == {0}
Others == Node \ {Owner}
memory == <<inbox, mc_reference, mc_freed>>

Post(s, what) == mail' = [mail EXCEPT ![s] = Append(@, what)]
Op == calls < MaxCalls /\ calls' = calls + 1

-----------------------------------------------------------------------------
(* The services: multicast.lua.                                            *)

subscribe(s) ==
  /\ Op /\ chan[s] = "out"
  /\ Post(s, "SUB")
  /\ chan' = [chan EXCEPT ![s] = "calling"]
  /\ UNCHANGED <<channel, channel_n, channel_remote, waiting, link, memory, deleted>>

unsubscribe(s) ==
  /\ Op /\ chan[s] = "in"
  /\ Post(s, "USUB")
  /\ chan' = [chan EXCEPT ![s] = "out"]
  /\ UNCHANGED <<channel, channel_n, channel_remote, waiting, link, memory, deleted>>

\* publish (at the owner's node; elsewhere the text is forwarded to it) and delete
publish(s, what) ==
  /\ Op /\ NodeOf(s) = Owner
  /\ what = "DEL" => ~ deleted
  /\ Post(s, what)
  /\ deleted' = (deleted \/ what = "DEL")
  /\ UNCHANGED <<channel, channel_n, channel_remote, waiting, link, chan, memory>>

\* Mutant: the package is freed with the second last reference.
MutClosed(ref) == ref <= 2

\* Whether a close that finds the count ref frees the package (mc_closelocal).
Closed(ref) == ref <= 0

mc_closelocal(p) ==
  /\ mc_reference' = [mc_reference EXCEPT ![p] = @ - 1]
  /\ mc_freed' = IF Closed(mc_reference[p]) THEN mc_freed \cup {p} ELSE mc_freed

\* dispatch_subscribe: the package is closed whether it is wanted or not
dispatch_subscribe(s) ==
  /\ inbox[s] # <<>>
  /\ inbox' = [inbox EXCEPT ![s] = Tail(@)]
  /\ mc_closelocal(Head(inbox[s]))
  /\ UNCHANGED <<channel, channel_n, channel_remote, waiting, mail, link, chan, calls, deleted>>

-----------------------------------------------------------------------------
(* multicastd                                                              *)

Get(s, what) ==
  /\ mail[s] # <<>> /\ Head(mail[s]) = what
  /\ s \notin waiting
  /\ mail' = [mail EXCEPT ![s] = Tail(@)]
ToOwner(n, what) == link' = [link EXCEPT ![n].up = Append(@, what)]

\* The part of publish for the receivers on one node: one package, bound with
\* channel_n, a pointer to each; nobody: bound with 1 and closed.
PublishLocal(n) ==
  LET pack == Len(mc_reference) + 1
  IN IF channel[n] \in {Dead, {}}
     THEN /\ mc_reference' = Append(mc_reference, 0)
          /\ mc_freed' = IF Closed(1) THEN mc_freed \cup {pack} ELSE mc_freed
          /\ UNCHANGED inbox
     ELSE /\ mc_reference' = Append(mc_reference, channel_n[n])
          /\ inbox' = [s \in Service |-> IF s \in channel[n] THEN Append(inbox[s], pack)
                                          ELSE inbox[s]]
          /\ UNCHANGED mc_freed

\* command.PUB at the owner's node: a copy of the text to each remote node
PUB(s) ==
  /\ Get(s, "PUB") /\ Len(mc_reference) < MaxPublish
  /\ link' = [n \in Others |->
       IF n \in channel_remote THEN [link[n] EXCEPT !.down = Append(@, <<"PUB", s>>)] ELSE link[n]]
  /\ PublishLocal(Owner)
  /\ UNCHANGED <<channel, channel_n, channel_remote, waiting, chan, calls, deleted>>

\* the protocol "multicast": a package of its own for a remote node
RemotePublish(n) ==
  /\ link[n].down # <<>> /\ Head(link[n].down)[1] = "PUB"
  /\ link' = [link EXCEPT ![n].down = Tail(@)]
  /\ PublishLocal(n)
  /\ UNCHANGED <<channel, channel_n, channel_remote, waiting, mail, chan, calls, deleted>>

\* Mutant: the group is made anew whatever happened during the call.
MutMade(n) == {}

\* The group after the call to the owner: "double check".
Made(n) == IF channel[n] = Dead THEN {} ELSE channel[n]

\* The end of command.SUB: the service is entered, and answered.
Join(s, group) ==
  LET n == NodeOf(s)
  IN /\ channel_n' = [channel_n EXCEPT ![n] = IF s \in group THEN @ ELSE @ + 1]
     /\ channel' = [channel EXCEPT ![n] = group \cup {s}]
     /\ chan' = [chan EXCEPT ![s] = "in"]

\* command.SUB, up to the call of a remote owner
SUB(s) ==
  LET n == NodeOf(s)
  IN /\ Get(s, "SUB")
     /\ \/ /\ n # Owner /\ channel[n] = Dead
           /\ ToOwner(n, <<"SUBR", s>>)
           /\ waiting' = waiting \cup {s}
           /\ UNCHANGED <<channel, channel_n, chan>>
        \/ /\ channel[n] # Dead
           /\ Join(s, channel[n])
           /\ UNCHANGED <<link, waiting>>
        \/ /\ n = Owner /\ channel[n] = Dead      \* deleted: answered all the same
           /\ chan' = [chan EXCEPT ![s] = "in"]
           /\ UNCHANGED <<channel, channel_n, link, waiting>>
     /\ UNCHANGED <<channel_remote, memory, calls, deleted>>

\* command.SUB, from the owner's answer on; <<"NO", s>>: there is no channel
SUBAnswer(n) ==
  /\ link[n].down # <<>> /\ Head(link[n].down)[1] \in {"YES", "NO"}
  /\ LET s == Head(link[n].down)[2]
     IN /\ waiting' = waiting \ {s}
        /\ IF Head(link[n].down)[1] = "YES" THEN Join(s, Made(n))
           ELSE chan' = [chan EXCEPT ![s] = "in"] /\ UNCHANGED <<channel, channel_n>>
  /\ link' = [link EXCEPT ![n].down = Tail(@)]
  /\ UNCHANGED <<channel_remote, mail, memory, calls, deleted>>

\* Mutant: the count is left as it was.
MutRemaining(n) == channel_n[n]

Remaining(n) == channel_n[n] - 1

\* command.USUB: a group of a remote channel that becomes empty is given up
USUB(s) ==
  LET n == NodeOf(s)
      last == n # Owner /\ channel_n[n] = 1
  IN /\ Get(s, "USUB")
     /\ \/ /\ channel[n] # Dead /\ s \in channel[n]
           /\ channel' = [channel EXCEPT ![n] = IF last THEN Dead ELSE @ \ {s}]
           /\ channel_n' = [channel_n EXCEPT ![n] = Remaining(n)]
           /\ IF last THEN ToOwner(n, <<"USUBR", s>>) ELSE UNCHANGED link
        \/ /\ channel[n] = Dead \/ s \notin channel[n]   \* the assertion, or nothing
           /\ UNCHANGED <<channel, channel_n, link>>
     /\ UNCHANGED <<channel_remote, waiting, chan, memory, calls, deleted>>

\* command.SUBR and command.USUBR at the owner
FromNode(n) ==
  /\ link[n].up # <<>>
  /\ LET what == Head(link[n].up)[1]
         s == Head(link[n].up)[2]
         known == channel[Owner] # Dead
     IN \/ /\ what = "SUBR"
           /\ channel_remote' = IF known THEN channel_remote \cup {n} ELSE channel_remote
           /\ link' = [link EXCEPT ![n] = [up |-> Tail(@.up),
                         down |-> Append(@.down, <<IF known THEN "YES" ELSE "NO", s>>)]]
        \/ /\ what = "USUBR"
           /\ channel_remote' = channel_remote \ {n}
           /\ link' = [link EXCEPT ![n].up = Tail(@)]
  /\ UNCHANGED <<channel, channel_n, waiting, mail, chan, memory, calls, deleted>>

\* command.DEL at the owner, and command.DELR at the others
DEL(s) ==
  /\ Get(s, "DEL")
  /\ channel' = [channel EXCEPT ![Owner] = Dead]
  /\ channel_n' = [channel_n EXCEPT ![Owner] = 0]
  /\ channel_remote' = {}
  /\ link' = [n \in Others |->
       IF n \in channel_remote THEN [link[n] EXCEPT !.down = Append(@, <<"DELR", s>>)] ELSE link[n]]
  /\ UNCHANGED <<waiting, chan, memory, calls, deleted>>

DELR(n) ==
  /\ link[n].down # <<>> /\ Head(link[n].down)[1] = "DELR"
  /\ link' = [link EXCEPT ![n].down = Tail(@)]
  /\ channel' = [channel EXCEPT ![n] = Dead]
  /\ channel_n' = [channel_n EXCEPT ![n] = 0]
  /\ UNCHANGED <<channel_remote, waiting, mail, chan, memory, calls, deleted>>

\* command.NEW has made the channel.
MulticastInit ==
  /\ channel = [n \in Node |-> IF n = Owner THEN {} ELSE Dead]
  /\ channel_n = [n \in Node |-> 0] /\ channel_remote = {} /\ waiting = {}
  /\ mail = [s \in Service |-> <<>>] /\ link = [n \in Others |-> [up |-> <<>>, down |-> <<>>]]
  /\ chan = [s \in Service |-> "out"] /\ inbox = [s \in Service |-> <<>>]
  /\ mc_reference = <<>> /\ mc_freed = {} /\ calls = 0 /\ deleted = FALSE

MulticastNext ==
  \/ \E s \in Service :
       \/ subscribe(s) \/ unsubscribe(s) \/ publish(s, "PUB") \/ publish(s, "DEL")
       \/ dispatch_subscribe(s) \/ PUB(s) \/ SUB(s) \/ USUB(s) \/ DEL(s)
  \/ \E n \in Others : RemotePublish(n) \/ SUBAnswer(n) \/ FromNode(n) \/ DELR(n)

MulticastSpec == MulticastInit /\ [][MulticastNext]_multicastVars

-----------------------------------------------------------------------------
\* The count that packages are bound with is the number of receivers, across
\* subscriptions that were answered late and groups that were given up.
CountExact ==
  \A n \in Node : channel_n[n] = IF channel[n] = Dead THEN 0 ELSE Cardinality(channel[n])

\* A service whose subscription was answered is in its node's group until it
\* unsubscribes, unless the channel is deleted.
SubscriberListed ==
  \A s \in Service : chan[s] = "in" /\ ~ deleted => s \in channel[NodeOf(s)]

\* A package is not freed before each receiver on the node has had it.
PackageAlive == \A s \in Service : \A i \in DOMAIN inbox[s] : inbox[s][i] \notin mc_freed

\* A multicast group counts its subscribers, lists every service whose
\* subscription was answered, and a package lives until its last receiver on the
\* node has had it.
MulticastExact == CountExact /\ SubscriberListed /\ PackageAlive

=============================================================================
