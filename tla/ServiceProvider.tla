--------------------------- MODULE ServiceProvider ---------------------------
(***************************************************************************)
(* Services that are made from a function (service_provider.lua and        *)
(* service.lua), for one name: clients ask whether it is there, wait for   *)
(* it, launch it or close it, while it may be starting.                    *)
(***************************************************************************)
EXTENDS Naturals, Sequences, SequencesExt

CONSTANTS
  User,              \* clients
  MaxInstances,      \* bound
  NoQueue            \* nil

ProviderAssumption == MaxInstances \in Nat /\ NoQueue \notin Seq(User)

VARIABLES
  waitqueue,     \* NoQueue, or the clients that wait
  address,       \* the instance, or 0
  booting, err,  \* booting and error
  user,          \* per client: "idle", "test", "query", "launch", "close" (requests under way),
                 \* "wait", "boot", "kill" (it has the address and kills it) or "error"
  mine,          \* per client: the instance it boots or kills, or 0
  live,          \* instances that run
  instances,     \* instances so far
  dropped        \* history: clients that waited when the name was closed

svr == <<waitqueue, address, booting, err>>
providerVars == <<svr, user, mine, live, instances, dropped>>

Become(c, s) == user' = [user EXCEPT ![c] = s]

-----------------------------------------------------------------------------
\* service.new, service.query and service.close, up to their first call
Ask(c, op) ==
  /\ user[c] \in {"idle", "error"}
  /\ Become(c, op)
  /\ UNCHANGED <<svr, mine, live, instances, dropped>>

\* provider.test, and what service.new does with the answer
test(c) ==
  /\ user[c] = "test"
  /\ Become(c, CASE booting -> "query" [] ~ booting /\ address # 0 -> "idle"
                 [] ~ booting /\ address = 0 /\ err -> "error" [] OTHER -> "launch")
  /\ UNCHANGED <<svr, mine, live, instances, dropped>>

query(c) ==
  /\ user[c] = "query"
  /\ IF waitqueue # NoQueue
     THEN waitqueue' = Append(waitqueue, c) /\ Become(c, "wait")
     ELSE Become(c, IF address # 0 THEN "idle" ELSE "error") /\ UNCHANGED waitqueue
  /\ UNCHANGED <<address, booting, err, mine, live, instances, dropped>>

\* Mutant: a launch does not see another one.
MutStarting(c) == FALSE

\* Another launch is under way.
Starting(c) == booting

\* provider.launch, up to newservice; a launch that comes after one has failed has no
\* queue to wait in.
launch(c) ==
  /\ user[c] = "launch"
  /\ \/ /\ address # 0
        /\ Become(c, "idle")
        /\ UNCHANGED <<waitqueue, booting, mine, live, instances>>
     \/ /\ address = 0 /\ Starting(c)
        /\ IF waitqueue # NoQueue THEN waitqueue' = Append(waitqueue, c) /\ Become(c, "wait")
                                ELSE Become(c, "error") /\ UNCHANGED waitqueue
        /\ UNCHANGED <<booting, mine, live, instances>>
     \/ /\ address = 0 /\ ~ Starting(c) /\ instances < MaxInstances
        /\ booting' = TRUE
        /\ instances' = instances + 1 /\ live' = live \cup {instances'}
        /\ mine' = [mine EXCEPT ![c] = instances']
        /\ Become(c, "boot")
        /\ UNCHANGED waitqueue
  /\ UNCHANGED <<address, err, dropped>>

\* The rest of launch: newservice and init succeed, or one fails and the instance is
\* told to exit.  Without a queue the answer is an error in any case.
Booted(c, ok) ==
  LET waits == IF waitqueue = NoQueue THEN {} ELSE ToSet(waitqueue)
      s == IF ok THEN "idle" ELSE "error"
  IN /\ user[c] = "boot"
     /\ booting' = FALSE
     /\ address' = (IF ok THEN mine[c] ELSE address)
     /\ err' = (err \/ ~ ok)
     /\ live' = IF ok THEN live ELSE live \ {mine[c]}
     /\ user' = [k \in User |->
          CASE k = c -> IF waitqueue = NoQueue THEN "error" ELSE s
            [] k \in waits -> s
            [] OTHER -> user[k]]
     /\ waitqueue' = NoQueue
     /\ mine' = [mine EXCEPT ![c] = 0]
     /\ UNCHANGED <<instances, dropped>>

\* provider.close; the client kills the instance it is given.
close(c) ==
  /\ user[c] = "close"
  /\ IF booting
     THEN Become(c, "idle") /\ UNCHANGED <<svr, mine, dropped>>
     ELSE /\ Become(c, IF address # 0 THEN "kill" ELSE "idle")
          /\ mine' = [mine EXCEPT ![c] = address]
          /\ dropped' = dropped \cup (IF waitqueue = NoQueue THEN {} ELSE ToSet(waitqueue))
          /\ waitqueue' = <<>> /\ address' = 0 /\ err' = FALSE /\ UNCHANGED booting
  /\ UNCHANGED <<live, instances>>

kill(c) ==
  /\ user[c] = "kill"
  /\ live' = live \ {mine[c]}
  /\ mine' = [mine EXCEPT ![c] = 0]
  /\ Become(c, "idle")
  /\ UNCHANGED <<svr, instances, dropped>>

ProviderInit ==
  /\ waitqueue = <<>> /\ address = 0 /\ booting = FALSE /\ err = FALSE
  /\ user = [c \in User |-> "idle"] /\ mine = [c \in User |-> 0]
  /\ live = {} /\ instances = 0 /\ dropped = {}

ProviderNext ==
  \E c \in User :
    \/ \E op \in {"test", "query", "close"} : Ask(c, op)
    \/ test(c) \/ query(c) \/ launch(c) \/ close(c) \/ kill(c)
    \/ \E ok \in BOOLEAN : Booted(c, ok)

ProviderSpec == ProviderInit /\ [][ProviderNext]_providerVars

-----------------------------------------------------------------------------
\* Every instance that runs is the one of the name, the one being booted, or about to
\* be killed; so that two are never in use.
NoStrayInstance ==
  /\ live = ({address} \cup {mine[c] : c \in User}) \ {0}
  /\ \A c, d \in User : user[c] = "boot" /\ user[d] = "boot" => c = d

\* Who waits is in the queue that the end of a launch answers, unless the name was
\* closed; nobody waits for a name that has an instance or has failed.
WaitersKept ==
  /\ \A c \in User : user[c] = "wait" =>
       c \in dropped \/ (waitqueue # NoQueue /\ \E i \in DOMAIN waitqueue : waitqueue[i] = c)
  /\ (address # 0 \/ err) => waitqueue = NoQueue

\* A name has no instance that nobody knows, and nobody who waits for it is forgotten.
ProviderExact == NoStrayInstance /\ WaitersKept

=============================================================================
