--------------------------- MODULE UniqueService ---------------------------
(***************************************************************************)
(* The launcher (launcher.lua) and the manager of unique services          *)
(* (service_mgr.lua), with the services that are launched: each reports    *)
(* how its init went, exits or is killed at any time, and the launcher     *)
(* answers whoever asked for it exactly once.  Messages to the launcher    *)
(* come in order.  Handles are given in increasing order and not reused.   *)
(***************************************************************************)
EXTENDS Naturals, Sequences, FiniteSets

CONSTANTS
  UniqueName,  \* names of unique services
  Requester,   \* coroutines of the manager, one per request
  MaxHandle    \* bound: services launched

UniqueAssumption == MaxHandle \in Nat

Handle == 1 .. MaxHandle

VARIABLES
  services, instance,  \* launcher: the list of services, the handles whose launch is to be answered
  mailbox,        \* launcher: messages that wait
  stage,          \* per handle: "none", "init", "run" or "dead"
  nameOf,         \* per handle: for which name it was launched
  answer,         \* per name: "none" or the answer to the manager's launch
  answer_handle,  \* per name: the handle of an answer "ok"
  service,        \* manager: per name "nil", "table" (being launched or asked for), "number"
                  \* or "string"
  launching,      \* manager: s.launch of the table
  waiters,        \* manager: the coroutines in the table
  client,         \* per request: "idle", "launch", "wait", "woken", "ok", "nil" or "error"
  wants,          \* per request: its name
  answers         \* per name: launches and answers, counted

uniqueVars == <<services, instance, mailbox, stage, nameOf, answer, answer_handle, service,
                launching, waiters, client, wants, answers>>
launcher == <<services, instance>>
world == <<stage, nameOf>>
manager == <<service, launching, waiters, client, wants>>

Tell(m) == mailbox' = mailbox \o m
LAUNCH(n) == [cmd |-> "LAUNCH", name |-> n]
Report(cmd, h) == [cmd |-> cmd, handle |-> h]
HandleOf(m) == IF m.cmd = "LAUNCH" THEN 0 ELSE m.handle

-----------------------------------------------------------------------------
\* service_mgr.lua

\* Mutant: a launch that is under way is not seen.
MutMayLaunch(n) == TRUE

\* Whether the table of n has no launch yet.
MayLaunch(n) == ~ launching[n]

\* waitfor: launch (func given, cmd.LAUNCH) or only ask (cmd.QUERY)
waitfor(c, n, func) ==
  /\ client[c] = "idle"
  /\ wants' = [wants EXCEPT ![c] = n]
  /\ \/ /\ service[n] = "number"
        /\ client' = [client EXCEPT ![c] = "ok"]
        /\ UNCHANGED <<service, launching, waiters, mailbox, answers>>
     \/ /\ service[n] = "string"
        /\ client' = [client EXCEPT ![c] = "error"]
        /\ UNCHANGED <<service, launching, waiters, mailbox, answers>>
     \/ /\ service[n] \in {"nil", "table"} /\ func /\ MayLaunch(n)
        /\ service' = [service EXCEPT ![n] = "table"]
        /\ launching' = [launching EXCEPT ![n] = TRUE]
        /\ client' = [client EXCEPT ![c] = "launch"]
        /\ Tell(<<LAUNCH(n)>>)
        /\ answers' = [answers EXCEPT ![n] = @ + 1]
        /\ UNCHANGED waiters
     \/ /\ service[n] \in {"nil", "table"} /\ ~ (func /\ MayLaunch(n))
        /\ service' = [service EXCEPT ![n] = "table"]
        /\ waiters' = [waiters EXCEPT ![n] = Append(@, c)]
        /\ client' = [client EXCEPT ![c] = "wait"]
        /\ UNCHANGED <<launching, mailbox, answers>>
  /\ UNCHANGED <<launcher, world, answer, answer_handle>>

\* Mutant: only the first coroutine in the table is woken.
MutAwake(s) == {s[i] : i \in DOMAIN s \cap {1}}

\* The coroutines request wakes.
Awake(s) == {s[i] : i \in DOMAIN s}

\* request, after func: a launch answered without a handle stores nil
request(c, n) ==
  /\ client[c] = "launch" /\ wants[c] = n /\ answer[n] # "none"
  /\ service' = [service EXCEPT ![n] =
       CASE answer[n] = "ok" -> "number" [] answer[n] = "nil" -> "nil" [] OTHER -> "string"]
  /\ client' = [d \in Requester |->
       CASE d = c -> answer[n]
         [] d # c /\ d \in Awake(waiters[n]) -> "woken"
         [] OTHER -> client[d]]
  /\ launching' = [launching EXCEPT ![n] = FALSE]
  /\ waiters' = [waiters EXCEPT ![n] = <<>>]
  /\ answer' = [answer EXCEPT ![n] = "none"]
  /\ UNCHANGED <<launcher, mailbox, world, answer_handle, wants, answers>>

\* waitfor after fengnet.wait: an error, too, when the value is no handle (the
\* assertion)
Woken(c) ==
  /\ client[c] = "woken"
  /\ client' = [client EXCEPT ![c] = IF service[wants[c]] = "number" THEN "ok" ELSE "error"]
  /\ UNCHANGED <<launcher, mailbox, world, answer, answer_handle, service, launching, waiters,
                 wants, answers>>

-----------------------------------------------------------------------------
\* launcher.lua

Take(cmd) == mailbox # <<>> /\ Head(mailbox).cmd = cmd /\ mailbox' = Tail(mailbox)

\* The response kept for a handle, or for a launch that failed, goes to the manager.
Respond(n, how, h) ==
  /\ answer' = [answer EXCEPT ![n] = how]
  /\ answer_handle' = IF how = "ok" THEN [answer_handle EXCEPT ![n] = h] ELSE answer_handle
  /\ answers' = [answers EXCEPT ![n] = @ - 1]

\* launch_service: fengnet.launch may fail
launch_service ==
  /\ Take("LAUNCH")
  /\ LET n == Head(mailbox).name
         used == {h \in Handle : stage[h] # "none"}
         h == Cardinality(used) + 1
     IN \/ /\ h \in Handle
           /\ services' = services \cup {h} /\ instance' = instance \cup {h}
           /\ stage' = [stage EXCEPT ![h] = "init"] /\ nameOf' = [nameOf EXCEPT ![h] = n]
           /\ UNCHANGED <<answer, answer_handle, answers>>
        \/ /\ Respond(n, "error", 0)
           /\ UNCHANGED <<launcher, world>>
  /\ UNCHANGED manager

\* Once answered, a handle is forgotten.
Forget(h) == instance \ {h}

Settle(h, how) ==
  IF h \in instance
  THEN Respond(nameOf[h], how, h) /\ instance' = Forget(h)
  ELSE UNCHANGED <<answer, answer_handle, answers, instance>>

LAUNCHOK ==
  /\ Take("LAUNCHOK")
  /\ Settle(Head(mailbox).handle, "ok")
  /\ UNCHANGED <<services, world, manager>>

ERROR ==
  /\ Take("ERROR")
  /\ Settle(Head(mailbox).handle, "error")
  /\ services' = services \ {Head(mailbox).handle}
  /\ UNCHANGED <<world, manager>>

\* Mutant: a service that is removed stays in the list until its ERROR comes.
MutListWithout(h) == IF h \in instance THEN services ELSE services \ {h}

\* The list of services without h.
ListWithout(h) == services \ {h}

\* REMOVE, sent by fengnet.exit or by fengnet.kill
REMOVE(cmd) ==
  /\ Take(cmd)
  /\ Settle(Head(mailbox).handle, IF cmd = "KILLED" THEN "error" ELSE "nil")
  /\ services' = ListWithout(Head(mailbox).handle)
  /\ UNCHANGED <<world, manager>>

-----------------------------------------------------------------------------
\* The services.

Ends(h, from, to, posts) ==
  /\ stage[h] = from
  /\ stage' = [stage EXCEPT ![h] = to]
  /\ Tell(posts)
  /\ UNCHANGED <<launcher, nameOf, answer, answer_handle, manager, answers>>

\* init_service
InitOK(h) == Ends(h, "init", "run", <<Report("LAUNCHOK", h)>>)

\* Mutant: a script that fails to load exits without a word.
MutInitFailed(h) == <<>>

\* The reports of a script that failed in the loader (init_cb in service_snlua.cpp).
InitFailed(h) == <<Report("ERROR", h)>>

LoadError(h) == Ends(h, "init", "dead", InitFailed(h))

\* init_service when start raises an error: ERROR and fengnet.exit
InitError(h) == Ends(h, "init", "dead", <<Report("ERROR", h), Report("REMOVE", h)>>)

\* fengnet.exit, from the start function or later
Exit(h) == \E from \in {"init", "run"} : Ends(h, from, "dead", <<Report("REMOVE", h)>>)

\* fengnet.kill by any service: REMOVE with kill set, then KILL
Kill(h) == \E from \in {"init", "run"} : Ends(h, from, "dead", <<Report("KILLED", h)>>)

\* The launcher's command KILL: the list forgets the service before REMOVE comes.
KILL(h) ==
  /\ stage[h] \in {"init", "run"}
  /\ stage' = [stage EXCEPT ![h] = "dead"]
  /\ services' = services \ {h}
  /\ Tell(<<Report("KILLED", h)>>)
  /\ UNCHANGED <<instance, nameOf, answer, answer_handle, manager, answers>>

UniqueInit ==
  /\ services = {} /\ instance = {} /\ mailbox = <<>>
  /\ stage = [h \in Handle |-> "none"]
  /\ nameOf = [h \in Handle |-> CHOOSE n \in UniqueName : TRUE]
  /\ answer = [n \in UniqueName |-> "none"] /\ answer_handle = [n \in UniqueName |-> 0]
  /\ service = [n \in UniqueName |-> "nil"] /\ launching = [n \in UniqueName |-> FALSE]
  /\ waiters = [n \in UniqueName |-> <<>>]
  /\ client = [c \in Requester |-> "idle"]
  /\ wants = [c \in Requester |-> CHOOSE n \in UniqueName : TRUE]
  /\ answers = [n \in UniqueName |-> 0]

UniqueNext ==
  \/ launch_service \/ LAUNCHOK \/ ERROR \/ REMOVE("REMOVE") \/ REMOVE("KILLED")
  \/ \E h \in Handle : InitOK(h) \/ LoadError(h) \/ InitError(h) \/ Exit(h) \/ Kill(h) \/ KILL(h)
  \/ \E c \in Requester :
       Woken(c) \/ \E n \in UniqueName : request(c, n) \/ \E func \in BOOLEAN : waitfor(c, n, func)

UniqueSpec == UniqueInit /\ [][UniqueNext]_uniqueVars

-----------------------------------------------------------------------------
\* Every launch is answered exactly once: the answers owed are the launches
\* that wait, or that a service will still report on, in whichever order LAUNCHOK,
\* ERROR and REMOVE come.
AnsweredOnce ==
  \A n \in UniqueName :
    /\ answers[n] = Cardinality({i \in DOMAIN mailbox : mailbox[i] = LAUNCH(n)})
                    + Cardinality({h \in instance : nameOf[h] = n})
    /\ answers[n] = (IF launching[n] /\ answer[n] = "none" THEN 1 ELSE 0)
    /\ \A h \in instance :
         stage[h] = "init" \/ \E i \in DOMAIN mailbox : HandleOf(mailbox[i]) = h

\* A unique service has at most one live instance, and the handle the manager
\* gives out is that of the last one launched.
OneInstance ==
  \A n \in UniqueName :
    LET mine == {h \in Handle : stage[h] # "none" /\ nameOf[h] = n}
    IN /\ Cardinality({h \in mine : stage[h] # "dead"}) <= 1
       /\ service[n] = "number" =>
            answer_handle[n] \in mine /\ \A h \in mine : h <= answer_handle[n]

\* The launcher's list holds the services that live, once it has read its messages.
ListExact == mailbox = <<>> => services = {h \in Handle : stage[h] \in {"init", "run"}}

\* A request that waits is in the table of its name, and is woken with it.
NoneForgotten ==
  \A c \in Requester : client[c] = "wait" =>
    /\ service[wants[c]] = "table"
    /\ \E i \in DOMAIN waiters[wants[c]] : waiters[wants[c]][i] = c

\* The launcher and the manager of unique services lose no launch, no service and no
\* request.
LauncherExact == AnsweredOnce /\ OneInstance /\ ListExact /\ NoneForgotten

=============================================================================
