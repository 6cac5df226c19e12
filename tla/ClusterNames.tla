---------------------------- MODULE ClusterNames ----------------------------
(***************************************************************************)
(* The names a cluster node offers to others: clusterd keeps them and has  *)
(* an agent for every incoming connection (clusterd.lua, from              *)
(* cluster_agent on); the agents ask for names and remember the answers    *)
(* until clusterd tells them that names have changed (clusteragent.lua).   *)
(***************************************************************************)
EXTENDS Naturals, Sequences, SequencesExt

CONSTANTS
  Name, Addr,      \* names, and services that have one
  Fd,              \* connections
  MaxChanges, MaxRequests,     \* bounds: name changes, requests of other nodes
  None

NamesAssumption == {MaxChanges, MaxRequests} \subseteq Nat /\ None \notin Addr

VARIABLES
  register_name,   \* clusterd: per name its address, and per address its name
  cluster_agent,   \* clusterd: per connection "nil", "false", "true" or "agent"
  sock,            \* per connection: "none", "open" or "closed", as the gate reports it
  life,            \* the agent: "none", "starting", "up" or "exited"
  mail,            \* messages from clusterd to the agent
  ask,             \* queries from the agent to clusterd
  tables,          \* the agent's register_name tables, the last one is in use
  inquery_name,    \* per name: the table of the coroutine that asks, first, and those of the ones
                   \* that wait; <<>> is nil.  A request: [table, gone]; gone: its name was
                   \* not registered at some time since it came
  changes, requests,
  missed,          \* history: names changed when clusterd did not know the agent yet
  lost             \* history: a name that was registered all the time was not found

dvars == <<register_name, cluster_agent, sock, changes>>
avars == <<life, mail, ask, tables, inquery_name, requests, lost>>
vars == <<dvars, avars, missed>>

-----------------------------------------------------------------------------
\* clusterd

\* Mutant: agents that are known are not told.
MutTold(fd) == FALSE

\* clearnamecache reaches the agents that are known.
Told(fd) == cluster_agent[fd] = "agent"

clearnamecache ==
  /\ mail' = [fd \in Fd |->
       IF Told(fd) THEN Append(mail[fd], [t |-> "namechange", n |-> None, a |-> None]) ELSE mail[fd]]
  /\ missed' = missed \cup {fd \in Fd : cluster_agent[fd] \in {"false", "true"}}

\* A name is gone: requests for it may fail.
Gone(n) ==
  inquery_name' = [fd \in Fd |-> [inquery_name[fd] EXCEPT
                     ![n] = [i \in DOMAIN @ |-> [@[i] EXCEPT !.gone = TRUE]]]]

register(n, a) ==
  /\ changes < MaxChanges /\ register_name[n] = None
  /\ changes' = changes + 1
  /\ LET old == register_name[a]
     IN /\ register_name' = [x \in Name \cup Addr |->
             CASE x = n -> a [] x = a -> n [] x = old -> None [] OTHER -> register_name[x]]
        /\ IF old # None THEN clearnamecache /\ Gone(old)
                         ELSE UNCHANGED <<mail, missed, inquery_name>>
  /\ UNCHANGED <<cluster_agent, sock, life, ask, tables, requests, lost>>

unregister(n) ==
  /\ changes < MaxChanges /\ register_name[n] # None
  /\ changes' = changes + 1
  /\ register_name' = [register_name EXCEPT ![n] = None, ![register_name[n]] = None]
  /\ clearnamecache /\ Gone(n)
  /\ UNCHANGED <<cluster_agent, sock, life, ask, tables, requests, lost>>

queryname(fd) ==
  /\ ask[fd] # <<>>
  /\ ask' = [ask EXCEPT ![fd] = Tail(@)]
  /\ mail' = [mail EXCEPT ![fd] = Append(@, [t |-> "name", n |-> Head(ask[fd]),
                                             a |-> register_name[Head(ask[fd])]])]
  /\ UNCHANGED <<dvars, life, tables, inquery_name, requests, missed, lost>>

Exit(fd) == mail' = [mail EXCEPT ![fd] = Append(@, [t |-> "exit", n |-> None, a |-> None])]

\* command.socket: "open", up to newservice; the agent starts.
socket_open(fd) ==
  /\ sock[fd] = "none"
  /\ sock' = [sock EXCEPT ![fd] = "open"]
  /\ cluster_agent' = [cluster_agent EXCEPT ![fd] = "false"]
  /\ life' = [life EXCEPT ![fd] = "starting"]
  /\ UNCHANGED <<register_name, changes, mail, ask, tables, inquery_name, requests, missed, lost>>

\* newservice returns.
Launched(fd) ==
  /\ cluster_agent[fd] \in {"false", "true"} /\ life[fd] = "up"
  /\ IF cluster_agent[fd] = "true"
     THEN Exit(fd) /\ cluster_agent' = [cluster_agent EXCEPT ![fd] = "nil"]
     ELSE cluster_agent' = [cluster_agent EXCEPT ![fd] = "agent"] /\ UNCHANGED mail
  /\ UNCHANGED <<register_name, sock, changes, life, ask, tables, inquery_name, requests, missed,
                 lost>>

\* Mutant: a connection that ends while its agent is launched is forgotten.
MutClosing(fd) == "nil"

\* What is kept of a connection that ends while its agent is launched.
Closing(fd) == "true"

\* "close" or "error"
socket_close(fd) ==
  /\ sock[fd] = "open"
  /\ sock' = [sock EXCEPT ![fd] = "closed"]
  /\ IF cluster_agent[fd] \in {"false", "true"}
     THEN cluster_agent' = [cluster_agent EXCEPT ![fd] = Closing(fd)] /\ UNCHANGED mail
     ELSE Exit(fd) /\ cluster_agent' = [cluster_agent EXCEPT ![fd] = "nil"]
  /\ UNCHANGED <<register_name, changes, life, ask, tables, inquery_name, requests, missed, lost>>

-----------------------------------------------------------------------------
\* An agent

\* The gate forwards what comes to the agent.
Forward(fd) ==
  /\ life[fd] = "starting"
  /\ life' = [life EXCEPT ![fd] = "up"]
  /\ UNCHANGED <<dvars, mail, ask, tables, inquery_name, requests, missed, lost>>

\* A request for the service of the name n: register_name[n]
Request(fd, n) ==
  LET table == Len(tables[fd])
      r == [table |-> table, gone |-> register_name[n] = None]
  IN /\ life[fd] = "up" /\ sock[fd] = "open" /\ requests < MaxRequests
     /\ requests' = requests + 1
     /\ IF tables[fd][table][n] # None
        THEN UNCHANGED <<inquery_name, ask>>
        ELSE /\ inquery_name' = [inquery_name EXCEPT ![fd][n] = Append(@, r)]
             /\ ask' = [ask EXCEPT ![fd] = IF inquery_name[fd][n] = <<>> THEN Append(@, n) ELSE @]
     /\ UNCHANGED <<dvars, life, mail, tables, missed, lost>>

\* The answer is put into the table of the coroutine that asked; the others look into
\* theirs.
Answered(fd, n, a) ==
  LET qs    == inquery_name[fd][n]
      table == Head(qs).table
      after == [tables[fd] EXCEPT ![table][n] = IF a = None THEN @ ELSE a]
  IN /\ tables' = [tables EXCEPT ![fd] = after]
     /\ inquery_name' = [inquery_name EXCEPT ![fd][n] = <<>>]
     /\ lost' = (lost \/ \E i \in DOMAIN qs :
                   /\ ~ Head(qs).gone /\ qs[i].table = table
                   /\ (IF i = 1 THEN a ELSE after[qs[i].table][n]) = None)

Receive(fd) ==
  LET m == Head(mail[fd])
  IN /\ mail[fd] # <<>> /\ life[fd] = "up"
     /\ mail' = [mail EXCEPT ![fd] = Tail(@)]
     /\ \/ /\ m.t = "exit"
           /\ life' = [life EXCEPT ![fd] = "exited"]
           /\ UNCHANGED <<tables, inquery_name, lost>>
        \/ /\ m.t = "namechange"
           /\ tables' = [tables EXCEPT ![fd] = Append(@, [n \in Name |-> None])]
           /\ UNCHANGED <<life, inquery_name, lost>>
        \/ m.t = "name" /\ Answered(fd, m.n, m.a) /\ UNCHANGED life
     /\ UNCHANGED <<dvars, ask, requests, missed>>

Init ==
  /\ register_name = [x \in Name \cup Addr |-> None]
  /\ cluster_agent = [fd \in Fd |-> "nil"] /\ sock = [fd \in Fd |-> "none"]
  /\ life = [fd \in Fd |-> "none"] /\ mail = [fd \in Fd |-> <<>>] /\ ask = [fd \in Fd |-> <<>>]
  /\ tables = [fd \in Fd |-> <<[n \in Name |-> None]>>]
  /\ inquery_name = [fd \in Fd |-> [n \in Name |-> <<>>]]
  /\ changes = 0 /\ requests = 0 /\ missed = {} /\ lost = FALSE

Next ==
  \/ \E n \in Name : unregister(n) \/ \E a \in Addr : register(n, a)
  \/ \E fd \in Fd :
       \/ queryname(fd) \/ socket_open(fd) \/ Launched(fd) \/ socket_close(fd)
       \/ Forward(fd) \/ Receive(fd) \/ \E n \in Name : Request(fd, n)

Spec == Init /\ [][Next]_vars

-----------------------------------------------------------------------------
\* A name and its service know each other, whatever is renamed.
NamesPaired ==
  \A x \in Name \cup Addr : register_name[x] # None => register_name[register_name[x]] = x

\* When nothing is under way, what an agent remembers is what clusterd has, unless
\* names changed before clusterd knew the agent.
CacheFresh ==
  \A fd \in Fd \ missed : mail[fd] = <<>> /\ life[fd] = "up" =>
    \A n \in Name : Last(tables[fd])[n] \in {None, register_name[n]}

\* A name that is registered from the moment an agent asks for it is found, by all
\* that wait for the answer, unless names changed before they came.
FoundIfThere == ~ lost

\* The agent of a connection that has ended exits, or will when it is launched.
AgentEnds ==
  \A fd \in Fd : sock[fd] = "closed" =>
    \/ cluster_agent[fd] = "true" \/ life[fd] = "exited"
    \/ \E i \in DOMAIN mail[fd] : mail[fd][i].t = "exit"

=============================================================================
