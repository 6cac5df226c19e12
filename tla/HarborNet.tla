----------------------------- MODULE HarborNet -----------------------------
(***************************************************************************)
(* The Lua half of the harbor: the master (cmaster.lua), which knows the   *)
(* slaves and the global names, and a slave per node (cslave.lua).  A new  *)
(* slave is told how many others will connect to it and listens until they *)
(* have; the others are told to connect, and do so when they are ready     *)
(* themselves.  Names are spread by the master, or asked for.  A node may  *)
(* crash at any time; its sockets are closed.                              *)
(***************************************************************************)
EXTENDS Naturals, Sequences, FiniteSets, SequencesExt

CONSTANTS
  Slave,         \* harbor ids
  Name,          \* global names
  Home(_),       \* the one node that registers a name
  MaxQueries,    \* bound: requests of a node's services and its harbor
  MaxCrashes,    \* bound: nodes that crash
  None

NetAssumption ==
  /\ None \notin Slave
  /\ \A x \in Name : Home(x) \in Slave
  /\ {MaxQueries, MaxCrashes} \subseteq Nat

VARIABLES
  \* the master
  slave_node,      \* per id: "none", "up", or "down" (fd = 0)
  global_name,     \* the names it knows
  \* a slave
  phase,           \* "off", "hello", "wait", "woken", "ready", "dead"
  need,            \* the number of slaves it waits for
  slaves,          \* per id: "nil", "fd" or "false"
  connect_queue,   \* the ids to connect to, or None
  todo,            \* the rest of that queue while ready goes through it
  opener,          \* the ids that ready and monitor_master are connecting to, or None
  monitor,         \* per id: what kinds of requests wait
  globalname, queryname,
  harbor,          \* the names its harbor was told
  asked,           \* the names its harbor asked for
  \* the network
  up, down,        \* the streams between slave and master
  link,            \* <<s, t>>: the connection s opened to t: "none", "backlog", "accepted", "joined"
  hello,           \* connections on which the harbor has sent the id
  closed,          \* connections closed at one end
  queries, crashes

mvars == <<slave_node, global_name>>
cvars == <<slaves, connect_queue, todo, opener, monitor>>
nvars == <<globalname, queryname, harbor, asked>>
lvars == <<link, hello, closed>>
vars  == <<mvars, phase, need, cvars, nvars, up, down, lvars, queries, crashes>>

Alive(s) == phase[s] \notin {"off", "dead"}
Send(d, set, m) == [s \in Slave |-> IF s \in set /\ phase[s] # "dead" THEN Append(d[s], m) ELSE d[s]]
Up == {s \in Slave : slave_node[s] = "up"}
Both(p) == {p, <<p[2], p[1]>>}

-----------------------------------------------------------------------------
\* The master

\* handshake and report_slave: the others are told to connect, the new one how many.
Handshake(s) ==
  /\ slave_node' = [slave_node EXCEPT ![s] = "up"]
  /\ down' = Send(Send(down, Up, [t |-> "C", id |-> s]), {s},
                  [t |-> "W", n |-> Cardinality(Up)])
  /\ UNCHANGED global_name

\* Mutant: a new name is sent only to the slave it came from.
MutSpread(s, x) == Send(down, {s}, [t |-> "N", name |-> x])

\* A name that is registered goes to every slave.
Spread(s, x) == Send(down, Up, [t |-> "N", name |-> x])

\* dispatch_slave
Dispatch(s, m) ==
  /\ \/ /\ m.t = "R"
        /\ global_name' = global_name \cup {m.name}
        /\ down' = Spread(s, m.name)
     \/ /\ m.t = "Q"
        /\ down' = Send(down, {q \in {s} : m.name \in global_name}, [t |-> "N", name |-> m.name])
        /\ UNCHANGED global_name
  /\ UNCHANGED slave_node

MasterRead(s) ==
  /\ up[s] # <<>>
  /\ up' = [up EXCEPT ![s] = Tail(@)]
  /\ \/ Head(up[s]).t = "H" /\ Handshake(s)
     \/ Head(up[s]).t # "H" /\ Dispatch(s, Head(up[s]))
  /\ UNCHANGED <<phase, need, cvars, nvars, lvars, queries, crashes>>

\* The end of monitor_slave
SlaveDown(s) ==
  /\ phase[s] = "dead" /\ up[s] = <<>> /\ slave_node[s] = "up"
  /\ slave_node' = [slave_node EXCEPT ![s] = "down"]
  /\ down' = Send(down, Up \ {s}, [t |-> "D", id |-> s])
  /\ UNCHANGED <<global_name, phase, need, cvars, nvars, up, lvars, queries, crashes>>

-----------------------------------------------------------------------------
\* A slave

\* The start function, up to the wait for the master's answer
Start(s) ==
  /\ phase[s] = "off"
  /\ phase' = [phase EXCEPT ![s] = "hello"]
  /\ up' = [up EXCEPT ![s] = <<[t |-> "H"]>>]
  /\ UNCHANGED <<mvars, need, cvars, nvars, down, lvars, queries, crashes>>

ReadWait(s) ==
  /\ phase[s] = "hello" /\ down[s] # <<>>
  /\ need' = [need EXCEPT ![s] = Head(down[s]).n]
  /\ phase' = [phase EXCEPT ![s] = IF need'[s] > 0 THEN "wait" ELSE "woken"]
  /\ down' = [down EXCEPT ![s] = Tail(@)]
  /\ UNCHANGED <<mvars, cvars, nvars, up, lvars, queries, crashes>>

\* The rest of the start function, and ready up to its first connection: nobody
\* is accepted any more.
Shakehand(s) ==
  /\ phase[s] = "woken"
  /\ phase' = [phase EXCEPT ![s] = "ready"]
  /\ todo' = [todo EXCEPT ![s] = connect_queue[s]]
  /\ connect_queue' = [connect_queue EXCEPT ![s] = None]
  /\ closed' = closed \cup {p \in Slave \X {s} : link[p] = "backlog"}
  /\ UNCHANGED <<mvars, need, slaves, opener, monitor, nvars, up, down, link, hello, queries,
                 crashes>>

\* ready: the next connection that is not there yet; at the end, the names.
ready(s) ==
  LET left == {t \in todo[s] : slaves[s][t] = "nil"}
  IN /\ phase[s] = "ready" /\ todo[s] # None /\ opener[s].ready = None
     /\ IF left # {}
        THEN /\ \E t \in left :
                  /\ opener' = [opener EXCEPT ![s].ready = t]
                  /\ todo' = [todo EXCEPT ![s] = @ \ {t}]
             /\ UNCHANGED harbor
        ELSE /\ todo' = [todo EXCEPT ![s] = None]
             /\ harbor' = [harbor EXCEPT ![s] = @ \cup globalname[s]]
             /\ UNCHANGED opener
     /\ UNCHANGED <<mvars, phase, need, slaves, connect_queue, monitor, globalname, queryname,
                    asked, up, down, lvars, queries, crashes>>

\* Mutant: those that wait are not told.
Mut_monitor_clear(s, t) == monitor

monitor_clear(s, t) == [monitor EXCEPT ![s][t] = {}]

\* connect_slave, after socket.open: t listens, or the connection fails.
connect_slave(s, who) ==
  LET t == opener[s][who]
  IN /\ t # None /\ phase[s] = "ready"
     /\ opener' = [opener EXCEPT ![s][who] = None]
     /\ IF phase[t] \in {"hello", "wait", "woken"}
        THEN /\ link' = [link EXCEPT ![<<s, t>>] = "backlog"]
             /\ slaves' = [slaves EXCEPT ![s][t] = "fd"]
             /\ monitor' = monitor_clear(s, t)
        ELSE UNCHANGED <<link, slaves, monitor>>
     /\ UNCHANGED <<mvars, phase, need, connect_queue, todo, nvars, up, down, hello, closed,
                    queries, crashes>>

\* The harbor is given the connection and sends its id (service_harbor.cpp, handshake).
HarborHello(s, t) ==
  /\ Alive(s) /\ link[s, t] # "none" /\ <<s, t>> \notin hello \cup closed
  /\ hello' = hello \cup {<<s, t>>}
  /\ UNCHANGED <<mvars, phase, need, cvars, nvars, up, down, link, closed, queries, crashes>>

Accept(s, t) ==
  /\ phase[t] \in {"wait", "woken"} /\ link[s, t] = "backlog"
  /\ link' = [link EXCEPT ![<<s, t>>] = "accepted"]
  /\ UNCHANGED <<mvars, phase, need, cvars, nvars, up, down, hello, closed, queries, crashes>>

\* All have come: slaves that are down count as well.
Enough(t, tab) == Cardinality({r \in Slave : tab[r] # "nil"}) >= need[t]

\* The callback of the listening socket after accept_slave: the id was read, or
\* the connection was closed before.
accept_slave(s, t) ==
  /\ Alive(t) /\ link[s, t] = "accepted"
  /\ \/ /\ <<s, t>> \in hello /\ slaves[t][s] = "nil"
        /\ slaves' = [slaves EXCEPT ![t][s] = "fd"]
        /\ monitor' = monitor_clear(t, s)
        /\ link' = [link EXCEPT ![<<s, t>>] = "joined"]
        /\ UNCHANGED closed
     \/ /\ \/ <<s, t>> \in hello /\ slaves[t][s] # "nil"
           \/ <<s, t>> \notin hello /\ <<s, t>> \in closed
        /\ link' = [link EXCEPT ![<<s, t>>] = "none"]
        /\ closed' = closed \cup {<<s, t>>}
        /\ UNCHANGED <<slaves, monitor>>
  /\ phase' = [phase EXCEPT ![t] = IF @ = "wait" /\ Enough(t, slaves'[t]) THEN "woken" ELSE @]
  /\ UNCHANGED <<mvars, need, connect_queue, todo, opener, nvars, up, down, hello, queries,
                 crashes>>

\* monitor_master, one package.  (socket.close does nothing for a connection that
\* was given to the harbor: it was abandoned.)
monitor_master(s) ==
  LET m == Head(down[s])
  IN /\ phase[s] \in {"wait", "woken", "ready"} /\ down[s] # <<>> /\ opener[s].master = None
     /\ down' = [down EXCEPT ![s] = Tail(@)]
     /\ \/ /\ m.t = "C"
           /\ \/ /\ connect_queue[s] # None
                 /\ connect_queue' = [connect_queue EXCEPT ![s] = @ \cup {m.id}]
                 /\ UNCHANGED opener
              \/ /\ connect_queue[s] = None
                 /\ opener' = [opener EXCEPT ![s].master =
                                 IF slaves[s][m.id] = "nil" THEN m.id ELSE None]
                 /\ UNCHANGED connect_queue
           /\ UNCHANGED <<slaves, monitor, globalname, queryname, harbor>>
        \/ /\ m.t = "N"
           /\ globalname' = [globalname EXCEPT ![s] = @ \cup {m.name}]
           /\ queryname' = [queryname EXCEPT ![s] = @ \ {m.name}]
           /\ harbor' = [harbor EXCEPT ![s] =
                           IF connect_queue[s] = None THEN @ \cup {m.name} ELSE @]
           /\ UNCHANGED <<slaves, monitor, connect_queue, opener>>
        \/ /\ m.t = "D"
           /\ slaves' = [slaves EXCEPT ![s][m.id] = "false"]
           /\ monitor' = IF slaves[s][m.id] = "fd" THEN monitor_clear(s, m.id) ELSE monitor
           /\ UNCHANGED <<connect_queue, opener, globalname, queryname, harbor>>
     /\ UNCHANGED <<mvars, phase, need, todo, asked, up, lvars, queries, crashes>>

\* monitor_harbor, "D": the harbor reports that a connection it was given is closed.
HarborDown(s, t) ==
  /\ Alive(s) /\ slaves[s][t] = "fd"
  /\ \E p \in Both(<<s, t>>) : p \in closed /\ (p[1] = s \/ link[p] = "joined")
  /\ slaves' = [slaves EXCEPT ![s][t] = "false"]
  /\ monitor' = monitor_clear(s, t)
  /\ UNCHANGED <<mvars, phase, need, connect_queue, todo, opener, nvars, up, down, lvars,
                 queries, crashes>>

-----------------------------------------------------------------------------
\* What a node's services and its harbor ask of the slave

Request(s) == Alive(s) /\ queries < MaxQueries /\ queries' = queries + 1
ToMaster(s, m) == up' = [up EXCEPT ![s] = Append(@, m)]

REGISTER(s, x) ==
  /\ Request(s) /\ Home(x) = s /\ x \notin globalname[s]
  /\ globalname' = [globalname EXCEPT ![s] = @ \cup {x}]
  /\ queryname' = [queryname EXCEPT ![s] = @ \ {x}]
  /\ harbor' = [harbor EXCEPT ![s] = @ \cup {x}]
  /\ ToMaster(s, [t |-> "R", name |-> x])
  /\ UNCHANGED <<mvars, phase, need, cvars, asked, down, lvars, crashes>>

QUERYNAME(s, x) ==
  /\ Request(s) /\ x \notin globalname[s]
  /\ queryname' = [queryname EXCEPT ![s] = @ \cup {x}]
  /\ IF x \in queryname[s] THEN UNCHANGED up ELSE ToMaster(s, [t |-> "Q", name |-> x])
  /\ UNCHANGED <<mvars, phase, need, cvars, globalname, harbor, asked, down, lvars, crashes>>

\* monitor_harbor, "Q"
HarborQuery(s, x) ==
  /\ Request(s) /\ x \notin harbor[s]
  /\ asked' = [asked EXCEPT ![s] = @ \cup {x}]
  /\ \/ /\ x \in globalname[s]
        /\ harbor' = [harbor EXCEPT ![s] = @ \cup {x}]
        /\ UNCHANGED up
     \/ /\ x \notin globalname[s]
        /\ ToMaster(s, [t |-> "Q", name |-> x])
        /\ UNCHANGED harbor
  /\ UNCHANGED <<mvars, phase, need, cvars, globalname, queryname, down, lvars, crashes>>

\* LINK waits for the end of a connection, CONNECT for its beginning; a request that
\* need not wait is answered at once.
Watch(s, t, kind) ==
  /\ Request(s) /\ kind \notin monitor[s][t]
  /\ (kind = "LINK") = (slaves[s][t] = "fd")
  /\ monitor' = [monitor EXCEPT ![s][t] = @ \cup {kind}]
  /\ UNCHANGED <<mvars, phase, need, slaves, connect_queue, todo, opener, nvars, up, down,
                 lvars, crashes>>

Crash(s) ==
  /\ Alive(s) /\ crashes < MaxCrashes
  /\ crashes' = crashes + 1
  /\ phase' = [phase EXCEPT ![s] = "dead"]
  /\ down' = [down EXCEPT ![s] = <<>>]
  /\ closed' = closed \cup {p \in Slave \X Slave : s \in {p[1], p[2]} /\ link[p] # "none"}
  /\ UNCHANGED <<mvars, need, cvars, nvars, up, link, hello, queries>>

Init ==
  /\ slave_node = [s \in Slave |-> "none"] /\ global_name = {}
  /\ phase = [s \in Slave |-> "off"] /\ need = [s \in Slave |-> 0]
  /\ slaves = [s \in Slave |-> [t \in Slave |-> "nil"]]
  /\ connect_queue = [s \in Slave |-> {}] /\ todo = [s \in Slave |-> None]
  /\ opener = [s \in Slave |-> [ready |-> None, master |-> None]]
  /\ monitor = [s \in Slave |-> [t \in Slave |-> {}]]
  /\ globalname = [s \in Slave |-> {}] /\ queryname = [s \in Slave |-> {}]
  /\ harbor = [s \in Slave |-> {}] /\ asked = [s \in Slave |-> {}]
  /\ up = [s \in Slave |-> <<>>] /\ down = [s \in Slave |-> <<>>]
  /\ link = [p \in Slave \X Slave |-> "none"] /\ hello = {} /\ closed = {}
  /\ queries = 0 /\ crashes = 0

Work(s) ==
  \/ MasterRead(s) \/ SlaveDown(s)
  \/ ReadWait(s) \/ Shakehand(s) \/ ready(s) \/ monitor_master(s)
  \/ \E who \in {"ready", "master"} : connect_slave(s, who)
  \/ \E t \in Slave \ {s} : HarborHello(s, t) \/ Accept(s, t) \/ accept_slave(s, t) \/ HarborDown(s, t)

Ask(s) ==
  \/ Start(s) \/ Crash(s)
  \/ \E x \in Name : REGISTER(s, x) \/ QUERYNAME(s, x) \/ HarborQuery(s, x)
  \/ \E t \in Slave \ {s}, kind \in {"LINK", "CONNECT"} : Watch(s, t, kind)

Next == \E s \in Slave : Work(s) \/ Ask(s)

Spec == Init /\ [][Next]_vars

-----------------------------------------------------------------------------
\* Nothing is under way: no package, connection or report.
Quiet ==
  /\ \A s \in Slave : up[s] = <<>> /\ down[s] = <<>> /\ phase[s] # "woken"
  /\ \A s \in Slave : phase[s] = "dead" => slave_node[s] # "up"
  /\ \A s \in Slave : phase[s] = "ready" =>
       todo[s] = None /\ opener[s] = [ready |-> None, master |-> None]
  /\ \A p \in Slave \X Slave : Alive(p[1]) /\ Alive(p[2]) =>
       /\ link[p] # "none" => p \in hello \cup closed
       /\ link[p] # "accepted"
       /\ link[p] = "backlog" => p \in closed
  /\ \A p \in closed : \A x \in {p[1], p[2]} : Alive(x) =>
       /\ \A y \in {p[1], p[2]} : ~ (slaves[x][y] = "fd" /\ (x = p[1] \/ link[p] = "joined"))
       /\ ~ (x = p[2] /\ link[p] = "accepted")

\* When nothing is under way, every two slaves that are ready are connected and
\* both know it, and nobody takes a node for connected that has crashed: however
\* the starts of the nodes interleave, and with one crash among three.
Meshed ==
  Quiet =>
    \A s, t \in Slave : s # t /\ phase[s] = "ready" =>
      /\ phase[t] = "ready" => slaves[s][t] = "fd"
      /\ slaves[s][t] = "fd" => Alive(t)

\* Unless a node crashes, every slave that has started is ready in the end: they
\* do not wait for one another.
AllReady == Quiet /\ crashes = 0 => \A s \in Slave : phase[s] \in {"off", "ready"}

\* When nothing is under way, no query waits for a name the master knows, and the
\* harbor of a slave that is ready was told every name it asked for.
NamesFound ==
  Quiet =>
    \A s \in Slave : phase[s] = "ready" =>
      /\ queryname[s] \cap global_name = {}
      /\ asked[s] \cap global_name \subseteq harbor[s]
      /\ globalname[s] \subseteq harbor[s] \cap global_name

\* LINK is answered when the connection ends, CONNECT when it begins.
WatchersTold ==
  \A s, t \in Slave : \A kind \in monitor[s][t] : (kind = "LINK") = (slaves[s][t] = "fd")

=============================================================================
