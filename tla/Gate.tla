------------------------------- MODULE Gate -------------------------------
(***************************************************************************)
(* The gate service (service_gate.cpp) with its table of socket ids        *)
(* (hashid.h) and its buffers of what a connection has sent                *)
(* (databuffer.h).  The socket server is external: it queues events for    *)
(* the gate and carries out its closes later.  Bodies are numbers that say *)
(* which message of the connection they belong to and where.               *)
(***************************************************************************)
EXTENDS Frames, Integers, FiniteSets

CONSTANTS
  Fd,              \* socket ids, numbers
  Sends(_),        \* per fd: the lengths of the messages its client sends
  Agent,           \* agents a connection may be forwarded to
  Watchdog,        \* TRUE when the gate was given one
  max_connection,
  HashMod,         \* hashmod + 1
  Base, header_size, \* 2 bytes; of 4 the code makes an int, negative from 2^31 on
  TooLong,         \* 0x1000000
  Chunk,           \* bound: how many bytes a socket message may have
  MaxInbox,        \* bound: events waiting for the gate
  MaxCommands,     \* bound: kick, forward and broker commands
  None

GateAssumption ==
  /\ Fd \subseteq Nat \ {0}
  /\ {max_connection, HashMod, Base, header_size, TooLong} \cup Chunk \subseteq Nat \ {0}

VARIABLES
  id, chain, count,  \* struct hashid: the ids of the slots, per hash value the slots linked there
  conn,        \* per slot: the agent and the buffer
  listening,   \* listen_id >= 0
  broker,      \* a broker is set
  busy,        \* the fd whose buffer dispatch_message is reading, or 0
  inbox,       \* events of the socket server
  state,       \* the socket server's sockets
  coming,      \* per fd: the bytes still to come
  got,         \* per fd: the messages forwarded and to whom
  asked,       \* per fd: the agents it was forwarded to by a command
  spoilt,      \* per fd: a message was too long
  aborted,     \* the assertion of ACCEPT failed
  commands

vars == <<id, chain, count, conn, listening, broker, busy, inbox, state, coming,
          got, asked, spoilt, aborted, commands>>
table == <<id, chain, count>>
world == <<state, coming>>
history == <<got, asked, spoilt>>

Index == 0 .. max_connection - 1
NoBuffer == [header |-> 0, offset |-> 0, size |-> 0, list |-> <<>>]
NoConnection == [agent |-> None, buffer |-> NoBuffer]

-----------------------------------------------------------------------------
\* hashid.h

hashid_lookup(fd) ==
  LET c == SelectSeq(chain[fd % HashMod], LAMBDA i : id[i] = fd)
  IN IF c = <<>> THEN -1 ELSE c[1]

\* Mutant: what follows the node in the list is lost with it.
MutUnlinked(c, i) == SubSeq(c, 1, CHOOSE n \in 0 .. Len(c) - 1 : c[n + 1] = i)

\* The list c without the node i.
Unlinked(c, i) == SelectSeq(c, LAMBDA j : j # i)

hashid_remove(fd) ==
  LET i == hashid_lookup(fd)
  IN /\ id' = [id EXCEPT ![i] = -1]
     /\ chain' = [chain EXCEPT ![fd % HashMod] = Unlinked(@, i)]
     /\ count' = count - 1

\* The first free slot from fd on, cyclically.
FreeSlot(fd) ==
  LET at(i) == (i + fd) % max_connection
      free == {i \in Index : id[at(i)] = -1}
  IN at(CHOOSE i \in free : \A j \in free : i <= j)

hashid_insert(fd) ==
  LET i == FreeSlot(fd)
  IN /\ id' = [id EXCEPT ![i] = fd]
     /\ chain' = [chain EXCEPT ![fd % HashMod] = <<i>> \o @]
     /\ count' = count + 1

-----------------------------------------------------------------------------
\* databuffer.h

databuffer_push(db, bytes) ==
  [db EXCEPT !.size = @ + Len(bytes), !.list = Append(@, bytes)]

\* The first message is used up.
_return_message(db) == [db EXCEPT !.list = Tail(@), !.offset = 0]

\* Mutant: the next part is copied over the first.
MutJoined(part, rest) == rest

\* What is read of one message, and of those that follow.
Joined(part, rest) == part \o rest

RECURSIVE databuffer_read(_, _)
databuffer_read(db, sz) ==
  LET current == Drop(Head(db.list), db.offset)
      bsz == Len(current)
      left == [db EXCEPT !.size = @ - (IF bsz < sz THEN bsz ELSE sz)]
  IN IF bsz > sz
     THEN [bytes |-> First(current, sz), db |-> [left EXCEPT !.offset = @ + sz]]
     ELSE IF bsz = sz
     THEN [bytes |-> current, db |-> _return_message(left)]
     ELSE LET r == databuffer_read(_return_message(left), sz - bsz)
          IN [bytes |-> Joined(current, r.bytes), db |-> r.db]

\* A header of zero is read again as if there were none.
databuffer_readheader(db) ==
  IF db.header = 0 /\ db.size >= header_size
  THEN LET r == databuffer_read(db, header_size)
       IN [r.db EXCEPT !.header = Number(r.bytes, Base)]
  ELSE db

\* Mutant: the next message is read with the length of the last.
MutReset(db) == db

databuffer_reset(db) == [db EXCEPT !.header = 0]

-----------------------------------------------------------------------------
\* fengnet_socket_close: carried out by the socket thread, later
Closing(fd) ==
  [state EXCEPT ![fd] = IF @ = "accepted" THEN "closing" ELSE IF @ = "open" THEN "shutting" ELSE @]

Receiver(c) ==
  IF broker THEN "broker" ELSE IF c.agent # None THEN c.agent
  ELSE IF Watchdog THEN "watchdog" ELSE None

\* One round of the loop of dispatch_message, with _forward: without a receiver
\* the body is left where it is.
dispatch_message ==
  /\ busy # 0
  /\ LET i == hashid_lookup(busy)
         db == databuffer_readheader(conn[i].buffer)
         whole == ~ (conn[i].buffer.header = 0 /\ conn[i].buffer.size < header_size)
                  /\ db.size >= db.header
         body == databuffer_read(db, db.header)
         buffer(b) == conn' = [conn EXCEPT ![i].buffer = b]
     IN \/ /\ ~ whole
           /\ buffer(db) /\ busy' = 0
           /\ UNCHANGED <<state, history>>
        \/ /\ whole /\ db.header = 0
           /\ buffer(db)
           /\ UNCHANGED <<busy, state, history>>
        \/ /\ whole /\ db.header >= TooLong
           /\ buffer(NoBuffer) /\ busy' = 0
           /\ state' = Closing(busy)
           /\ spoilt' = [spoilt EXCEPT ![busy] = TRUE]
           /\ UNCHANGED <<got, asked>>
        \/ /\ whole /\ db.header \in 1 .. TooLong - 1
           /\ IF Receiver(conn[i]) = None
              THEN buffer(databuffer_reset(db)) /\ UNCHANGED got
              ELSE /\ buffer(databuffer_reset(body.db))
                   /\ got' = [got EXCEPT ![busy] =
                                Append(@, [data |-> body.bytes, to |-> Receiver(conn[i])])]
           /\ UNCHANGED <<busy, state, asked, spoilt>>
  /\ UNCHANGED <<table, listening, broker, inbox, coming, aborted, commands>>

Event(type) == busy = 0 /\ ~ aborted /\ inbox # <<>> /\ Head(inbox).type = type
               /\ inbox' = Tail(inbox)

\* FENGNET_SOCKET_TYPE_DATA
Data ==
  LET fd == Head(inbox).fd i == hashid_lookup(fd)
  IN /\ Event("data")
     /\ IF i >= 0
        THEN /\ conn' = [conn EXCEPT ![i].buffer = databuffer_push(@, Head(inbox).bytes)]
             /\ busy' = fd /\ UNCHANGED state
        ELSE state' = Closing(fd) /\ UNCHANGED <<conn, busy>>
     /\ UNCHANGED <<table, listening, broker, coming, history, aborted, commands>>

\* FENGNET_SOCKET_TYPE_CONNECT
Connect ==
  LET fd == Head(inbox).fd
  IN /\ Event("connect")
     /\ state' = IF hashid_lookup(fd) < 0 THEN Closing(fd) ELSE state
     /\ UNCHANGED <<table, conn, listening, broker, busy, coming, history, aborted, commands>>

\* Mutants: the slot keeps its buffer, or its agent.
MutKeepBuffer(c) == [NoConnection EXCEPT !.buffer = c.buffer]
MutKeepAgent(c) == [NoConnection EXCEPT !.agent = c.agent]

\* The connection c, cleared.
Cleared(c) == NoConnection

\* FENGNET_SOCKET_TYPE_CLOSE and ERROR
Close ==
  LET fd == Head(inbox).fd i == hashid_lookup(fd)
  IN /\ Event("close")
     /\ IF i >= 0
        THEN hashid_remove(fd) /\ conn' = [conn EXCEPT ![i] = Cleared(@)]
        ELSE UNCHANGED <<table, conn>>
     /\ UNCHANGED <<listening, broker, busy, world, history, aborted, commands>>

\* FENGNET_SOCKET_TYPE_ACCEPT, with assert(g->listen_id == message->id)
Accept ==
  LET fd == Head(inbox).fd
  IN /\ Event("accept")
     /\ aborted' = ~ listening
     /\ \/ /\ ~ listening
           /\ UNCHANGED <<table, state>>
        \/ /\ listening /\ count = max_connection
           /\ state' = Closing(fd) /\ UNCHANGED table
        \/ /\ listening /\ count # max_connection
           /\ hashid_insert(fd) /\ UNCHANGED state
     /\ UNCHANGED <<conn, listening, broker, busy, coming, history, commands>>

-----------------------------------------------------------------------------
\* _ctrl

Ctrl == busy = 0 /\ ~ aborted /\ UNCHANGED <<table, busy, coming, got, spoilt, aborted>>

kick(fd) ==
  /\ Ctrl /\ hashid_lookup(fd) >= 0 /\ commands < MaxCommands
  /\ state' = Closing(fd)
  /\ commands' = commands + 1
  /\ UNCHANGED <<conn, listening, broker, inbox, asked>>

forward(fd, agent) ==
  LET i == hashid_lookup(fd)
  IN /\ Ctrl /\ i >= 0 /\ commands < MaxCommands
     /\ conn' = [conn EXCEPT ![i].agent = agent]
     /\ asked' = [asked EXCEPT ![fd] = @ \cup {agent}]
     /\ commands' = commands + 1
     /\ UNCHANGED <<listening, broker, inbox, state>>

set_broker ==
  /\ Ctrl /\ commands < MaxCommands
  /\ broker' \in BOOLEAN      \* fengnet_queryname may not know the name
  /\ commands' = commands + 1
  /\ UNCHANGED <<conn, listening, inbox, state, asked>>

\* fengnet_socket_start: the socket thread opens it and says so
start(fd) ==
  /\ Ctrl /\ hashid_lookup(fd) >= 0 /\ Len(inbox) < MaxInbox
  /\ IF state[fd] = "accepted"
     THEN /\ state' = [state EXCEPT ![fd] = "open"]
          /\ inbox' = Append(inbox, [type |-> "connect", fd |-> fd])
     ELSE UNCHANGED <<state, inbox>>
  /\ UNCHANGED <<conn, listening, broker, asked, commands>>

close_listen ==
  /\ Ctrl /\ listening
  /\ listening' = FALSE
  /\ UNCHANGED <<conn, broker, inbox, state, asked, commands>>

-----------------------------------------------------------------------------
\* The socket server.

Tell(fd, s, event) ==
  /\ Len(inbox) < MaxInbox
  /\ inbox' = Append(inbox, event)
  /\ state' = [state EXCEPT ![fd] = s]
  /\ UNCHANGED <<table, conn, listening, broker, busy, history, aborted, commands>>

SocketAccept(fd) ==
  /\ state[fd] = "new" /\ listening
  /\ Tell(fd, "accepted", [type |-> "accept", fd |-> fd])
  /\ UNCHANGED coming

SocketData(fd, k) ==
  /\ state[fd] \in {"open", "shutting"} /\ k <= Len(coming[fd])
  /\ Tell(fd, state[fd], [type |-> "data", fd |-> fd, bytes |-> SubSeq(coming[fd], 1, k)])
  /\ coming' = [coming EXCEPT ![fd] = Drop(@, k)]

\* The peer's close, an error, or a close the gate asked for.
SocketClose(fd) ==
  /\ state[fd] \in {"open", "shutting", "closing"}
  /\ Tell(fd, "closed", [type |-> "close", fd |-> fd])
  /\ UNCHANGED coming

\* gate_init
Init ==
  /\ id = [i \in Index |-> -1] /\ chain = [h \in 0 .. HashMod - 1 |-> <<>>] /\ count = 0
  /\ conn = [i \in Index |-> NoConnection]
  /\ listening = TRUE /\ broker = FALSE /\ busy = 0
  /\ inbox = <<>> /\ state = [fd \in Fd |-> "new"]
  /\ coming = [fd \in Fd |-> Framed(Sends(fd), Base, header_size)]
  /\ got = [fd \in Fd |-> <<>>] /\ asked = [fd \in Fd |-> {}]
  /\ spoilt = [fd \in Fd |-> FALSE] /\ aborted = FALSE /\ commands = 0

Next ==
  \/ dispatch_message \/ Data \/ Connect \/ Close \/ Accept
  \/ set_broker \/ close_listen
  \/ \E fd \in Fd :
       \/ kick(fd) \/ start(fd) \/ SocketAccept(fd) \/ SocketClose(fd)
       \/ \E agent \in Agent : forward(fd, agent)
       \/ \E k \in Chunk : SocketData(fd, k)

Spec == Init /\ [][Next]_vars

-----------------------------------------------------------------------------
\* hashid: every id in a slot is found there through its list, no slot is in a
\* list twice or without an id, and count says whether a slot is free, whatever
\* ids collided and in whichever order they came and went.
LookupExact ==
  /\ \A i \in Index : id[i] >= 0 => hashid_lookup(id[i]) = i
  /\ \A h \in DOMAIN chain :
       /\ IsInjective(chain[h])
       /\ \A n \in DOMAIN chain[h] : id[chain[h][n]] >= 0
  /\ count = Cardinality({i \in Index : id[i] >= 0})

\* With a watchdog, what is forwarded for a connection are the messages its
\* client sent, empty ones left out, whole and in order, however they were cut
\* and whoever used the slot before; only a message that is too long spoils
\* what follows it.
MessagesExact ==
  Watchdog =>
    \A fd \in Fd : ~ spoilt[fd] =>
      LET bodies == [k \in DOMAIN Sends(fd) |-> Body(k, Sends(fd)[k])]
      IN [k \in DOMAIN got[fd] |-> got[fd][k].data]
           = SubSeq(SelectSeq(bodies, LAMBDA b : b # <<>>), 1, Len(got[fd]))

\* An agent gets messages only of connections that were forwarded to it: a slot
\* that is used again has forgotten its agent.
OnlyItsAgent ==
  \A fd \in Fd : \A k \in DOMAIN got[fd] :
    got[fd][k].to \in {"broker", "watchdog"} \cup asked[fd]

=============================================================================
