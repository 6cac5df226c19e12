------------------------------- MODULE Harbor -------------------------------
(***************************************************************************)
(* The harbor service (service_harbor.cpp) of one node: messages for       *)
(* services of other nodes, addressed by handle or by a global name, are   *)
(* sent on the connection to the node, or wait in the name's or the node's *)
(* queue; the bytes that come back are cut into messages for local         *)
(* services.  The cslave service (cslave.lua) tells it of connections ("S" *)
(* it opened, "A" it accepted) and of names ("N").  Rings are sequences,   *)
(* the table of names a function; a handle and a name stand for one        *)
(* service, and message bodies are what identifies them.                   *)
(***************************************************************************)
EXTENDS Frames, FiniteSets

CONSTANTS
  Node, Self,       \* harbor ids; h->id, one of them
  Name, NodeOf(_),  \* global names, and the node of the service of that name
  Stream,           \* what a peer may send: sequences of message lengths
  Base, LengthBytes,\* digits of a length field: 256 and 3
  MaxChunk,         \* bound: bytes in one socket message
  MaxMessage,       \* bound: messages sent by local services
  None

HarborAssumption ==
  /\ Self \in Node /\ \A x \in Name : NodeOf(x) \in Node
  /\ {Base, LengthBytes, MaxChunk} \subseteq Nat \ {0} /\ MaxMessage \in Nat

VARIABLES
  status, fd, queue,    \* per node: struct slave
  value, nqueue,        \* per name: struct keyvalue
  slaves,               \* cslave: per node "nil", "fd" or "false"
  wire,                 \* per node: what was sent on the connection
  given, errors, dropped,  \* messages: to local services, answered with an error, released
  way,                  \* the messages sent so far: what each was addressed to
  peer,                 \* per node: the lengths the peer sends, or None
  stream,               \* per node: the bytes still to come
  chunk, reader,        \* the socket message being read, its node
  size, buffer,         \* per node: header bytes and body bytes read (s->read long)
  forwarded,            \* per node: bodies sent on to local services
  told                  \* PTYPE_TEXT messages to the slave

sending == <<queue, value, nqueue, given, errors, dropped, way>>
receiving == <<chunk, reader, size, buffer, forwarded>>
vars == <<status, fd, slaves, wire, peer, stream, told, sending, receiving>>

Sent(m, dst) == [m |-> m, dst |-> dst]
Handshake == Sent(0, TRUE)   \* this node's id
SentAll(q, dst) == [i \in DOMAIN q |-> Sent(q[i].m, dst)]
AsQueue(q) == IF q = None THEN <<>> ELSE q
Messages(q) == {AsQueue(q)[i].m : i \in DOMAIN AsQueue(q)}

-----------------------------------------------------------------------------
(* Messages out: PTYPE_SYSTEM.                                             *)

\* Mutant: a connection whose peer has not said its id is used at once.
MutUnready(n) == fd[n] = 0

Unready(n) == fd[n] = 0 \/ status[n] = "HANDSHAKE"

\* The message with number m goes to a handle of node n.
remote_send_handle(m, n) ==
  \/ /\ n = Self
     /\ given' = Append(given, m)
     /\ UNCHANGED <<queue, wire, errors>>
  \/ /\ n # Self /\ Unready(n) /\ status[n] = "DOWN"
     /\ errors' = errors \cup {m}
     /\ UNCHANGED <<queue, wire, given>>
  \/ /\ n # Self /\ Unready(n) /\ status[n] # "DOWN"
     /\ queue' = [queue EXCEPT ![n] = Append(AsQueue(@), Sent(m, TRUE))]
     /\ UNCHANGED <<wire, given, errors>>
  \/ /\ n # Self /\ ~ Unready(n)
     /\ wire' = [wire EXCEPT ![n] = Append(@, Sent(m, TRUE))]
     /\ UNCHANGED <<queue, given, errors>>

SendHandle(n) ==
  /\ chunk = <<>> /\ Len(way) < MaxMessage
  /\ way' = Append(way, n)
  /\ remote_send_handle(Len(way'), n)
  /\ UNCHANGED <<status, fd, slaves, peer, stream, told, value, nqueue, dropped, receiving>>

\* To a name that is not known the header says only the type; the slave is asked.
remote_send_name(x) ==
  /\ chunk = <<>> /\ Len(way) < MaxMessage
  /\ way' = Append(way, x)
  /\ \/ /\ ~ value[x]
        /\ nqueue' = [nqueue EXCEPT ![x] = Append(AsQueue(@), Sent(Len(way'), FALSE))]
        /\ told' = told \cup {<<"Q", x>>}
        /\ UNCHANGED <<queue, wire, given, errors>>
     \/ /\ value[x]
        /\ remote_send_handle(Len(way'), NodeOf(x))
        /\ UNCHANGED <<nqueue, told>>
  /\ UNCHANGED <<status, fd, slaves, peer, stream, value, dropped, receiving>>

-----------------------------------------------------------------------------
(* The slave's commands: PTYPE_HARBOR.                                     *)

\* Where the messages that waited for a name go.
dispatch_name_queue(x, n, q) ==
  \/ /\ fd[n] # 0
     /\ wire' = [wire EXCEPT ![n] = @ \o SentAll(q, TRUE)]
     /\ UNCHANGED <<queue, given, dropped>>
  \/ /\ fd[n] = 0 /\ status[n] = "DOWN"
     /\ dropped' = dropped \cup Messages(q)
     /\ UNCHANGED <<queue, wire, given>>
  \/ /\ fd[n] = 0 /\ status[n] # "DOWN" /\ n = Self
     /\ given' = given \o [i \in DOMAIN q |-> q[i].m]
     /\ UNCHANGED <<queue, wire, dropped>>
  \/ /\ fd[n] = 0 /\ status[n] # "DOWN" /\ n # Self
     /\ queue' = [queue EXCEPT ![n] = AsQueue(@) \o q]
     /\ UNCHANGED <<wire, given, dropped>>

\* "N name", when the slave heard of the name.
update_name(x) ==
  /\ chunk = <<>>
  /\ value' = [value EXCEPT ![x] = TRUE]
  /\ nqueue' = [nqueue EXCEPT ![x] = None]
  /\ \/ nqueue[x] # None /\ dispatch_name_queue(x, NodeOf(x), nqueue[x])
     \/ nqueue[x] = None /\ UNCHANGED <<queue, wire, given, dropped>>
  /\ UNCHANGED <<status, fd, slaves, peer, stream, told, errors, way, receiving>>

\* Mutant: what waited for the node is left where it is.
MutKeepQueue(n, w) == wire' = w /\ UNCHANGED queue

\* w: what was sent on the wire before; wire' is set.
dispatch_queue(n, w) ==
  /\ wire' = [w EXCEPT ![n] = @ \o AsQueue(queue[n])]
  /\ queue' = [queue EXCEPT ![n] = None]

\* The digits of a length, most significant first, after the byte that must be 0.
Header(length) == <<0>> \o Digits(length, Base, LengthBytes)
TooLong == <<1>> \o Digits(0, Base, LengthBytes)

\* The bytes a peer sends; the length 0 stands for one that is too long.
Encode(lengths) ==
  FlattenSeq([k \in DOMAIN lengths |->
     IF lengths[k] = 0 THEN TooLong
     ELSE Header(lengths[k]) \o Body(k, lengths[k])])

\* "S fd id": cslave connected (connect_slave); "A fd id": it accepted and has
\* read the peer's id (accept_slave).  A node is heard of once.
harbor_command(n, accepted, lengths, id) ==
  /\ chunk = <<>> /\ n # Self /\ slaves[n] = "nil"
  /\ slaves' = [slaves EXCEPT ![n] = "fd"]
  /\ peer' = [peer EXCEPT ![n] = lengths]
  /\ stream' = [stream EXCEPT ![n] = (IF accepted THEN <<>> ELSE <<id>>) \o Encode(lengths)]
  /\ fd' = [fd EXCEPT ![n] = n]
  /\ LET w == [wire EXCEPT ![n] = Append(@, Handshake)]
     IN \/ /\ accepted
           /\ status' = [status EXCEPT ![n] = "HEADER"]
           /\ dispatch_queue(n, w)
        \/ /\ ~ accepted
           /\ status' = [status EXCEPT ![n] = "HANDSHAKE"]
           /\ wire' = w
           /\ UNCHANGED queue
  /\ UNCHANGED <<told, value, nqueue, given, errors, dropped, way, receiving>>

-----------------------------------------------------------------------------
(* The socket: PTYPE_SOCKET.                                               *)

\* A socket message arrives, for a connection this service has not closed.
Data(n, k) ==
  /\ chunk = <<>> /\ fd[n] # 0 /\ k \in 1 .. Len(stream[n])
  /\ chunk' = SubSeq(stream[n], 1, k)
  /\ stream' = [stream EXCEPT ![n] = SubSeq(@, k + 1, Len(@))]
  /\ reader' = n
  /\ UNCHANGED <<status, fd, slaves, wire, peer, told, sending, size, buffer, forwarded>>

\* Mutant: the queue is released but still pointed to.
MutCloseHarbor(n) ==
  /\ status' = [status EXCEPT ![n] = "DOWN"]
  /\ fd' = [fd EXCEPT ![n] = 0]
  /\ dropped' = dropped \cup Messages(queue[n])
  /\ chunk' = <<>>
  /\ UNCHANGED queue

\* Nothing is reported to the slave: the socket is closed by this service.
close_harbor(n) ==
  /\ status' = [status EXCEPT ![n] = "DOWN"]
  /\ fd' = [fd EXCEPT ![n] = 0]
  /\ dropped' = dropped \cup Messages(queue[n])
  /\ queue' = [queue EXCEPT ![n] = None]
  /\ chunk' = <<>>

\* push_socket_data, case STATUS_HANDSHAKE
ReadHandshake ==
  LET n == reader
  IN /\ chunk # <<>> /\ status[n] = "HANDSHAKE"
     /\ \/ /\ Head(chunk) # n
           /\ close_harbor(n)
           /\ UNCHANGED wire
        \/ /\ Head(chunk) = n
           /\ status' = [status EXCEPT ![n] = "HEADER"]
           /\ dispatch_queue(n, wire)
           /\ chunk' = Tail(chunk)
           /\ UNCHANGED <<fd, dropped>>
     /\ UNCHANGED <<slaves, peer, stream, told, value, nqueue, given, errors, way, reader, size,
                    buffer, forwarded>>

Rest(k) == SubSeq(chunk, k + 1, Len(chunk))

\* Mutant: the header bytes read before are not counted.
MutHeaderNeed(n) == LengthBytes + 1

HeaderNeed(n) == LengthBytes + 1 - Len(size[n])

\* case STATUS_HEADER
ReadHeader ==
  LET n == reader
      need == HeaderNeed(n)
      all == size[n] \o SubSeq(chunk, 1, need)
  IN /\ chunk # <<>> /\ status[n] = "HEADER"
     /\ \/ /\ Len(chunk) < need
           /\ size' = [size EXCEPT ![n] = @ \o chunk]
           /\ chunk' = <<>>
           /\ UNCHANGED <<status, fd, queue, dropped>>
        \/ /\ Len(chunk) >= need /\ all[1] # 0
           /\ close_harbor(n)
           /\ UNCHANGED size
        \/ /\ Len(chunk) >= need /\ all[1] = 0
           /\ size' = [size EXCEPT ![n] = all]
           /\ status' = [status EXCEPT ![n] = "CONTENT"]
           /\ chunk' = Rest(need)
           /\ UNCHANGED <<fd, queue, dropped>>
     /\ UNCHANGED <<slaves, peer, wire, stream, told, value, nqueue, given, errors, way, reader,
                    buffer, forwarded>>

Length(n) == Number(Tail(size[n]), Base)

\* Mutant: the body bytes read before are not counted.
MutContentNeed(n) == Length(n)

ContentNeed(n) == Length(n) - Len(buffer[n])

\* case STATUS_CONTENT; forward_local_messsage hands the buffer over.
ReadContent ==
  LET n == reader
      need == ContentNeed(n)
      body == buffer[n] \o SubSeq(chunk, 1, need)
  IN /\ chunk # <<>> /\ status[n] = "CONTENT"
     /\ \/ /\ Len(chunk) < need
           /\ buffer' = [buffer EXCEPT ![n] = @ \o chunk]
           /\ chunk' = <<>>
           /\ UNCHANGED <<status, size, forwarded>>
        \/ /\ Len(chunk) >= need
           /\ forwarded' = [forwarded EXCEPT ![n] = Append(@, body)]
           /\ buffer' = [buffer EXCEPT ![n] = <<>>]
           /\ size' = [size EXCEPT ![n] = <<>>]
           /\ status' = [status EXCEPT ![n] = "HEADER"]
           /\ chunk' = Rest(need)
     /\ UNCHANGED <<fd, slaves, wire, peer, stream, told, sending, reader>>

\* FENGNET_SOCKET_TYPE_CLOSE and _ERROR: reported, and the slave marks the node
\* (monitor_harbor); the connection stays entered here.
SocketClose(n) ==
  /\ chunk = <<>> /\ fd[n] # 0 /\ slaves[n] = "fd"
  /\ told' = told \cup {<<"D", n>>}
  /\ slaves' = [slaves EXCEPT ![n] = "false"]
  /\ stream' = [stream EXCEPT ![n] = <<>>]
  /\ UNCHANGED <<status, fd, wire, peer, sending, receiving>>

-----------------------------------------------------------------------------
\* harbor_init: a node with id 0 has no others.
Init ==
  /\ \E alone \in BOOLEAN :
       /\ status = [n \in Node |-> IF alone /\ n # Self THEN "DOWN" ELSE "WAIT"]
       /\ slaves = [n \in Node |-> IF alone THEN "false" ELSE "nil"]
  /\ fd = [n \in Node |-> 0] /\ queue = [n \in Node |-> None]
  /\ value = [x \in Name |-> FALSE] /\ nqueue = [x \in Name |-> None]
  /\ wire = [n \in Node |-> <<>>] /\ peer = [n \in Node |-> None]
  /\ stream = [n \in Node |-> <<>>] /\ told = {}
  /\ given = <<>> /\ errors = {} /\ dropped = {} /\ way = <<>>
  /\ chunk = <<>> /\ reader = Self
  /\ size = [n \in Node |-> <<>>] /\ buffer = [n \in Node |-> <<>>]
  /\ forwarded = [n \in Node |-> <<>>]

Next ==
  \/ \E n \in Node :
       \/ SendHandle(n) \/ SocketClose(n)
       \/ \E k \in 1 .. MaxChunk : Data(n, k)
       \/ \E accepted \in BOOLEAN, lengths \in Stream, id \in {n, Self} :
            harbor_command(n, accepted, lengths, id)
  \/ \E x \in Name : remote_send_name(x) \/ update_name(x)
  \/ ReadHandshake \/ ReadHeader \/ ReadContent

Spec == Init /\ [][Next]_vars

-----------------------------------------------------------------------------
WireMessages(n) == {wire[n][i].m : i \in {j \in DOMAIN wire[n] : wire[n][j] # Handshake}}
Places(m) ==
  {<<"wire", n>> : n \in {k \in Node : m \in WireMessages(k)}}
    \cup {<<"queue", n>> : n \in {k \in Node : m \in Messages(queue[k])}}
    \cup {<<"name", x>> : x \in {y \in Name : m \in Messages(nqueue[y])}}
    \cup {p \in {<<"given">>, <<"errors">>, <<"dropped">>} :
            m \in CASE p[1] = "given" -> Range(given)
                    [] p[1] = "errors" -> errors [] OTHER -> dropped}

\* TypeOK: a node the harbor is connected to is in a state of the connection; a
\* header is never longer than its field, a body never longer than announced.
TypeOK ==
  \A n \in Node :
    /\ status[n] \in {"WAIT", "HANDSHAKE", "HEADER", "CONTENT", "DOWN"}
    /\ fd[n] # 0 <=> status[n] \in {"HANDSHAKE", "HEADER", "CONTENT"}
    /\ Len(size[n]) <= LengthBytes + 1
    /\ status[n] = "CONTENT" => Len(buffer[n]) < Length(n)

\* A message's buffer has one owner: it is on the wire, in one queue, with a
\* local service or released, whatever connects, fails or becomes known.
OneOwner == \A m \in DOMAIN way : Cardinality(Places(m)) = 1

\* Messages a service sends the same way, to one handle or to one name, leave in
\* the order they were sent, though they wait in two queues for two events.
OrderKept ==
  \A n \in Node :
    LET line == SelectSeq(wire[n], LAMBDA e : e # Handshake) \o AsQueue(queue[n])
    IN \A i, j \in DOMAIN line :
         i < j /\ way[line[i].m] = way[line[j].m] => line[i].m < line[j].m

\* Nothing waits for a node that is ready, nor for a name that is known.
NothingWaits ==
  /\ \A n \in Node : status[n] \in {"HEADER", "CONTENT"} => queue[n] = None
  /\ \A x \in Name : value[x] => nqueue[x] = None

\* The local services get exactly the messages the peer sent, in order and
\* whole, however the stream is cut into socket messages.
StreamCutRight ==
  \A n \in Node :
    /\ forwarded[n] = [k \in DOMAIN forwarded[n] |-> Body(k, peer[n][k])]
    /\ fd[n] # 0 /\ slaves[n] = "fd" /\ stream[n] = <<>> /\ chunk = <<>>
         => Len(forwarded[n]) = Len(peer[n])

=============================================================================
