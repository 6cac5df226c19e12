----------------------------- MODULE MCNetwork -----------------------------
(***************************************************************************)
(* The components that speak to the network or to other nodes, which share *)
(* no state, in one run.  The variable part names the one that moves; the  *)
(* others stay as they begin, so the run visits the sum of their states.   *)
(* Variables and constants that two parts call by one name are told apart  *)
(* by INSTANCE.                                                            *)
(***************************************************************************)
EXTENDS Integers, Sequences

CONSTANTS
  Node, Self, Name, LengthBytes, MaxChunk, MaxMessage,        \* Harbor
  Slave, MaxQueries, MaxCrashes,                              \* HarborNet
  Fd, QUEUESIZE, MaxPacked,                                   \* Netpack
  Agent, Watchdog, max_connection, HashMod, header_size, GateLimit, Chunk, MaxInbox,
  MaxCommands,                                                \* Gate
  Session, expired_number, MaxLogins,                         \* MsgServer
  Sizes, BUFFER_LIMIT, BufferLimit, MaxMail,                  \* LuaSocket
  Ops, MaxConns, MaxCalls,                                    \* SocketChannel
  Client, CallSize, MULTI_PART, FirstSession, MaxSession, MaxRequests,
  MaxLosses,                                                  \* Cluster
  Co, MaxReloads, MaxMessages,                                \* ClusterSenders
  Registered, Addr, MaxChanges, MaxAsked,                     \* ClusterNames
  BASE, MAX_COOKIE, BLOCK_SIZE, MAX_DEPTH, SEG, RUN, MaxText, \* Codecs
  Base, None

\* Names with an even number are at home at the first node.
AtNode(x) == IF x % 2 = 1 THEN 2 ELSE 1
HarborStream == {<<>>, <<1, 3, 2>>, <<2, 1, 0>>}
PackedStream == {<<1, 0, 2>>}
HomeOf(x) == x % 10
GateStream(fd) == CASE fd = 1 -> <<2, 1>> [] fd = 3 -> <<0, 3>> [] OTHER -> <<>>
PackText == UNION {[1 .. n -> {0, 1}] : n \in 0 .. MaxText}

\* Values to serialise: numbers and strings around every width, arrays around the
\* largest cookie, tables in tables.
Number(n) == [t |-> "int", v |-> n]
Chars(n) == [t |-> "string", v |-> [i \in 1 .. n |-> i % BASE]]
Table(a, h) == [t |-> "table", array |-> a, hash |-> h]
Numbers == {Number(n) : n \in {-2000, -129, -128, -1, 0, 1, 3, 4, 15, 16, 127, 128, 2000}}
Leaves ==
  Numbers \cup {Chars(n) : n \in {0, 2, 3, 15, 16, 17}}
    \cup {[t |-> "nil"], [t |-> "boolean", v |-> 1]}
Flat == {Table(a, h) : a \in UNION {[1 .. n -> {Number(0), Chars(3)}] : n \in 0 .. 3},
                       h \in {<<>>} \cup {<<<<Chars(2), x>>>> : x \in Leaves \ {[t |-> "nil"]}}}
Inner == {Table(<<Number(1)>>, <<>>),
          Table(<<>>, <<<<Chars(1), Table(<<Number(1), Number(1)>>, <<>>)>>>>)}
Deep == {Table(<<x>>, <<<<Number(2), y>>>>) : x, y \in Inner}
Arguments ==
  {<<>>} \cup {<<x>> : x \in Leaves \cup Flat \cup Deep} \cup {<<x, y>> : x, y \in Leaves}

VARIABLES
  part,
  status, fd, queue, value, nqueue, slaves, wire, given, errors, dropped, way, peer, stream,
  chunk, reader, size, buffer, forwarded, told,
  slave_node, global_name, phase, need, net_slaves, connect_queue, todo, opener, monitor,
  globalname, queryname, harbor, net_asked, up, net_down, net_link, hello, closed, queries,
  crashes,
  ring, cap, head, tail, uncomplete, rest, np_from, busy, sends, coming, connection, got,
  id, chain, count, conn, listening, broker, gate_busy, gate_inbox, state, gate_coming,
  gate_got, asked, spoilt, aborted, commands,
  users, logins, online, objs, handshake, ms_connection, gate, cfd, wait, sent, used, reuse,
  ms_inbox, ms_out, ms_requests, runs, overtaken, discarded, early, wrong, orphaned,
  late,
  sb, open, connected, sock_co, pause, closing, required, sock_reader, closer, op, restarts,
  yielded, sock_mail, server, sock_coming, sock_got,
  auth, sock, ch_closed, authco, connecting, line, result, dt, dco, dfd, ch_running, pc, want,
  mine, conns, shut, broken, ch_stream, ch_requests, ch_ops, hasty,
  cl_session, cl_connected, thread, data, cl_client, asks, cl_answer, out, back, large, calls,
  served, cl_replies, requests, losses,
  node_address, nowaiting, node_sender, node_sender_closed, node_channel, co_connecting, co,
  address, host, awake, co_got, reloads,
  register_name, cluster_agent, agent_sock, life, mail, ask, tables, inquery_name, changes,
  cn_requests, missed, lost,
  sender, sq_queue, request, c, at, caller, number, made, sq_calls, sq_out, failed,
  text, zp_at, zp_buffer, ff_n, ff_srcstart, ff_desstart, src, zp_out, mode,
  args, block, bytes, unpacked, seri_mode,
  now, CACHE, request_pool, next_tid, req, timers, dns_fd, retire, check_alive, net, reused,
  ws_wire, alive, ws_pool, ws_mode, last, recv_buf, first_op, ws_out, ws_got, ends, ws_failed,
  ws_sent, begun, pings, frames,
  multilogin, ls_client, step, uid, user_login, ls_told, ls_logins

hvars == <<status, fd, queue, value, nqueue, slaves, wire, given, errors, dropped, way, peer,
           stream, chunk, reader, size, buffer, forwarded, told>>
nvars == <<slave_node, global_name, phase, need, net_slaves, connect_queue, todo, opener,
           monitor, globalname, queryname, harbor, net_asked, up, net_down, net_link, hello,
           closed, queries, crashes>>
pvars == <<ring, cap, head, tail, uncomplete, rest, np_from, busy, sends, coming, connection,
           got>>
gvars == <<id, chain, count, conn, listening, broker, gate_busy, gate_inbox, state, gate_coming,
           gate_got, asked, spoilt, aborted, commands>>
avars == <<users, logins, online, objs, handshake, ms_connection, gate, cfd, wait, sent, used,
           reuse, ms_inbox, ms_out, ms_requests, runs, overtaken, discarded, early, wrong,
           orphaned, late>>
kvars == <<sb, open, connected, sock_co, pause, closing, required, sock_reader, closer, op,
           restarts, yielded, sock_mail, server, sock_coming, sock_got>>
lvars == <<auth, sock, ch_closed, authco, connecting, line, result, dt, dco, dfd, ch_running,
           pc, want, mine, conns, shut, broken, ch_stream, ch_requests, ch_ops, hasty>>
cvars == <<cl_session, cl_connected, thread, data, cl_client, asks, cl_answer, out, back, large,
           calls, served, cl_replies, requests, losses>>
ovars == <<node_address, nowaiting, node_sender, node_sender_closed, node_channel,
           co_connecting, co, address, host, awake, co_got, reloads>>
rvars == <<register_name, cluster_agent, agent_sock, life, mail, ask, tables, inquery_name,
           changes, cn_requests, missed, lost>>
qvars == <<sender, sq_queue, request, c, at, caller, number, made, sq_calls, sq_out, failed>>
zvars == <<text, zp_at, zp_buffer, ff_n, ff_srcstart, ff_desstart, src, zp_out, mode>>
svars == <<args, block, bytes, unpacked, seri_mode>>
dvars == <<now, CACHE, request_pool, next_tid, req, timers, dns_fd, retire, check_alive, net,
           reused>>
wvars == <<ws_wire, alive, ws_pool, ws_mode, last, recv_buf, first_op, ws_out, ws_got, ends,
           ws_failed, ws_sent, begun, pings, frames>>
ivars == <<multilogin, ls_client, step, uid, user_login, ls_told, ls_logins>>

H == INSTANCE Harbor WITH NodeOf <- AtNode, Stream <- HarborStream
N == INSTANCE HarborNet WITH
       Name <- {11}, Home <- HomeOf, slaves <- net_slaves, asked <- net_asked,
       down <- net_down, link <- net_link
T == INSTANCE HarborNet WITH
       Slave <- Node, Name <- {11}, Home <- HomeOf, MaxQueries <- 2, slaves <- net_slaves,
       asked <- net_asked, down <- net_down, link <- net_link
P == INSTANCE Netpack WITH Stream <- PackedStream, MaxChunk <- MaxPacked, from <- np_from
G == INSTANCE Gate WITH
       Fd <- {1, 2, 3}, Sends <- GateStream, TooLong <- GateLimit,
       busy <- gate_busy, inbox <- gate_inbox, coming <- gate_coming, got <- gate_got
A == INSTANCE MsgServer WITH
       connection <- ms_connection, inbox <- ms_inbox, out <- ms_out, requests <- ms_requests
K == INSTANCE LuaSocket WITH
       Stream <- <<1, 1, 2, 0, 1, 2>>, Sep <- <<1, 2>>, MaxChunk <- 3,
       co <- sock_co, reader <- sock_reader, mail <- sock_mail, coming <- sock_coming,
       got <- sock_got
L == INSTANCE SocketChannel WITH
       MaxRequests <- MaxCalls, MaxOps <- 1, closed <- ch_closed,
       running <- ch_running, stream <- ch_stream, requests <- ch_requests, ops <- ch_ops
C == INSTANCE Cluster WITH
       Size <- CallSize, session <- cl_session, connected <- cl_connected, client <- cl_client,
       answer <- cl_answer, replies <- cl_replies
O == INSTANCE ClusterSenders WITH
       Address <- {1, 2}, Caller <- Client, connecting <- co_connecting, got <- co_got,
       queue <- sq_queue, calls <- sq_calls, out <- sq_out
R == INSTANCE ClusterNames WITH
       Name <- Registered, Fd <- {1}, MaxRequests <- MaxAsked, sock <- agent_sock,
       requests <- cn_requests
S == INSTANCE Codecs WITH
       Value <- Arguments, value <- args, stream <- bytes, result <- unpacked, mode <- seri_mode,
       Text <- PackText, at <- zp_at, buffer <- zp_buffer, out <- zp_out, pack_mode <- mode
D == INSTANCE Dns WITH
       MaxRequests <- 3, MaxTid <- 2, RETIRE <- 1, MaxTime <- 2, fd <- dns_fd
W == INSTANCE WebSocket WITH
       BASE <- 2, SMALL <- 2, MAX_FRAME_SIZE <- 5, Sizes <- {0, 2, 4, 6}, MaxFrames <- 3,
       wire <- ws_wire, mode <- ws_mode, out <- ws_out, got <- ws_got, failed <- ws_failed,
       sent <- ws_sent
I == INSTANCE LoginServer WITH
       Fd <- {1, 2, 3}, Uid <- {1, 2}, client <- ls_client, told <- ls_told,
       logins <- ls_logins

ASSUME
  /\ H!HarborAssumption /\ N!NetAssumption /\ T!NetAssumption /\ P!NetpackAssumption
  /\ G!GateAssumption /\ A!MsgAssumption /\ K!LuaSocketAssumption /\ L!ChannelAssumption
  /\ C!ClusterAssumption /\ O!OpenAssumption /\ R!NamesAssumption /\ O!QueueAssumption
  /\ S!PackAssumption /\ S!SeriAssumption /\ D!DnsAssumption /\ W!WebSocketAssumption
  /\ I!LoginAssumption

\* The parts with several initial states begin with one of them when another part moves.
MCInit ==
  /\ part \in {"harbor", "net", "names", "netpack", "gate", "msgserver", "socket", "channel",
               "cluster", "opening", "registry", "sending", "zeropack", "seri", "dns",
               "websocket", "login"}
  /\ part = "harbor" \/ status = [n \in Node |-> "WAIT"]
  /\ part = "channel" \/ auth = FALSE
  /\ part = "opening" \/ node_address = None
  /\ part = "zeropack" \/ text = <<>>
  /\ part = "seri" \/ args = <<>>
  /\ part = "login" \/ multilogin = FALSE
  /\ H!Init /\ (IF part = "names" THEN T!Init ELSE N!Init) /\ P!Init /\ G!Init /\ A!Init
  /\ K!Init /\ L!Init /\ C!Init /\ O!Init /\ R!Init /\ O!QueueInit /\ S!PackInit /\ S!Init
  /\ D!Init /\ W!Init /\ I!Init

MCNext ==
  /\ part' = part
  /\ (part = "harbor"    /\ H!Next) \/ (part # "harbor"    /\ UNCHANGED hvars)
  /\ (part = "net" /\ N!Next) \/ (part = "names" /\ T!Next)
     \/ (part \notin {"net", "names"} /\ UNCHANGED nvars)
  /\ (part = "netpack"   /\ P!Next) \/ (part # "netpack"   /\ UNCHANGED pvars)
  /\ (part = "gate"      /\ G!Next) \/ (part # "gate"      /\ UNCHANGED gvars)
  /\ (part = "msgserver" /\ A!Next) \/ (part # "msgserver" /\ UNCHANGED avars)
  /\ (part = "socket"    /\ K!Next) \/ (part # "socket"    /\ UNCHANGED kvars)
  /\ (part = "channel"   /\ L!Next) \/ (part # "channel"   /\ UNCHANGED lvars)
  /\ (part = "cluster"   /\ C!Next) \/ (part # "cluster"   /\ UNCHANGED cvars)
  /\ (part = "opening"   /\ O!Next) \/ (part # "opening"   /\ UNCHANGED ovars)
  /\ (part = "registry"  /\ R!Next) \/ (part # "registry"  /\ UNCHANGED rvars)
  /\ (part = "sending"   /\ O!QueueNext) \/ (part # "sending"   /\ UNCHANGED qvars)
  /\ (part = "zeropack"  /\ S!PackNext) \/ (part # "zeropack"  /\ UNCHANGED zvars)
  /\ (part = "seri"      /\ S!Next) \/ (part # "seri"      /\ UNCHANGED svars)
  /\ (part = "dns"       /\ D!Next) \/ (part # "dns"       /\ UNCHANGED dvars)
  /\ (part = "websocket" /\ W!Next) \/ (part # "websocket" /\ UNCHANGED wvars)
  /\ (part = "login"     /\ I!Next) \/ (part # "login"     /\ UNCHANGED ivars)

MCSpec ==
  MCInit /\ [][MCNext]_<<part, hvars, nvars, pvars, gvars, avars, kvars, lvars, cvars, ovars,
                         rvars, qvars, zvars, svars, dvars, wvars, ivars>>

-----------------------------------------------------------------------------
\* A message given to the harbor is in exactly one place, keeps its order and waits
\* for no node that is ready and no name that is known; a peer's bytes are cut
\* into the messages it sent.  When nothing is under way between the nodes, those that
\* are ready are connected to each other, no started node waits for ever unless one
\* crashed, and every name the master knows is where it was asked for; who watches a
\* node is told.
HarborExact ==
  /\ part = "harbor" =>
       /\ H!TypeOK /\ H!OneOwner /\ H!OrderKept /\ H!NothingWaits /\ H!StreamCutRight
  /\ part = "net" => N!Meshed /\ N!AllReady
  /\ part = "names" => T!Meshed /\ T!NamesFound /\ T!WatchersTold

\* The gate's table finds exactly the ids that are in it, messages are forwarded
\* whole and in order, and an agent gets only those of its connections.  The packages
\* netpack hands to the Lua gate are those that were sent, and its ring is empty when
\* the next socket message comes.
GateExact ==
  /\ part = "gate" => G!LookupExact /\ G!MessagesExact /\ G!OnlyItsAgent
  /\ part = "netpack" => P!PackagesExact /\ P!RingEmptied

\* No byte of a socket is lost, repeated or moved, a line ends at the first
\* separator; a reader is woken when what it waits for is there, and served then,
\* and a coroutine that closes the socket is woken.  Through failures, reconnections
\* and authentication of a channel nobody gets the answer to another's request and
\* nobody is left in line, unless the channel is closed or sent elsewhere while it is
\* in use; a coroutine that reconnects does not wait for ever.
StreamsExact ==
  /\ part = "socket" =>
       /\ K!BytesConserved /\ K!LineExact
       /\ K!WokenIsServed /\ K!ReaderNotStuck /\ K!CloserNotStuck
  /\ part = "channel" => L!OwnAnswer /\ L!NobodyLost /\ L!DrainEnds

\* Cluster calls and their answers arrive whole, to the right caller, who is
\* remembered until then.  One coroutine at a time opens a node's sender, which is
\* the one of its last address; a name is found by other nodes if it was registered
\* since they asked, and none of them keeps an old one; what is sent before the
\* sender is known is sent later, in order.
ClusterExact ==
  /\ part = "cluster" => C!CallsExact /\ C!CallerRemembered
  /\ part = "opening" => O!OneOpens /\ O!SenderCurrent
  /\ part = "registry" => R!NamesPaired /\ R!CacheFresh /\ R!FoundIfThere /\ R!AgentEnds
  /\ part = "sending" => O!SentInOrder /\ O!NoneLost

\* What is packed is unpacked, and fits where it is packed to: the zero packing of
\* sproto, and the serialised arguments of a Lua message.
CodecsExact ==
  /\ part = "zeropack" => S!PackRoundTrip /\ S!PackFits
  /\ part = "seri" => S!SeriRoundTrip

\* Who waits for a name's address can be answered, is woken in the end, and with an
\* address of that name; a websocket's messages arrive whole and its end is told once.
\* A user is logged in by one handler at a time, and each client told the outcome once;
\* who comes back after the connection was lost gets the answer to the request made
\* before, which is not handled twice while its answer is kept, and is kept long
\* enough, unless a request with that session was read late, from the connection that
\* was lost; who logs out is served no more.
ClientsExact ==
  /\ part = "dns" => D!TypeOK /\ D!Awaited /\ D!NotCutShort
  /\ part = "websocket" => W!MessagesWhole /\ W!EndToldOnce
  /\ part = "login" => I!TypeOK /\ I!OneLoginPerUser /\ I!ToldOnce
  /\ part = "msgserver" =>
       /\ A!OwnAnswer /\ A!HandledOnce /\ A!KeptLongEnough
       /\ A!AnswerReachesAsker /\ A!LoggedOut

=============================================================================
