----------------------------- MODULE WebSocket -----------------------------
(***************************************************************************)
(* A websocket on the server's side (accept and resolve_accept of          *)
(* websocket.lua) after the hand-shake: one coroutine reads frames, puts   *)
(* fragmented messages together, answers pings and calls the application's *)
(* handlers, which may wait, write, close the websocket or fail; another   *)
(* coroutine may close it at any time, and the peer may close it or        *)
(* disappear.  A byte has BASE values where the code has 256, a long       *)
(* length 3 bytes where it has 8.  Masks, which cancel out, are left out.  *)
(***************************************************************************)
EXTENDS Naturals, Sequences, SequencesExt

CONSTANTS
  BASE,           \* 256
  SMALL,          \* 126, the least length that is not in the header itself
  MAX_FRAME_SIZE,
  Sizes,          \* lengths of the payloads the peer sends
  MaxFrames       \* bound on the frames it sends

WebSocketAssumption ==
  /\ BASE \in Nat \ {0, 1} /\ SMALL \in 1 .. BASE ^ 2
  /\ MAX_FRAME_SIZE \in Nat /\ Sizes \subseteq 0 .. BASE ^ 3 - 1

VARIABLES
  wire,           \* bytes of the peer that are not read yet
  alive,          \* the peer has not disappeared
  ws_pool,        \* the websocket is in ws_pool
  mode,           \* the reading coroutine: "read", in a handler ("message", "ping",
                  \* "pong", "close", "error") or "ended"
  last,           \* the loop ends after this handler
  recv_buf, first_op,
  out,            \* what was written: pongs and close frames
  got, ends,      \* the messages and the ends the handlers were told of
  failed,         \* accept returns false, with an error that is not the socket's
  sent, begun, pings, frames     \* what the peer has sent

pvars == <<sent, begun, pings, frames>>
vars == <<wire, alive, ws_pool, mode, last, recv_buf, first_op, out, got, ends, failed, pvars>>

op_code == [frame |-> 0, text |-> 1, close |-> 8, ping |-> 9, pong |-> 10]
Op(c) == CHOOSE o \in DOMAIN op_code : op_code[o] = c

-----------------------------------------------------------------------------
Digits(n, w) == [i \in 1 .. w |-> (n \div BASE ^ (w - i)) % BASE]
Number(s) == FoldLeft(LAMBDA acc, d : BASE * acc + d, 0, s)

\* Mutant: 126 is taken for a length that the header can hold.
Mut_write_frame(op, fin, data) ==
  LET n == Len(data)
      v1 == op_code[op] + IF fin THEN 128 ELSE 0
  IN CASE n <= SMALL -> <<v1, n>> \o data
       [] n > SMALL /\ n < BASE ^ 2 -> <<v1, SMALL>> \o Digits(n, 2) \o data
       [] OTHER -> <<v1, SMALL + 1>> \o Digits(n, 3) \o data

\* fin is always set by this library; other peers send fragments.
write_frame(op, fin, data) ==
  LET n == Len(data)
      v1 == op_code[op] + IF fin THEN 128 ELSE 0
  IN CASE n < SMALL -> <<v1, n>> \o data
       [] n >= SMALL /\ n < BASE ^ 2 -> <<v1, SMALL>> \o Digits(n, 2) \o data
       [] OTHER -> <<v1, SMALL + 1>> \o Digits(n, 3) \o data

\* The frame at the front of s: whether it is all there, or its length too large.
read_frame(s) ==
  LET ext == IF s[2] = SMALL THEN 2 ELSE IF s[2] = SMALL + 1 THEN 3 ELSE 0
      n == IF ext = 0 THEN s[2] ELSE Number(SubSeq(s, 3, 2 + ext))
      end == 2 + ext + n
  IN IF Len(s) < 2 THEN [is |-> "part"]
     ELSE IF Len(s) < 2 + ext THEN [is |-> "part"]
     ELSE IF n > MAX_FRAME_SIZE THEN [is |-> "large"]
     ELSE IF Len(s) < end THEN [is |-> "part"]
     ELSE [is |-> "frame", fin |-> s[1] >= 128, op |-> Op(s[1] % 128),
           data |-> SubSeq(s, 3 + ext, end), rest |-> SubSeq(s, end + 1, Len(s))]

-----------------------------------------------------------------------------
\* accept after resolve_accept: the websocket is closed if it is not yet, and a lost
\* connection told to the handler, as an error unless the application closed it.
SocketError ==
  /\ ws_pool' = FALSE
  /\ mode' = IF ws_pool THEN "error" ELSE "close"
  /\ ends' = Append(ends, mode')
  /\ last' = TRUE

\* Errors of another kind are returned to the caller.
Raise ==
  /\ ws_pool' = FALSE /\ failed' = TRUE /\ mode' = "ended"

\* Mutant: the loop ends without a word.
MutFoundClosed ==
  /\ mode = "loop" /\ ~ ws_pool
  /\ mode' = "ended"
  /\ UNCHANGED <<wire, alive, ws_pool, last, recv_buf, first_op, out, got, ends, failed, pvars>>

\* The loop finds the websocket closed by a handler, or by others meanwhile.
FoundClosed ==
  /\ mode = "loop" /\ ~ ws_pool
  /\ mode' = "close" /\ last' = TRUE /\ ends' = Append(ends, "close")
  /\ UNCHANGED <<wire, alive, ws_pool, recv_buf, first_op, out, got, failed, pvars>>

Loop ==
  /\ mode = "loop" /\ ws_pool
  /\ mode' = "read"
  /\ UNCHANGED <<wire, alive, ws_pool, last, recv_buf, first_op, out, got, ends, failed, pvars>>

\* self.read fails: the connection is lost, or was closed by M.close meanwhile.
ReadFails ==
  /\ mode = "read"
  /\ ~ ws_pool \/ (~ alive /\ (wire = <<>> \/ read_frame(wire).is = "part"))
  /\ SocketError
  /\ UNCHANGED <<wire, alive, recv_buf, first_op, out, got, failed, pvars>>

TooLarge ==
  /\ mode = "read" /\ wire # <<>> /\ read_frame(wire).is = "large"
  /\ Raise
  /\ UNCHANGED <<wire, alive, last, recv_buf, first_op, out, got, ends, pvars>>

\* A frame has come, perhaps after M.close was called: what is already in the mailbox of
\* the service still reaches the reader.
Frame(op, f) ==
  /\ mode = "read" /\ wire # <<>>
  /\ f.is = "frame" /\ f.op \in op
  /\ wire' = f.rest

\* The answer to a close or a ping is written, which fails if the socket is closed.
Control ==
  LET f == read_frame(wire)
  IN /\ Frame({"close", "ping"}, f)
     /\ \/ /\ out' = Append(out, IF f.op = "ping" THEN <<"pong", f.data>> ELSE <<"close">>)
           /\ mode' = f.op /\ last' = (f.op = "close")
           /\ ends' = IF f.op = "close" THEN Append(ends, "close") ELSE ends
           /\ UNCHANGED ws_pool
        \/ /\ ~ alive \/ ~ ws_pool
           /\ SocketError
           /\ UNCHANGED out
     /\ UNCHANGED <<alive, recv_buf, first_op, got, failed, pvars>>

Pong ==
  /\ Frame({"pong"}, read_frame(wire))
  /\ mode' = "pong" /\ last' = FALSE
  /\ UNCHANGED <<alive, ws_pool, recv_buf, first_op, out, got, ends, failed, pvars>>

\* Mutant: a message that is complete does not empty the buffer.
MutGather(f) ==
  LET buf == Append(recv_buf, f.data)
      op == IF first_op = "" THEN f.op ELSE first_op
  IN /\ recv_buf' = buf /\ first_op' = op
     /\ IF f.fin THEN got' = Append(got, <<op, FlattenSeq(buf)>>) /\ mode' = "message"
        ELSE UNCHANGED got /\ mode' = "loop"

\* A fragment joins the others; the last one makes the message.
Gather(f) ==
  LET buf == Append(recv_buf, f.data)
      op == IF first_op = "" THEN f.op ELSE first_op
  IN IF f.fin
     THEN /\ got' = Append(got, <<op, FlattenSeq(buf)>>) /\ mode' = "message"
          /\ recv_buf' = <<>> /\ first_op' = ""
     ELSE /\ recv_buf' = buf /\ first_op' = op /\ mode' = "loop"
          /\ UNCHANGED got

Data ==
  LET f == read_frame(wire)
  IN /\ Frame({"frame", "text"}, f)
     /\ \/ /\ f.fin /\ recv_buf = <<>>
           /\ got' = Append(got, <<f.op, f.data>>) /\ mode' = "message"
           /\ UNCHANGED <<recv_buf, first_op, ws_pool, failed>>
        \/ /\ ~ f.fin \/ recv_buf # <<>>
           /\ Len(FlattenSeq(recv_buf)) + Len(f.data) <= MAX_FRAME_SIZE
           /\ Gather(f)
           /\ UNCHANGED <<ws_pool, failed>>
        \/ /\ ~ f.fin \/ recv_buf # <<>>
           /\ Len(FlattenSeq(recv_buf)) + Len(f.data) > MAX_FRAME_SIZE
           /\ Raise
           /\ UNCHANGED <<recv_buf, first_op, got>>
     /\ last' = FALSE
     /\ UNCHANGED <<alive, out, ends, pvars>>

-----------------------------------------------------------------------------
\* A handler returns, raises an error of its own or, if it writes to a lost peer, the
\* socket's (one that is told of an end does not write).
InHandler == mode \in {"message", "ping", "pong", "close", "error"}

HandlerReturns ==
  /\ InHandler
  /\ IF last THEN mode' = "ended" /\ ws_pool' = FALSE ELSE mode' = "loop" /\ UNCHANGED ws_pool
  /\ UNCHANGED <<wire, alive, last, recv_buf, first_op, out, got, ends, failed, pvars>>

HandlerRaises ==
  /\ InHandler
  /\ Raise
  /\ UNCHANGED <<wire, alive, last, recv_buf, first_op, out, got, ends, pvars>>

HandlerLosesPeer ==
  /\ InHandler /\ ~ last /\ ~ alive /\ ws_pool
  /\ SocketError
  /\ UNCHANGED <<wire, alive, recv_buf, first_op, out, got, failed, pvars>>

\* M.close, by a handler or by another coroutine: the close frame is written if it
\* can be, and the socket closed, which makes a pending read fail.
Close ==
  /\ ws_pool
  /\ ws_pool' = FALSE
  /\ \/ out' = Append(out, <<"close">>)
     \/ ~ alive /\ UNCHANGED out
  /\ UNCHANGED <<wire, alive, mode, last, recv_buf, first_op, got, ends, failed, pvars>>

-----------------------------------------------------------------------------
\* The peer: messages in one or more fragments, with control frames among them.
PeerData(n, fin) ==
  /\ alive /\ frames < MaxFrames /\ frames' = frames + 1
  /\ LET data == [i \in 1 .. n |-> frames]
         op == IF begun = <<>> THEN "text" ELSE "frame"
     IN /\ wire' = wire \o write_frame(op, fin, data)
        /\ begun' = IF fin THEN <<>> ELSE Append(begun, data)
        /\ sent' = IF fin THEN Append(sent, <<"text", FlattenSeq(Append(begun, data))>>) ELSE sent
  /\ UNCHANGED <<alive, ws_pool, mode, last, recv_buf, first_op, out, got, ends, failed, pings>>

PeerControl(op) ==
  /\ alive /\ frames < MaxFrames /\ frames' = frames + 1
  /\ LET data == IF op = "ping" THEN <<frames>> ELSE <<>>
     IN /\ wire' = wire \o write_frame(op, TRUE, data)
        /\ pings' = IF op = "ping" THEN Append(pings, <<"pong", data>>) ELSE pings
  /\ UNCHANGED <<alive, ws_pool, mode, last, recv_buf, first_op, out, got, ends, failed, sent,
                 begun>>

PeerGone ==
  /\ alive /\ alive' = FALSE
  /\ UNCHANGED <<wire, ws_pool, mode, last, recv_buf, first_op, out, got, ends, failed, pvars>>

Init ==
  /\ wire = <<>> /\ alive = TRUE /\ ws_pool = TRUE /\ mode = "loop" /\ last = FALSE
  /\ recv_buf = <<>> /\ first_op = "" /\ out = <<>> /\ got = <<>> /\ ends = <<>>
  /\ failed = FALSE /\ sent = <<>> /\ begun = <<>> /\ pings = <<>> /\ frames = 0

Next ==
  \/ FoundClosed \/ Loop \/ ReadFails \/ TooLarge \/ Control \/ Pong \/ Data
  \/ HandlerReturns \/ HandlerRaises \/ HandlerLosesPeer
  \/ Close
  \/ \E n \in Sizes, fin \in BOOLEAN : PeerData(n, fin)
  \/ \E op \in {"close", "ping", "pong"} : PeerControl(op)
  \/ PeerGone

Spec == Init /\ [][Next]_vars

-----------------------------------------------------------------------------
\* The application gets the messages the peer sent, whole and in order, with the kind
\* of their first fragment, and the peer an answer to each ping.
MessagesWhole ==
  /\ IsPrefix(got, sent)
  /\ IsPrefix(SelectSeq(out, LAMBDA x : x[1] = "pong"), pings)

\* The application is told of the end once, however the closes of both sides, lost
\* connections and waiting handlers meet, or accept fails; and the websocket is not left
\* in ws_pool.
EndToldOnce ==
  /\ Len(ends) <= 1
  /\ mode = "ended" => (ends # <<>> \/ failed) /\ ~ ws_pool

=============================================================================
