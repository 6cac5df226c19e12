----------------------------- MODULE LuaSocket -----------------------------
(***************************************************************************)
(* One connected socket of a Lua service: the buffer of lua-socket.cpp and *)
(* the coroutines of socket.lua that read and close it.  The socket server *)
(* is external: it puts data and a close into the service's mailbox.  A    *)
(* coroutine that was woken runs before the next message.                  *)
(***************************************************************************)
EXTENDS Frames, Integers

CONSTANTS
  Stream,        \* the bytes the peer sends
  Sep,           \* the separator of readline
  Sizes,         \* the sizes asked for by read(id, sz)
  BUFFER_LIMIT,  \* a buffer larger than this pauses the socket
  BufferLimit,   \* s.buffer_limit: one larger than this closes it
  MaxChunk,      \* bound: bytes in one message
  MaxMail        \* bound: messages in the mailbox

LuaSocketAssumption ==
  /\ Sep # <<>> /\ Sizes \subseteq Nat \ {0}
  /\ {BUFFER_LIMIT, BufferLimit, MaxChunk, MaxMail} \subseteq Nat

VARIABLES
  sb,          \* struct socket_buffer: the messages, the offset into the first, the size
  open,        \* the socket is in socket_pool
  connected, co, pause, closing, required,  \* fields of s
  reader, closer,   \* the coroutines: "idle", "wait", "woken" or, for the closer, "done"
  op,          \* what the reader is about
  restarts,    \* the reader is in the branch of suspend that has started a paused socket
  yielded,     \* handlers in the yield of pause_socket: whether they will wake the reader
  mail,        \* messages of the socket server, <<>> is a close
  server,      \* the socket: "read", "paused", "closing" or "closed"
  coming, got  \* the bytes still to come, and those read, separators included

vars == <<sb, open, connected, co, pause, closing, required, reader, closer, op, restarts, yielded, mail,
          server, coming, got>>

\* read_required: a number (0 for any), a line, everything, or nil
Line == -1
All == -2
Nil == -3

-----------------------------------------------------------------------------
\* lua-socket.cpp

lpushbuffer(b, msg) == [b EXCEPT !.list = Append(@, msg), !.size = @ + Len(msg)]
NoBuffer == [list |-> <<>>, offset |-> 0, size |-> 0]

return_free_node(b) == [b EXCEPT !.list = Tail(@), !.offset = 0]

\* Mutant: the bytes of the last message are all taken, the separator included.
MutTaken(here, sz, skip) == First(here, sz)

\* What is taken from the bytes here, of sz - skip that are wanted.
Taken(here, sz, skip) == First(here, sz - skip)

RECURSIVE pop_lstring(_, _, _)
pop_lstring(b, sz, skip) ==
  LET here == Drop(Head(b.list), b.offset)
      bytes == Len(here)
      data == Taken(here, sz, skip)
  IN IF bytes > sz THEN [data |-> data, sb |-> [b EXCEPT !.offset = @ + sz]]
     ELSE IF bytes = sz THEN [data |-> data, sb |-> return_free_node(b)]
     ELSE LET r == pop_lstring(return_free_node(b), sz - bytes, skip)
          IN [data |-> data \o r.data, sb |-> r.sb]

\* pop_lstring and the new size: lpopbuffer, lreadline
Pop(b, sz, skip) ==
  LET r == pop_lstring(b, sz, skip) IN [r EXCEPT !.sb.size = b.size - sz]

\* Mutant: a separator that begins in one message and ends in the next is missed.
Mutcheck_rest(list, sep) == FALSE

\* The rest of a separator, in the messages that follow.
RECURSIVE check_sep(_, _, _)
check_rest(list, sep) == check_sep(list, 0, sep)

check_sep(list, from, sep) ==
  LET here == Drop(Head(list), from)
  IN IF Len(here) >= Len(sep) THEN First(here, Len(sep)) = sep
     ELSE here = First(sep, Len(here)) /\ check_rest(Tail(list), Drop(sep, Len(here)))

\* lreadline: where the first separator is, counted from the i-th byte, or -1
RECURSIVE Search(_, _, _, _)
Search(list, from, i, last) ==
  IF i > last \/ list = <<>> THEN -1
  ELSE IF check_sep(list, from, Sep) THEN i
  ELSE IF from + 1 = Len(Head(list)) THEN Search(Tail(list), 0, i + 1, last)
  ELSE Search(list, from + 1, i + 1, last)

lreadline(b) == Search(b.list, b.offset, 0, b.size - Len(Sep))

lreadall(b) == Drop(FlattenSeq(b.list), b.offset)

-----------------------------------------------------------------------------
\* socket.lua: messages

\* No coroutine is about to run.
Quiet == reader # "woken" /\ closer # "woken"

\* wakeup(s)
wakeup ==
  /\ co' = "none"
  /\ reader' = IF co = "reader" THEN "woken" ELSE reader
  /\ closer' = IF co = "closer" THEN "woken" ELSE closer

NoWakeup == UNCHANGED <<co, reader, closer>>

\* pause_socket(s) in a handler, then, when wake is set, wakeup(s)
PauseThenWake(much, wake) ==
  IF much /\ pause = "nil"
  THEN /\ pause' = "true"
       /\ server' = IF server = "read" THEN "paused" ELSE server
       /\ yielded' = Append(yielded, wake)
       /\ NoWakeup
  ELSE /\ IF wake THEN wakeup ELSE NoWakeup
       /\ UNCHANGED <<pause, server, yielded>>

\* Mutant: one byte less will do.
MutEnough(sz) == sz + 1 >= required

\* The buffer has what the reader asked for.
Enough(sz) == sz >= required

\* socket_message[1]
Data ==
  LET b == lpushbuffer(sb, Head(mail))
      much == b.size > BUFFER_LIMIT
      found == required = Line /\ lreadline(b) >= 0
  IN /\ Quiet /\ mail # <<>> /\ Head(mail) # <<>>
     /\ mail' = Tail(mail)
     /\ \/ /\ ~ open
           /\ UNCHANGED <<sb, required, pause, server, yielded>> /\ NoWakeup
        \/ /\ open /\ required >= 0
           /\ sb' = b
           /\ IF Enough(b.size)
              THEN required' = Nil /\ PauseThenWake(much, TRUE)
              ELSE UNCHANGED <<required, pause, server, yielded>> /\ NoWakeup
        \/ /\ open /\ required < 0 /\ b.size > BufferLimit
           /\ sb' = b
           /\ server' = IF server \in {"read", "paused"} THEN "closing" ELSE server
           /\ UNCHANGED <<required, pause, yielded>> /\ NoWakeup
        \/ /\ open /\ required < 0 /\ b.size <= BufferLimit
           /\ sb' = b
           /\ required' = IF found THEN Nil ELSE required
           /\ PauseThenWake(IF required = Line THEN found /\ much ELSE much, found)
     /\ UNCHANGED <<open, connected, closing, op, restarts, coming, got>>

\* The end of pause_socket's yield.
AfterYield ==
  /\ Quiet /\ yielded # <<>>
  /\ yielded' = Tail(yielded)
  /\ IF Head(yielded) THEN wakeup ELSE NoWakeup
  /\ UNCHANGED <<sb, open, connected, pause, closing, required, op, restarts, mail, server, coming, got>>

\* socket_message[3], and [5] for a connected socket
Closed ==
  /\ Quiet /\ mail # <<>> /\ Head(mail) = <<>>
  /\ mail' = Tail(mail)
  /\ connected' = FALSE
  /\ IF open THEN wakeup ELSE NoWakeup
  /\ UNCHANGED <<sb, open, pause, closing, required, op, restarts, yielded, server, coming, got>>

-----------------------------------------------------------------------------
\* socket.lua: coroutines

\* What the reader gets of the buffer now: a record, or <<>> for nil.
Now(what) ==
  CASE what > 0 /\ sb.size >= what -> <<Pop(sb, what, 0)>>
    [] what = Line /\ lreadline(sb) >= 0 ->
         LET r == Pop(sb, lreadline(sb) + Len(Sep), Len(Sep))
         IN <<[r EXCEPT !.data = @ \o Sep]>>
    [] what = 0 /\ sb.size > 0 -> <<[data |-> lreadall(sb), sb |-> NoBuffer]>>
    [] OTHER -> <<>>

\* The rest of the buffer, for a reader that cannot be served.
Rest == [data |-> lreadall(sb), sb |-> NoBuffer]

Got(r) == sb' = r.sb /\ got' = got \o r.data

\* Mutant: a paused socket is not started again.
MutStarted == server

\* suspend: a paused socket is started again
Started == IF pause = "true" /\ server = "paused" THEN "read" ELSE server

\* read, readline and readall up to suspend.  A coroutine that closes may be waiting:
\* then suspend's assertion fails, and read_required stays set.
Read(what) ==
  /\ Quiet /\ open /\ reader = "idle"
  /\ \/ /\ what # All /\ Now(what) # <<>>
        /\ Got(Now(what)[1])
        /\ UNCHANGED <<required, reader, op, restarts, co, server>>
     \/ /\ (what # All => Now(what) = <<>>) /\ ~ connected
        /\ Got(Rest)
        /\ UNCHANGED <<required, reader, op, restarts, co, server>>
     \/ /\ (what # All => Now(what) = <<>>) /\ connected /\ required = Nil /\ co # "none"
        /\ required' = what
        /\ UNCHANGED <<sb, got, reader, op, restarts, co, server>>
     \/ /\ (what # All => Now(what) = <<>>) /\ connected /\ required = Nil /\ co = "none"
        /\ required' = what /\ op' = what /\ co' = "reader" /\ reader' = "wait"
        /\ restarts' = (pause = "true") /\ server' = Started
        /\ UNCHANGED <<sb, got>>
  /\ UNCHANGED <<open, connected, pause, closing, closer, yielded, mail, coming>>

\* Mutant: nobody wakes the coroutine that closes.
MutCloserAfter == closer

\* The end of suspend: the coroutine that closes is woken.
CloserAfter == IF closing THEN "woken" ELSE closer

\* The reader goes on after fengnet.wait in suspend.
ReadOn ==
  /\ reader = "woken"
  /\ reader' = "idle" /\ op' = Nil
  /\ pause' = IF restarts THEN "nil" ELSE pause
  /\ restarts' = FALSE
  /\ closer' = CloserAfter
  /\ Got(IF op = All \/ (op = Line /\ ~ connected) \/ Now(op) = <<>> THEN Rest ELSE Now(op)[1])
  /\ UNCHANGED <<open, connected, co, closing, required, yielded, mail, server, coming>>

\* socket.close: waits for the reader, or for the server's close
Close ==
  /\ Quiet /\ open /\ closer = "idle"
  /\ server' = IF server = "closed" THEN server ELSE "closing"
  /\ \/ /\ ~ connected
        /\ open' = FALSE /\ closer' = "done"
        /\ UNCHANGED <<pause, closing, co>>
     \/ /\ connected /\ co # "none"
        /\ pause' = "false" /\ closing' = TRUE /\ closer' = "wait"
        /\ UNCHANGED <<co, open>>
     \/ /\ connected /\ co = "none"
        /\ pause' = "false" /\ co' = "closer" /\ closer' = "wait"
        /\ UNCHANGED <<closing, open>>
  /\ UNCHANGED <<sb, connected, required, reader, op, restarts, yielded, mail, coming, got>>

CloseOn ==
  /\ closer = "woken"
  /\ closer' = "done"
  /\ connected' = FALSE /\ open' = FALSE
  /\ UNCHANGED <<sb, co, pause, closing, required, reader, op, restarts, yielded, mail, server, coming, got>>

-----------------------------------------------------------------------------
\* The socket server.

ServerData(k) ==
  /\ server \in {"read", "closing"} /\ Len(mail) < MaxMail /\ k <= Len(coming)
  /\ mail' = Append(mail, SubSeq(coming, 1, k))
  /\ coming' = Drop(coming, k)
  /\ UNCHANGED <<sb, open, connected, co, pause, closing, required, reader, closer, op, restarts, yielded,
                 server, got>>

\* The peer has closed, an error (bytes may be lost with it), or a close that was
\* asked for.
ServerClose ==
  /\ server # "closed"
  /\ Len(mail) < MaxMail
  /\ server' = "closed" /\ mail' = Append(mail, <<>>)
  /\ UNCHANGED <<sb, open, connected, co, pause, closing, required, reader, closer, op, restarts, yielded,
                 coming, got>>

\* After connect.
Init ==
  /\ sb = NoBuffer /\ open = TRUE /\ connected = TRUE /\ co = "none" /\ pause = "nil"
  /\ closing = FALSE /\ required = Nil /\ reader = "idle" /\ closer = "idle" /\ op = Nil
  /\ restarts = FALSE /\ yielded = <<>> /\ mail = <<>> /\ server = "read" /\ coming = Stream /\ got = <<>>

Next ==
  \/ Data \/ AfterYield \/ Closed \/ ReadOn \/ Close \/ CloseOn \/ ServerClose
  \/ \E what \in Sizes \cup {0, Line, All} : Read(what)
  \/ \E k \in 1 .. MaxChunk : ServerData(k)

Spec == Init /\ [][Next]_vars

-----------------------------------------------------------------------------
\* No byte is lost, repeated or moved between the peer and the reader, whatever
\* sizes, lines and everythings are read and however the stream was cut.
BytesConserved ==
  /\ sb.size = Len(lreadall(sb))
  /\ open => got \o lreadall(sb) \o FlattenSeq(mail) \o coming = Stream

\* readline finds the first separator, also one that lies in several messages.
LineExact ==
  LET rest == lreadall(sb)
      ends == {i \in 0 .. Len(rest) - Len(Sep) : SubSeq(rest, i + 1, i + Len(Sep)) = Sep}
  IN IF ends = {} THEN lreadline(sb) = -1
     ELSE lreadline(sb) \in ends /\ \A i \in ends : lreadline(sb) <= i

\* A reader that was woken on an open connection gets what it waited for.
WokenIsServed ==
  reader = "woken" /\ connected => op # All /\ (op > 0 => sb.size >= op) /\
                                   (op = Line => lreadline(sb) >= 0)

\* A reader that waits for bytes or a line does not wait for nothing: the socket
\* is not left paused, and what it waits for is not in the buffer, once no
\* message or handler is under way.  (A reader of everything may wait at a paused
\* socket.)
ReaderNotStuck ==
  reader = "wait" /\ op # All /\ mail = <<>> /\ yielded = <<>> /\ Quiet
    => /\ server # "paused" /\ co = "reader"
       /\ connected => (op >= 0 => sb.size < op \/ op = 0) /\ (op = Line => lreadline(sb) < 0)

\* A coroutine that closes is woken: by the reader it waits for, or by the close
\* that is to come.
CloserNotStuck ==
  closer = "wait" =>
    \/ closing /\ reader \in {"wait", "woken"}
    \/ co = "closer" /\ (server = "closing" \/ \E i \in DOMAIN mail : mail[i] = <<>>)

=============================================================================
