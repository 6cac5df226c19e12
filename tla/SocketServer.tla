---------------------------- MODULE SocketServer ----------------------------
(***************************************************************************)
(* The TCP side of the socket server (socket_server.cpp).  One socket      *)
(* thread polls: it takes commands from a pipe, then handles a batch of    *)
(* epoll events.  Worker threads post commands to the pipe, and send data  *)
(* straight to the socket when nothing is queued on it (direct write).     *)
(* A socket lives in slot id % MAX_SOCKET, so a slot is used by many ids.  *)
(*                                                                         *)
(* A buffer is a number, in the order of the calls; it has BufSize units,  *)
(* and a list of units stands for a list of write_buffers, each unit named *)
(* by its buffer.  The kernel and the peer are the variable net.  Options, *)
(* addresses, time stamps and the read buffer's size are left out; epoll   *)
(* calls on a registered socket succeed.                                   *)
(***************************************************************************)
EXTENDS Naturals, Sequences, FiniteSets, SequencesExt

CONSTANTS
  Caller,      \* threads that run services
  MAX_SOCKET,  \* number of slots
  Opens,       \* the ways to open a socket: O connect, L listen, B bind
  MaxId,       \* bound: ids handed out
  MaxCalls,    \* bound: calls of the interface that open no socket
  MaxBuf,      \* bound: how many of the calls are sends
  MaxNet,      \* bound: things the peers do
  MaxSending,  \* the largest count of sends under way (0xffff in the code)
  BufSize,     \* units in a buffer
  WARNING_SIZE,\* units waiting from which warnings are reported
  None         \* no thread

ASSUME SocketAssumption ==
  /\ Opens \subseteq {"O", "L", "B"}
  /\ {MAX_SOCKET, MaxSending, BufSize, WARNING_SIZE} \subseteq Nat \ {0}
  /\ {MaxId, MaxCalls, MaxBuf, MaxNet} \subseteq Nat
  /\ None \notin Caller /\ IsFiniteSet(Caller)

Id == 1..MaxId
Slot == 0..(MAX_SOCKET - 1)
Buf == 1..MaxBuf
HASH_ID(i) == i % MAX_SOCKET
ID_TAG16(i) == i \div MAX_SOCKET
Units(b, n) == [j \in 1..n |-> b]
Count(s, b) == Cardinality({j \in DOMAIN s : s[j] = b})

Type == {"INVALID", "RESERVE", "PLISTEN", "LISTEN", "CONNECTING", "CONNECTED",
         "HALFCLOSE_READ", "HALFCLOSE_WRITE", "PACCEPT", "BIND"}

VARIABLES
  sock,        \* slot[]: type, the id it is for and the one its field id holds
               \* (seen), protocol is TCP, flags, sending, lists, lock
  alloc_id,    \* last id handed out
  pipe,        \* commands written to sendctrl_fd and not read yet
  spc,         \* the socket thread: "poll", "wait", "event", "force" or "aborted"
  closing,     \* its force_close under way: slot and what it reports then
  ev,          \* rest of the batch of events
  checkctrl,   \* look at the pipe before the next event
  clobbered,   \* history: a close of, or a package for, a slot's last id was
               \* handled while the slot was being reserved for another one
  call,        \* per caller: where it is in a call, and the call's locals
  net,         \* per id: the kernel's connection and its peer
  wire,        \* per id: units accepted by the kernel; 0 marks a forced close
  freed,       \* per buffer: how often its memory was freed
  opened,      \* ids reported to a service with OPEN or ACCEPT
  closes,      \* per id: SOCKET_CLOSE reports
  read,        \* per id: data reports
  calls, acts, \* counters for the bounds
  log          \* the sends so far: caller, priority and id

thread == <<spc, closing, ev, checkctrl, clobbered>>
server == <<sock, alloc_id, pipe, thread>>
bounds == <<calls, acts, log>>
sends == Len(log)
told == <<opened, closes, read>>
vars == <<server, call, net, wire, freed, told, bounds>>

Free(bs) == freed' = [b \in Buf |-> IF b \in bs THEN freed[b] + 1 ELSE freed[b]]

socket_invalid(s, i) == s.seen # i \/ s.type = "INVALID"
send_buffer_empty(s) == s.high = <<>> /\ s.low = <<>>

\* Mutant: the direct write's remainder is forgotten.
MutNoMore(s) ==
  (send_buffer_empty(s) /\ s.sending = 0) \/ s.type = "HALFCLOSE_WRITE"

nomore_sending_data(s) ==
  \/ send_buffer_empty(s) /\ s.dw = <<>> /\ s.sending = 0
  \/ s.type = "HALFCLOSE_WRITE"

LockFree(s) == s.lock = None

can_direct_write(s, i) == s.seen = i /\ nomore_sending_data(s) /\ s.type = "CONNECTED"

-----------------------------------------------------------------------------
(* The interface, called by workers.                                       *)

At(t, l) == call[t].pc = l
Goto(t, l) == call' = [call EXCEPT ![t].pc = l]
Post(cmd, i, b) == pipe' = Append(pipe, [cmd |-> cmd, id |-> i, buf |-> b])
Begin(t) == At(t, "idle") /\ calls < MaxCalls /\ calls' = calls + 1

\* reserve_id: the first id after alloc_id whose slot is free, taken by the
\* exchange from INVALID to RESERVE.
Reservable(i) ==
  /\ i \in alloc_id + 1..alloc_id + MAX_SOCKET
  /\ sock[HASH_ID(i)].type = "INVALID"
  /\ \A j \in alloc_id + 1..i - 1 : sock[HASH_ID(j)].type # "INVALID"

\* socket_server_listen, socket_server_connect and socket_server_bind reserve
\* an id; it is written to the slot after the exchange, until when the others
\* see the slot's last id there, and the command is posted last.
Open(t, cmd) ==
  /\ At(t, "idle")
  /\ \E i \in Id :
       /\ Reservable(i)
       /\ alloc_id' = i
       /\ sock' = [sock EXCEPT ![HASH_ID(i)] = [@ EXCEPT !.type = "RESERVE", !.id = i]]
       /\ call' = [call EXCEPT ![t] = [@ EXCEPT !.pc = "reserved", !.id = i, !.cmd = cmd]]
  /\ UNCHANGED <<pipe, thread, net, wire, freed, told, bounds>>

PostOpen(t) ==
  /\ At(t, "reserved")
  /\ LET i == call[t].id
     IN sock' = [sock EXCEPT ![HASH_ID(i)] = [@ EXCEPT !.seen = i, !.tcp = FALSE]]
  /\ Post(call[t].cmd, call[t].id, 0)
  /\ Goto(t, "idle")
  /\ UNCHANGED <<alloc_id, thread, net, wire, freed, told, bounds>>

\* socket_server_close (K), _shutdown (K with the flag: KS here), _start (R) and
\* _pause (S) for an id the service was told of; it may be long closed.
Command(t, cmd) ==
  /\ Begin(t)
  /\ \E i \in opened : Post(cmd, i, 0)
  /\ UNCHANGED <<sock, alloc_id, thread, call, net, wire, freed, told, acts, log>>

\* socket_server_send and socket_server_send_lowpriority.
Send(t, prio) ==
  /\ Begin(t) /\ sends < MaxBuf
  /\ \E i \in opened :
       LET s == sock[HASH_ID(i)]
       IN /\ log' = Append(log, [t |-> t, prio |-> prio, id |-> i])
          /\ IF socket_invalid(s, i) \/ (prio = "D" /\ s.closing)
             THEN Free({sends + 1}) /\ UNCHANGED call
             ELSE /\ call' = [call EXCEPT ![t] = [pc |-> IF prio = "D" THEN "try" ELSE "inc",
                                                  id |-> i, cmd |-> prio, buf |-> sends + 1]]
                  /\ UNCHANGED freed
  /\ UNCHANGED <<server, net, wire, told, acts>>

\* The first can_direct_write, then the trylock.
FirstCheck(t) ==
  /\ At(t, "try")
  /\ Goto(t, IF can_direct_write(sock[HASH_ID(call[t].id)], call[t].id) THEN "lock" ELSE "inc")
  /\ UNCHANGED <<server, net, wire, freed, told, bounds>>

TryLock(t) ==
  /\ At(t, "lock")
  /\ LET k == HASH_ID(call[t].id)
         ok == LockFree(sock[k])
     IN /\ Goto(t, IF ok THEN "check" ELSE "inc")
        /\ sock' = IF ok THEN [sock EXCEPT ![k].lock = t] ELSE sock
  /\ UNCHANGED <<alloc_id, pipe, thread, net, wire, freed, told, bounds>>

\* Mutant: no second look once the lock is held.
MutDoubleCheck(s, i) == TRUE

DoubleCheck(s, i) == can_direct_write(s, i)

CheckLocked(t) ==
  /\ At(t, "check")
  /\ LET k == HASH_ID(call[t].id)
         ok == DoubleCheck(sock[k], call[t].id)
     IN /\ Goto(t, IF ok THEN "write" ELSE "inc")
        /\ sock' = IF ok THEN sock ELSE [sock EXCEPT ![k].lock = None]
  /\ UNCHANGED <<alloc_id, pipe, thread, net, wire, freed, told, bounds>>

\* What write leaves when the kernel takes n units: the rest is in dw_buffer.
Written(s, b, n) ==
  [s EXCEPT !.lock = None, !.dw = IF n = BufSize THEN s.dw ELSE Units(b, BufSize - n)]

DirectWrite(t) ==
  /\ At(t, "write")
  /\ \E n \in 0..BufSize :
       LET i == call[t].id
           b == call[t].buf
       IN /\ net[i].rst => n = 0
          /\ wire' = [wire EXCEPT ![i] = @ \o Units(b, n)]
          /\ sock' = [sock EXCEPT ![HASH_ID(i)] = Written(@, b, n)]
          /\ Goto(t, IF n = BufSize THEN "idle" ELSE "wake")
          /\ Free({b : x \in {n} \cap {BufSize}})
  /\ UNCHANGED <<alloc_id, pipe, thread, net, told, bounds>>

\* The command W that makes the socket thread write the rest.
Wake(t) ==
  /\ At(t, "wake")
  /\ Post("W", call[t].id, 0)
  /\ Goto(t, "idle")
  /\ UNCHANGED <<sock, alloc_id, thread, net, wire, freed, told, bounds>>

\* Mutant: the count of another id's socket is taken for this one's.
MutTagged(s, i) == s.tcp

Tagged(s, i) == s.tcp /\ s.tag = ID_TAG16(i)

\* Mutant: off by one at the limit.
MutRoom(s) == s.sending <= MaxSending

Room(s) == s.sending < MaxSending

\* inc_sending_ref: spins while the count is at its limit.
inc_sending_ref(t) ==
  /\ At(t, "inc")
  /\ LET k == HASH_ID(call[t].id)
     IN \/ /\ Tagged(sock[k], call[t].id) /\ Room(sock[k])
           /\ sock' = [sock EXCEPT ![k].sending = @ + 1]
        \/ ~ Tagged(sock[k], call[t].id) /\ UNCHANGED sock
  /\ Goto(t, "post")
  /\ UNCHANGED <<alloc_id, pipe, thread, net, wire, freed, told, bounds>>

PostSend(t) ==
  /\ At(t, "post")
  /\ Post(call[t].cmd, call[t].id, call[t].buf)
  /\ Goto(t, "idle")
  /\ UNCHANGED <<sock, alloc_id, thread, net, wire, freed, told, bounds>>

-----------------------------------------------------------------------------
(* The socket thread.                                                      *)

\* What fengnet_socket_poll forwards to the service.
Report(what, i) ==
  /\ opened' = IF what \in {"open", "accept"} THEN opened \cup {i} ELSE opened
  /\ closes' = IF what = "close" THEN [closes EXCEPT ![i] = @ + 1] ELSE closes
  /\ read' = IF what = "data" THEN [read EXCEPT ![i] = @ + 1] ELSE read

Loop(rest) == spc' = IF checkctrl THEN "poll" ELSE IF rest = <<>> THEN "wait" ELSE "event"

NULL == MAX_SOCKET      \* an event that has no socket any more

\* clear_closed_event: the event of a socket that has just been closed loses it.
ClearClosed(what, i, slots) ==
  LET s == slots[HASH_ID(i)]
      gone == what \in {"close", "err"} /\ s.type = "INVALID" /\ s.id = i
  IN [x \in DOMAIN ev |-> IF gone /\ ev[x].k = HASH_ID(i)
                           THEN [ev[x] EXCEPT !.k = NULL] ELSE ev[x]]

\* A command that ends with the slot's new contents s and a report.
Finish(k, s, what, i) ==
  /\ sock' = [sock EXCEPT ![k] = s]
  /\ Report(what, i)
  /\ ev' = ClearClosed(what, i, sock')
  /\ UNCHANGED <<spc, closing>>

Abort == spc' = "aborted" /\ UNCHANGED <<sock, closing, ev, told, wire, freed>>

\* force_close up to its lock: the lists are freed; a reserved slot is an
\* assertion failure.
StartForce(k, what, ctl, rest) ==
  IF sock[k].type = "RESERVE" THEN Abort
  ELSE /\ Free(Range(sock[k].high) \cup Range(sock[k].low))
       /\ sock' = [sock EXCEPT ![k] = [@ EXCEPT !.high = <<>>, !.low = <<>>]]
       /\ closing' = [k |-> k, what |-> what, ctl |-> ctl]
       /\ wire' = [wire EXCEPT ![sock[k].id] = Append(@, 0)]
       /\ spc' = "force" /\ ev' = rest
       /\ UNCHANGED told

\* Mutant: the direct write's remainder is not freed with the socket.
MutClosed(s) == [s EXCEPT !.type = "INVALID"]

Closed(s) == [s EXCEPT !.type = "INVALID", !.dw = <<>>]

\* The rest of force_close, under the lock.
ForceClose ==
  /\ spc = "force"
  /\ LET k == closing.k
         i == sock[k].id
     IN /\ sock[k].lock = None
        /\ Free(Range(sock[k].dw))
        /\ sock' = [sock EXCEPT ![k] = Closed(@)]
        /\ Report(closing.what, i)
        /\ ev' = IF closing.ctl THEN ClearClosed(closing.what, i, sock') ELSE ev
        /\ Loop(ev')
  /\ UNCHANGED <<alloc_id, pipe, closing, checkctrl, clobbered, call, net, wire, bounds>>

CmdId == Head(pipe).id
CmdSlot == sock[HASH_ID(CmdId)]

\* A close or a package that passes socket_invalid because reserve_id, which has
\* changed the slot's type, has not yet changed its id.
Clobbers ==
  /\ Head(pipe).cmd \in {"K", "KS", "D", "P"}
  /\ CmdSlot.type = "RESERVE" /\ CmdSlot.seen = CmdId

Cmd(names) ==
  /\ spc = "poll" /\ checkctrl /\ pipe # <<>>
  /\ Head(pipe).cmd \in names
  /\ pipe' = Tail(pipe)
  /\ clobbered' = (clobbered \/ Clobbers)
  /\ UNCHANGED <<alloc_id, checkctrl, call, bounds>>

Ignore == UNCHANGED <<sock, spc, closing, ev, told>>

close_read(s) == [s EXCEPT !.type = "HALFCLOSE_READ", !.reading = FALSE]

\* Mutant: a second close of a half closed socket is reported again.
MutCloseReport(s) == "close"

CloseReport(s) == IF s.type = "HALFCLOSE_READ" THEN "none" ELSE "close"

close_socket ==
  /\ Cmd({"K", "KS"})
  /\ LET s == CmdSlot
         k == HASH_ID(CmdId)
     IN IF socket_invalid(s, CmdId) THEN Ignore /\ UNCHANGED <<wire, freed>>
        ELSE IF Head(pipe).cmd = "KS" \/ nomore_sending_data(s)
        THEN StartForce(k, CloseReport(s), TRUE, ev)
        ELSE /\ Finish(k, IF s.type = "HALFCLOSE_READ" THEN [s EXCEPT !.closing = TRUE]
                          ELSE [close_read(s) EXCEPT !.closing = TRUE],
                       CloseReport(s), CmdId)
             /\ UNCHANGED <<wire, freed>>
  /\ UNCHANGED net

resume_socket ==
  /\ Cmd({"R"})
  /\ LET s == CmdSlot
     IN IF socket_invalid(s, CmdId) \/ s.type = "HALFCLOSE_READ"
        THEN Finish(HASH_ID(CmdId), s, "err", CmdId)
        ELSE Finish(HASH_ID(CmdId),
                    [s EXCEPT !.reading = TRUE,
                              !.type = CASE @ = "PACCEPT" -> "CONNECTED"
                                         [] @ = "PLISTEN" -> "LISTEN"
                                         [] OTHER -> @],
                    IF s.type \in {"PACCEPT", "PLISTEN", "CONNECTED"} THEN "open" ELSE "none",
                    CmdId)
  /\ UNCHANGED <<net, wire, freed>>

pause_socket ==
  /\ Cmd({"S"})
  /\ IF socket_invalid(CmdSlot, CmdId) THEN Ignore
     ELSE Finish(HASH_ID(CmdId), [CmdSlot EXCEPT !.reading = FALSE], "none", CmdId)
  /\ UNCHANGED <<net, wire, freed>>

trigger_write ==
  /\ Cmd({"W"})
  /\ IF socket_invalid(CmdSlot, CmdId) THEN Ignore
     ELSE Finish(HASH_ID(CmdId), [CmdSlot EXCEPT !.writing = TRUE], "none", CmdId)
  /\ UNCHANGED <<net, wire, freed>>

\* new_fd, and the type its caller gives the socket.
new_fd(s, i, type) ==
  [s EXCEPT !.id = i, !.seen = i, !.type = type, !.tcp = TRUE, !.closing = FALSE, !.writing = FALSE,
            !.reading = (type \notin {"PLISTEN", "PACCEPT"}),
            !.tag = ID_TAG16(i), !.sending = 0, !.wb = 0, !.warn = 0, !.dw = <<>>]

Opened == [O |-> "CONNECTED", L |-> "PLISTEN", B |-> "BIND"]

\* open_socket, listen_socket and bind_socket.  A name that is not found, a
\* refused connection or a full epoll ends in the error; a connection is made
\* at once or is in progress.
open_socket ==
  /\ Cmd({"O", "L", "B"})
  /\ LET i == CmdId
         s == CmdSlot
         k == HASH_ID(i)
         c == Head(pipe).cmd
         fit == s.type = "RESERVE" /\ send_buffer_empty(s)
         as(type, what) == fit /\ Finish(k, new_fd(s, i, type), what, i)
     IN \/ ~ fit /\ Abort /\ UNCHANGED net
        \/ Finish(k, [s EXCEPT !.type = "INVALID"], "err", i) /\ UNCHANGED net
        \/ as(Opened[c], "open") /\ UNCHANGED net
        \/ /\ c = "O" /\ fit
           /\ Finish(k, [new_fd(s, i, "CONNECTING") EXCEPT !.writing = TRUE], "none", i)
           /\ net' = [net EXCEPT ![i].pending = TRUE]
  /\ UNCHANGED <<wire, freed>>

Rejects(s, i) ==
  \/ socket_invalid(s, i) \/ s.closing
  \/ s.type \in {"HALFCLOSE_WRITE", "PACCEPT", "PLISTEN", "LISTEN"}

\* Mutant: the write event is not turned on for the first buffer.
MutQueued(s, c) == [s EXCEPT !.high = @ \o Units(c.buf, BufSize)]

\* append_sendbuffer: to the high list, or with low priority to the low one
\* unless both are empty.
Queued(s, c) ==
  IF c.cmd = "P" /\ ~ send_buffer_empty(s)
  THEN [s EXCEPT !.low = @ \o Units(c.buf, BufSize)]
  ELSE [s EXCEPT !.high = @ \o Units(c.buf, BufSize), !.writing = @ \/ send_buffer_empty(s)]

\* The new backlog, and the size from which the next warning is given.
Warned(s) ==
  LET wb == s.wb + BufSize
  IN [s EXCEPT !.wb = wb,
               !.warn = IF wb < WARNING_SIZE \/ wb < @ THEN @
                        ELSE 2 * (IF @ = 0 THEN WARNING_SIZE ELSE @)]

Counted(s, i) == s.seen = i /\ s.tcp

\* send_socket, then dec_sending_ref with its assertion.
send_socket ==
  /\ Cmd({"D", "P"})
  /\ LET i == CmdId
         s == CmdSlot
         to == IF Rejects(s, i) THEN s ELSE Warned(Queued(s, Head(pipe)))
     IN IF Counted(s, i) /\ s.sending = 0 THEN Abort
        ELSE /\ Finish(HASH_ID(i),
                       [to EXCEPT !.sending = IF Counted(s, i) THEN @ - 1 ELSE @],
                       IF to.warn # s.warn THEN "warning" ELSE "none", i)
             /\ Free({b \in {Head(pipe).buf} : Rejects(s, i)})
  /\ UNCHANGED <<net, wire>>

\* has_cmd says no: on to the events.
NoCmd ==
  /\ spc = "poll"
  /\ checkctrl => pipe = <<>>
  /\ checkctrl' = FALSE
  /\ spc' = IF ev = <<>> THEN "wait" ELSE "event"
  /\ UNCHANGED <<sock, alloc_id, pipe, closing, ev, clobbered, call, net, wire, freed, told, bounds>>

\* What epoll reports of a slot's socket.
Event(k) ==
  LET s == sock[k]
      n == net[s.id]
  IN [k |-> k,
      read |-> s.reading /\ (n.avail > 0 \/ n.fin \/ n.rst),
      write |-> s.writing /\ ~ n.pending,
      error |-> n.err,
      eof |-> n.rst \/ (n.fin /\ s.type = "HALFCLOSE_WRITE")]
Ready == {k \in Slot : /\ sock[k].type \notin {"INVALID", "RESERVE"}
                       /\ \E f \in {"read", "write", "error", "eof"} : Event(k)[f]}

\* sp_wait: all that is ready, in any order; the pipe is an event without a
\* socket, which lets the commands go first when it is the first one.
sp_wait ==
  /\ spc = "wait"
  /\ Ready # {} \/ pipe # <<>>
  /\ checkctrl' = TRUE
  /\ ev' \in SetToSeqs({Event(k) : k \in Ready})
  /\ \/ ev' # <<>> /\ spc' = "event"
     \/ pipe # <<>> /\ spc' = "poll"
  /\ UNCHANGED <<sock, alloc_id, pipe, closing, clobbered, call, net, wire, freed, told, bounds>>

OnEvent(types) ==
  /\ spc = "event" /\ Head(ev).k # NULL
  /\ sock[Head(ev).k].type \in types
  /\ UNCHANGED <<pipe, checkctrl, clobbered, call, bounds>>

\* The event is done with: new contents of its slot, and a report.
Handled(s, what, i, rest) ==
  /\ sock' = [sock EXCEPT ![Head(ev).k] = s]
  /\ Report(what, i)
  /\ ev' = rest
  /\ Loop(rest)
  /\ UNCHANGED closing

report_connect ==
  /\ OnEvent({"CONNECTING"}) /\ UNCHANGED alloc_id
  /\ LET k == Head(ev).k
         s == sock[k]
     IN IF net[s.id].err
        THEN /\ StartForce(k, "err", FALSE, Tail(ev))
             /\ net' = [net EXCEPT ![s.id].err = FALSE]
        ELSE /\ Handled([s EXCEPT !.type = "CONNECTED",
                                  !.writing = @ /\ ~ nomore_sending_data(s)],
                        "open", s.id, Tail(ev))
             /\ UNCHANGED <<net, wire, freed>>

\* report_accept: a new socket, or the connection is refused (no descriptor,
\* no free slot) or has gone.
report_accept ==
  /\ OnEvent({"LISTEN"})
  /\ LET i == sock[Head(ev).k].id
     IN /\ net' = [net EXCEPT ![i].avail = IF @ = 0 THEN 0 ELSE @ - 1]
        /\ \/ /\ Handled(sock[Head(ev).k], "none", i, Tail(ev))
              /\ UNCHANGED alloc_id
           \/ /\ net[i].avail > 0
              /\ \E j \in Id :
                   /\ Reservable(j)
                   /\ alloc_id' = j
                   /\ IF send_buffer_empty(sock[HASH_ID(j)])
                      THEN /\ sock' = [sock EXCEPT ![HASH_ID(j)] = new_fd(@, j, "PACCEPT")]
                           /\ Report("accept", j)
                           /\ ev' = Tail(ev) /\ Loop(Tail(ev))
                           /\ UNCHANGED closing
                      ELSE Abort
  /\ UNCHANGED <<wire, freed>>

\* An event that lost its socket.
null_event ==
  /\ spc = "event" /\ Head(ev).k = NULL
  /\ ev' = Tail(ev) /\ Loop(Tail(ev))
  /\ UNCHANGED <<sock, alloc_id, pipe, closing, checkctrl, clobbered, call, net, wire, freed, told,
                 bounds>>

\* An event of a socket that is closed.
stale_event ==
  /\ OnEvent({"INVALID"}) /\ UNCHANGED alloc_id
  /\ Handled(sock[Head(ev).k], "none", sock[Head(ev).k].id, Tail(ev))
  /\ UNCHANGED <<net, wire, freed>>

Open_ == Type \ {"INVALID", "LISTEN", "CONNECTING"}

\* After a read that ends in neither CLOSE nor ERR a write flag is served next.
Again == IF Head(ev).write THEN <<[Head(ev) EXCEPT !.read = FALSE]>> \o Tail(ev) ELSE Tail(ev)

\* forward_message_tcp (a reserved slot has no descriptor: the read fails, and
\* the slot is closed by force).
forward_message_tcp ==
  /\ OnEvent(Open_) /\ Head(ev).read /\ UNCHANGED alloc_id
  /\ LET k == Head(ev).k
         s == sock[k]
         i == s.id
         n == net[i]
     IN \/ /\ s.type = "RESERVE"
           /\ Abort /\ UNCHANGED net
        \/ /\ s.type # "RESERVE" /\ n.err
           /\ Handled(s, "err", i, Tail(ev))
           /\ net' = [net EXCEPT ![i].err = FALSE]
           /\ UNCHANGED <<wire, freed>>
        \/ /\ s.type # "RESERVE" /\ ~ n.err /\ n.avail > 0
           /\ \E rest \in {Again, ev} :          \* ev: SOCKET_MORE
                IF s.type = "HALFCLOSE_READ" THEN rest = Again /\ Handled(s, "none", i, rest)
                ELSE Handled(s, "data", i, rest)
           /\ net' = [net EXCEPT ![i].avail = @ - 1]
           /\ UNCHANGED <<wire, freed>>
        \/ /\ s.type # "RESERVE" /\ ~ n.err /\ n.avail = 0 /\ (n.fin \/ n.rst)
           /\ CASE s.closing /\ nomore_sending_data(s) -> StartForce(k, "none", FALSE, Again)
                [] ~ s.closing /\ s.type = "HALFCLOSE_WRITE" ->
                     StartForce(k, "close", FALSE, Tail(ev))
                [] ~ s.closing /\ s.type \notin {"HALFCLOSE_READ", "HALFCLOSE_WRITE"} ->
                     Handled(close_read(s), "close", i, Tail(ev)) /\ UNCHANGED <<wire, freed>>
                [] OTHER -> Handled(s, "none", i, Again) /\ UNCHANGED <<wire, freed>>
           /\ UNCHANGED net
        \/ /\ s.type # "RESERVE" /\ ~ n.err /\ n.avail = 0 /\ ~ n.fin /\ ~ n.rst
           /\ Handled(s, "none", i, Again)
           /\ UNCHANGED <<net, wire, freed>>

Without(u, m) == SubSeq(u, m + 1, Len(u))

\* Mutant: its size is not added to wb_size.
MutUncounted(s) == [s EXCEPT !.high = s.dw \o @, !.dw = <<>>]

\* send_buffer: the remainder of a direct write goes before the high list.
DwFirst(s) == [s EXCEPT !.high = s.dw \o @, !.wb = @ + Len(s.dw), !.dw = <<>>]

\* Mutant: the head of the low list stays there, half sent.
MutRaised(s) == s

\* raise_uncomplete: a low package that is half sent becomes the high list.
Raised(s) ==
  LET n == Count(s.low, Head(s.low))
  IN IF s.low = <<>> \/ n = BufSize THEN s
     ELSE [s EXCEPT !.high = SubSeq(@, 1, 0) \o SubSeq(s.low, 1, n), !.low = Without(@, n)]

\* send_buffer_ when the kernel takes m units: the high list, then the low one.
Sent(s, m) ==
  LET h == IF m > Len(s.high) THEN Len(s.high) ELSE m
      rest == [s EXCEPT !.high = Without(@, h), !.low = Without(@, m - h), !.wb = @ - m]
  IN IF rest.high # <<>> THEN rest
     ELSE IF rest.low # <<>> THEN Raised(rest)
     ELSE [rest EXCEPT !.writing = FALSE, !.warn = 0]

\* close_write, with the lock held.
close_write(s) ==
  IF s.closing \/ s.type = "HALFCLOSE_READ"
  THEN [Closed(s) EXCEPT !.high = <<>>, !.low = <<>>]
  ELSE IF s.type = "HALFCLOSE_WRITE" THEN s
  ELSE [s EXCEPT !.type = "HALFCLOSE_WRITE", !.writing = FALSE]

Held(s) == Range(s.high) \cup Range(s.low) \cup Range(s.dw)

send_buffer ==
  /\ OnEvent(Open_) /\ ~ Head(ev).read /\ Head(ev).write /\ UNCHANGED alloc_id
  /\ LET k == Head(ev).k
         i == sock[k].id
         s == DwFirst(sock[k])
         out(to, what) ==
           /\ Handled(to, what, i, Tail(ev))
           /\ Free(Held(sock[k]) \ Held(to))
     IN \/ /\ sock[k].type = "RESERVE"        \* an event older than the reservation
           /\ IF s.closing \/ (send_buffer_empty(s) /\ s.wb # 0) THEN Abort
              ELSE /\ IF send_buffer_empty(s)
                      THEN Handled(sock[k], IF s.writing THEN "err" ELSE "none", i, Tail(ev))
                      ELSE Handled(close_write(s), "err", i, Tail(ev))
                   /\ UNCHANGED <<wire, freed>>
           /\ UNCHANGED net
        \/ /\ sock[k].type # "RESERVE" /\ ~ LockFree(sock[k])
           /\ Handled(sock[k], "none", i, Tail(ev))
           /\ UNCHANGED <<net, wire, freed>>
        \/ /\ sock[k].type # "RESERVE" /\ LockFree(sock[k]) /\ net[i].rst /\ ~ send_buffer_empty(s)
           /\ out(close_write(s), IF close_write(s).type = s.type \/ s.closing
                                     \/ s.type = "HALFCLOSE_READ" THEN "none" ELSE "err")
           /\ net' = [net EXCEPT ![i].err = FALSE]
           /\ UNCHANGED wire
        \/ /\ sock[k].type # "RESERVE" /\ LockFree(sock[k]) /\ (send_buffer_empty(s) \/ ~ net[i].rst)
           /\ \E m \in 0..Len(s.high) + Len(s.low) :
                LET to == Sent(s, m)
                IN /\ out(IF send_buffer_empty(to) /\ s.closing THEN Closed(to) ELSE to,
                          IF s.warn # to.warn THEN "warning" ELSE "none")
                   /\ wire' = [wire EXCEPT ![i] = @ \o SubSeq(s.high \o s.low, 1, m)]
           /\ UNCHANGED net

\* An event that is only an error, or only the end of both directions.
error_event ==
  /\ OnEvent(Open_) /\ ~ Head(ev).read /\ ~ Head(ev).write /\ UNCHANGED alloc_id
  /\ LET k == Head(ev).k
         s == sock[k]
     IN IF Head(ev).error
        THEN /\ Handled(s, "err", s.id, Tail(ev))
             /\ net' = [net EXCEPT ![s.id].err = FALSE]
             /\ UNCHANGED <<wire, freed>>
        ELSE IF Head(ev).eof THEN StartForce(k, CloseReport(s), FALSE, Tail(ev)) /\ UNCHANGED net
        ELSE Handled(s, "none", s.id, Tail(ev)) /\ UNCHANGED <<net, wire, freed>>

SocketThread ==
  \/ ForceClose \/ close_socket \/ resume_socket \/ pause_socket \/ trigger_write
  \/ open_socket \/ send_socket \/ NoCmd \/ sp_wait \/ report_connect \/ report_accept
  \/ null_event \/ stale_event \/ forward_message_tcp \/ send_buffer \/ error_event

-----------------------------------------------------------------------------
(* The kernel and the peers.                                               *)

Live(i) == sock[HASH_ID(i)].id = i /\ sock[HASH_ID(i)].type \notin {"INVALID", "RESERVE"}

Connected(i) ==
  /\ Live(i) /\ net[i].pending
  /\ \E ok \in BOOLEAN :
       net' = [net EXCEPT ![i] = [@ EXCEPT !.pending = FALSE, !.rst = ~ ok, !.err = ~ ok]]
  /\ UNCHANGED <<server, call, wire, freed, told, bounds>>

Peer(i) ==
  /\ Live(i) /\ ~ net[i].pending /\ ~ net[i].rst /\ acts < MaxNet
  /\ acts' = acts + 1
  /\ \/ ~ net[i].fin /\ net[i].avail = 0 /\ net' = [net EXCEPT ![i].avail = 1]
     \/ /\ sock[HASH_ID(i)].type \notin {"LISTEN", "PLISTEN"}
        /\ \/ net' = [net EXCEPT ![i].fin = TRUE]
           \/ net' = [net EXCEPT ![i] = [@ EXCEPT !.rst = TRUE, !.err = TRUE, !.avail = 0]]
  /\ UNCHANGED <<server, call, wire, freed, told, calls, log>>

Work(t) ==
  \/ PostOpen(t) \/ FirstCheck(t) \/ TryLock(t) \/ CheckLocked(t) \/ DirectWrite(t) \/ Wake(t)
  \/ inc_sending_ref(t) \/ PostSend(t)
Interface(t) ==
  \/ \E cmd \in Opens : Open(t, cmd)
  \/ \E cmd \in {"K", "KS", "R", "S"} : Command(t, cmd)
  \/ \E prio \in {"D", "P"} : Send(t, prio)

Init ==
  /\ sock = [k \in Slot |->
       [type |-> "INVALID", id |-> 0, seen |-> 0, tcp |-> TRUE, closing |-> FALSE, reading |-> FALSE,
        writing |-> FALSE, tag |-> 0, sending |-> 0, high |-> <<>>, low |-> <<>>,
        dw |-> <<>>, wb |-> 0, warn |-> 0, lock |-> None]]
  /\ alloc_id = 0 /\ pipe = <<>> /\ spc = "poll" /\ ev = <<>> /\ checkctrl = TRUE
  /\ clobbered = FALSE
  /\ closing = [k |-> 0, what |-> "none", ctl |-> FALSE]
  /\ call = [t \in Caller |-> [pc |-> "idle", id |-> 0, cmd |-> "K", buf |-> 0]]
  /\ net = [i \in 0..MaxId |->
       [pending |-> FALSE, avail |-> 0, fin |-> FALSE, rst |-> FALSE, err |-> FALSE]]
  /\ wire = [i \in 0..MaxId |-> <<>>]
  /\ freed = [b \in Buf |-> 0]
  /\ opened = {} /\ closes = [i \in 0..MaxId |-> 0] /\ read = [i \in 0..MaxId |-> 0]
  /\ calls = 0 /\ acts = 0 /\ log = <<>>

Next ==
  \/ SocketThread
  \/ \E t \in Caller : Work(t) \/ Interface(t)
  \/ \E i \in Id : Connected(i) \/ Peer(i)

Spec == Init /\ [][Next]_vars

-----------------------------------------------------------------------------
TypeOK ==
  /\ sock \in [Slot ->
       [type : Type, id : 0..MaxId, seen : 0..MaxId, tcp : BOOLEAN, closing : BOOLEAN, reading : BOOLEAN,
        writing : BOOLEAN, tag : Nat, sending : 0..MaxSending, high : Seq(Buf),
        low : Seq(Buf), dw : Seq(Buf), wb : Nat, warn : Nat, lock : Caller \cup {None}]]
  /\ spc \in {"poll", "wait", "event", "force", "aborted"}
  /\ freed \in [Buf -> 0..1]
  /\ opened \subseteq Id /\ alloc_id \in 0..MaxId /\ clobbered \in BOOLEAN

Alive(s) == s.type \notin {"INVALID", "RESERVE"}

BeforeForce(w) == SubSeq(w, 1, Min({Len(w)} \cup {x - 1 : x \in {y \in DOMAIN w : w[y] = 0}}))

\* What a socket's peer gets is whole buffers, one after the other, only the
\* last of them possibly cut: direct writes by workers and writes of the
\* socket thread never mix (send_buffer, socket_server_send).  A forced close
\* empties the lists before it marks the socket, so it ends this promise.
StreamIntact ==
  \A i \in DOMAIN wire :
    LET w == BeforeForce(wire[i])
    IN \A x \in DOMAIN w :
         /\ \A y \in DOMAIN w : w[y] = w[x] => \A z \in y..x : w[z] = w[x]
         /\ Count(w, w[x]) <= BufSize
         /\ w[x] # Last(w) => Count(w, w[x]) = BufSize

\* Two packages of high priority that one service sends to one socket, one
\* call after the other, are on the wire in this order (the direct write must
\* not overtake a package in the pipe or in a list).
SenderOrder ==
  \A a, b \in DOMAIN log :
    a < b /\ log[a] = log[b] /\ log[a].prio = "D" =>
      LET w == BeforeForce(wire[log[a].id])
      IN \A x, y \in DOMAIN w : w[x] = a /\ w[y] = b => x < y

InHand(t) ==
  {b \in {call[t].buf} : call[t].pc \in {"try", "lock", "check", "write", "inc", "post"}}

\* How many places hold a buffer: a caller, the pipe, a list, a direct write's
\* remainder.
Places(b) ==
  Cardinality({t \in Caller : b \in InHand(t)})
    + Cardinality({x \in DOMAIN pipe : pipe[x].buf = b})
    + Cardinality({x \in (DOMAIN sock) \X {"high", "low", "dw"} : b \in Range(sock[x[1]][x[2]])})

\* The memory of a buffer given to socket_server_send has one owner until it
\* is freed, and it is freed once, whatever way the socket goes down.
FreedOnce == \A b \in 1..sends : Places(b) + freed[b] = 1

\* The count of sends under way is the number of packages between
\* inc_sending_ref and dec_sending_ref, so a close that waits for 0 waits for
\* exactly the data of its own socket.
SendingExact ==
  \A k \in DOMAIN sock : sock[k].tcp /\ Alive(sock[k]) =>
    sock[k].sending =
      Cardinality({t \in Caller : At(t, "post") /\ call[t].id = sock[k].id})
        + Cardinality({x \in DOMAIN pipe : pipe[x].id = sock[k].id /\ pipe[x].buf # 0})

\* What waits to be written has somebody to write it: the write event is on,
\* or a command that turns it on is under way.
NothingStuck ==
  clobbered \/
  \A k \in DOMAIN sock :
    LET s == sock[k]
    IN Alive(s) /\ s.type # "HALFCLOSE_WRITE" /\ (s.dw # <<>> \/ ~ send_buffer_empty(s)) =>
         \/ s.writing
         \/ \E t \in Caller : At(t, "wake") /\ call[t].id = s.id
         \/ \E x \in DOMAIN pipe : pipe[x].cmd = "W" /\ pipe[x].id = s.id
         \/ spc = "force" /\ closing.k = k

\* wb_size is the amount in the lists, and a service that was warned of its
\* backlog is told when it is gone (the assertion in send_buffer_).
BacklogExact ==
  \A k \in DOMAIN sock : Alive(sock[k]) /\ spc # "force" =>
    /\ sock[k].wb = Len(sock[k].high) + Len(sock[k].low)
    /\ sock[k].warn # 0 => ~ send_buffer_empty(sock[k])

\* A half sent package is at the head of the high list (raise_uncomplete and
\* the assertion at the start of send_buffer_).
LowIsWhole ==
  \A k \in DOMAIN sock : sock[k].low # <<>> => Count(sock[k].low, Head(sock[k].low)) = BufSize

\* SOCKET_CLOSE is raised only once, by self or by remote (the comment above
\* close_socket), and no data is forwarded after it.
CloseOnce ==
  [][clobbered' \/ \A i \in DOMAIN closes :
                     closes[i] > 0 => closes'[i] = closes[i] /\ read'[i] = read[i]]_vars

\* No assertion of the server fails: a reserved slot is never closed
\* (force_close), a slot is still reserved when a socket is put there (new_fd)
\* and a count is never taken below 0 (dec_sending_ref).
NoAbort == spc # "aborted"

\* What a socket's peer gets is whole buffers, never mixed, in the order a service
\* sent them; a package begun is at the head of the high list.
StreamExact == StreamIntact /\ SenderOrder /\ LowIsWhole

\* The count of sends under way and the backlog of every socket are exact, and a
\* buffer has one owner until it is freed, once.
CountsExact == clobbered \/ (SendingExact /\ BacklogExact /\ FreedOnce)

=============================================================================
