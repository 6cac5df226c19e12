------------------------- MODULE SocketServerProof -------------------------
(***************************************************************************)
(* Three promises of the socket server, for any number of threads, slots,  *)
(* ids and buffers: no data waits on a socket with nobody to write it; the *)
(* end of a socket is reported once; its count of sends and its backlog    *)
(* are exact, and a buffer has one owner until it is freed, once.  They    *)
(* hold until a close or a package of a slot's last id is handled between  *)
(* the stores of reserve_id (clobbered).                                   *)
(***************************************************************************)
EXTENDS SocketServer, FiniteSetTheorems, TLAPS

Fields == {"type", "id", "seen", "tcp", "closing", "reading", "writing", "tag", "sending", "high", "low",
           "dw", "wb", "warn", "lock"}

Opening == {"O", "L", "B"}
Cmds == Opening \cup {"K", "KS", "R", "S", "W", "D", "P"}

\* What the proof needs to know of a slot, of a connection and of an event
Socket(s) ==
  /\ DOMAIN s = Fields /\ s.type \in Type /\ s.id \in 0..MaxId /\ s.seen \in 0..MaxId
  /\ s.writing \in BOOLEAN /\ s.lock \in Caller \cup {None}

Connection(n) == DOMAIN n = {"pending", "avail", "fin", "rst", "err"} /\ n.err \in BOOLEAN

Batched ==
  [k : Slot \cup {NULL}, read : BOOLEAN, write : BOOLEAN, error : BOOLEAN, eof : BOOLEAN]

Entry == [cmd : Cmds, id : Id, buf : Nat]

InCall ==
  [pc : {"idle", "reserved", "try", "lock", "check", "write", "wake", "inc", "post"},
   id : 0..MaxId, cmd : Cmds, buf : Nat]

SlotsTyped == DOMAIN sock = Slot /\ \A k \in Slot : Socket(sock[k])
NetTyped == DOMAIN net = 0..MaxId /\ \A i \in 0..MaxId : Connection(net[i])
ThreadTyped ==
  /\ spc \in {"poll", "wait", "event", "force", "aborted"}
  /\ closing \in [k : Slot, what : {"none", "close", "err"}, ctl : BOOLEAN]
  /\ ev \in Seq(Batched)
  /\ spc = "event" => ev # <<>>

Typed ==
  /\ SlotsTyped /\ NetTyped /\ ThreadTyped
  /\ alloc_id \in 0..MaxId
  /\ pipe \in Seq(Entry)
  /\ call \in [Caller -> InCall]
  /\ opened \subseteq Id

Logged == log \in Seq([t : Caller, prio : {"D", "P"}, id : Id])

\* A slot that is free or reserved has nothing to write.
Empty(s) == s.high = <<>> /\ s.low = <<>> /\ s.dw = <<>>
Clean == \A k \in Slot : ~ Alive(sock[k]) => Empty(sock[k])

\* A slot in use is the one its id hashes to, and a socket's id has been stored.
Homed ==
  \A k \in Slot :
    /\ sock[k].type # "INVALID" => HASH_ID(sock[k].id) = k /\ sock[k].id \in 1..alloc_id
    /\ Alive(sock[k]) => sock[k].seen = sock[k].id

\* The slot of id i is reserved for it.
Claimed(i) == sock[HASH_ID(i)].type = "RESERVE" /\ sock[HASH_ID(i)].id = i

\* An id is reserved for one thread that opens a socket, or for one command to open
\* it; ids that a service was told of are not reserved, and the other commands and
\* calls are about those.
Claims ==
  /\ \A t \in Caller : At(t, "reserved") => call[t].cmd \in Opening /\ Claimed(call[t].id)
  /\ \A x \in 1..Len(pipe) : pipe[x].cmd \in Opening => Claimed(pipe[x].id)
  /\ \A t, u \in Caller : At(t, "reserved") /\ At(u, "reserved") /\ call[t].id = call[u].id
                            => t = u
  /\ \A t \in Caller, x \in 1..Len(pipe) :
       At(t, "reserved") /\ pipe[x].cmd \in Opening => call[t].id # pipe[x].id
  /\ \A x, y \in 1..Len(pipe) :
       pipe[x].cmd \in Opening /\ pipe[y].cmd \in Opening /\ pipe[x].id = pipe[y].id => x = y

Known ==
  /\ \A i \in opened : i <= alloc_id /\ ~ Claimed(i)
  /\ \A x \in 1..Len(pipe) : pipe[x].cmd \notin Opening => pipe[x].id \in opened
  /\ \A t \in Caller : ~ At(t, "idle") /\ ~ At(t, "reserved") =>
       call[t].id \in opened /\ call[t].cmd \in {"D", "P"}
  /\ \A t \in Caller : At(t, "reserved") => call[t].id \in 1..alloc_id

\* A thread in the direct write holds the lock of the slot, which stays its socket's.
Locks ==
  \A t \in Caller :
    LET s == sock[HASH_ID(call[t].id)]
    IN /\ At(t, "check") \/ At(t, "write") => s.lock = t
       /\ At(t, "write") => s.id = call[t].id /\ Alive(s)

\* A socket that is being closed by force has lost its lists.
Forced == spc = "force" => Alive(sock[closing.k]) /\ send_buffer_empty(sock[closing.k])

\* Data waits, and a thread or a command is on its way to turn the write event on.
Waits(s) ==
  Alive(s) /\ s.type # "HALFCLOSE_WRITE" /\ (s.dw # <<>> \/ ~ send_buffer_empty(s))
Woken(i) ==
  \/ \E t \in Caller : At(t, "wake") /\ call[t].id = i
  \/ \E x \in 1..Len(pipe) : pipe[x].cmd = "W" /\ pipe[x].id = i
Served == \A k \in Slot : Waits(sock[k]) => sock[k].writing \/ Woken(sock[k].id)

\* The inductive invariant.
NInv == Typed /\ Clean /\ Homed /\ Claims /\ Known /\ Locks /\ Forced /\ Served

-----------------------------------------------------------------------------
LEMMA HashInSlot == ASSUME NEW i \in Nat PROVE HASH_ID(i) \in Slot
  BY SocketAssumption DEF HASH_ID, Slot

LEMMA NullNoSlot == NULL \notin Slot
  BY SocketAssumption DEF NULL, Slot

LEMMA Ids == ASSUME NEW i \in 0..MaxId PROVE i \in Nat /\ HASH_ID(i) \in Slot
  BY SocketAssumption, HashInSlot

\* A command is posted.
LEMMA Posted ==
  ASSUME Typed, NEW c \in Entry, pipe' = Append(pipe, c)
  PROVE  /\ pipe' \in Seq(Entry)
         /\ Len(pipe) \in Nat /\ Len(pipe') = Len(pipe) + 1
         /\ pipe'[Len(pipe) + 1] = c
         /\ \A x \in 1..Len(pipe) : pipe'[x] = pipe[x]
         /\ \A x \in 1..Len(pipe') : x \in 1..Len(pipe) \/ x = Len(pipe) + 1
  BY DEF Typed

\* The first command is taken.
LEMMA Popped ==
  ASSUME Typed, pipe # <<>>
  PROVE  /\ Tail(pipe) \in Seq(Entry)
         /\ Len(pipe) \in Nat \ {0} /\ Len(Tail(pipe)) = Len(pipe) - 1
         /\ Head(pipe) = pipe[1] /\ Head(pipe) \in Entry /\ 1 \in 1..Len(pipe)
         /\ \A x \in 1..Len(Tail(pipe)) : Tail(pipe)[x] = pipe[x + 1] /\ x + 1 \in 1..Len(pipe)
         /\ \A x \in 1..Len(pipe) : x = 1 \/ (x - 1 \in 1..Len(Tail(pipe)) /\ (x - 1) + 1 = x)
  BY DEF Typed

LEMMA InitHolds == ASSUME Init PROVE NInv
<1> USE DEF Init
<1>1. SlotsTyped
  <2>1. 0 \in 0..MaxId
    BY SocketAssumption
  <2>2. ASSUME NEW k \in Slot PROVE Socket(sock[k])
    BY <2>1 DEF Socket, Fields, Type
  <2>3. DOMAIN sock = Slot
    OBVIOUS
  <2> QED BY <2>2, <2>3 DEF SlotsTyped
<1>2. NetTyped
  BY DEF NetTyped, Connection
<1>3. ThreadTyped
  BY SocketAssumption DEF ThreadTyped, Slot
<1>4. Typed
  BY <1>1, <1>2, <1>3, SocketAssumption DEF Typed, InCall, Cmds, Opening
<1>5. pipe = <<>> /\ Len(pipe) = 0 /\ opened = {} /\ alloc_id = 0
  OBVIOUS
<1>6. \A k \in Slot : sock[k].type = "INVALID" /\ Empty(sock[k]) /\ ~ Alive(sock[k])
  BY DEF Empty, Alive
<1>7. Clean /\ Homed /\ Served
  BY <1>6 DEF Clean, Homed, Served, Waits, Alive
<1>8. \A t \in Caller : At(t, "idle") /\ call[t].pc = "idle"
  BY DEF At
<1>9. Claims /\ Known /\ Locks /\ Forced
  BY <1>5, <1>8 DEF Claims, Known, Locks, Forced, At
<1> QED BY <1>4, <1>7, <1>9 DEF NInv

-----------------------------------------------------------------------------
(* Steps that change one slot                                              *)

\* A socket that stays what it is, or is closed while nobody has its lock, and that
\* has no data to write it had not before, unless its write event is on
Kept(s, r) ==
  /\ Socket(r) /\ r.id = s.id /\ r.seen = s.seen /\ r.lock = s.lock
  /\ r.type # s.type => Alive(s) /\ (Alive(r) \/ (r.type = "INVALID" /\ s.lock = None))
  /\ ~ Alive(r) => Empty(r)
  /\ Waits(r) => r.writing \/ (Waits(s) /\ (s.writing => r.writing))

\* At most the first command is taken.
Pop == pipe' = pipe \/ (pipe # <<>> /\ pipe' = Tail(pipe))
TakesW == pipe' # pipe /\ Head(pipe).cmd = "W"

LEMMA PopTyped == ASSUME Typed, Pop PROVE pipe' \in Seq(Entry)
  BY Popped DEF Pop, Typed

LEMMA ClaimsKept ==
  ASSUME NInv, Pop, call' = call, alloc_id' \in Nat, alloc_id' >= alloc_id,
         \A i \in Id : Claimed(i)' <=> Claimed(i),
         opened \subseteq opened',
         \A i \in opened' : i \in opened \/ (i \in 1..alloc_id' /\ i \in Id /\ ~ Claimed(i))
  PROVE  Claims' /\ Known'
<1> USE DEF NInv
<1>1. \A t \in Caller : call[t].id \in Id \/ ~ At(t, "reserved")
  BY SocketAssumption DEF Known, Typed, Id
<1>2. \A x \in 1..Len(pipe) : pipe[x] \in Entry /\ pipe[x].id \in Id
  <2>1. \A x \in 1..Len(pipe) : pipe[x] \in Entry
    BY DEF Typed
  <2> QED BY <2>1 DEF Entry
<1>a. opened \subseteq Id
  BY DEF Typed
<1>b. \A i \in Id : i <= alloc_id => i <= alloc_id'
  BY SocketAssumption DEF Typed, Id
<1>c. \A i \in opened' : i <= alloc_id' /\ ~ Claimed(i)'
  BY <1>a, <1>b DEF Known
<1>d. \A t \in Caller : At(t, "reserved") => call[t].id \in 1..alloc_id'
  BY <1>1, <1>b DEF Known, Id
<1>3. \A t \in Caller, l \in {"idle", "reserved"} : At(t, l)' <=> At(t, l)
  BY DEF At
<1>e. \A t \in Caller : ~ At(t, "idle")' /\ ~ At(t, "reserved")' =>
        call'[t].id \in opened' /\ call'[t].cmd \in {"D", "P"}
  BY <1>3 DEF Known
<1>f. \A t \in Caller : At(t, "reserved")' =>
        call'[t].id \in 1..alloc_id' /\ call'[t].cmd \in Opening /\ Claimed(call[t].id)'
  BY <1>1, <1>3, <1>d DEF Claims
<1>g. \A x \in 1..Len(pipe) :
        /\ pipe[x].cmd \in Opening => Claimed(pipe[x].id) /\ pipe[x].id \in Id
        /\ pipe[x].cmd \notin Opening => pipe[x].id \in opened'
  BY <1>2 DEF Known, Claims
<1>4. CASE pipe' = pipe
  <2>1. Claims'
    BY <1>1, <1>2, <1>3, <1>4 DEF Claims
  <2>2. Known'
    BY <1>4, <1>c, <1>e, <1>f, <1>g DEF Known
  <2> QED BY <2>1, <2>2
<1>5. CASE pipe # <<>> /\ pipe' = Tail(pipe)
  <2>1. \A x \in 1..Len(pipe') : pipe'[x] = pipe[x + 1] /\ x + 1 \in 1..Len(pipe)
    BY <1>5, Popped
  <2>2. \A x, y \in 1..Len(pipe') : x + 1 = y + 1 => x = y
    OBVIOUS
  <2>3. Claims'
    <3>1. \A x \in 1..Len(pipe') : pipe'[x].cmd \in Opening => Claimed(pipe'[x].id)
      BY <2>1, <1>g
    <3>2. \A x \in 1..Len(pipe') : pipe'[x].cmd \in Opening => pipe'[x].id \in Id
      BY <2>1, <1>g
    <3>3. \A t \in Caller, x \in 1..Len(pipe') :
            At(t, "reserved")' /\ pipe'[x].cmd \in Opening => call'[t].id # pipe'[x].id
      BY <2>1, <1>3 DEF Claims
    <3>4. \A x, y \in 1..Len(pipe') :
            pipe'[x].cmd \in Opening /\ pipe'[y].cmd \in Opening /\ pipe'[x].id = pipe'[y].id
              => x = y
      BY <2>1, <2>2 DEF Claims
    <3>5. \A t, u \in Caller :
            At(t, "reserved")' /\ At(u, "reserved")' /\ call'[t].id = call'[u].id => t = u
      BY <1>3 DEF Claims
    <3> QED BY <3>1, <3>2, <3>3, <3>4, <3>5, <1>f DEF Claims, Claimed
  <2>4. Known'
    BY <1>c, <1>e, <1>f, <1>g, <2>1 DEF Known
  <2> QED BY <2>3, <2>4
<1> QED BY <1>4, <1>5 DEF Pop

\* Who was to be woken still is, unless the command that does it was just taken.
LEMMA WokenKept ==
  ASSUME Typed, Pop, call' = call, NEW i, Woken(i), TakesW => Head(pipe).id # i
  PROVE  Woken(i)'
<1>1. CASE \E t \in Caller : At(t, "wake") /\ call[t].id = i
  BY <1>1 DEF Woken, At
<1>2. CASE \E x \in 1..Len(pipe) : pipe[x].cmd = "W" /\ pipe[x].id = i
  <2>1. PICK x \in 1..Len(pipe) : pipe[x].cmd = "W" /\ pipe[x].id = i
    BY <1>2
  <2>2. CASE pipe' = pipe
    BY <2>1, <2>2 DEF Woken
  <2>3. CASE pipe' # pipe
    <3>1. pipe # <<>> /\ pipe' = Tail(pipe)
      BY <2>3 DEF Pop
    <3>2. x # 1
      BY <2>1, <2>3, <3>1, Popped DEF TakesW
    <3>3. x - 1 \in 1..Len(pipe') /\ pipe'[x - 1] = pipe[x]
      BY <3>1, <3>2, Popped
    <3> QED BY <2>1, <3>3 DEF Woken
  <2> QED BY <2>2, <2>3
<1> QED BY <1>1, <1>2 DEF Woken

LEMMA SlotChange ==
  ASSUME NInv, NEW k \in Slot, NEW r, Kept(sock[k], r),
         sock' = [sock EXCEPT ![k] = r], call' = call, alloc_id' = alloc_id, Pop,
         TakesW => HASH_ID(Head(pipe).id) = k /\ r.writing,
         opened' = opened \/ (Alive(sock[k]) /\ opened' = opened \cup {sock[k].id})
  PROVE  SlotsTyped' /\ Clean' /\ Homed' /\ Claims' /\ Known' /\ Locks' /\ Served'
<1> USE DEF NInv
<1>1. /\ DOMAIN sock' = Slot /\ sock'[k] = r
      /\ \A j \in Slot \ {k} : sock'[j] = sock[j]
  BY DEF Typed, SlotsTyped
<1>2. SlotsTyped'
  BY <1>1 DEF Kept, Typed, SlotsTyped
<1>3. Clean'
  BY <1>1 DEF Clean, Kept, Alive, Empty
<1>4. Homed'
  BY <1>1 DEF Homed, Kept, Alive
<1>5. \A i \in Id : HASH_ID(i) \in Slot
  BY HashInSlot DEF Id
<1>6. \A i \in Id : Claimed(i)' <=> Claimed(i)
  BY <1>1, <1>5 DEF Claimed, Kept, Alive
<1>7. Alive(sock[k]) =>
        sock[k].id \in 1..alloc_id /\ sock[k].id \in Id /\ ~ Claimed(sock[k].id)
  BY SocketAssumption DEF Homed, Alive, Claimed, Typed, Id
<1>a. alloc_id' \in Nat /\ alloc_id' >= alloc_id
  BY SocketAssumption DEF Typed
<1>8. Claims' /\ Known'
  BY <1>6, <1>7, <1>a, ClaimsKept
<1>9. \A t \in Caller : HASH_ID(call[t].id) \in Slot /\ t # None
  BY Ids, SocketAssumption DEF Typed, InCall
<1>10. Locks'
  <2>1. \A j \in Slot : sock'[j].lock = sock[j].lock /\ sock'[j].id = sock[j].id
    BY <1>1 DEF Kept
  <2>2. \A j \in Slot : Alive(sock[j]) /\ sock[j].lock # None => Alive(sock'[j])
    BY <1>1 DEF Kept, Alive
  <2>3. \A t \in Caller :
          /\ At(t, "check") \/ At(t, "write") => sock[HASH_ID(call[t].id)].lock = t
          /\ At(t, "write") =>
               sock[HASH_ID(call[t].id)].id = call[t].id /\ Alive(sock[HASH_ID(call[t].id)])
    BY DEF Locks
  <2>5. \A t \in Caller :
          /\ At(t, "check")' \/ At(t, "write")' => sock'[HASH_ID(call[t].id)].lock = t
          /\ At(t, "write")' =>
               sock'[HASH_ID(call[t].id)].id = call[t].id /\ Alive(sock'[HASH_ID(call[t].id)])
    <3> TAKE t \in Caller
    <3> DEFINE j == HASH_ID(call[t].id)
    <3>1. j \in Slot /\ t # None
      BY <1>9
    <3>2. /\ At(t, "check") \/ At(t, "write") => sock[j].lock = t
          /\ At(t, "write") => sock[j].id = call[t].id /\ Alive(sock[j])
      BY <2>3
    <3> HIDE DEF j
    <3>3. /\ At(t, "check")' \/ At(t, "write")' => sock'[j].lock = t
          /\ At(t, "write")' => sock'[j].id = call[t].id /\ Alive(sock'[j])
      BY <3>1, <3>2, <2>1, <2>2 DEF At
    <3> QED BY <3>3 DEF j
  <2> QED BY <2>5 DEF Locks, Alive
<1>11. Served'
  <2> SUFFICES ASSUME NEW j \in Slot, Waits(sock'[j]), ~ sock'[j].writing,
                      NEW i, i = sock'[j].id
               PROVE  Woken(i)'
    BY DEF Served, Waits, Alive, send_buffer_empty, Woken, At
  <2>1. CASE j = k
    <3>1. sock'[j] = r /\ r.id = sock[k].id /\ ~ r.writing
      BY <2>1, <1>1 DEF Kept
    <3>2. Waits(sock[k]) /\ ~ sock[k].writing
      BY <3>1 DEF Kept
    <3>3. Woken(i) /\ ~ TakesW
      BY <3>1, <3>2 DEF Served
    <3> QED BY <3>3, WokenKept
  <2>2. CASE j # k
    <3>1. sock'[j] = sock[j]
      BY <2>2, <1>1
    <3>2. Woken(i) /\ HASH_ID(i) = j
      BY <3>1 DEF Served, Homed, Waits, Alive
    <3>3. TakesW => Head(pipe).id # i
      BY <2>2, <3>2
    <3> QED BY <3>2, <3>3, WokenKept
  <2> QED BY <2>1, <2>2
<1> QED BY <1>2, <1>3, <1>4, <1>8, <1>10, <1>11

LEMMA NoChange ==
  ASSUME NInv, sock' = sock, call' = call, alloc_id' = alloc_id, Pop,
         TakesW => socket_invalid(sock[HASH_ID(Head(pipe).id)], Head(pipe).id),
         opened' = opened
  PROVE  SlotsTyped' /\ Clean' /\ Homed' /\ Claims' /\ Known' /\ Locks' /\ Served'
<1> USE DEF NInv
<1>1. SlotsTyped' /\ Clean' /\ Homed' /\ Locks'
  BY DEF Typed, SlotsTyped, Clean, Homed, Locks, At
<1>2. \A i \in Id : Claimed(i)' <=> Claimed(i)
  BY DEF Claimed
<1>a. alloc_id' \in Nat /\ alloc_id' >= alloc_id
  BY SocketAssumption DEF Typed
<1>3. Claims' /\ Known'
  BY <1>2, <1>a, ClaimsKept
<1>4. Served'
  <2> SUFFICES ASSUME NEW j \in Slot, Waits(sock[j]), ~ sock[j].writing, NEW i, i = sock[j].id
               PROVE  Woken(i)'
    BY DEF Served, Waits, Alive, send_buffer_empty, Woken, At
  <2>1. Woken(i) /\ HASH_ID(i) = j
    BY DEF Served, Homed, Waits, Alive
  <2>2. TakesW => Head(pipe).id # i
    BY <2>1 DEF socket_invalid, Waits, Alive, Homed
  <2> QED BY <2>1, <2>2, WokenKept
<1> QED BY <1>1, <1>3, <1>4

-----------------------------------------------------------------------------
(* The events of a batch                                                   *)

LEMMA ClearedTyped ==
  ASSUME ev \in Seq(Batched), NEW what, NEW i, NEW slots
  PROVE  ClearClosed(what, i, slots) \in Seq(Batched)
<1> DEFINE n == Len(ev)
<1>1. n \in Nat /\ DOMAIN ev = 1..n /\ \A x \in 1..n : ev[x] \in Batched
  OBVIOUS
<1>2. \A e \in Batched : [e EXCEPT !.k = NULL] \in Batched
  BY DEF Batched
<1> HIDE DEF n
<1>3. ClearClosed(what, i, slots) \in [1..n -> Batched]
  BY <1>1, <1>2 DEF ClearClosed
<1> QED BY <1>1, <1>3

LEMMA FirstEvent ==
  ASSUME NInv, spc = "event"
  PROVE  /\ Head(ev) \in Batched /\ Tail(ev) \in Seq(Batched) /\ ev \in Seq(Batched)
         /\ Head(ev).k # NULL => Head(ev).k \in Slot
<1>1. ev \in Seq(Batched) /\ ev # <<>>
  BY DEF NInv, Typed, ThreadTyped
<1>2. Head(ev) \in Batched /\ Tail(ev) \in Seq(Batched)
  BY <1>1
<1> QED BY <1>1, <1>2 DEF Batched

LEMMA AgainTyped == ASSUME NInv, spc = "event" PROVE Again \in Seq(Batched)
<1>1. Head(ev) \in Batched /\ Tail(ev) \in Seq(Batched)
  BY FirstEvent
<1>2. [Head(ev) EXCEPT !.read = FALSE] \in Batched
  BY <1>1 DEF Batched
<1>3. <<[Head(ev) EXCEPT !.read = FALSE]>> \in Seq(Batched)
  BY <1>2
<1> QED BY <1>1, <1>3 DEF Again

-----------------------------------------------------------------------------
(* What the steps of the socket thread have in common                      *)

\* The slot keeps its socket, and the thread goes on.
LEMMA Changed ==
  ASSUME NInv, NEW k \in Slot, NEW r, Kept(sock[k], r),
         sock' = [sock EXCEPT ![k] = r], call' = call, alloc_id' = alloc_id, Pop,
         TakesW => HASH_ID(Head(pipe).id) = k /\ r.writing,
         opened' = opened \/ (Alive(sock[k]) /\ opened' = opened \cup {sock[k].id}),
         ThreadTyped', NetTyped', spc' # "force"
  PROVE  NInv'
<1>1. SlotsTyped' /\ Clean' /\ Homed' /\ Claims' /\ Known' /\ Locks' /\ Served'
  BY SlotChange
<1>2. Alive(sock[k]) => sock[k].id \in Id
  BY SocketAssumption DEF NInv, Homed, Alive, Typed, Id
<1>3. Typed'
  BY <1>1, <1>2, PopTyped DEF NInv, Typed
<1>4. Forced'
  BY DEF Forced
<1> QED BY <1>1, <1>3, <1>4 DEF NInv

\* No slot changes.
LEMMA Unchanged ==
  ASSUME NInv, sock' = sock, call' = call, alloc_id' = alloc_id, Pop, opened' = opened,
         TakesW => socket_invalid(sock[HASH_ID(Head(pipe).id)], Head(pipe).id),
         ThreadTyped', NetTyped', spc' # "force"
  PROVE  NInv'
<1>1. SlotsTyped' /\ Clean' /\ Homed' /\ Claims' /\ Known' /\ Locks' /\ Served'
  BY NoChange
<1>2. Typed'
  BY <1>1, PopTyped DEF NInv, Typed
<1>3. Forced'
  BY DEF Forced
<1> QED BY <1>1, <1>2, <1>3 DEF NInv

\* force_close begins, or finds a reserved slot.
LEMMA StartForceKeeps ==
  ASSUME NInv, NEW k \in Slot, NEW what \in {"none", "close", "err"}, NEW ctl \in BOOLEAN,
         NEW rest \in Seq(Batched), StartForce(k, what, ctl, rest), sock[k].type # "INVALID",
         call' = call, alloc_id' = alloc_id, Pop, ~ TakesW, NetTyped'
  PROVE  NInv'
<1>1. CASE sock[k].type = "RESERVE"
  <2>1. sock' = sock /\ opened' = opened /\ spc' = "aborted" /\ closing' = closing /\ ev' = ev
    BY <1>1 DEF StartForce, Abort, told
  <2>2. ThreadTyped'
    BY <2>1 DEF NInv, Typed, ThreadTyped
  <2> QED BY <2>1, <2>2, Unchanged
<1>2. CASE sock[k].type # "RESERVE"
  <2> DEFINE r == [sock[k] EXCEPT !.high = <<>>, !.low = <<>>]
  <2>1. /\ sock' = [sock EXCEPT ![k] = r] /\ opened' = opened
        /\ closing' = [k |-> k, what |-> what, ctl |-> ctl]
        /\ spc' = "force" /\ ev' = rest
    BY <1>2 DEF StartForce, told
  <2>2. Alive(sock[k])
    BY <1>2 DEF Alive
  <2>3. Socket(sock[k])
    BY DEF NInv, Typed, SlotsTyped
  <2>4. Kept(sock[k], r) /\ Alive(r) /\ send_buffer_empty(r)
    BY <2>2, <2>3 DEF Kept, Socket, Fields, Alive, Waits, send_buffer_empty
  <2> HIDE DEF r
  <2>5. SlotsTyped' /\ Clean' /\ Homed' /\ Claims' /\ Known' /\ Locks' /\ Served'
    BY <2>1, <2>2, <2>4, SlotChange
  <2>6. ThreadTyped'
    BY <2>1 DEF ThreadTyped
  <2>7. Typed'
    BY <2>1, <2>5, <2>6, PopTyped DEF NInv, Typed
  <2>8. sock'[closing'.k] = r
    BY <2>1 DEF NInv, Typed, SlotsTyped
  <2>9. Forced'
    BY <2>4, <2>8 DEF Forced, Alive, send_buffer_empty
  <2> QED BY <2>5, <2>7, <2>9 DEF NInv
<1> QED BY <1>1, <1>2

\* A command ends with new contents of its slot.
LEMMA FinishThread ==
  ASSUME NInv, NEW k, NEW r, NEW what, NEW i, Finish(k, r, what, i), spc = "poll"
  PROVE  /\ ThreadTyped' /\ spc' # "force"
         /\ sock' = [sock EXCEPT ![k] = r]
         /\ opened' = IF what \in {"open", "accept"} THEN opened \cup {i} ELSE opened
<1>1. ev' \in Seq(Batched)
  BY ClearedTyped DEF Finish, NInv, Typed, ThreadTyped
<1> QED BY <1>1 DEF Finish, Report, NInv, Typed, ThreadTyped

\* An event ends with new contents of its slot.
LEMMA HandledThread ==
  ASSUME NInv, NEW r, NEW what, NEW i, NEW rest \in Seq(Batched), Handled(r, what, i, rest)
  PROVE  /\ ThreadTyped' /\ spc' # "force"
         /\ sock' = [sock EXCEPT ![Head(ev).k] = r]
         /\ opened' = IF what \in {"open", "accept"} THEN opened \cup {i} ELSE opened
  BY DEF Handled, Report, Loop, NInv, Typed, ThreadTyped

\* The first command: of one that opens no socket, the slot is free, or holds a socket;
\* only the flags of the write and the read event may be those of a reserved slot.
LEMMA CmdFacts ==
  ASSUME NInv, NEW names, Cmd(names), ~ clobbered'
  PROVE  /\ CmdId \in Id /\ HASH_ID(CmdId) \in Slot /\ Socket(CmdSlot)
         /\ Head(pipe).cmd \in names
         /\ spc = "poll" /\ call' = call /\ alloc_id' = alloc_id /\ Pop
         /\ Head(pipe).cmd # "W" => ~ TakesW
         /\ Head(pipe).cmd \notin Opening /\ ~ socket_invalid(CmdSlot, CmdId) =>
              /\ CmdId \in opened
              /\ \/ CmdSlot.id = CmdId /\ Alive(CmdSlot)
                 \/ CmdSlot.type = "RESERVE" /\ Head(pipe).cmd \in {"R", "S", "W"}
<1>1. Head(pipe) = pipe[1] /\ Head(pipe) \in Entry /\ 1 \in 1..Len(pipe)
  BY Popped DEF NInv, Cmd
<1>2. CmdId \in Id /\ CmdId \in Nat
  BY <1>1 DEF CmdId, Entry, Id
<1>3. HASH_ID(CmdId) \in Slot
  BY <1>2, HashInSlot
<1>4. Socket(CmdSlot)
  BY <1>3 DEF CmdSlot, NInv, Typed, SlotsTyped
<1>5. Head(pipe).cmd \notin Opening => CmdId \in opened /\ ~ Claimed(CmdId)
  BY <1>1 DEF CmdId, NInv, Known
<1>6. Pop /\ (Head(pipe).cmd # "W" => ~ TakesW)
  BY DEF Pop, TakesW, Cmd
<1>7. Head(pipe).cmd \notin Opening /\ ~ socket_invalid(CmdSlot, CmdId) =>
        /\ CmdSlot.seen = CmdId
        /\ Alive(CmdSlot) \/ (CmdSlot.type = "RESERVE" /\ Head(pipe).cmd \in {"R", "S", "W"})
  <2>1. Head(pipe).cmd \in Cmds
    BY <1>1 DEF Entry
  <2>2. ~ Clobbers
    BY DEF Cmd
  <2> QED BY <2>1, <2>2 DEF Clobbers, socket_invalid, Alive, Cmds
<1>8. Alive(CmdSlot) => CmdSlot.seen = CmdSlot.id
  BY <1>3 DEF CmdSlot, NInv, Homed
<1> QED BY <1>2, <1>3, <1>4, <1>5, <1>6, <1>7, <1>8 DEF Cmd

LEMMA CmdIgnored ==
  ASSUME NInv, NEW names, Cmd(names), ~ clobbered', Ignore, net' = net,
         socket_invalid(CmdSlot, CmdId)
  PROVE  NInv'
<1>1. sock' = sock /\ spc' = spc /\ closing' = closing /\ ev' = ev /\ opened' = opened
  BY DEF Ignore, told
<1>2. call' = call /\ alloc_id' = alloc_id /\ Pop /\ spc = "poll"
  BY CmdFacts
<1>3. ThreadTyped' /\ NetTyped' /\ spc' # "force"
  BY <1>1, <1>2 DEF NInv, Typed, ThreadTyped, NetTyped
<1> QED BY <1>1, <1>2, <1>3, Unchanged DEF CmdSlot, CmdId

\* The socket of the first command gets new contents.
LEMMA CmdChanged ==
  ASSUME NInv, NEW names, Cmd(names), ~ clobbered', NEW r,
         NEW what \in {"none", "close", "err", "warning", "open"},
         Finish(HASH_ID(CmdId), r, what, CmdId), Kept(CmdSlot, r), what = "open" => CmdId \in opened,
         Head(pipe).cmd = "W" => r.writing, net' = net
  PROVE  NInv'
<1>1. /\ HASH_ID(CmdId) \in Slot /\ call' = call /\ alloc_id' = alloc_id /\ Pop /\ spc = "poll"
      /\ Head(pipe).cmd # "W" => ~ TakesW
  BY CmdFacts
<1>2. /\ ThreadTyped' /\ spc' # "force" /\ opened' = opened
      /\ sock' = [sock EXCEPT ![HASH_ID(CmdId)] = r]
  BY <1>1, FinishThread
<1>3. NetTyped'
  BY DEF NInv, Typed, NetTyped
<1>4. TakesW => HASH_ID(Head(pipe).id) = HASH_ID(CmdId) /\ r.writing
  BY <1>1 DEF TakesW, CmdId
<1>5. Kept(sock[HASH_ID(CmdId)], r)
  BY DEF CmdSlot
<1> QED BY <1>1, <1>2, <1>3, <1>4, <1>5, Changed

-----------------------------------------------------------------------------
(* The commands                                                            *)

LEMMA CloseSocketKeeps == ASSUME NInv, close_socket, ~ clobbered' PROVE NInv'
<1> DEFINE s == CmdSlot
           k == HASH_ID(CmdId)
<1>1. Cmd({"K", "KS"}) /\ net' = net
  BY DEF close_socket
<1>2. /\ k \in Slot /\ Socket(s) /\ s = sock[k]
      /\ spc = "poll" /\ call' = call /\ alloc_id' = alloc_id /\ Pop /\ ~ TakesW
      /\ ~ socket_invalid(s, CmdId) => s.id = CmdId /\ Alive(s)
      /\ Head(pipe).cmd # "W"
  BY <1>1, CmdFacts DEF CmdSlot, Opening
<1>3. CASE socket_invalid(s, CmdId)
  BY <1>1, <1>3, CmdIgnored DEF close_socket
<1>4. CASE ~ socket_invalid(s, CmdId) /\ (Head(pipe).cmd = "KS" \/ nomore_sending_data(s))
  <2>1. StartForce(k, CloseReport(s), TRUE, ev)
    BY <1>4 DEF close_socket
  <2>2. CloseReport(s) \in {"none", "close", "err"} /\ ev \in Seq(Batched) /\ NetTyped'
    BY <1>1 DEF CloseReport, NInv, Typed, ThreadTyped, NetTyped
  <2>3. sock[k].type # "INVALID"
    BY <1>2, <1>4 DEF Alive
  <2> QED BY <1>2, <2>1, <2>2, <2>3, StartForceKeeps
<1>5. CASE ~ socket_invalid(s, CmdId) /\ ~ (Head(pipe).cmd = "KS" \/ nomore_sending_data(s))
  <2> DEFINE r == IF s.type = "HALFCLOSE_READ" THEN [s EXCEPT !.closing = TRUE]
                  ELSE [close_read(s) EXCEPT !.closing = TRUE]
  <2>1. Finish(k, r, CloseReport(s), CmdId)
    BY <1>5 DEF close_socket
  <2>2. CloseReport(s) \in {"none", "close", "err", "warning", "open"} /\ CloseReport(s) # "open"
    BY DEF CloseReport
  <2>3. s.type # "HALFCLOSE_WRITE" /\ Alive(s)
    BY <1>2, <1>5 DEF nomore_sending_data
  <2>4. Kept(s, r)
    BY <1>2, <2>3 DEF Kept, Socket, Fields, Alive, Waits, Empty, send_buffer_empty, close_read, Type
  <2> QED BY <1>1, <1>2, <2>1, <2>2, <2>4, CmdChanged
<1> QED BY <1>3, <1>4, <1>5

LEMMA SameKept == ASSUME NInv, NEW k \in Slot PROVE Kept(sock[k], sock[k])
  BY DEF NInv, Typed, SlotsTyped, Clean, Kept

LEMMA PauseSocketKeeps == ASSUME NInv, pause_socket, ~ clobbered' PROVE NInv'
<1>1. Cmd({"S"}) /\ net' = net
  BY DEF pause_socket
<1>2. CASE socket_invalid(CmdSlot, CmdId)
  BY <1>1, <1>2, CmdIgnored DEF pause_socket
<1>3. CASE ~ socket_invalid(CmdSlot, CmdId)
  <2> DEFINE r == [CmdSlot EXCEPT !.reading = FALSE]
  <2>1. Finish(HASH_ID(CmdId), r, "none", CmdId)
    BY <1>3 DEF pause_socket
  <2>2. Socket(CmdSlot) /\ Kept(CmdSlot, CmdSlot) /\ Head(pipe).cmd = "S"
    BY <1>1, <1>3, CmdFacts, SameKept DEF CmdSlot
  <2>3. Kept(CmdSlot, r)
    BY <2>2 DEF Kept, Socket, Fields, Alive, Waits, Empty, send_buffer_empty
  <2> QED BY <1>1, <2>1, <2>2, <2>3, CmdChanged
<1> QED BY <1>2, <1>3

LEMMA TriggerWriteKeeps == ASSUME NInv, trigger_write, ~ clobbered' PROVE NInv'
<1>1. Cmd({"W"}) /\ net' = net
  BY DEF trigger_write
<1>2. CASE socket_invalid(CmdSlot, CmdId)
  BY <1>1, <1>2, CmdIgnored DEF trigger_write
<1>3. CASE ~ socket_invalid(CmdSlot, CmdId)
  <2> DEFINE r == [CmdSlot EXCEPT !.writing = TRUE]
  <2>1. Finish(HASH_ID(CmdId), r, "none", CmdId)
    BY <1>3 DEF trigger_write
  <2>2. Socket(CmdSlot) /\ Kept(CmdSlot, CmdSlot)
    BY <1>1, <1>3, CmdFacts, SameKept DEF CmdSlot
  <2>3. Kept(CmdSlot, r) /\ r.writing
    BY <2>2 DEF Kept, Socket, Fields, Alive, Waits, Empty, send_buffer_empty
  <2> QED BY <1>1, <2>1, <2>3, CmdChanged
<1> QED BY <1>2, <1>3

LEMMA ResumeSocketKeeps == ASSUME NInv, resume_socket, ~ clobbered' PROVE NInv'
<1> DEFINE s == CmdSlot
<1>1. Cmd({"R"}) /\ net' = net
  BY DEF resume_socket
<1>2. Head(pipe).cmd = "R" /\ Socket(s) /\ HASH_ID(CmdId) \in Slot
  BY <1>1, CmdFacts
<1>3. CASE socket_invalid(s, CmdId) \/ s.type = "HALFCLOSE_READ"
  <2>1. Finish(HASH_ID(CmdId), s, "err", CmdId)
    BY <1>3 DEF resume_socket
  <2>2. Kept(s, s)
    BY <1>2, SameKept DEF CmdSlot
  <2> QED BY <1>1, <1>2, <2>1, <2>2, CmdChanged
<1>4. CASE ~ (socket_invalid(s, CmdId) \/ s.type = "HALFCLOSE_READ")
  <2> DEFINE type == CASE s.type = "PACCEPT" -> "CONNECTED"
                       [] s.type = "PLISTEN" -> "LISTEN"
                       [] OTHER -> s.type
             r == [s EXCEPT !.reading = TRUE, !.type = type]
             what == IF s.type \in {"PACCEPT", "PLISTEN", "CONNECTED"} THEN "open" ELSE "none"
  <2>1. Finish(HASH_ID(CmdId), r, what, CmdId)
    BY <1>4 DEF resume_socket
  <2>2. CmdId \in opened /\ s.type # "INVALID" /\ Kept(s, s)
    BY <1>1, <1>2, <1>4, CmdFacts, SameKept DEF Opening, CmdSlot, socket_invalid
  <2>3. what \in {"none", "close", "err", "warning", "open"}
    OBVIOUS
  <2>4. /\ type \in Type /\ (type = s.type \/ Alive(s))
        /\ type \in {"INVALID", "RESERVE"} <=> s.type \in {"INVALID", "RESERVE"}
        /\ type = "HALFCLOSE_WRITE" <=> s.type = "HALFCLOSE_WRITE"
    BY <1>2, <2>2 DEF Socket, Alive, Type
  <2> HIDE DEF type
  <2>5. Kept(s, r)
    BY <1>2, <2>2, <2>4 DEF Kept, Socket, Fields, Alive, Waits, Empty, send_buffer_empty
  <2> HIDE DEF r, what
  <2> QED BY <1>1, <1>2, <2>1, <2>2, <2>3, <2>5, CmdChanged
<1> QED BY <1>3, <1>4

\* An assertion fails: the thread stops where it is.
LEMMA AbortKeeps ==
  ASSUME NInv, Abort, call' = call, alloc_id' = alloc_id, Pop, ~ TakesW, NetTyped'
  PROVE  NInv'
<1>1. sock' = sock /\ opened' = opened /\ spc' = "aborted" /\ closing' = closing /\ ev' = ev
  BY DEF Abort, told
<1>2. ThreadTyped'
  BY <1>1 DEF NInv, Typed, ThreadTyped
<1> QED BY <1>1, <1>2, Unchanged

\* A buffer that is queued on a socket turns the write event on if it is the first.
LEMMA QueuedKept ==
  ASSUME NEW s, Socket(s), Alive(s), NEW c, NEW n
  PROVE  Kept(s, [Warned(Queued(s, c)) EXCEPT !.sending = n])
<1> DEFINE q == Queued(s, c)
           u == Units(c.buf, BufSize)
<1>1. /\ DOMAIN q = Fields /\ q.type = s.type /\ q.id = s.id /\ q.seen = s.seen
      /\ q.lock = s.lock /\ q.dw = s.dw
      /\ q.writing \in BOOLEAN /\ (s.writing => q.writing)
      /\ send_buffer_empty(s) => q.writing
  BY DEF Socket, Queued, Fields
<1> HIDE DEF q
<1> DEFINE r == [Warned(q) EXCEPT !.sending = n]
<1>2. /\ DOMAIN r = Fields /\ r.type = q.type /\ r.id = q.id /\ r.seen = q.seen
      /\ r.lock = q.lock /\ r.dw = q.dw /\ r.writing = q.writing
  BY <1>1 DEF Warned, Fields
<1> HIDE DEF r
<1>3. Socket(r) /\ Alive(r)
  BY <1>1, <1>2 DEF Socket, Alive
<1>4. Waits(r) => r.writing \/ Waits(s)
  BY <1>1, <1>2 DEF Waits, Alive
<1>5. Kept(s, r)
  BY <1>1, <1>2, <1>3, <1>4 DEF Kept
<1> QED BY <1>5 DEF r, q

LEMMA SendSocketKeeps == ASSUME NInv, send_socket, ~ clobbered' PROVE NInv'
<1> DEFINE i == CmdId
           s == CmdSlot
           to == IF Rejects(s, i) THEN s ELSE Warned(Queued(s, Head(pipe)))
           n == IF Counted(s, i) THEN to.sending - 1 ELSE to.sending
           r == [to EXCEPT !.sending = n]
<1>1. Cmd({"D", "P"}) /\ net' = net
  BY DEF send_socket
<1>2. /\ Head(pipe).cmd \in {"D", "P"} /\ Socket(s) /\ HASH_ID(i) \in Slot
      /\ call' = call /\ alloc_id' = alloc_id /\ Pop /\ ~ TakesW
      /\ ~ socket_invalid(s, i) => Alive(s)
  BY <1>1, CmdFacts DEF Opening
<1>3. NetTyped'
  BY <1>1 DEF NInv, Typed, NetTyped
<1>4. CASE Counted(s, i) /\ s.sending = 0
  BY <1>2, <1>3, <1>4, AbortKeeps DEF send_socket
<1>5. CASE ~ (Counted(s, i) /\ s.sending = 0)
  <2> DEFINE what == IF to.warn # s.warn THEN "warning" ELSE "none"
  <2>1. Finish(HASH_ID(i), r, what, i)
    BY <1>5 DEF send_socket
  <2>2. what \in {"none", "close", "err", "warning", "open"} /\ what # "open"
    OBVIOUS
  <2>3. CASE Rejects(s, i)
    <3>1. Kept(s, s)
      BY <1>2, SameKept DEF CmdSlot
    <3>2. Kept(s, [s EXCEPT !.sending = n])
      BY <1>2, <3>1 DEF Kept, Socket, Fields, Alive, Waits, Empty, send_buffer_empty
    <3>3. r = [s EXCEPT !.sending = n]
      BY <2>3
    <3> QED BY <3>2, <3>3, <1>1, <1>2, <2>1, <2>2, CmdChanged
  <2>4. CASE ~ Rejects(s, i)
    <3>1. Alive(s)
      BY <1>2, <2>4 DEF Rejects
    <3>2. Kept(s, [Warned(Queued(s, Head(pipe))) EXCEPT !.sending = n])
      BY <1>2, <3>1, QueuedKept
    <3>3. r = [Warned(Queued(s, Head(pipe))) EXCEPT !.sending = n]
      BY <2>4
    <3> QED BY <3>2, <3>3, <1>1, <1>2, <2>1, <2>2, CmdChanged
  <2> QED BY <2>3, <2>4
<1> QED BY <1>4, <1>5

LEMMA NoCmdKeeps == ASSUME NInv, NoCmd PROVE NInv'
<1>1. /\ sock' = sock /\ opened' = opened /\ call' = call /\ alloc_id' = alloc_id
      /\ pipe' = pipe /\ ev' = ev /\ closing' = closing /\ net' = net
      /\ spc' = IF ev = <<>> THEN "wait" ELSE "event"
  BY DEF NoCmd, told
<1>2. ThreadTyped' /\ NetTyped' /\ spc' # "force"
  BY <1>1 DEF NInv, Typed, ThreadTyped, NetTyped
<1> QED BY <1>1, <1>2, Unchanged DEF Pop, TakesW

\* The reserved slot of the command becomes a socket, or free again.
LEMMA OpenedSlot ==
  ASSUME NInv, Cmd(Opening), ~ clobbered', NEW i, i = CmdId, NEW r, NEW what \in {"none", "err", "open"},
         Finish(HASH_ID(i), r, what, i), Socket(r), r.id = i, r.type # "RESERVE",
         Alive(r) => r.seen = i, r.lock = CmdSlot.lock, Empty(r), what = "open" => Alive(r), NetTyped'
  PROVE  NInv'
<1> DEFINE k == HASH_ID(i)
<1> USE DEF NInv
<1>1. /\ i \in Id /\ k \in Slot /\ spc = "poll" /\ call' = call /\ alloc_id' = alloc_id
      /\ pipe # <<>> /\ pipe' = Tail(pipe) /\ Pop /\ Head(pipe).cmd \in Opening
  BY CmdFacts DEF Cmd
<1>2. ~ TakesW
  BY <1>1 DEF TakesW, Opening
<1>3. /\ ThreadTyped' /\ spc' # "force" /\ opened \subseteq opened' /\ opened' \subseteq opened \cup {i}
      /\ sock' = [sock EXCEPT ![k] = r] /\ (opened' # opened => Alive(r))
  BY <1>1, FinishThread
<1>4. Claimed(i) /\ CmdSlot = sock[k]
  BY <1>1, Popped DEF CmdId, CmdSlot, Claims
<1>5. /\ DOMAIN sock' = Slot /\ sock'[k] = r
      /\ \A j \in Slot \ {k} : sock'[j] = sock[j]
  BY <1>1, <1>3 DEF Typed, SlotsTyped
<1>6. i \in 1..alloc_id
  BY <1>1, <1>4 DEF Homed, Claimed
<1>7. SlotsTyped' /\ Clean' /\ Homed'
  BY <1>1, <1>5, <1>6 DEF Typed, SlotsTyped, Clean, Homed, Alive
<1>8. /\ \A j \in Id \ {i} : Claimed(j)' <=> Claimed(j)
      /\ ~ Claimed(i)'
  <2>1. \A j \in Id : HASH_ID(j) \in Slot
    BY HashInSlot DEF Id
  <2>2. \A j \in Id \ {i} : Claimed(j)' <=> Claimed(j)
    BY <1>4, <1>5, <2>1 DEF Claimed
  <2>3. ~ Claimed(i)'
    BY <1>1, <1>5 DEF Claimed
  <2> QED BY <2>2, <2>3
<1>9. Claims' /\ Known'
  <2>1. \A x \in 1..Len(pipe') : pipe'[x] = pipe[x + 1] /\ x + 1 \in 1..Len(pipe) /\ x + 1 # 1
    BY <1>1, Popped
  <2>2. pipe[1].id = i /\ pipe[1].cmd \in Opening /\ 1 \in 1..Len(pipe)
    BY <1>1, Popped DEF CmdId
  <2>3. \A x \in 1..Len(pipe) : pipe[x].id \in Id
    <3>1. \A x \in 1..Len(pipe) : pipe[x] \in Entry
      BY DEF Typed
    <3> QED BY <3>1 DEF Entry
  <2>4. \A x \in 1..Len(pipe') :
          /\ pipe'[x].id \in Id
          /\ pipe'[x].cmd \in Opening => pipe'[x].id # i /\ Claimed(pipe'[x].id)
          /\ pipe'[x].cmd \notin Opening => pipe'[x].id \in opened
    BY <2>1, <2>2, <2>3 DEF Claims, Known
  <2>5. \A t \in Caller : call[t].id \in Id \/ call[t].pc # "reserved"
    BY SocketAssumption DEF Known, Typed, Id, At
  <2>6. \A t \in Caller : call[t].pc = "reserved" =>
          call[t].id # i /\ call[t].cmd \in Opening /\ Claimed(call[t].id)
    BY <2>2 DEF Claims, At
  <2>7. \A t \in Caller, x \in 1..Len(pipe') :
          call[t].pc = "reserved" /\ pipe'[x].cmd \in Opening => call[t].id # pipe'[x].id
    BY <2>1 DEF Claims, At
  <2>8. \A x, y \in 1..Len(pipe') :
          pipe'[x].cmd \in Opening /\ pipe'[y].cmd \in Opening /\ pipe'[x].id = pipe'[y].id
            => x = y
    <3>1. \A x, y \in 1..Len(pipe') : x + 1 = y + 1 => x = y
      OBVIOUS
    <3> QED BY <2>1, <3>1 DEF Claims
  <2>9. \A t \in Caller : call[t].pc = "reserved" => Claimed(call[t].id)'
    BY <1>8, <2>5, <2>6, <1>1 DEF Claimed
  <2>10. \A x \in 1..Len(pipe') : pipe'[x].cmd \in Opening => Claimed(pipe[x].id)'
    BY <1>8, <2>4 DEF Claimed
  <2>11. Claims'
    BY <1>1, <2>6, <2>7, <2>8, <2>9, <2>10 DEF Claims, At
  <2>12. \A j \in opened' : j <= alloc_id' /\ ~ Claimed(j)'
    BY <1>1, <1>3, <1>6, <1>8 DEF Known, Typed, Claimed
  <2>13. Known'
    BY <1>1, <1>3, <2>4, <2>12 DEF Known, At
  <2> QED BY <2>11, <2>13
<1>10. Locks'
  <2>1. \A t \in Caller : HASH_ID(call[t].id) \in Slot
    BY Ids DEF Typed, InCall
  <2>2. \A t \in Caller : At(t, "write") => HASH_ID(call[t].id) # k
    BY <1>4 DEF Locks, Claimed, Alive
  <2>3. \A j \in Slot : sock'[j].lock = sock[j].lock
    BY <1>4, <1>5
  <2> QED BY <1>1, <1>5, <2>1, <2>2, <2>3 DEF Locks, At, Alive
<1>11. Served'
  <2> SUFFICES ASSUME NEW j \in Slot, Waits(sock'[j]), ~ sock'[j].writing,
                      NEW n, n = sock'[j].id
               PROVE  Woken(n)'
    BY DEF Served, Waits, Alive, send_buffer_empty, Woken, At
  <2>1. j # k
    BY <1>5 DEF Waits, Empty, send_buffer_empty
  <2>2. Woken(n)
    BY <1>5, <2>1 DEF Served
  <2> QED BY <1>1, <1>2, <2>2, WokenKept
<1>12. Typed'
  BY <1>1, <1>3, <1>7, PopTyped DEF Typed
<1>13. Forced'
  BY <1>3 DEF Forced
<1> QED BY <1>7, <1>9, <1>10, <1>11, <1>12, <1>13

LEMMA OpenSocketKeeps == ASSUME NInv, open_socket, ~ clobbered' PROVE NInv'
<1> DEFINE i == CmdId
           s == CmdSlot
           k == HASH_ID(i)
           c == Head(pipe).cmd
<1>1. Cmd(Opening)
  BY DEF open_socket, Opening
<1>2. /\ i \in Id /\ k \in Slot /\ Socket(s) /\ s = sock[k] /\ pipe # <<>>
      /\ call' = call /\ alloc_id' = alloc_id /\ Pop /\ c \in Opening /\ ~ TakesW
  BY <1>1, CmdFacts DEF CmdSlot, Opening, Cmd
<1>3. s.type = "RESERVE" /\ s.id = i
  BY <1>2, Popped DEF NInv, CmdId, CmdSlot, Claims, Claimed
<1>4. Empty(s)
  BY <1>2, <1>3 DEF NInv, Clean, Alive
<1>5. Id \subseteq 0..MaxId
  BY SocketAssumption DEF Id
<1>6. NetTyped /\ (net' = net => NetTyped')
  BY DEF NInv, Typed, NetTyped
<1>7. \A type \in Type \ {"INVALID", "RESERVE"} :
        LET r == new_fd(s, i, type)
        IN /\ Socket(r) /\ r.id = i /\ r.seen = i /\ r.type # "RESERVE" /\ r.lock = s.lock
           /\ Empty(r) /\ Alive(r)
  BY ZenonT(30), <1>2, <1>4, <1>5 DEF new_fd, Socket, Fields, Empty, Alive
<1>8. CASE Finish(k, [s EXCEPT !.type = "INVALID"], "err", i) /\ net' = net
  <2> DEFINE r == [s EXCEPT !.type = "INVALID"]
  <2>1. Socket(r) /\ r.id = i /\ ~ Alive(r) /\ r.type # "RESERVE" /\ r.lock = s.lock /\ Empty(r)
    BY <1>2, <1>3, <1>4 DEF Socket, Fields, Empty, Type, Alive
  <2> HIDE DEF r
  <2> QED BY <1>1, <1>6, <1>8, <2>1, OpenedSlot DEF r
<1>9. CASE Finish(k, new_fd(s, i, Opened[c]), "open", i) /\ net' = net
  <2>1. Opened[c] \in Type \ {"INVALID", "RESERVE"}
    BY <1>2 DEF Opened, Opening, Type
  <2> QED BY <1>1, <1>6, <1>7, <1>9, <2>1, OpenedSlot
<1>10. CASE /\ Finish(k, [new_fd(s, i, "CONNECTING") EXCEPT !.writing = TRUE], "none", i)
            /\ net' = [net EXCEPT ![i].pending = TRUE]
  <2> DEFINE f == new_fd(s, i, "CONNECTING")
             r == [f EXCEPT !.writing = TRUE]
  <2>1. Socket(f) /\ f.id = i /\ f.seen = i /\ f.type # "RESERVE" /\ f.lock = s.lock /\ Empty(f)
    BY <1>7 DEF Type
  <2> HIDE DEF f
  <2>2. Socket(r) /\ r.id = i /\ r.seen = i /\ r.type # "RESERVE" /\ r.lock = s.lock /\ Empty(r)
    BY <2>1 DEF Socket, Fields, Empty
  <2>3. NetTyped'
    BY <1>5, <1>6, <1>10, <1>2 DEF NetTyped, Connection
  <2> HIDE DEF r
  <2> QED BY <1>1, <1>10, <2>2, <2>3, OpenedSlot DEF r, f
<1>11. ~ (s.type # "RESERVE" \/ ~ send_buffer_empty(s))
  BY <1>3, <1>4 DEF Empty, send_buffer_empty
<1> QED BY <1>8, <1>9, <1>10, <1>11 DEF open_socket

-----------------------------------------------------------------------------
(* The rest of a forced close, and the events                              *)

LEMMA ForceCloseKeeps == ASSUME NInv, ForceClose PROVE NInv'
<1> DEFINE k == closing.k
           r == Closed(sock[k])
<1>1. /\ spc = "force" /\ sock[k].lock = None /\ sock' = [sock EXCEPT ![k] = r]
      /\ alloc_id' = alloc_id /\ pipe' = pipe /\ closing' = closing /\ call' = call /\ net' = net
      /\ Report(closing.what, sock[k].id) /\ Loop(ev')
      /\ ev' = IF closing.ctl THEN ClearClosed(closing.what, sock[k].id, sock') ELSE ev
  BY DEF ForceClose
<1>2. k \in Slot /\ closing.what \in {"none", "close", "err"}
  BY DEF NInv, Typed, ThreadTyped
<1>3. opened' = opened
  BY <1>1, <1>2 DEF Report
<1>4. ev' \in Seq(Batched)
  BY <1>1, ClearedTyped DEF NInv, Typed, ThreadTyped
<1>5. spc' \in {"poll", "wait", "event"} /\ (spc' = "event" => ev' # <<>>)
  BY <1>1 DEF Loop
<1>6. ThreadTyped' /\ NetTyped' /\ spc' # "force"
  BY <1>1, <1>4, <1>5 DEF NInv, Typed, ThreadTyped, NetTyped
<1>7. Socket(sock[k]) /\ Alive(sock[k]) /\ send_buffer_empty(sock[k])
  BY <1>1, <1>2 DEF NInv, Typed, SlotsTyped, Forced
<1>8. Kept(sock[k], r)
  BY <1>1, <1>7 DEF Kept, Closed, Socket, Fields, Alive, Waits, Empty, send_buffer_empty, Type
<1> HIDE DEF k, r
<1> QED BY <1>1, <1>2, <1>3, <1>6, <1>8, Changed DEF Pop, TakesW

LEMMA WaitKeeps == ASSUME NInv, sp_wait PROVE NInv'
<1>1. /\ sock' = sock /\ opened' = opened /\ call' = call /\ alloc_id' = alloc_id
      /\ pipe' = pipe /\ closing' = closing /\ net' = net
      /\ ev' \in SetToSeqs({Event(k) : k \in Ready})
      /\ (ev' # <<>> /\ spc' = "event") \/ spc' = "poll"
  BY DEF sp_wait, told
<1> DEFINE E == {Event(k) : k \in Ready}
<1>2. \A k \in Slot : Event(k) \in Batched
  <2> TAKE k \in Slot
  <2>1. net[sock[k].id].err \in BOOLEAN
    BY DEF NInv, Typed, SlotsTyped, Socket, NetTyped, Connection
  <2> QED BY <2>1 DEF Event, Batched
<1>3. E \subseteq Batched
  BY <1>2 DEF Ready
<1>4. IsFiniteSet(E) /\ Cardinality(E) \in Nat
  <2>1. IsFiniteSet(Slot)
    BY SocketAssumption, FS_Interval DEF Slot
  <2>2. IsFiniteSet(Ready)
    BY <2>1, FS_Subset DEF Ready
  <2>3. [k \in Ready |-> Event(k)] \in Surjection(Ready, E)
    BY DEF Surjection
  <2>4. IsFiniteSet(E)
    BY <2>2, <2>3, FS_Surjection
  <2> QED BY <2>4, FS_CardinalityType
<1>5. ev' \in [1..Cardinality(E) -> E]
  BY <1>1 DEF SetToSeqs
<1> HIDE DEF E
<1>6. ev' \in Seq(Batched)
  BY <1>3, <1>4, <1>5
<1>7. ThreadTyped' /\ NetTyped' /\ spc' # "force"
  BY <1>1, <1>6 DEF NInv, Typed, ThreadTyped, NetTyped
<1> QED BY <1>1, <1>7, Unchanged DEF Pop, TakesW

\* The first event of the batch ends with new contents of its slot.
LEMMA EventHandled ==
  ASSUME NInv, NEW types, OnEvent(types), NEW r, NEW what, NEW i, NEW rest \in Seq(Batched),
         Handled(r, what, i, rest), Kept(sock[Head(ev).k], r), NetTyped', alloc_id' = alloc_id,
         what # "accept", what = "open" => Alive(sock[Head(ev).k]) /\ i = sock[Head(ev).k].id
  PROVE  NInv'
<1> DEFINE k == Head(ev).k
<1>1. k \in Slot
  BY FirstEvent DEF OnEvent
<1>2. /\ ThreadTyped' /\ spc' # "force" /\ sock' = [sock EXCEPT ![k] = r]
      /\ opened' = opened \/ (Alive(sock[k]) /\ opened' = opened \cup {sock[k].id})
  BY HandledThread
<1>3. call' = call /\ Pop /\ ~ TakesW
  BY DEF OnEvent, Pop, TakesW
<1> HIDE DEF k
<1> QED BY <1>1, <1>2, <1>3, Changed DEF k

\* What a handler of an event can rely on
LEMMA EventFacts ==
  ASSUME NInv, NEW types, OnEvent(types)
  PROVE  /\ Head(ev).k \in Slot /\ Socket(sock[Head(ev).k])
         /\ Kept(sock[Head(ev).k], sock[Head(ev).k])
         /\ sock[Head(ev).k].id \in 0..MaxId /\ NetTyped
         /\ Tail(ev) \in Seq(Batched) /\ Again \in Seq(Batched) /\ ev \in Seq(Batched)
         /\ call' = call /\ Pop /\ ~ TakesW /\ spc = "event"
<1>1. spc = "event" /\ Head(ev).k \in Slot
  BY FirstEvent DEF OnEvent
<1>2. Kept(sock[Head(ev).k], sock[Head(ev).k])
  BY <1>1, SameKept
<1>3. Socket(sock[Head(ev).k]) /\ sock[Head(ev).k].id \in 0..MaxId /\ NetTyped
  BY <1>1 DEF NInv, Typed, SlotsTyped, Socket
<1>4. call' = call /\ Pop /\ ~ TakesW
  BY DEF OnEvent, Pop, TakesW
<1> QED BY <1>1, <1>2, <1>3, <1>4, FirstEvent, AgainTyped

\* The kernel's state of a connection changes in its fields only.
LEMMA NetChanged ==
  ASSUME NetTyped, NEW i \in 0..MaxId,
         \/ net' = net
         \/ net' = [net EXCEPT ![i].err = FALSE]
         \/ \E n : net' = [net EXCEPT ![i].avail = n]
         \/ \E n : net' = [net EXCEPT ![i].fin = n]
  PROVE  NetTyped'
<1>1. CASE net' = net
  BY <1>1 DEF NetTyped
<1>2. CASE net' = [net EXCEPT ![i].err = FALSE]
  BY <1>2 DEF NetTyped, Connection
<1>3. CASE \E n : net' = [net EXCEPT ![i].avail = n]
  <2>1. PICK n : net' = [net EXCEPT ![i].avail = n]
    BY <1>3
  <2> QED BY <2>1 DEF NetTyped, Connection
<1>4. CASE \E n : net' = [net EXCEPT ![i].fin = n]
  <2>1. PICK n : net' = [net EXCEPT ![i].fin = n]
    BY <1>4
  <2> QED BY <2>1 DEF NetTyped, Connection
<1> QED BY <1>1, <1>2, <1>3, <1>4

LEMMA ReportConnectKeeps == ASSUME NInv, report_connect PROVE NInv'
<1> DEFINE k == Head(ev).k
           s == sock[k]
<1>1. OnEvent({"CONNECTING"}) /\ s.type = "CONNECTING" /\ alloc_id' = alloc_id
  BY DEF report_connect, OnEvent
<1>2. /\ k \in Slot /\ Socket(s) /\ s.id \in 0..MaxId /\ NetTyped
      /\ Tail(ev) \in Seq(Batched) /\ call' = call /\ Pop /\ ~ TakesW
  BY <1>1, EventFacts
<1>3. CASE net[s.id].err
  <2>1. StartForce(k, "err", FALSE, Tail(ev)) /\ net' = [net EXCEPT ![s.id].err = FALSE]
    BY <1>3 DEF report_connect
  <2>2. NetTyped'
    BY <1>2, <2>1, NetChanged
  <2> QED BY <1>1, <1>2, <2>1, <2>2, StartForceKeeps
<1>4. CASE ~ net[s.id].err
  <2> DEFINE w == s.writing /\ ~ nomore_sending_data(s)
             r == [s EXCEPT !.type = "CONNECTED", !.writing = w]
  <2>1. Handled(r, "open", s.id, Tail(ev)) /\ net' = net
    BY <1>4 DEF report_connect
  <2>2. w \in BOOLEAN /\ (s.writing /\ Waits(s) => w)
    BY <1>1 DEF nomore_sending_data, Waits, send_buffer_empty
  <2>3. Alive(s)
    BY <1>1 DEF Alive
  <2> HIDE DEF w
  <2>4. Kept(s, r)
    BY <1>1, <1>2, <2>2, <2>3 DEF Kept, Socket, Fields, Alive, Waits, Empty, send_buffer_empty, Type
  <2>5. NetTyped'
    BY <1>2, <2>1, NetChanged
  <2> HIDE DEF r
  <2> QED BY <1>1, <1>2, <2>1, <2>3, <2>4, <2>5, EventHandled
<1> QED BY <1>3, <1>4

\* A slot that is free becomes a new socket.
LEMMA AcceptedKeeps ==
  ASSUME NInv, NEW j \in Id, Reservable(j), alloc_id' = j, call' = call, pipe' = pipe,
         sock' = [sock EXCEPT ![HASH_ID(j)] = new_fd(@, j, "PACCEPT")],
         opened' = opened \cup {j}, ThreadTyped', NetTyped', spc' # "force"
  PROVE  NInv'
<1> DEFINE k == HASH_ID(j)
           r == new_fd(sock[k], j, "PACCEPT")
<1> USE DEF NInv
<1>1. /\ j \in Nat /\ j \in 0..MaxId /\ alloc_id \in Nat /\ j > alloc_id
      /\ k \in Slot /\ sock[k].type = "INVALID"
  BY SocketAssumption, HashInSlot DEF Id, Typed, Reservable
<1>2. Socket(sock[k]) /\ Empty(sock[k])
  BY <1>1 DEF Typed, SlotsTyped, Clean, Alive
<1>3. /\ Socket(r) /\ r.type = "PACCEPT" /\ r.id = j /\ r.seen = j /\ r.lock = sock[k].lock /\ Empty(r)
  BY <1>1, <1>2 DEF new_fd, Socket, Fields, Empty, Type
<1> HIDE DEF r
<1>4. /\ DOMAIN sock' = Slot /\ sock'[k] = r
      /\ \A n \in Slot \ {k} : sock'[n] = sock[n]
  BY <1>1 DEF Typed, SlotsTyped, r
<1>5. SlotsTyped' /\ Clean'
  BY <1>3, <1>4 DEF Typed, SlotsTyped, Clean, Alive, Empty
<1>6. Homed'
  BY <1>1, <1>3, <1>4 DEF Homed, Typed, SlotsTyped, Socket
<1>7. \A i \in Id : Claimed(i)' <=> Claimed(i)
  <2>1. \A i \in Id : HASH_ID(i) \in Slot
    BY HashInSlot DEF Id
  <2> QED BY <1>1, <1>3, <1>4, <2>1 DEF Claimed
<1>8. ~ Claimed(j)
  BY <1>1 DEF Claimed
<1>9. Claims' /\ Known'
  <2>1. Pop /\ alloc_id' \in Nat /\ alloc_id' >= alloc_id /\ j \in 1..alloc_id'
    BY <1>1 DEF Pop, Id
  <2> QED BY <1>7, <1>8, <2>1, ClaimsKept
<1>10. Locks'
  <2>1. \A t \in Caller : HASH_ID(call[t].id) \in Slot
    BY Ids DEF Typed, InCall
  <2>2. \A t \in Caller : At(t, "write") => HASH_ID(call[t].id) # k
    BY <1>1 DEF Locks, Alive
  <2>3. \A n \in Slot : sock'[n].lock = sock[n].lock
    BY <1>3, <1>4
  <2> QED BY <1>4, <2>1, <2>2, <2>3 DEF Locks, At, Alive
<1>11. Served'
  <2> SUFFICES ASSUME NEW n \in Slot, Waits(sock'[n]), ~ sock'[n].writing,
                      NEW i, i = sock'[n].id
               PROVE  Woken(i)'
    BY DEF Served, Waits, Alive, send_buffer_empty, Woken, At
  <2>1. n # k
    BY <1>3, <1>4 DEF Waits, Empty, send_buffer_empty
  <2>2. Woken(i)
    BY <1>4, <2>1 DEF Served
  <2> QED BY <2>2 DEF Woken, At
<1>12. Typed'
  BY <1>1, <1>5 DEF Typed
<1>13. Forced'
  BY DEF Forced
<1> QED BY <1>5, <1>6, <1>9, <1>10, <1>11, <1>12, <1>13

\* Nothing waits in the lists of a free slot, nor of a reserved one.
LEMMA FreeEmpty ==
  ASSUME NInv, NEW j \in Id, Reservable(j) PROVE send_buffer_empty(sock[HASH_ID(j)])
  BY HashInSlot DEF NInv, Clean, Empty, Alive, Reservable, send_buffer_empty, Id

LEMMA ReservedEmpty ==
  ASSUME NInv, NEW k \in Slot, sock[k].type = "RESERVE" PROVE send_buffer_empty(DwFirst(sock[k]))
<1>1. Socket(sock[k]) /\ Empty(sock[k])
  BY DEF NInv, Typed, SlotsTyped, Clean, Alive
<1> QED BY <1>1 DEF Empty, DwFirst, Socket, Fields, send_buffer_empty

LEMMA ReportAcceptKeeps == ASSUME NInv, report_accept PROVE NInv'
<1> DEFINE k == Head(ev).k
           i == sock[k].id
<1>1. OnEvent({"LISTEN"})
  BY DEF report_accept
<1>2. /\ k \in Slot /\ i \in 0..MaxId /\ NetTyped /\ Kept(sock[k], sock[k])
      /\ Tail(ev) \in Seq(Batched) /\ call' = call
  BY <1>1, EventFacts
<1>3. NetTyped'
  <2>1. net' = [net EXCEPT ![i].avail = IF net[i].avail = 0 THEN 0 ELSE net[i].avail - 1]
    BY DEF report_accept
  <2> QED BY <1>2, <2>1, NetChanged
<1>4. CASE Handled(sock[k], "none", i, Tail(ev)) /\ alloc_id' = alloc_id
  BY <1>1, <1>2, <1>3, <1>4, EventHandled
<1>5. ASSUME NEW j \in Id, Reservable(j), alloc_id' = j, Report("accept", j),
             sock' = [sock EXCEPT ![HASH_ID(j)] = new_fd(@, j, "PACCEPT")],
             ev' = Tail(ev), Loop(Tail(ev)), closing' = closing
      PROVE  NInv'
  <2>1. opened' = opened \cup {j} /\ pipe' = pipe
    BY <1>1, <1>5 DEF Report, OnEvent
  <2>2. ThreadTyped' /\ spc' # "force"
    BY <1>2, <1>5 DEF NInv, Typed, ThreadTyped, Loop
  <2> QED BY <1>2, <1>3, <1>5, <2>1, <2>2, AcceptedKeeps
<1>6. ASSUME NEW j \in Id, Reservable(j) PROVE send_buffer_empty(sock[HASH_ID(j)])
  BY <1>6, FreeEmpty
<1> QED BY <1>4, <1>5, <1>6 DEF report_accept

LEMMA NullEventKeeps == ASSUME NInv, null_event PROVE NInv'
<1>1. /\ sock' = sock /\ opened' = opened /\ call' = call /\ alloc_id' = alloc_id
      /\ pipe' = pipe /\ closing' = closing /\ net' = net
      /\ ev' = Tail(ev) /\ Loop(Tail(ev)) /\ spc = "event"
  BY DEF null_event, told
<1>2. Tail(ev) \in Seq(Batched)
  BY <1>1, FirstEvent
<1>3. ThreadTyped' /\ NetTyped' /\ spc' # "force"
  BY <1>1, <1>2 DEF NInv, Typed, ThreadTyped, NetTyped, Loop
<1> QED BY <1>1, <1>3, Unchanged DEF Pop, TakesW

LEMMA StaleEventKeeps == ASSUME NInv, stale_event PROVE NInv'
<1>1. /\ OnEvent({"INVALID"}) /\ alloc_id' = alloc_id /\ net' = net
      /\ Handled(sock[Head(ev).k], "none", sock[Head(ev).k].id, Tail(ev))
  BY DEF stale_event
<1>2. NetTyped'
  BY <1>1 DEF NInv, Typed, NetTyped
<1> QED BY <1>1, <1>2, EventFacts, EventHandled

LEMMA ForwardKeeps == ASSUME NInv, forward_message_tcp PROVE NInv'
<1> DEFINE k == Head(ev).k
           s == sock[k]
           i == s.id
           n == net[i]
<1>1. OnEvent(Open_) /\ alloc_id' = alloc_id /\ s.type \in Open_
  BY DEF forward_message_tcp, OnEvent
<1>2. /\ k \in Slot /\ Socket(s) /\ i \in 0..MaxId /\ NetTyped /\ Kept(s, s)
      /\ Tail(ev) \in Seq(Batched) /\ Again \in Seq(Batched) /\ ev \in Seq(Batched)
      /\ call' = call /\ Pop /\ ~ TakesW
  BY <1>1, EventFacts
<1>3. s.type # "INVALID"
  BY <1>1 DEF Open_
<1>4. CASE Abort /\ net' = net
  <2>1. NetTyped'
    BY <1>2, <1>4, NetChanged
  <2> QED BY <1>1, <1>2, <1>4, <2>1, AbortKeeps
<1>5. ASSUME NEW what \in {"none", "err", "data", "close"}, NEW rest \in Seq(Batched),
             Handled(s, what, i, rest),
             \/ net' = net
             \/ net' = [net EXCEPT ![i].err = FALSE]
             \/ \E a : net' = [net EXCEPT ![i].avail = a]
      PROVE  NInv'
  <2>1. NetTyped'
    BY <1>2, <1>5, NetChanged
  <2> QED BY <1>1, <1>2, <1>5, <2>1, EventHandled
<1>6. ASSUME Handled(close_read(s), "close", i, Tail(ev)), net' = net,
             s.type \notin {"RESERVE", "HALFCLOSE_READ", "HALFCLOSE_WRITE"}
      PROVE  NInv'
  <2>1. NetTyped'
    BY <1>2, <1>6, NetChanged
  <2>2. Kept(s, close_read(s))
    BY <1>2, <1>3, <1>6
       DEF Kept, Socket, Fields, Alive, Waits, Empty, send_buffer_empty, close_read, Type
  <2> QED BY <1>1, <1>2, <1>6, <2>1, <2>2, EventHandled
<1>7. ASSUME NEW what \in {"none", "close"}, NEW rest \in Seq(Batched),
             StartForce(k, what, FALSE, rest), net' = net
      PROVE  NInv'
  <2>1. NetTyped'
    BY <1>2, <1>7, NetChanged
  <2> QED BY <1>1, <1>2, <1>3, <1>7, <2>1, StartForceKeeps
<1>8. CASE s.type = "RESERVE"
  BY <1>4, <1>8 DEF forward_message_tcp
<1>9. CASE s.type # "RESERVE" /\ n.err
  <2>1. Handled(s, "err", i, Tail(ev)) /\ net' = [net EXCEPT ![i].err = FALSE]
    BY <1>9 DEF forward_message_tcp
  <2> QED BY <1>2, <1>5, <2>1
<1>10. CASE s.type # "RESERVE" /\ ~ n.err /\ n.avail > 0 /\ n.avail # 0
  <2>1. /\ \E rest \in {Again, ev} :
             Handled(s, "none", i, rest) \/ Handled(s, "data", i, rest)
        /\ net' = [net EXCEPT ![i].avail = net[i].avail - 1]
    BY <1>10 DEF forward_message_tcp
  <2>2. PICK rest \in {Again, ev} : Handled(s, "none", i, rest) \/ Handled(s, "data", i, rest)
    BY <2>1
  <2>3. rest \in Seq(Batched)
    BY <1>2
  <2> QED BY <1>5, <2>1, <2>2, <2>3
<1>11. CASE s.type # "RESERVE" /\ ~ n.err /\ n.avail = 0
  <2>0. ~ (n.avail > 0)
    BY <1>11
  <2>1. /\ net' = net
        /\ \/ StartForce(k, "none", FALSE, Again)
           \/ StartForce(k, "close", FALSE, Tail(ev))
           \/ Handled(close_read(s), "close", i, Tail(ev))
              /\ s.type \notin {"HALFCLOSE_READ", "HALFCLOSE_WRITE"}
           \/ Handled(s, "none", i, Again)
    <3>1. CASE n.fin \/ n.rst
      <4>1. /\ net' = net
            /\ CASE s.closing /\ nomore_sending_data(s) -> StartForce(k, "none", FALSE, Again)
                 [] ~ s.closing /\ s.type = "HALFCLOSE_WRITE" ->
                      StartForce(k, "close", FALSE, Tail(ev))
                 [] ~ s.closing /\ s.type \notin {"HALFCLOSE_READ", "HALFCLOSE_WRITE"} ->
                      Handled(close_read(s), "close", i, Tail(ev)) /\ UNCHANGED <<wire, freed>>
                 [] OTHER -> Handled(s, "none", i, Again) /\ UNCHANGED <<wire, freed>>
        BY <1>11, <2>0, <3>1, Zenon DEF forward_message_tcp
      <4>2. CASE s.closing /\ nomore_sending_data(s)
        BY <4>1, <4>2
      <4>3. CASE ~ s.closing /\ s.type = "HALFCLOSE_WRITE"
        BY <4>1, <4>3
      <4>4. CASE ~ s.closing /\ s.type \notin {"HALFCLOSE_READ", "HALFCLOSE_WRITE"}
        BY <4>1, <4>4
      <4>5. CASE /\ ~ (s.closing /\ nomore_sending_data(s))
                 /\ ~ (~ s.closing /\ s.type = "HALFCLOSE_WRITE")
                 /\ ~ (~ s.closing /\ s.type \notin {"HALFCLOSE_READ", "HALFCLOSE_WRITE"})
        BY <4>1, <4>5
      <4> QED BY <4>2, <4>3, <4>4, <4>5
    <3>2. CASE ~ n.fin /\ ~ n.rst
      BY <1>11, <2>0, <3>2, Zenon DEF forward_message_tcp
    <3> QED BY <3>1, <3>2
  <2> QED BY <1>2, <1>5, <1>6, <1>7, <1>11, <2>1
<1> QED BY <1>8, <1>9, <1>10, <1>11 DEF forward_message_tcp

LEMMA ErrorEventKeeps == ASSUME NInv, error_event PROVE NInv'
<1> DEFINE k == Head(ev).k
           s == sock[k]
<1>1. OnEvent(Open_) /\ alloc_id' = alloc_id /\ s.type # "INVALID"
  BY DEF error_event, OnEvent, Open_
<1>2. /\ k \in Slot /\ s.id \in 0..MaxId /\ NetTyped /\ Kept(s, s)
      /\ Tail(ev) \in Seq(Batched) /\ call' = call /\ Pop /\ ~ TakesW
  BY <1>1, EventFacts
<1>3. \/ Handled(s, "err", s.id, Tail(ev)) /\ net' = [net EXCEPT ![s.id].err = FALSE]
      \/ StartForce(k, CloseReport(s), FALSE, Tail(ev)) /\ net' = net
      \/ Handled(s, "none", s.id, Tail(ev)) /\ net' = net
  BY DEF error_event
<1>4. NetTyped'
  BY <1>2, <1>3, NetChanged
<1>5. CASE StartForce(k, CloseReport(s), FALSE, Tail(ev))
  <2>1. CloseReport(s) \in {"none", "close", "err"}
    BY DEF CloseReport
  <2> QED BY <1>1, <1>2, <1>4, <1>5, <2>1, StartForceKeeps
<1>6. CASE Handled(s, "err", s.id, Tail(ev)) \/ Handled(s, "none", s.id, Tail(ev))
  BY <1>1, <1>2, <1>4, <1>6, EventHandled
<1> QED BY <1>3, <1>5, <1>6

\* What is left after a write, and nothing is left of nothing
LEMMA SentKept ==
  ASSUME NEW s, Socket(s), Alive(s), s.lock = None,
         NEW m \in 0..Len(DwFirst(s).high) + Len(DwFirst(s).low)
  PROVE  /\ Kept(s, Sent(DwFirst(s), m)) /\ Sent(DwFirst(s), m).type = s.type
         /\ send_buffer_empty(Sent(DwFirst(s), m)) => Kept(s, Closed(Sent(DwFirst(s), m)))
<1> DEFINE d == DwFirst(s)
           h == IF m > Len(d.high) THEN Len(d.high) ELSE m
           rest == [d EXCEPT !.high = Without(@, h), !.low = Without(@, m - h), !.wb = @ - m]
           to == Sent(d, m)
<1>1. /\ DOMAIN d = Fields /\ d.type = s.type /\ d.id = s.id /\ d.seen = s.seen /\ d.lock = s.lock
      /\ d.dw = <<>> /\ d.writing = s.writing /\ d.low = s.low /\ d.high = s.dw \o s.high
  BY DEF DwFirst, Socket, Fields
<1>2. /\ DOMAIN rest = Fields /\ rest.type = s.type /\ rest.id = s.id /\ rest.seen = s.seen /\ rest.lock = s.lock
      /\ rest.dw = <<>> /\ rest.writing = s.writing
      /\ rest.high = Without(d.high, h) /\ rest.low = Without(d.low, m - h)
  BY <1>1 DEF Fields
<1>3. Empty(s) => rest.high = <<>> /\ rest.low = <<>>
  <2> SUFFICES ASSUME Empty(s) PROVE rest.high = <<>> /\ rest.low = <<>>
    OBVIOUS
  <2>1. d.high = <<>> /\ d.low = <<>> /\ m = 0
    BY <1>1 DEF Empty
  <2>2. h = 0 /\ Without(d.high, h) = <<>> /\ Without(d.low, m - h) = <<>>
    BY <2>1 DEF Without
  <2> QED BY <1>2, <2>2
<1> HIDE DEF rest, d
<1>4. /\ DOMAIN to = Fields /\ to.type = s.type /\ to.id = s.id /\ to.seen = s.seen /\ to.lock = s.lock
      /\ to.dw = <<>>
      /\ \/ (rest.high # <<>> \/ rest.low # <<>>) /\ to.writing = s.writing
         \/ to.writing = FALSE /\ to.high = <<>> /\ to.low = <<>>
  <2>1. to = IF rest.high # <<>> THEN rest
             ELSE IF rest.low # <<>> THEN Raised(rest)
             ELSE [rest EXCEPT !.writing = FALSE, !.warn = 0]
    BY DEF Sent, rest
  <2> HIDE DEF to
  <2>2. CASE rest.high # <<>>
    BY <1>2, <2>1, <2>2
  <2>3. CASE rest.high = <<>> /\ rest.low # <<>>
    BY <1>2, <2>1, <2>3 DEF Raised, Fields
  <2>4. CASE rest.high = <<>> /\ rest.low = <<>>
    BY <1>2, <2>1, <2>4 DEF Fields
  <2> QED BY <2>2, <2>3, <2>4
<1> HIDE DEF to
<1>5. Waits(to) => Waits(s) /\ to.writing = s.writing
  BY <1>3, <1>4 DEF Waits, Alive, send_buffer_empty, Empty
<1>6. Kept(s, to)
  BY <1>4, <1>5 DEF Kept, Socket, Alive
<1>7. send_buffer_empty(to) => Kept(s, Closed(to))
  BY <1>4 DEF Kept, Socket, Alive, Closed, Fields, Type, Empty, send_buffer_empty, Waits
<1> QED BY <1>4, <1>6, <1>7 DEF to, d

LEMMA CloseWriteKept ==
  ASSUME NEW s, Socket(s), Alive(s), s.lock = None
  PROVE  Kept(s, close_write(DwFirst(s)))
<1> DEFINE d == DwFirst(s)
<1>1. /\ DOMAIN d = Fields /\ d.type = s.type /\ d.id = s.id /\ d.seen = s.seen /\ d.lock = s.lock
      /\ d.dw = <<>> /\ d.writing = s.writing
  BY DEF DwFirst, Socket, Fields
<1> HIDE DEF d
<1>2. Kept(s, close_write(d))
  BY <1>1 DEF close_write, Kept, Socket, Alive, Closed, Fields, Type, Empty, send_buffer_empty, Waits
<1> QED BY <1>2 DEF d

LEMMA SendBufferKeeps == ASSUME NInv, send_buffer PROVE NInv'
<1> DEFINE k == Head(ev).k
           q == sock[k]
           i == q.id
           s == DwFirst(q)
<1>1. OnEvent(Open_) /\ alloc_id' = alloc_id /\ q.type \in Open_
  BY DEF send_buffer, OnEvent
<1>2. /\ k \in Slot /\ Socket(q) /\ i \in 0..MaxId /\ NetTyped /\ Kept(q, q)
      /\ Tail(ev) \in Seq(Batched) /\ call' = call /\ Pop /\ ~ TakesW
  BY <1>1, EventFacts
<1>3. NetTyped'
  <2>1. net' = net \/ net' = [net EXCEPT ![i].err = FALSE]
    BY DEF send_buffer
  <2> QED BY <1>2, <2>1, NetChanged
<1>4. ASSUME NEW r, NEW what \in {"none", "err", "warning"}, Kept(q, r),
             Handled(r, what, i, Tail(ev))
      PROVE  NInv'
  BY <1>1, <1>2, <1>3, <1>4, EventHandled
<1>5. CASE q.type = "RESERVE"
  <2>0. send_buffer_empty(s)
    BY <1>2, <1>5, ReservedEmpty
  <2>1. Abort \/ Handled(q, "err", i, Tail(ev)) \/ Handled(q, "none", i, Tail(ev))
    BY <1>5, <2>0 DEF send_buffer
  <2> QED BY <1>1, <1>2, <1>3, <1>4, <2>1, AbortKeeps
<1>6. CASE q.type # "RESERVE" /\ ~ LockFree(q)
  <2>1. Handled(q, "none", i, Tail(ev))
    BY <1>6 DEF send_buffer
  <2> QED BY <1>2, <1>4, <2>1
<1>7. CASE q.type # "RESERVE" /\ LockFree(q)
  <2>1. Alive(q) /\ q.lock = None
    BY <1>1, <1>7 DEF Alive, Open_, LockFree
  <2>2. CASE net[i].rst /\ ~ send_buffer_empty(s)
    <3>1. \E what \in {"none", "err"} : Handled(close_write(s), what, i, Tail(ev))
      BY <1>7, <2>2 DEF send_buffer
    <3>2. Kept(q, close_write(s))
      BY <1>2, <2>1, CloseWriteKept
    <3> QED BY <1>4, <3>1, <3>2
  <2>3. CASE ~ (net[i].rst /\ ~ send_buffer_empty(s))
    <3>1. \E m \in 0..Len(s.high) + Len(s.low), what \in {"none", "warning"} :
            Handled(IF send_buffer_empty(Sent(s, m)) /\ s.closing THEN Closed(Sent(s, m))
                    ELSE Sent(s, m), what, i, Tail(ev))
      BY <1>7, <2>3 DEF send_buffer
    <3>2. PICK m \in 0..Len(s.high) + Len(s.low), what \in {"none", "warning"} :
            Handled(IF send_buffer_empty(Sent(s, m)) /\ s.closing THEN Closed(Sent(s, m))
                    ELSE Sent(s, m), what, i, Tail(ev))
      BY <3>1
    <3>3. Kept(q, IF send_buffer_empty(Sent(s, m)) /\ s.closing THEN Closed(Sent(s, m))
                  ELSE Sent(s, m))
      BY <1>2, <2>1, SentKept
    <3> QED BY <1>4, <3>2, <3>3
  <2> QED BY <2>2, <2>3
<1> QED BY <1>5, <1>6, <1>7

LEMMA SocketThreadKeeps == ASSUME NInv, SocketThread, ~ clobbered' PROVE NInv'
  BY ForceCloseKeeps, CloseSocketKeeps, ResumeSocketKeeps, PauseSocketKeeps, TriggerWriteKeeps,
     OpenSocketKeeps, SendSocketKeeps, NoCmdKeeps, WaitKeeps, ReportConnectKeeps,
     ReportAcceptKeeps, NullEventKeeps, StaleEventKeeps, ForwardKeeps, SendBufferKeeps,
     ErrorEventKeeps
     DEF SocketThread

-----------------------------------------------------------------------------
(* The kernel, the peers, and steps of nobody                              *)

LEMMA KernelKeeps ==
  ASSUME NInv, UNCHANGED <<server, call, opened>>, NetTyped'
  PROVE  NInv'
<1>1. /\ sock' = sock /\ alloc_id' = alloc_id /\ pipe' = pipe /\ spc' = spc /\ closing' = closing
      /\ ev' = ev /\ call' = call /\ opened' = opened
  BY DEF server, thread
<1>2. SlotsTyped' /\ Clean' /\ Homed' /\ Claims' /\ Known' /\ Locks' /\ Served'
  BY <1>1, NoChange DEF Pop, TakesW
<1>3. ThreadTyped'
  BY <1>1 DEF NInv, Typed, ThreadTyped
<1>4. Typed'
  BY <1>1, <1>2, <1>3 DEF NInv, Typed
<1>5. Forced'
  BY <1>1 DEF NInv, Forced
<1> QED BY <1>2, <1>4, <1>5 DEF NInv

LEMMA ConnectedKeeps == ASSUME NInv, NEW i \in Id, Connected(i) PROVE NInv'
<1>1. PICK ok \in BOOLEAN :
        net' = [net EXCEPT ![i] = [@ EXCEPT !.pending = FALSE, !.rst = ~ ok, !.err = ~ ok]]
  BY DEF Connected
<1>2. i \in 0..MaxId /\ NetTyped
  BY SocketAssumption DEF Id, NInv, Typed
<1>3. NetTyped'
  BY <1>1, <1>2 DEF NetTyped, Connection
<1>4. UNCHANGED <<server, call, opened>>
  BY DEF Connected, told
<1> QED BY <1>3, <1>4, KernelKeeps

LEMMA PeerKeeps == ASSUME NInv, NEW i \in Id, Peer(i) PROVE NInv'
<1>1. i \in 0..MaxId /\ NetTyped
  BY SocketAssumption DEF Id, NInv, Typed
<1>2. \/ net' = [net EXCEPT ![i].avail = 1]
      \/ net' = [net EXCEPT ![i].fin = TRUE]
      \/ net' = [net EXCEPT ![i] = [@ EXCEPT !.rst = TRUE, !.err = TRUE, !.avail = 0]]
  BY DEF Peer
<1>3. ASSUME net' = [net EXCEPT ![i] = [@ EXCEPT !.rst = TRUE, !.err = TRUE, !.avail = 0]]
      PROVE  NetTyped'
  <2> DEFINE n == [net[i] EXCEPT !.rst = TRUE, !.err = TRUE, !.avail = 0]
  <2>1. Connection(n)
    BY <1>1 DEF NetTyped, Connection
  <2>2. net' = [net EXCEPT ![i] = n]
    BY <1>3
  <2> HIDE DEF n
  <2> QED BY <1>1, <2>1, <2>2 DEF NetTyped, Connection
<1>4. NetTyped'
  <2>1. ASSUME net' = [net EXCEPT ![i].avail = 1] PROVE NetTyped'
    BY <1>1, <2>1, NetChanged
  <2>2. ASSUME net' = [net EXCEPT ![i].fin = TRUE] PROVE NetTyped'
    BY <1>1, <2>2, NetChanged
  <2> QED BY <1>2, <1>3, <2>1, <2>2
<1>5. UNCHANGED <<server, call, opened>>
  BY DEF Peer, told
<1> QED BY <1>4, <1>5, KernelKeeps

-----------------------------------------------------------------------------
(* The callers                                                             *)

\* A slot whose socket and lists are as they were
Alike(s, r) ==
  /\ Socket(r) /\ r.type = s.type /\ r.id = s.id /\ (Alive(s) => r.seen = s.seen)
  /\ r.high = s.high /\ r.low = s.low /\ r.writing = s.writing

LEMMA AlikeSlots ==
  ASSUME NInv, DOMAIN sock' = Slot, alloc_id' = alloc_id, UNCHANGED <<thread, net>>,
         \A k \in Slot : /\ Alike(sock[k], sock'[k])
                         /\ sock'[k].dw = sock[k].dw \/ Alive(sock[k])
  PROVE  /\ SlotsTyped' /\ NetTyped' /\ ThreadTyped' /\ Clean' /\ Homed' /\ Forced'
         /\ \A i \in Id : Claimed(i)' <=> Claimed(i)
<1> USE DEF NInv
<1>1. spc' = spc /\ closing' = closing /\ ev' = ev /\ net' = net
  BY DEF thread
<1>2. SlotsTyped' /\ NetTyped' /\ ThreadTyped'
  BY <1>1 DEF Typed, SlotsTyped, NetTyped, ThreadTyped, Alike
<1>3. Clean'
  BY DEF Clean, Alike, Alive, Empty
<1>4. Homed'
  BY DEF Homed, Alike, Alive
<1>5. Forced'
  <2>1. closing.k \in Slot
    BY DEF Typed, ThreadTyped
  <2> QED BY <1>1, <2>1 DEF Forced, Alike, Alive, send_buffer_empty
<1>6. \A i \in Id : Claimed(i)' <=> Claimed(i)
  <2>1. \A i \in Id : HASH_ID(i) \in Slot
    BY HashInSlot DEF Id
  <2> QED BY <2>1 DEF Claimed, Alike
<1> QED BY <1>2, <1>3, <1>4, <1>5, <1>6

\* A caller moves on in its call.
LEMMA Moves ==
  ASSUME NInv, NEW t \in Caller, NEW c \in InCall, call' = [call EXCEPT ![t] = c],
         ~ At(t, "reserved"), ~ At(t, "wake"), c.pc # "reserved",
         c.pc # "idle" => c.id \in opened /\ c.cmd \in {"D", "P"},
         alloc_id' = alloc_id, pipe' = pipe, opened' = opened, UNCHANGED <<thread, net>>,
         DOMAIN sock' = Slot,
         \A k \in Slot :
           /\ Alike(sock[k], sock'[k])
           /\ sock'[k].dw = sock[k].dw \/ (Alive(sock[k]) /\ c.pc = "wake" /\ c.id = sock[k].id),
         Locks'
  PROVE  NInv'
<1> USE DEF NInv
<1>1. /\ SlotsTyped' /\ NetTyped' /\ ThreadTyped' /\ Clean' /\ Homed' /\ Forced'
      /\ \A i \in Id : Claimed(i)' <=> Claimed(i)
  BY AlikeSlots
<1>2. /\ call' \in [Caller -> InCall] /\ call'[t] = c
      /\ \A u \in Caller \ {t} : call'[u] = call[u]
  BY DEF Typed
<1>3. Typed'
  BY <1>1, <1>2 DEF Typed
<1>4. \A u \in Caller :
        call'[u].pc = "reserved" => u # t /\ call[u].pc = "reserved" /\ call'[u] = call[u]
  BY <1>2
<1>5. \A u \in Caller : call[u].pc = "reserved" => call[u].id \in Id
  BY SocketAssumption DEF Known, Typed, Id, At
<1>6. \A x \in 1..Len(pipe) : pipe[x].id \in Id
  <2>1. \A x \in 1..Len(pipe) : pipe[x] \in Entry
    BY DEF Typed
  <2> QED BY <2>1 DEF Entry
<1>7. Claims'
  <2>1. \A u \in Caller : At(u, "reserved")' => call'[u].cmd \in Opening /\ Claimed(call[u].id)'
    BY <1>1, <1>4, <1>5 DEF Claims, At
  <2>2. \A x \in 1..Len(pipe') : pipe'[x].cmd \in Opening => Claimed(pipe[x].id)'
    BY <1>1, <1>6 DEF Claims
  <2> QED BY <1>4, <2>1, <2>2 DEF Claims, At
<1>8. Known'
  <2>1. \A i \in opened' : i <= alloc_id' /\ ~ Claimed(i)'
    BY <1>1 DEF Known, Typed
  <2>2. \A u \in Caller : ~ At(u, "idle")' /\ ~ At(u, "reserved")' =>
          call'[u].id \in opened' /\ call'[u].cmd \in {"D", "P"}
    BY <1>2 DEF Known, At
  <2> QED BY <1>4, <2>1, <2>2 DEF Known, At
<1>9. Served'
  <2> SUFFICES ASSUME NEW j \in Slot, Waits(sock'[j]), ~ sock'[j].writing,
                      NEW i, i = sock'[j].id
               PROVE  Woken(i)'
    BY DEF Served, Waits, Alive, send_buffer_empty, Woken, At
  <2>1. CASE c.pc = "wake" /\ c.id = i
    BY <1>2, <2>1 DEF Woken, At
  <2>2. CASE ~ (c.pc = "wake" /\ c.id = i)
    <3>1. Waits(sock[j]) /\ ~ sock[j].writing /\ sock[j].id = i
      BY <2>2 DEF Waits, Alive, Alike, send_buffer_empty
    <3>2. Woken(i)
      BY <3>1 DEF Served
    <3>3. \A u \in Caller : call[u].pc = "wake" => call'[u] = call[u]
      BY <1>2 DEF At
    <3> QED BY <3>2, <3>3 DEF Woken, At
  <2> QED BY <2>1, <2>2
<1> QED BY <1>1, <1>3, <1>7, <1>8, <1>9

\* A caller posts a command and is done.
LEMMA Posts ==
  ASSUME NInv, NEW t \in Caller, NEW c \in Entry, pipe' = Append(pipe, c),
         call' \in [Caller -> InCall], call'[t].pc = "idle",
         \A u \in Caller \ {t} : call'[u] = call[u],
         \/ At(t, "reserved") /\ c.cmd \in Opening /\ c.id = call[t].id
         \/ ~ At(t, "reserved") /\ c.cmd \notin Opening /\ c.id \in opened,
         At(t, "wake") => c.cmd = "W" /\ c.id = call[t].id,
         alloc_id' = alloc_id, opened' = opened, UNCHANGED <<thread, net>>, DOMAIN sock' = Slot,
         \A k \in Slot : /\ Alike(sock[k], sock'[k])
                         /\ sock'[k].dw = sock[k].dw /\ sock'[k].lock = sock[k].lock
  PROVE  NInv'
<1> USE DEF NInv
<1>1. /\ SlotsTyped' /\ NetTyped' /\ ThreadTyped' /\ Clean' /\ Homed' /\ Forced'
      /\ \A i \in Id : Claimed(i)' <=> Claimed(i)
  BY AlikeSlots
<1>2. /\ pipe' \in Seq(Entry) /\ Len(pipe) \in Nat /\ Len(pipe') = Len(pipe) + 1
      /\ pipe'[Len(pipe) + 1] = c
      /\ \A x \in 1..Len(pipe) : pipe'[x] = pipe[x] /\ x \in 1..Len(pipe')
      /\ \A x \in 1..Len(pipe') : x \in 1..Len(pipe) \/ x = Len(pipe) + 1
      /\ Len(pipe) + 1 \in 1..Len(pipe')
  BY Posted
<1>3. Typed'
  BY <1>1, <1>2 DEF Typed
<1>4. \A u \in Caller : call'[u].pc # "idle" => u # t /\ call'[u] = call[u]
  OBVIOUS
<1>5. \A u \in Caller : call[u].pc = "reserved" => call[u].id \in Id
  BY SocketAssumption DEF Known, Typed, Id, At
<1>6. c.id \in Id /\ \A x \in 1..Len(pipe) : pipe[x].id \in Id
  <2>1. \A x \in 1..Len(pipe) : pipe[x] \in Entry
    BY DEF Typed
  <2> QED BY <2>1 DEF Entry
<1>7. Claims'
  <2>1. \A u \in Caller : At(u, "reserved")' => call'[u].cmd \in Opening /\ Claimed(call[u].id)'
    BY <1>1, <1>4, <1>5 DEF Claims, At
  <2>2. c.cmd \in Opening => Claimed(c.id)
    BY DEF Claims
  <2>3. \A x \in 1..Len(pipe') : pipe'[x].cmd \in Opening => Claimed(pipe'[x].id) /\ pipe'[x].id \in Id
    BY <1>2, <1>6, <2>2 DEF Claims
  <2>4. \A x \in 1..Len(pipe') : pipe'[x].cmd \in Opening => Claimed(pipe[x].id)'
    BY <1>1, <2>3 DEF Claimed
  <2>5. \A u, v \in Caller : At(u, "reserved")' /\ At(v, "reserved")' /\ call'[u].id = call'[v].id
                               => u = v
    BY <1>4 DEF Claims, At
  <2>6. \A u \in Caller, x \in 1..Len(pipe') :
          At(u, "reserved")' /\ pipe'[x].cmd \in Opening => call'[u].id # pipe'[x].id
    BY <1>2, <1>4 DEF Claims, At
  <2>7. \A x \in 1..Len(pipe) : c.cmd \in Opening /\ pipe[x].cmd \in Opening => pipe[x].id # c.id
    BY DEF Claims
  <2>8. \A x, y \in 1..Len(pipe') :
          pipe'[x].cmd \in Opening /\ pipe'[y].cmd \in Opening /\ pipe'[x].id = pipe'[y].id
            => x = y
    BY <1>2, <2>7 DEF Claims
  <2> QED BY <2>1, <2>4, <2>5, <2>6, <2>8 DEF Claims
<1>8. Known'
  <2>1. \A i \in opened' : i <= alloc_id' /\ ~ Claimed(i)'
    BY <1>1 DEF Known, Typed
  <2>2. \A u \in Caller : ~ At(u, "idle")' /\ ~ At(u, "reserved")' =>
          call'[u].id \in opened' /\ call'[u].cmd \in {"D", "P"}
    BY <1>4 DEF Known, At
  <2>3. \A x \in 1..Len(pipe') : pipe'[x].cmd \notin Opening => pipe'[x].id \in opened'
    BY <1>2 DEF Known
  <2>4. \A u \in Caller : At(u, "reserved")' => call'[u].id \in 1..alloc_id'
    BY <1>4 DEF Known, At
  <2> QED BY <2>1, <2>2, <2>3, <2>4 DEF Known
<1>9. Locks'
  <2>1. \A u \in Caller : HASH_ID(call'[u].id) \in Slot
    BY Ids DEF InCall
  <2> QED BY <1>4, <2>1 DEF Locks, At, Alike, Alive
<1>10. Served'
  <2> SUFFICES ASSUME NEW j \in Slot, Waits(sock'[j]), ~ sock'[j].writing,
                      NEW i, i = sock'[j].id
               PROVE  Woken(i)'
    BY DEF Served, Waits, Alive, send_buffer_empty, Woken, At
  <2>1. Waits(sock[j]) /\ ~ sock[j].writing /\ sock[j].id = i
    BY DEF Waits, Alive, Alike, send_buffer_empty
  <2>2. Woken(i)
    BY <2>1 DEF Served
  <2>3. CASE \E u \in Caller : At(u, "wake") /\ call[u].id = i
    BY <1>2, <2>3 DEF Woken, At
  <2>4. CASE \E x \in 1..Len(pipe) : pipe[x].cmd = "W" /\ pipe[x].id = i
    BY <1>2, <2>4 DEF Woken
  <2> QED BY <2>2, <2>3, <2>4 DEF Woken
<1> QED BY <1>1, <1>3, <1>7, <1>8, <1>9, <1>10

\* A caller changes only a lock that is free or its own.
LEMMA MoveLocks ==
  ASSUME NInv, NEW t \in Caller, NEW c \in InCall, call' = [call EXCEPT ![t] = c],
         \A k \in Slot : /\ Alike(sock[k], sock'[k])
                         /\ sock'[k].lock = sock[k].lock \/ sock[k].lock \in {t, None},
         c.pc \in {"check", "write"} => sock'[HASH_ID(c.id)].lock = t,
         c.pc = "write" => sock[HASH_ID(c.id)].id = c.id /\ Alive(sock[HASH_ID(c.id)])
  PROVE  Locks'
<1>1. call'[t] = c /\ \A u \in Caller \ {t} : call'[u] = call[u]
  BY DEF NInv, Typed
<1>2. \A u \in Caller : HASH_ID(call[u].id) \in Slot /\ u # None
  BY Ids, SocketAssumption DEF NInv, Typed, InCall
<1>3. HASH_ID(c.id) \in Slot
  BY Ids DEF InCall
<1>4. \A u \in Caller \ {t} :
        LET r == sock'[HASH_ID(call[u].id)]
        IN /\ call[u].pc \in {"check", "write"} => r.lock = u
           /\ call[u].pc = "write" => r.id = call[u].id /\ Alive(r)
  <2> TAKE u \in Caller \ {t}
  <2> DEFINE k == HASH_ID(call[u].id)
  <2>1. k \in Slot /\ u # None
    BY <1>2
  <2>2. /\ call[u].pc \in {"check", "write"} => sock[k].lock = u
        /\ call[u].pc = "write" => sock[k].id = call[u].id /\ Alive(sock[k])
    BY DEF NInv, Locks, At
  <2> HIDE DEF k
  <2>3. /\ call[u].pc \in {"check", "write"} => sock'[k].lock = u
        /\ call[u].pc = "write" => sock'[k].id = call[u].id /\ Alive(sock'[k])
    BY <2>1, <2>2 DEF Alike, Alive
  <2> QED BY <2>3 DEF k
<1>5. /\ c.pc \in {"check", "write"} => sock'[HASH_ID(c.id)].lock = t
      /\ c.pc = "write" => sock'[HASH_ID(c.id)].id = c.id /\ Alive(sock'[HASH_ID(c.id)])
  BY <1>3 DEF Alike, Alive
<1>6. \A u \in Caller :
        LET r == sock'[HASH_ID(call'[u].id)]
        IN /\ call'[u].pc \in {"check", "write"} => r.lock = u
           /\ call'[u].pc = "write" => r.id = call'[u].id /\ Alive(r)
  BY <1>1, <1>4, <1>5
<1> QED BY <1>6 DEF Locks, At, Alive

\* A caller in a send: its call and the slot it is about
LEMMA CallFacts ==
  ASSUME NInv, NEW t \in Caller, call[t].pc \notin {"idle", "reserved"}
  PROVE  /\ call[t] \in InCall /\ call[t].id \in opened /\ call[t].cmd \in {"D", "P"}
         /\ call[t].id \in Id /\ HASH_ID(call[t].id) \in Slot
         /\ \A l \in {"idle", "try", "lock", "check", "write", "wake", "inc", "post"} :
              [call[t] EXCEPT !.pc = l] \in InCall
<1>1. call[t] \in InCall /\ call[t].id \in opened /\ call[t].cmd \in {"D", "P"}
  BY DEF NInv, Typed, Known, At
<1>2. call[t].id \in Id /\ call[t].id \in Nat
  <2>1. opened \subseteq Id /\ Id \subseteq Nat
    BY DEF NInv, Typed, Id
  <2> QED BY <1>1, <2>1
<1>3. \A l \in {"idle", "try", "lock", "check", "write", "wake", "inc", "post"} :
        [call[t] EXCEPT !.pc = l] \in InCall
  BY <1>1 DEF InCall
<1> QED BY <1>1, <1>2, <1>3, HashInSlot

LEMMA SameAlike == ASSUME NInv, NEW k \in Slot PROVE Alike(sock[k], sock[k])
  BY DEF NInv, Typed, SlotsTyped, Alike

\* Steps of a call that leave the slots alone, or change the lock, the count or the
\* remainder of one
LEMMA CallSteps ==
  ASSUME NInv, NEW t \in Caller, call[t].pc \notin {"idle", "reserved", "wake"},
         NEW l \in {"idle", "try", "lock", "check", "write", "wake", "inc", "post"},
         call' = [call EXCEPT ![t].pc = l],
         alloc_id' = alloc_id, pipe' = pipe, opened' = opened, UNCHANGED <<thread, net>>,
         NEW k, k = HASH_ID(call[t].id), NEW r, sock' = [sock EXCEPT ![k] = r],
         Alike(sock[k], r), r.lock = sock[k].lock \/ sock[k].lock \in {t, None},
         r.dw = sock[k].dw \/ (Alive(sock[k]) /\ l = "wake" /\ call[t].id = sock[k].id),
         l \in {"check", "write"} => r.lock = t,
         l = "write" => sock[k].id = call[t].id /\ Alive(sock[k])
  PROVE  NInv'
<1> DEFINE c == [call[t] EXCEPT !.pc = l]
<1>1. /\ call[t] \in InCall /\ call[t].id \in opened /\ call[t].cmd \in {"D", "P"}
      /\ k \in Slot /\ c \in InCall
  BY CallFacts
<1>2. c.pc = l /\ c.id = call[t].id /\ c.cmd = call[t].cmd /\ call' = [call EXCEPT ![t] = c]
  BY <1>1 DEF InCall
<1> HIDE DEF c
<1>3. /\ DOMAIN sock' = Slot /\ sock'[k] = r
      /\ \A n \in Slot \ {k} : sock'[n] = sock[n]
  BY <1>1 DEF NInv, Typed, SlotsTyped
<1>4. \A n \in Slot :
        /\ Alike(sock[n], sock'[n])
        /\ sock'[n].lock = sock[n].lock \/ sock[n].lock \in {t, None}
        /\ sock'[n].dw = sock[n].dw \/ (Alive(sock[n]) /\ c.pc = "wake" /\ c.id = sock[n].id)
  <2> TAKE n \in Slot
  <2>1. CASE n = k
    BY <1>2, <1>3, <2>1
  <2>2. CASE n # k
    BY <1>3, <2>2, SameAlike
  <2> QED BY <2>1, <2>2
<1>5. Locks'
  <2>1. HASH_ID(c.id) = k
    BY <1>2
  <2>2. /\ c.pc \in {"check", "write"} => sock'[HASH_ID(c.id)].lock = t
        /\ c.pc = "write" => sock[HASH_ID(c.id)].id = c.id /\ Alive(sock[HASH_ID(c.id)])
    BY <1>2, <1>3, <2>1
  <2>3. \A n \in Slot : /\ Alike(sock[n], sock'[n])
                        /\ sock'[n].lock = sock[n].lock \/ sock[n].lock \in {t, None}
    BY <1>4
  <2> QED BY <1>1, <1>2, <2>2, <2>3, MoveLocks
<1>6. ~ At(t, "reserved") /\ ~ At(t, "wake") /\ c.pc # "reserved"
  BY <1>2 DEF At
<1> QED BY <1>1, <1>2, <1>3, <1>4, <1>5, <1>6, Moves

\* The same, with the slots as they were
LEMMA CallStays ==
  ASSUME NInv, NEW t \in Caller, NEW c \in InCall, call' = [call EXCEPT ![t] = c],
         ~ At(t, "reserved"), ~ At(t, "wake"), c.pc \notin {"reserved", "check", "write", "wake"},
         c.pc # "idle" => c.id \in opened /\ c.cmd \in {"D", "P"},
         alloc_id' = alloc_id, pipe' = pipe, opened' = opened, UNCHANGED <<thread, net>>,
         sock' = sock
  PROVE  NInv'
<1>1. DOMAIN sock' = Slot /\ \A k \in Slot : Alike(sock[k], sock'[k])
  BY SameAlike DEF NInv, Typed, SlotsTyped
<1>2. Locks'
  BY <1>1, MoveLocks
<1> QED BY <1>1, <1>2, Moves

\* A caller goes on to a part of its call without the lock.
LEMMA GoesOn ==
  ASSUME NInv, NEW t \in Caller, call[t].pc \notin {"idle", "reserved", "wake"},
         NEW l \in {"idle", "lock", "inc", "post"}, call' = [call EXCEPT ![t].pc = l],
         alloc_id' = alloc_id, pipe' = pipe, opened' = opened, UNCHANGED <<thread, net>>,
         sock' = sock
  PROVE  NInv'
<1> DEFINE c == [call[t] EXCEPT !.pc = l]
<1>1. call[t] \in InCall /\ call[t].id \in opened /\ call[t].cmd \in {"D", "P"} /\ c \in InCall
  BY CallFacts
<1>2. c.pc = l /\ c.id = call[t].id /\ c.cmd = call[t].cmd /\ call' = [call EXCEPT ![t] = c]
  BY <1>1 DEF InCall
<1> HIDE DEF c
<1>3. /\ ~ At(t, "reserved") /\ ~ At(t, "wake")
      /\ c.pc \notin {"reserved", "check", "write", "wake"}
  BY <1>2 DEF At
<1> QED BY <1>1, <1>2, <1>3, CallStays

LEMMA SendKeeps ==
  ASSUME NInv, Logged, NEW t \in Caller, NEW prio \in {"D", "P"}, Send(t, prio)
  PROVE  NInv'
<1>1. /\ call[t].pc = "idle" /\ sock' = sock /\ alloc_id' = alloc_id /\ pipe' = pipe
      /\ opened' = opened /\ UNCHANGED <<thread, net>>
  BY DEF Send, Begin, At, server, told
<1>2. CASE call' = call
  <2>1. NetTyped' /\ UNCHANGED <<server, call, opened>>
    BY <1>1, <1>2 DEF NInv, Typed, NetTyped, server
  <2> QED BY <2>1, KernelKeeps
<1>3. CASE \E i \in opened : call' = [call EXCEPT ![t] =
             [pc |-> IF prio = "D" THEN "try" ELSE "inc", id |-> i, cmd |-> prio, buf |-> sends + 1]]
  <2>1. PICK i \in opened : call' = [call EXCEPT ![t] =
             [pc |-> IF prio = "D" THEN "try" ELSE "inc", id |-> i, cmd |-> prio, buf |-> sends + 1]]
    BY <1>3
  <2> DEFINE c == [pc |-> IF prio = "D" THEN "try" ELSE "inc", id |-> i, cmd |-> prio,
                   buf |-> sends + 1]
  <2>2. i \in 0..MaxId
    BY SocketAssumption DEF NInv, Typed, Id
  <2>3. sends + 1 \in Nat
    BY DEF sends, Logged
  <2>4. c \in InCall
    BY <2>2, <2>3 DEF InCall, Cmds
  <2>5. /\ c.pc \notin {"reserved", "check", "write", "wake"}
        /\ c.id \in opened /\ c.cmd \in {"D", "P"}
    OBVIOUS
  <2>6. ~ At(t, "reserved") /\ ~ At(t, "wake")
    BY <1>1 DEF At
  <2> HIDE DEF c
  <2> QED BY <1>1, <2>1, <2>4, <2>5, <2>6, CallStays DEF c
<1> QED BY <1>2, <1>3 DEF Send

LEMMA FirstCheckKeeps == ASSUME NInv, NEW t \in Caller, FirstCheck(t) PROVE NInv'
<1>1. /\ call[t].pc = "try" /\ sock' = sock /\ alloc_id' = alloc_id /\ pipe' = pipe
      /\ opened' = opened /\ UNCHANGED <<thread, net>>
      /\ \E l \in {"lock", "inc"} : call' = [call EXCEPT ![t].pc = l]
  BY DEF FirstCheck, At, Goto, server, told
<1> QED BY <1>1, GoesOn

LEMMA TryLockKeeps == ASSUME NInv, NEW t \in Caller, TryLock(t) PROVE NInv'
<1> DEFINE k == HASH_ID(call[t].id)
           r == [sock[k] EXCEPT !.lock = t]
<1>1. /\ call[t].pc = "lock" /\ alloc_id' = alloc_id /\ pipe' = pipe
      /\ opened' = opened /\ UNCHANGED <<thread, net>>
  BY DEF TryLock, At, told
<1>2. CASE ~ LockFree(sock[k])
  <2>1. sock' = sock /\ call' = [call EXCEPT ![t].pc = "inc"]
    BY <1>2 DEF TryLock, Goto
  <2> QED BY <1>1, <2>1, GoesOn
<1>3. CASE LockFree(sock[k])
  <2>1. call' = [call EXCEPT ![t].pc = "check"] /\ sock' = [sock EXCEPT ![k] = r]
    BY <1>3 DEF TryLock, Goto
  <2>2. k \in Slot
    BY <1>1, CallFacts
  <2>3. Alike(sock[k], sock[k])
    BY <2>2, SameAlike
  <2>4. Alike(sock[k], r) /\ r.lock = t /\ r.dw = sock[k].dw /\ sock[k].lock = None
    BY <1>3, <2>3 DEF Alike, Socket, Fields, LockFree
  <2> HIDE DEF r
  <2> QED BY <1>1, <2>1, <2>4, CallSteps
<1> QED BY <1>2, <1>3

LEMMA CheckLockedKeeps == ASSUME NInv, NEW t \in Caller, CheckLocked(t) PROVE NInv'
<1> DEFINE k == HASH_ID(call[t].id)
           s == sock[k]
<1>1. /\ call[t].pc = "check" /\ alloc_id' = alloc_id /\ pipe' = pipe
      /\ opened' = opened /\ UNCHANGED <<thread, net>>
  BY DEF CheckLocked, At, told
<1>2. k \in Slot /\ s.lock = t
  BY <1>1, CallFacts DEF NInv, Locks, At
<1>3. Alike(s, s)
  BY <1>2, SameAlike
<1>4. CASE DoubleCheck(s, call[t].id)
  <2>1. call' = [call EXCEPT ![t].pc = "write"] /\ sock' = sock
    BY <1>4 DEF CheckLocked, Goto
  <2>2. s.id = call[t].id /\ Alive(s)
    BY <1>2, <1>4 DEF DoubleCheck, can_direct_write, Alive, NInv, Homed
  <2> DEFINE c == [call[t] EXCEPT !.pc = "write"]
  <2>3. call[t] \in InCall /\ call[t].id \in opened /\ call[t].cmd \in {"D", "P"} /\ c \in InCall
    BY <1>1, CallFacts
  <2>4. c.pc = "write" /\ c.id = call[t].id /\ c.cmd = call[t].cmd /\ call' = [call EXCEPT ![t] = c]
    BY <2>1, <2>3 DEF InCall
  <2> HIDE DEF c
  <2>5. DOMAIN sock' = Slot /\ \A n \in Slot : Alike(sock[n], sock'[n])
    BY <2>1, SameAlike DEF NInv, Typed, SlotsTyped
  <2>6. /\ c.pc \in {"check", "write"} => sock'[HASH_ID(c.id)].lock = t
        /\ c.pc = "write" => sock[HASH_ID(c.id)].id = c.id /\ Alive(sock[HASH_ID(c.id)])
    BY <1>2, <2>1, <2>2, <2>4
  <2>7. Locks'
    BY <2>1, <2>3, <2>4, <2>5, <2>6, MoveLocks
  <2>8. ~ At(t, "reserved") /\ ~ At(t, "wake") /\ c.pc # "reserved"
    BY <1>1, <2>4 DEF At
  <2> QED BY <1>1, <2>1, <2>3, <2>4, <2>5, <2>7, <2>8, Moves
<1>5. CASE ~ DoubleCheck(s, call[t].id)
  <2> DEFINE r == [s EXCEPT !.lock = None]
  <2>1. call' = [call EXCEPT ![t].pc = "inc"] /\ sock' = [sock EXCEPT ![k] = r]
    BY <1>5 DEF CheckLocked, Goto
  <2>2. Alike(s, r) /\ r.dw = s.dw
    BY <1>3 DEF Alike, Socket, Fields
  <2> HIDE DEF r
  <2> QED BY <1>1, <1>2, <2>1, <2>2, CallSteps
<1> QED BY <1>4, <1>5

LEMMA DirectWriteKeeps == ASSUME NInv, NEW t \in Caller, DirectWrite(t) PROVE NInv'
<1> DEFINE k == HASH_ID(call[t].id)
           s == sock[k]
<1>1. /\ call[t].pc = "write" /\ alloc_id' = alloc_id /\ pipe' = pipe
      /\ opened' = opened /\ UNCHANGED <<thread, net>>
  BY DEF DirectWrite, At, told
<1>2. k \in Slot /\ s.lock = t /\ s.id = call[t].id /\ Alive(s)
  BY <1>1, CallFacts DEF NInv, Locks, At
<1>3. Alike(s, s)
  BY <1>2, SameAlike
<1>4. PICK n \in 0..BufSize :
        /\ sock' = [sock EXCEPT ![k] = Written(@, call[t].buf, n)]
        /\ call' = [call EXCEPT ![t].pc = IF n = BufSize THEN "idle" ELSE "wake"]
  BY DEF DirectWrite, Goto
<1> DEFINE l == IF n = BufSize THEN "idle" ELSE "wake"
           r == Written(s, call[t].buf, n)
<1>5. /\ call' = [call EXCEPT ![t].pc = l] /\ sock' = [sock EXCEPT ![k] = r]
      /\ l \in {"idle", "wake"}
  BY <1>4
<1>6. Alike(s, r) /\ r.lock = None /\ (r.dw = s.dw \/ l = "wake")
  BY <1>3 DEF Alike, Socket, Fields, Written
<1> HIDE DEF r, l
<1> QED BY <1>1, <1>2, <1>5, <1>6, CallSteps

LEMMA IncKeeps == ASSUME NInv, NEW t \in Caller, inc_sending_ref(t) PROVE NInv'
<1> DEFINE k == HASH_ID(call[t].id)
           s == sock[k]
           r == [s EXCEPT !.sending = @ + 1]
<1>1. /\ call[t].pc = "inc" /\ alloc_id' = alloc_id /\ pipe' = pipe
      /\ opened' = opened /\ UNCHANGED <<thread, net>> /\ call' = [call EXCEPT ![t].pc = "post"]
  BY DEF inc_sending_ref, At, told, Goto
<1>4. sock' = sock \/ sock' = [sock EXCEPT ![k] = r]
  BY DEF inc_sending_ref
<1>2. CASE sock' = sock
  BY <1>1, <1>2, GoesOn
<1>3. CASE sock' = [sock EXCEPT ![k] = r]
  <2>1. k \in Slot
    BY <1>1, CallFacts
  <2>2. Alike(s, s)
    BY <2>1, SameAlike
  <2>3. Alike(s, r) /\ r.dw = s.dw /\ r.lock = s.lock
    BY <2>2 DEF Alike, Socket, Fields
  <2> HIDE DEF r
  <2> HIDE DEF k
  <2> QED BY <1>1, <1>3, <2>3, CallSteps DEF k
<1> QED BY <1>2, <1>3, <1>4

LEMMA CommandKeeps ==
  ASSUME NInv, NEW t \in Caller, NEW cmd \in {"K", "KS", "R", "S"}, Command(t, cmd)
  PROVE  NInv'
<1>1. /\ call[t].pc = "idle" /\ sock' = sock /\ alloc_id' = alloc_id /\ call' = call
      /\ opened' = opened /\ UNCHANGED <<thread, net>>
  BY DEF Command, Begin, At, told
<1>2. PICK i \in opened : pipe' = Append(pipe, [cmd |-> cmd, id |-> i, buf |-> 0])
  BY DEF Command, Post
<1> DEFINE c == [cmd |-> cmd, id |-> i, buf |-> 0]
<1>3. c \in Entry /\ c.cmd \notin Opening /\ c.id \in opened
  BY DEF NInv, Typed, Entry, Cmds, Opening
<1> HIDE DEF c
<1>4. call' \in [Caller -> InCall] /\ call'[t].pc = "idle" /\ ~ At(t, "reserved") /\ ~ At(t, "wake")
  BY <1>1 DEF NInv, Typed, At
<1>5. DOMAIN sock' = Slot /\ \A k \in Slot : Alike(sock[k], sock'[k])
  BY <1>1, SameAlike DEF NInv, Typed, SlotsTyped
<1> QED BY <1>1, <1>2, <1>3, <1>4, <1>5, Posts DEF c

\* A caller that has posted its command is idle again.
LEMMA IdleAgain ==
  ASSUME NInv, NEW t \in Caller, Goto(t, "idle")
  PROVE  /\ call' \in [Caller -> InCall] /\ call'[t].pc = "idle"
         /\ \A u \in Caller \ {t} : call'[u] = call[u]
<1>1. call \in [Caller -> InCall]
  BY DEF NInv, Typed
<1>2. [call[t] EXCEPT !.pc = "idle"] \in InCall
  BY <1>1 DEF InCall
<1> QED BY <1>1, <1>2 DEF Goto, InCall

LEMMA WakeKeeps == ASSUME NInv, NEW t \in Caller, Wake(t) PROVE NInv'
<1> DEFINE c == [cmd |-> "W", id |-> call[t].id, buf |-> 0]
<1>1. /\ call[t].pc = "wake" /\ sock' = sock /\ alloc_id' = alloc_id
      /\ opened' = opened /\ UNCHANGED <<thread, net>> /\ pipe' = Append(pipe, c)
  BY DEF Wake, At, told, Post
<1>2. call[t].id \in opened /\ call[t].id \in Id
  BY <1>1, CallFacts
<1>3. c \in Entry /\ c.cmd = "W" /\ c.cmd \notin Opening /\ c.id = call[t].id
  BY <1>2 DEF Entry, Cmds, Opening
<1> HIDE DEF c
<1>4. /\ call' \in [Caller -> InCall] /\ call'[t].pc = "idle" /\ ~ At(t, "reserved")
      /\ \A u \in Caller \ {t} : call'[u] = call[u]
  BY <1>1, IdleAgain DEF At, Wake
<1>5. DOMAIN sock' = Slot /\ \A k \in Slot : Alike(sock[k], sock'[k])
  BY <1>1, SameAlike DEF NInv, Typed, SlotsTyped
<1> QED BY <1>1, <1>2, <1>3, <1>4, <1>5, Posts

LEMMA PostSendKeeps == ASSUME NInv, NEW t \in Caller, PostSend(t) PROVE NInv'
<1> DEFINE c == [cmd |-> call[t].cmd, id |-> call[t].id, buf |-> call[t].buf]
<1>1. /\ call[t].pc = "post" /\ sock' = sock /\ alloc_id' = alloc_id
      /\ opened' = opened /\ UNCHANGED <<thread, net>> /\ pipe' = Append(pipe, c)
  BY DEF PostSend, At, told, Post
<1>2. call[t].id \in opened /\ call[t].id \in Id /\ call[t].cmd \in {"D", "P"} /\ call[t] \in InCall
  BY <1>1, CallFacts
<1>3. c \in Entry /\ c.cmd \notin Opening /\ c.id = call[t].id
  BY <1>2 DEF Entry, Cmds, Opening, InCall
<1> HIDE DEF c
<1>4. /\ call' \in [Caller -> InCall] /\ call'[t].pc = "idle"
      /\ ~ At(t, "reserved") /\ ~ At(t, "wake")
      /\ \A u \in Caller \ {t} : call'[u] = call[u]
  BY <1>1, IdleAgain DEF At, PostSend
<1>5. DOMAIN sock' = Slot /\ \A k \in Slot : Alike(sock[k], sock'[k])
  BY <1>1, SameAlike DEF NInv, Typed, SlotsTyped
<1> QED BY <1>1, <1>2, <1>3, <1>4, <1>5, Posts

LEMMA PostOpenKeeps == ASSUME NInv, NEW t \in Caller, PostOpen(t) PROVE NInv'
<1> DEFINE i == call[t].id
           k == HASH_ID(i)
           r == [sock[k] EXCEPT !.seen = i, !.tcp = FALSE]
           c == [cmd |-> call[t].cmd, id |-> i, buf |-> 0]
<1>1. /\ call[t].pc = "reserved" /\ sock' = [sock EXCEPT ![k] = r] /\ alloc_id' = alloc_id
      /\ opened' = opened /\ UNCHANGED <<thread, net>> /\ pipe' = Append(pipe, c)
  BY DEF PostOpen, At, told, Post
<1>2. /\ call[t].cmd \in Opening /\ Claimed(i) /\ i \in 1..alloc_id /\ call[t] \in InCall
      /\ i \in Id /\ k \in Slot
  BY <1>1, Ids, SocketAssumption DEF NInv, Claims, Known, At, Typed, InCall, Id
<1>3. c \in Entry /\ c.cmd \in Opening /\ c.id = call[t].id
  BY <1>2 DEF Entry, Cmds
<1> HIDE DEF c
<1>4. /\ call' \in [Caller -> InCall] /\ call'[t].pc = "idle"
      /\ At(t, "reserved") /\ ~ At(t, "wake")
      /\ \A u \in Caller \ {t} : call'[u] = call[u]
  BY <1>1, IdleAgain DEF At, PostOpen
<1>5. Alike(sock[k], sock[k]) /\ sock[k].id = i
  BY <1>2, SameAlike DEF Claimed
<1>6. Alike(sock[k], r) /\ r.dw = sock[k].dw /\ r.lock = sock[k].lock
  BY <1>2, <1>5, SocketAssumption DEF Alike, Socket, Fields, Claimed, Alive, Id
<1> HIDE DEF r
<1>7. /\ DOMAIN sock' = Slot
      /\ \A n \in Slot : /\ Alike(sock[n], sock'[n])
                          /\ sock'[n].dw = sock[n].dw /\ sock'[n].lock = sock[n].lock
  <2>1. /\ DOMAIN sock' = Slot /\ sock'[k] = r
        /\ \A n \in Slot \ {k} : sock'[n] = sock[n]
    BY <1>1, <1>2 DEF NInv, Typed, SlotsTyped
  <2>2. \A n \in Slot \ {k} : Alike(sock[n], sock'[n])
    BY <2>1, SameAlike
  <2> QED BY <1>6, <2>1, <2>2
<1> QED BY <1>1, <1>3, <1>4, <1>7, Posts

LEMMA OpenKeeps ==
  ASSUME NInv, NEW t \in Caller, NEW cmd \in Opens, Open(t, cmd)
  PROVE  NInv'
<1> USE DEF NInv
<1>1. PICK i \in Id :
        /\ Reservable(i) /\ alloc_id' = i
        /\ sock' = [sock EXCEPT ![HASH_ID(i)] = [@ EXCEPT !.type = "RESERVE", !.id = i]]
        /\ call' = [call EXCEPT ![t] = [@ EXCEPT !.pc = "reserved", !.id = i, !.cmd = cmd]]
  BY DEF Open
<1> DEFINE k == HASH_ID(i)
           r == [sock[k] EXCEPT !.type = "RESERVE", !.id = i]
           c == [call[t] EXCEPT !.pc = "reserved", !.id = i, !.cmd = cmd]
<1>2. /\ call[t].pc = "idle" /\ pipe' = pipe /\ opened' = opened /\ net' = net
      /\ spc' = spc /\ closing' = closing /\ ev' = ev
  BY DEF Open, At, told, thread
<1>3. /\ i \in Nat /\ i \in 0..MaxId /\ alloc_id \in Nat /\ i > alloc_id
      /\ k \in Slot /\ sock[k].type = "INVALID"
  BY <1>1, SocketAssumption, HashInSlot DEF Id, Typed, Reservable
<1>4. Socket(sock[k]) /\ Empty(sock[k])
  BY <1>3 DEF Typed, SlotsTyped, Clean, Alive
<1>5. Socket(r) /\ r.type = "RESERVE" /\ r.id = i /\ r.lock = sock[k].lock /\ Empty(r)
  BY <1>3, <1>4 DEF Socket, Fields, Empty, Type
<1>6. sock' = [sock EXCEPT ![k] = r] /\ call' = [call EXCEPT ![t] = c]
  BY <1>1
<1>7. c \in InCall /\ c.pc = "reserved" /\ c.id = i /\ c.cmd \in Opening
  BY <1>3, SocketAssumption DEF Typed, InCall, Cmds, Opening
<1> HIDE DEF r, c
<1>8. /\ DOMAIN sock' = Slot /\ sock'[k] = r
      /\ \A n \in Slot \ {k} : sock'[n] = sock[n]
  BY <1>3, <1>6 DEF Typed, SlotsTyped
<1>9. /\ call' \in [Caller -> InCall] /\ call'[t] = c
      /\ \A u \in Caller \ {t} : call'[u] = call[u]
  BY <1>6, <1>7 DEF Typed
<1>10. SlotsTyped' /\ Clean'
  BY <1>5, <1>8 DEF Typed, SlotsTyped, Clean, Alive, Empty
<1>11. Homed'
  BY <1>1, <1>3, <1>5, <1>8 DEF Homed, Typed, SlotsTyped, Socket, Alive
<1>12. /\ \A n \in Id \ {i} : Claimed(n)' <=> Claimed(n)
       /\ Claimed(i)'
  <2>1. \A n \in Id : HASH_ID(n) \in Slot
    BY HashInSlot DEF Id
  <2> QED BY <1>3, <1>5, <1>8, <2>1 DEF Claimed
<1>13. \A n \in Id : Claimed(n) => n <= alloc_id /\ n # i
  <2> SUFFICES ASSUME NEW n \in Id, Claimed(n) PROVE n \in 1..alloc_id
    BY <1>3 DEF Id
  <2>1. HASH_ID(n) \in Slot
    BY HashInSlot DEF Id
  <2> QED BY <2>1 DEF Claimed, Homed
<1>14. \A u \in Caller : call[u].pc = "reserved" => call[u].id \in Id
  BY SocketAssumption DEF Known, Typed, Id, At
<1>15. \A x \in 1..Len(pipe) : pipe[x].id \in Id
  <2>1. \A x \in 1..Len(pipe) : pipe[x] \in Entry
    BY DEF Typed
  <2> QED BY <2>1 DEF Entry
<1>16. \A u \in Caller : call[u].pc = "reserved" =>
         u # t /\ call'[u] = call[u] /\ Claimed(call[u].id) /\ call[u].id # i
  BY <1>2, <1>9, <1>13, <1>14 DEF Claims, At
<1>17. \A x \in 1..Len(pipe) : pipe[x].cmd \in Opening => Claimed(pipe[x].id) /\ pipe[x].id # i
  BY <1>13, <1>15 DEF Claims
<1>18. \A u \in Caller : call'[u].pc = "reserved" => u = t \/ call[u].pc = "reserved"
  BY <1>9
<1>19. Claims'
  <2>1. \A u \in Caller : At(u, "reserved")' => call'[u].cmd \in Opening /\ Claimed(call[u].id)'
    <3>1. \A u \in Caller \ {t} : At(u, "reserved")' => call'[u].cmd \in Opening /\ Claimed(call[u].id)'
      BY <1>12, <1>14, <1>16, <1>18 DEF Claims, At, Claimed
    <3>2. call'[t].cmd \in Opening /\ Claimed(call[t].id)'
      BY <1>7, <1>9, <1>12 DEF Claimed
    <3> QED BY <3>1, <3>2
  <2>2. \A x \in 1..Len(pipe') : pipe'[x].cmd \in Opening => Claimed(pipe[x].id)'
    BY <1>2, <1>12, <1>15, <1>17 DEF Claimed
  <2>3. \A u, v \in Caller : At(u, "reserved")' /\ At(v, "reserved")' /\ call'[u].id = call'[v].id
                               => u = v
    BY <1>7, <1>9, <1>16, <1>18 DEF Claims, At
  <2>4. \A u \in Caller, x \in 1..Len(pipe') :
          At(u, "reserved")' /\ pipe'[x].cmd \in Opening => call'[u].id # pipe'[x].id
    BY <1>2, <1>7, <1>9, <1>16, <1>17, <1>18 DEF Claims, At
  <2> QED BY <1>2, <2>1, <2>2, <2>3, <2>4 DEF Claims
<1>20. Known'
  <2>1. opened \subseteq Id /\ \A n \in opened : n <= alloc_id /\ ~ Claimed(n)
    BY DEF Known, Typed
  <2>2. \A n \in opened : n \in Id /\ n # i /\ n <= i
    BY <1>3, <2>1 DEF Id
  <2>3. \A n \in opened' : n <= alloc_id' /\ ~ Claimed(n)'
    BY <1>1, <1>2, <1>12, <2>1, <2>2
  <2>4. \A u \in Caller : ~ At(u, "idle")' /\ ~ At(u, "reserved")' =>
          call'[u].id \in opened' /\ call'[u].cmd \in {"D", "P"}
    BY <1>2, <1>7, <1>9 DEF Known, At
  <2>5. \A u \in Caller : At(u, "reserved")' => call'[u].id \in 1..alloc_id'
    <3>1. i \in 1..i /\ \A n \in 1..alloc_id : n \in 1..i
      BY <1>1, <1>3 DEF Id
    <3> QED BY <1>1, <1>7, <1>9, <1>16, <1>18, <3>1 DEF Known, At
  <2>6. \A x \in 1..Len(pipe') : pipe'[x].cmd \notin Opening => pipe'[x].id \in opened'
    BY <1>2 DEF Known
  <2> QED BY <2>3, <2>4, <2>5, <2>6 DEF Known
<1>21. Locks'
  <2>1. \A u \in Caller : HASH_ID(call[u].id) \in Slot
    BY Ids DEF Typed, InCall
  <2>2. \A u \in Caller : call[u].pc = "write" => HASH_ID(call[u].id) # k
    BY <1>3 DEF Locks, Alive, At
  <2>3. \A n \in Slot : sock'[n].lock = sock[n].lock
    BY <1>5, <1>8
  <2>4. \A u \in Caller : call'[u].pc \in {"check", "write"} => call'[u] = call[u]
    BY <1>7, <1>9
  <2> QED BY <1>8, <2>1, <2>2, <2>3, <2>4 DEF Locks, At, Alive
<1>22. Served'
  <2> SUFFICES ASSUME NEW n \in Slot, Waits(sock'[n]), ~ sock'[n].writing,
                      NEW j, j = sock'[n].id
               PROVE  Woken(j)'
    BY DEF Served, Waits, Alive, send_buffer_empty, Woken, At
  <2>1. n # k
    BY <1>5, <1>8 DEF Waits, Alive
  <2>2. Woken(j)
    BY <1>8, <2>1 DEF Served
  <2>3. \A u \in Caller : call[u].pc = "wake" => call'[u] = call[u]
    BY <1>2, <1>9
  <2> QED BY <1>2, <2>2, <2>3 DEF Woken, At
<1>23. ThreadTyped' /\ NetTyped'
  BY <1>2 DEF Typed, ThreadTyped, NetTyped
<1>24. Typed'
  BY <1>1, <1>2, <1>3, <1>9, <1>10, <1>23 DEF Typed
<1>25. Forced'
  <2>1. spc = "force" => closing.k \in Slot /\ closing.k # k
    BY <1>3 DEF Forced, Alive, Typed, ThreadTyped
  <2> QED BY <1>2, <1>8, <2>1 DEF Forced, Alive, send_buffer_empty
<1> QED BY <1>10, <1>11, <1>19, <1>20, <1>21, <1>22, <1>24, <1>25

-----------------------------------------------------------------------------
(* The theorem                                                             *)

LEMMA InitLogged == ASSUME Init PROVE Logged
  BY DEF Init, Logged

LEMMA LoggedNext == ASSUME NInv, Logged, [Next]_vars PROVE Logged'
<1>1. CASE log' = log
  BY <1>1 DEF Logged
<1>2. ASSUME NEW t \in Caller, NEW prio \in {"D", "P"}, Send(t, prio) PROVE Logged'
  <2>1. PICK i \in opened : log' = Append(log, [t |-> t, prio |-> prio, id |-> i])
    BY <1>2 DEF Send
  <2>2. [t |-> t, prio |-> prio, id |-> i] \in [t : Caller, prio : {"D", "P"}, id : Id]
    BY DEF NInv, Typed
  <2> QED BY <2>1, <2>2 DEF Logged
<1>3. ASSUME SocketThread PROVE log' = log
  <2>1. (\E names : Cmd(names)) \/ (\E types : OnEvent(types)) => log' = log
    BY DEF Cmd, OnEvent, bounds
  <2>2. CASE ForceClose \/ NoCmd \/ sp_wait \/ null_event
    BY <2>2 DEF ForceClose, NoCmd, sp_wait, null_event, bounds
  <2>3. CASE close_socket \/ resume_socket \/ pause_socket \/ trigger_write \/ open_socket \/ send_socket
    BY <2>1, <2>3
       DEF close_socket, resume_socket, pause_socket, trigger_write, open_socket, send_socket
  <2>4. CASE \/ report_connect \/ report_accept \/ stale_event \/ forward_message_tcp
             \/ send_buffer \/ error_event
    BY <2>1, <2>4
       DEF report_connect, report_accept, stale_event, forward_message_tcp, send_buffer, error_event
  <2> QED BY <1>3, <2>2, <2>3, <2>4 DEF SocketThread
<1>4. ASSUME NEW t \in Caller, Work(t) PROVE log' = log
  BY <1>4 DEF Work, PostOpen, FirstCheck, TryLock, CheckLocked, DirectWrite, Wake, inc_sending_ref,
              PostSend, bounds
<1>5. ASSUME NEW t \in Caller, NEW cmd, Open(t, cmd) \/ Command(t, cmd) PROVE log' = log
  BY <1>5 DEF Open, Command, bounds
<1>6. ASSUME NEW i \in Id, Connected(i) \/ Peer(i) PROVE log' = log
  BY <1>6 DEF Connected, Peer, bounds
<1>7. CASE UNCHANGED vars
  BY <1>7 DEF vars, bounds, Logged
<1> QED BY <1>1, <1>2, <1>3, <1>4, <1>5, <1>6, <1>7 DEF Next, Interface

\* Nothing clears the mark.
LEMMA ClobberedStays == ASSUME clobbered, [Next]_vars PROVE clobbered'
<1>1. CASE SocketThread
  <2>1. CASE ForceClose \/ NoCmd \/ sp_wait \/ null_event
    BY <2>1 DEF ForceClose, NoCmd, sp_wait, null_event
  <2>2. ASSUME NEW names, Cmd(names) PROVE clobbered'
    BY <2>2 DEF Cmd
  <2>3. CASE close_socket \/ resume_socket \/ pause_socket \/ trigger_write \/ open_socket \/ send_socket
    BY <2>2, <2>3
       DEF close_socket, resume_socket, pause_socket, trigger_write, open_socket, send_socket
  <2>4. CASE \/ report_connect \/ report_accept \/ stale_event \/ forward_message_tcp
             \/ send_buffer \/ error_event
    BY <2>4 DEF report_connect, report_accept, stale_event, forward_message_tcp, send_buffer,
                error_event, OnEvent
  <2> QED BY <1>1, <2>1, <2>3, <2>4 DEF SocketThread
<1>2. ASSUME NEW t \in Caller, Work(t) PROVE clobbered'
  BY <1>2 DEF Work, PostOpen, FirstCheck, TryLock, CheckLocked, DirectWrite, Wake, inc_sending_ref,
              PostSend, thread, server
<1>3. ASSUME NEW t \in Caller, Interface(t) PROVE clobbered'
  BY <1>3 DEF Interface, Open, Command, Send, thread, server
<1>4. ASSUME NEW i \in Id, Connected(i) \/ Peer(i) PROVE clobbered'
  BY <1>4 DEF Connected, Peer, server, thread
<1>5. CASE UNCHANGED vars
  BY <1>5 DEF vars, server, thread
<1> QED BY <1>1, <1>2, <1>3, <1>4, <1>5 DEF Next

LEMMA NInvNext == ASSUME NInv, Logged, ~ clobbered', [Next]_vars PROVE NInv'
<1>1. CASE SocketThread
  BY <1>1, SocketThreadKeeps
<1>2. ASSUME NEW t \in Caller, Work(t) PROVE NInv'
  BY <1>2, PostOpenKeeps, FirstCheckKeeps, TryLockKeeps, CheckLockedKeeps, DirectWriteKeeps,
     WakeKeeps, IncKeeps, PostSendKeeps DEF Work
<1>3. ASSUME NEW t \in Caller, Interface(t) PROVE NInv'
  BY <1>3, OpenKeeps, CommandKeeps, SendKeeps DEF Interface
<1>4. ASSUME NEW i \in Id, Connected(i) \/ Peer(i) PROVE NInv'
  BY <1>4, ConnectedKeeps, PeerKeeps
<1>5. CASE UNCHANGED vars
  <2>1. UNCHANGED <<server, call, opened>> /\ NetTyped'
    BY <1>5 DEF vars, told, NInv, Typed, NetTyped
  <2> QED BY <2>1, KernelKeeps
<1> QED BY <1>1, <1>2, <1>3, <1>4, <1>5 DEF Next

LEMMA NInvStuck == ASSUME NInv PROVE NothingStuck
<1>1. DOMAIN sock = Slot /\ DOMAIN pipe = 1..Len(pipe)
  BY DEF NInv, Typed, SlotsTyped
<1>2. \A k \in Slot : Waits(sock[k]) => sock[k].writing \/ Woken(sock[k].id)
  BY DEF NInv, Served
<1> QED BY <1>1, <1>2 DEF NothingStuck, Waits, Woken

\* What a socket's lists and a direct write's remainder hold is always written in the
\* end, as far as it is the server's to do: the socket thread watches the socket for
\* writing, or a command W that makes it do so is in the pipe or about to be posted,
\* however direct writes, queued sends, closes and the reuse of slots interleave
\* (socket_server_send, trigger_write, send_buffer, append_sendbuffer).
THEOREM NothingWaitsUnserved == Spec => []NothingStuck
<1> DEFINE Inv == clobbered \/ (NInv /\ Logged)
<1>1. Init => Inv
  BY InitHolds, InitLogged
<1>2. Inv /\ [Next]_vars => Inv'
  BY NInvNext, LoggedNext, ClobberedStays
<1>3. Inv => NothingStuck
  <2>1. clobbered => NothingStuck
    BY DEF NothingStuck
  <2> QED BY <2>1, NInvStuck
<1> QED BY <1>1, <1>2, <1>3, PTL DEF Spec

-----------------------------------------------------------------------------
(* The end of a socket is reported once                                    *)

\* A socket that a service was told is closed is neither reserved nor open for
\* reading, and a forced close reports it only if nothing has.
Counters == closes \in [0..MaxId -> Nat] /\ read \in [0..MaxId -> Nat]
Gone == \A i \in 0..MaxId : closes[i] > 0 => i \in 1..alloc_id /\ ~ Claimed(i)
HalfClosed ==
  \A k \in Slot : Alive(sock[k]) /\ closes[sock[k].id] > 0 => sock[k].type = "HALFCLOSE_READ"
ToTell == spc = "force" /\ closing.what = "close" => closes[sock[closing.k].id] = 0
Shut == Counters /\ Gone /\ HalfClosed /\ ToTell

\* A step reports nothing more of a socket that was closed.
Settled ==
  \A i \in DOMAIN closes : closes[i] > 0 => closes'[i] = closes[i] /\ read'[i] = read[i]

\* The slot gets a socket that was never closed, or keeps its own, which is neither
\* reserved nor opened again.
Steady(s, r) ==
  \/ closes[r.id] = 0
  \/ /\ r.id = s.id /\ (r.type = "RESERVE" => s.type = "RESERVE")
     /\ Alive(r) => Alive(s) /\ (s.type = "HALFCLOSE_READ" => r.type = "HALFCLOSE_READ")

LEMMA ShutStep ==
  ASSUME NInv, NInv', Shut, alloc_id' >= alloc_id, \A k \in Slot : Steady(sock[k], sock'[k]),
         NEW what, NEW i \in 0..MaxId, Report(what, i),
         what \in {"close", "data"} => closes[i] = 0,
         what = "close" =>
           /\ i \in 1..alloc_id' /\ ~ Claimed(i)'
           /\ \A k \in Slot : Alive(sock'[k]) /\ sock'[k].id = i => sock'[k].type = "HALFCLOSE_READ",
         spc' = "force" /\ closing'.what = "close" => closes'[sock'[closing'.k].id] = 0
  PROVE  Shut' /\ Settled
<1> USE DEF Shut
<1>1. /\ Counters' /\ Settled
      /\ \A j \in 0..MaxId : closes'[j] > 0 => closes[j] > 0 \/ (j = i /\ what = "close")
  <2>1. CASE what = "close"
    BY <2>1 DEF Report, Counters, Settled
  <2>2. CASE what = "data"
    BY <2>2 DEF Report, Counters, Settled
  <2>3. CASE what \notin {"close", "data"}
    BY <2>3 DEF Report, Counters, Settled
  <2> QED BY <2>1, <2>2, <2>3
<1>2. Gone'
  <2> SUFFICES ASSUME NEW j \in 0..MaxId, closes[j] > 0
               PROVE  j \in 1..alloc_id' /\ ~ (sock'[HASH_ID(j)].type = "RESERVE" /\ sock'[HASH_ID(j)].id = j)
    BY <1>1 DEF Gone, Claimed
  <2>1. j \in 1..alloc_id /\ ~ Claimed(j)
    BY DEF Gone
  <2>2. HASH_ID(j) \in Slot /\ closes[j] # 0
    BY Ids DEF Counters
  <2>3. j \in 1..alloc_id'
    BY <2>1 DEF NInv, Typed
  <2> QED BY <2>1, <2>2, <2>3 DEF Steady, Claimed
<1>3. HalfClosed'
  <2> SUFFICES ASSUME NEW k \in Slot, Alive(sock'[k]), closes'[sock'[k].id] > 0
               PROVE  sock'[k].type = "HALFCLOSE_READ"
    BY DEF HalfClosed, Alive
  <2>1. sock'[k].id \in 0..MaxId
    BY DEF NInv, Typed, SlotsTyped, Socket
  <2>2. CASE closes[sock'[k].id] > 0
    <3>1. closes[sock'[k].id] # 0
      BY <2>1, <2>2 DEF Counters
    <3> QED BY <2>2, <3>1 DEF Steady, HalfClosed
  <2> QED BY <1>1, <2>1, <2>2
<1>4. ToTell'
  BY DEF ToTell
<1> QED BY <1>1, <1>2, <1>3, <1>4

\* Nothing is reported.
LEMMA Quiet ==
  ASSUME NInv, NInv', Shut, alloc_id' >= alloc_id, \A k \in Slot : Steady(sock[k], sock'[k]),
         UNCHANGED told,
         spc' = "force" /\ closing'.what = "close" => closes[sock'[closing'.k].id] = 0
  PROVE  Shut' /\ Settled
<1>1. Report("none", 0) /\ closes' = closes /\ 0 \in 0..MaxId
  BY SocketAssumption DEF Report, told
<1> QED BY <1>1, ShutStep

LEMMA SameSteady == ASSUME NEW s PROVE Steady(s, s)
  BY DEF Steady

\* One slot changes, and something is reported of its socket.
LEMMA Reported ==
  ASSUME NInv, NInv', Shut, NEW k \in Slot, NEW r, sock' = [sock EXCEPT ![k] = r],
         alloc_id' = alloc_id, Steady(sock[k], r), spc' # "force",
         NEW what, NEW i \in 0..MaxId, Report(what, i),
         what \in {"close", "data"} => closes[i] = 0,
         what = "close" => /\ i \in 1..alloc_id /\ HASH_ID(i) = k /\ r.id = i
                           /\ r.type \in {"HALFCLOSE_READ", "INVALID"}
  PROVE  Shut' /\ Settled
<1>1. /\ sock'[k] = r /\ \A j \in Slot \ {k} : sock'[j] = sock[j]
  BY DEF NInv, Typed, SlotsTyped
<1>2. \A j \in Slot : Steady(sock[j], sock'[j])
  BY <1>1, SameSteady
<1>3. alloc_id' >= alloc_id
  BY SocketAssumption DEF NInv, Typed
<1>4. ASSUME what = "close"
      PROVE  /\ i \in 1..alloc_id' /\ ~ Claimed(i)'
             /\ \A j \in Slot : Alive(sock'[j]) /\ sock'[j].id = i => sock'[j].type = "HALFCLOSE_READ"
  <2>1. ~ Claimed(i)'
    BY <1>1, <1>4 DEF Claimed
  <2>2. ASSUME NEW j \in Slot, Alive(sock'[j]), sock'[j].id = i PROVE sock'[j].type = "HALFCLOSE_READ"
    <3>1. HASH_ID(i) = j
      BY <2>2 DEF NInv, Homed, Alive
    <3> QED BY <1>1, <1>4, <2>2, <3>1 DEF Alive
  <2> QED BY <1>4, <2>1, <2>2
<1> QED BY <1>2, <1>3, <1>4, ShutStep

\* A socket that can be read was not closed.
LEMMA NotTold ==
  ASSUME NInv, Shut, NEW k \in Slot, Alive(sock[k]), sock[k].type # "HALFCLOSE_READ"
  PROVE  /\ closes[sock[k].id] = 0 /\ sock[k].id \in 1..alloc_id /\ sock[k].id \in 0..MaxId
         /\ HASH_ID(sock[k].id) = k
<1>1. sock[k].id \in 0..MaxId
  BY DEF NInv, Typed, SlotsTyped, Socket
<1> QED BY <1>1 DEF NInv, Homed, Alive, Shut, Counters, HalfClosed

LEMMA CmdShut ==
  ASSUME NInv, NInv', Shut, NEW names, Cmd(names), ~ clobbered', NEW r, NEW what, what # "data",
         Finish(HASH_ID(CmdId), r, what, CmdId), Steady(CmdSlot, r),
         what = "close" => /\ Alive(CmdSlot) /\ CmdSlot.id = CmdId /\ CmdSlot.type # "HALFCLOSE_READ"
                           /\ r.id = CmdId /\ r.type = "HALFCLOSE_READ"
  PROVE  Shut' /\ Settled
<1>1. /\ CmdId \in Id /\ HASH_ID(CmdId) \in Slot /\ alloc_id' = alloc_id /\ spc = "poll"
  BY CmdFacts
<1>2. CmdId \in 0..MaxId /\ CmdSlot = sock[HASH_ID(CmdId)]
  BY <1>1, SocketAssumption DEF Id, CmdSlot
<1>3. sock' = [sock EXCEPT ![HASH_ID(CmdId)] = r] /\ Report(what, CmdId) /\ spc' # "force"
  BY <1>1 DEF Finish
<1>4. what = "close" => closes[CmdId] = 0 /\ CmdId \in 1..alloc_id
  BY <1>1, <1>2, NotTold
<1> QED BY <1>1, <1>2, <1>3, <1>4, Reported

LEMMA EventShut ==
  ASSUME NInv, NInv', Shut, NEW types, OnEvent(types), alloc_id' = alloc_id,
         NEW r, NEW what, NEW rest \in Seq(Batched), NEW i, i = sock[Head(ev).k].id,
         Handled(r, what, i, rest), Steady(sock[Head(ev).k], r),
         what \in {"close", "data"} =>
           Alive(sock[Head(ev).k]) /\ sock[Head(ev).k].type # "HALFCLOSE_READ",
         what = "close" => r.id = i /\ r.type = "HALFCLOSE_READ"
  PROVE  Shut' /\ Settled
<1> DEFINE k == Head(ev).k
<1>1. k \in Slot /\ i \in 0..MaxId
  BY EventFacts
<1>2. sock' = [sock EXCEPT ![k] = r] /\ Report(what, i) /\ spc' # "force"
  BY HandledThread DEF Handled
<1>3. what \in {"close", "data"} => closes[i] = 0 /\ i \in 1..alloc_id /\ HASH_ID(i) = k
  BY <1>1, NotTold
<1> HIDE DEF k
<1> QED BY <1>1, <1>2, <1>3, Reported DEF k

LEMMA ForceShut ==
  ASSUME NInv, NInv', Shut, NEW k \in Slot, NEW what, NEW ctl, NEW rest,
         StartForce(k, what, ctl, rest), alloc_id' = alloc_id, sock[k].type # "INVALID",
         what = "close" => sock[k].type # "HALFCLOSE_READ"
  PROVE  Shut' /\ Settled
<1>0. alloc_id' >= alloc_id
  BY SocketAssumption DEF NInv, Typed
<1>1. CASE sock[k].type = "RESERVE"
  <2>1. sock' = sock /\ UNCHANGED told /\ spc' = "aborted"
    BY <1>1 DEF StartForce, Abort
  <2> QED BY <1>0, <2>1, SameSteady, Quiet
<1>2. CASE sock[k].type # "RESERVE"
  <2> DEFINE r == [sock[k] EXCEPT !.high = <<>>, !.low = <<>>]
  <2>1. /\ sock' = [sock EXCEPT ![k] = r] /\ UNCHANGED told
        /\ closing' = [k |-> k, what |-> what, ctl |-> ctl]
    BY <1>2 DEF StartForce
  <2>2. Alive(sock[k]) /\ Socket(sock[k])
    BY <1>2 DEF Alive, NInv, Typed, SlotsTyped
  <2>3. r.type = sock[k].type /\ r.id = sock[k].id
    BY <2>2 DEF Socket, Fields
  <2> HIDE DEF r
  <2>4. sock'[k] = r /\ \A j \in Slot \ {k} : sock'[j] = sock[j]
    BY <2>1 DEF NInv, Typed, SlotsTyped
  <2>5. \A j \in Slot : Steady(sock[j], sock'[j])
    BY <2>3, <2>4, SameSteady DEF Steady, Alive
  <2>6. what = "close" => closes[sock'[k].id] = 0
    BY <2>2, <2>3, <2>4, NotTold
  <2> QED BY <1>0, <2>1, <2>5, <2>6, Quiet
<1> QED BY <1>1, <1>2

-----------------------------------------------------------------------------
(* ... by the commands                                                     *)

LEMMA CloseSocketShut == ASSUME NInv, NInv', Shut, close_socket, ~ clobbered' PROVE Shut' /\ Settled
<1> DEFINE s == CmdSlot
           k == HASH_ID(CmdId)
<1>1. Cmd({"K", "KS"})
  BY DEF close_socket
<1>2. /\ k \in Slot /\ Socket(s) /\ s = sock[k] /\ alloc_id' = alloc_id /\ spc = "poll"
      /\ ~ socket_invalid(s, CmdId) => s.id = CmdId /\ Alive(s)
  BY <1>1, CmdFacts DEF CmdSlot, Opening
<1>3. CASE socket_invalid(s, CmdId)
  <2>1. sock' = sock /\ UNCHANGED told /\ spc' = "poll"
    BY <1>2, <1>3 DEF close_socket, Ignore
  <2>2. alloc_id' >= alloc_id
    BY <1>2, SocketAssumption DEF NInv, Typed
  <2> QED BY <2>1, <2>2, SameSteady, Quiet
<1>4. CASE ~ socket_invalid(s, CmdId) /\ (Head(pipe).cmd = "KS" \/ nomore_sending_data(s))
  <2>1. StartForce(k, CloseReport(s), TRUE, ev)
    BY <1>4 DEF close_socket
  <2>2. CloseReport(s) = "close" => s.type # "HALFCLOSE_READ"
    BY DEF CloseReport
  <2>3. sock[k].type # "INVALID"
    BY <1>2, <1>4 DEF Alive
  <2> QED BY <1>2, <2>1, <2>2, <2>3, ForceShut
<1>5. CASE ~ socket_invalid(s, CmdId) /\ ~ (Head(pipe).cmd = "KS" \/ nomore_sending_data(s))
  <2> DEFINE r == IF s.type = "HALFCLOSE_READ" THEN [s EXCEPT !.closing = TRUE]
                  ELSE [close_read(s) EXCEPT !.closing = TRUE]
  <2>1. Finish(k, r, CloseReport(s), CmdId)
    BY <1>5 DEF close_socket
  <2>2. CloseReport(s) # "data" /\ (CloseReport(s) = "close" => s.type # "HALFCLOSE_READ")
    BY DEF CloseReport
  <2>3. r.id = s.id /\ r.type = "HALFCLOSE_READ" /\ s.id = CmdId /\ Alive(s)
    BY <1>2, <1>5 DEF Socket, Fields, close_read
  <2> HIDE DEF r
  <2>4. Steady(s, r)
    BY <2>3 DEF Steady
  <2> QED BY <1>1, <2>1, <2>2, <2>3, <2>4, CmdShut
<1> QED BY <1>3, <1>4, <1>5

LEMMA ResumeSocketShut == ASSUME NInv, NInv', Shut, resume_socket, ~ clobbered' PROVE Shut' /\ Settled
<1> DEFINE s == CmdSlot
<1>1. Cmd({"R"})
  BY DEF resume_socket
<1>2. Socket(s)
  BY <1>1, CmdFacts
<1>3. CASE socket_invalid(s, CmdId) \/ s.type = "HALFCLOSE_READ"
  <2>1. Finish(HASH_ID(CmdId), s, "err", CmdId)
    BY <1>3 DEF resume_socket
  <2> QED BY <1>1, <2>1, SameSteady, CmdShut
<1>4. CASE ~ (socket_invalid(s, CmdId) \/ s.type = "HALFCLOSE_READ")
  <2> DEFINE type == CASE s.type = "PACCEPT" -> "CONNECTED"
                       [] s.type = "PLISTEN" -> "LISTEN"
                       [] OTHER -> s.type
             r == [s EXCEPT !.reading = TRUE, !.type = type]
             what == IF s.type \in {"PACCEPT", "PLISTEN", "CONNECTED"} THEN "open" ELSE "none"
  <2>1. Finish(HASH_ID(CmdId), r, what, CmdId)
    BY <1>4 DEF resume_socket
  <2>2. \/ type = s.type /\ s.type = "RESERVE"
        \/ type \notin {"INVALID", "RESERVE"} /\ Alive(s)
    BY <1>2, <1>4 DEF Alive, socket_invalid
  <2> HIDE DEF type
  <2>3. r.id = s.id /\ r.type = type
    BY <1>2 DEF Socket, Fields
  <2>4. Steady(s, r) /\ what # "data" /\ what # "close"
    BY <1>4, <2>2, <2>3 DEF Steady, Alive
  <2> HIDE DEF r, what
  <2> QED BY <1>1, <2>1, <2>4, CmdShut
<1> QED BY <1>3, <1>4

LEMMA PauseSocketShut == ASSUME NInv, NInv', Shut, pause_socket, ~ clobbered' PROVE Shut' /\ Settled
<1> DEFINE r == [CmdSlot EXCEPT !.reading = FALSE]
<1>1. Cmd({"S"})
  BY DEF pause_socket
<1>2. CASE socket_invalid(CmdSlot, CmdId)
  <2>1. sock' = sock /\ UNCHANGED told /\ spc' = "poll" /\ alloc_id' >= alloc_id
    BY <1>1, <1>2, CmdFacts, SocketAssumption DEF pause_socket, Ignore, NInv, Typed
  <2> QED BY <2>1, SameSteady, Quiet
<1>3. CASE ~ socket_invalid(CmdSlot, CmdId)
  <2>1. Finish(HASH_ID(CmdId), r, "none", CmdId)
    BY <1>3 DEF pause_socket
  <2>2. r.id = CmdSlot.id /\ r.type = CmdSlot.type
    BY <1>1, CmdFacts DEF Socket, Fields
  <2> HIDE DEF r
  <2>3. Steady(CmdSlot, r)
    BY <2>2 DEF Steady, Alive
  <2> QED BY <1>1, <2>1, <2>3, CmdShut
<1> QED BY <1>2, <1>3

LEMMA TriggerWriteShut == ASSUME NInv, NInv', Shut, trigger_write, ~ clobbered' PROVE Shut' /\ Settled
<1> DEFINE r == [CmdSlot EXCEPT !.writing = TRUE]
<1>1. Cmd({"W"})
  BY DEF trigger_write
<1>2. CASE socket_invalid(CmdSlot, CmdId)
  <2>1. sock' = sock /\ UNCHANGED told /\ spc' = "poll" /\ alloc_id' >= alloc_id
    BY <1>1, <1>2, CmdFacts, SocketAssumption DEF trigger_write, Ignore, NInv, Typed
  <2> QED BY <2>1, SameSteady, Quiet
<1>3. CASE ~ socket_invalid(CmdSlot, CmdId)
  <2>1. Finish(HASH_ID(CmdId), r, "none", CmdId)
    BY <1>3 DEF trigger_write
  <2>2. r.id = CmdSlot.id /\ r.type = CmdSlot.type
    BY <1>1, CmdFacts DEF Socket, Fields
  <2> HIDE DEF r
  <2>3. Steady(CmdSlot, r)
    BY <2>2 DEF Steady, Alive
  <2> QED BY <1>1, <2>1, <2>3, CmdShut
<1> QED BY <1>2, <1>3

LEMMA SendSocketShut == ASSUME NInv, NInv', Shut, send_socket, ~ clobbered' PROVE Shut' /\ Settled
<1> DEFINE i == CmdId
           s == CmdSlot
           to == IF Rejects(s, i) THEN s ELSE Warned(Queued(s, Head(pipe)))
           n == IF Counted(s, i) THEN to.sending - 1 ELSE to.sending
           r == [to EXCEPT !.sending = n]
<1>1. Cmd({"D", "P"})
  BY DEF send_socket
<1>2. Socket(s) /\ alloc_id' = alloc_id
  BY <1>1, CmdFacts
<1>3. CASE Counted(s, i) /\ s.sending = 0
  <2>1. sock' = sock /\ UNCHANGED told /\ spc' = "aborted"
    BY <1>3 DEF send_socket, Abort
  <2>2. alloc_id' >= alloc_id
    BY <1>2, SocketAssumption DEF NInv, Typed
  <2> QED BY <2>1, <2>2, SameSteady, Quiet
<1>4. CASE ~ (Counted(s, i) /\ s.sending = 0)
  <2> DEFINE what == IF to.warn # s.warn THEN "warning" ELSE "none"
  <2>1. Finish(HASH_ID(i), r, what, i)
    BY <1>4 DEF send_socket
  <2>2. what # "data" /\ what # "close"
    OBVIOUS
  <2>3. DOMAIN to = Fields /\ to.id = s.id /\ to.type = s.type
    <3>1. CASE Rejects(s, i)
      BY <1>2, <3>1 DEF Socket
    <3>2. CASE ~ Rejects(s, i)
      <4> DEFINE q == Queued(s, Head(pipe))
      <4>1. DOMAIN q = Fields /\ q.id = s.id /\ q.type = s.type
        BY <1>2 DEF Queued, Socket, Fields
      <4> HIDE DEF q
      <4>2. DOMAIN Warned(q) = Fields /\ Warned(q).id = q.id /\ Warned(q).type = q.type
        BY <4>1 DEF Warned, Fields
      <4>3. to = Warned(q)
        BY <3>2 DEF q
      <4> QED BY <4>1, <4>2, <4>3
    <3> QED BY <3>1, <3>2
  <2> HIDE DEF to, n
  <2>4. r.id = s.id /\ r.type = s.type
    BY <2>3 DEF Fields
  <2> HIDE DEF r, what
  <2>5. Steady(s, r)
    BY <2>4 DEF Steady, Alive
  <2> QED BY <1>1, <2>1, <2>2, <2>5, CmdShut
<1> QED BY <1>3, <1>4

LEMMA OpenSocketShut == ASSUME NInv, NInv', Shut, open_socket, ~ clobbered' PROVE Shut' /\ Settled
<1> DEFINE i == CmdId
           s == CmdSlot
           k == HASH_ID(i)
           c == Head(pipe).cmd
<1>1. Cmd(Opening) /\ Cmd({"O", "L", "B"})
  BY DEF open_socket, Opening
<1>2. i \in Id /\ k \in Slot /\ Socket(s) /\ s = sock[k] /\ c \in Opening /\ pipe # <<>>
  BY <1>1, CmdFacts DEF CmdSlot, Cmd
<1>3. s.type = "RESERVE" /\ s.id = i /\ Claimed(i)
  BY <1>2, Popped DEF NInv, CmdId, CmdSlot, Claims, Claimed
<1>4. Empty(s)
  BY <1>2, <1>3 DEF NInv, Clean, Alive
<1>5. closes[i] = 0
  BY <1>2, <1>3, SocketAssumption DEF Shut, Gone, Counters, Id
<1>6. ~ (s.type # "RESERVE" \/ ~ send_buffer_empty(s))
  BY <1>3, <1>4 DEF Empty, send_buffer_empty
<1>7. ASSUME NEW r, NEW what \in {"err", "open", "none"}, Finish(k, r, what, i), r.id = i
      PROVE  Shut' /\ Settled
  BY <1>1, <1>5, <1>7, CmdShut DEF Steady
<1>8. \A type : new_fd(s, i, type).id = i /\ DOMAIN new_fd(s, i, type) = Fields
  BY <1>2 DEF new_fd, Socket, Fields
<1>9. CASE Finish(k, [s EXCEPT !.type = "INVALID"], "err", i)
  <2>1. [s EXCEPT !.type = "INVALID"].id = i
    BY <1>2, <1>3 DEF Socket, Fields
  <2> QED BY <1>7, <1>9, <2>1
<1>10. CASE Finish(k, new_fd(s, i, Opened[c]), "open", i)
  BY <1>7, <1>8, <1>10
<1>11. CASE Finish(k, [new_fd(s, i, "CONNECTING") EXCEPT !.writing = TRUE], "none", i)
  <2>1. [new_fd(s, i, "CONNECTING") EXCEPT !.writing = TRUE].id = i
    BY <1>8 DEF Fields
  <2> QED BY <1>7, <1>11, <2>1
<1> QED BY <1>6, <1>9, <1>10, <1>11 DEF open_socket

-----------------------------------------------------------------------------
(* ... by the events                                                       *)

LEMMA ForceCloseShut == ASSUME NInv, NInv', Shut, ForceClose PROVE Shut' /\ Settled
<1> DEFINE k == closing.k
           i == sock[k].id
           r == Closed(sock[k])
<1>1. /\ spc = "force" /\ sock' = [sock EXCEPT ![k] = r] /\ alloc_id' = alloc_id
      /\ Report(closing.what, i) /\ Loop(ev')
  BY DEF ForceClose
<1>2. k \in Slot /\ closing.what # "data"
  BY DEF NInv, Typed, ThreadTyped
<1>3. Socket(sock[k]) /\ Alive(sock[k])
  BY <1>1, <1>2 DEF NInv, Typed, SlotsTyped, Forced
<1>4. r.type = "INVALID" /\ r.id = i /\ i \in 0..MaxId
  BY <1>3 DEF Closed, Socket, Fields
<1>5. i \in 1..alloc_id /\ HASH_ID(i) = k
  BY <1>2, <1>3 DEF NInv, Homed, Alive
<1>6. closing.what = "close" => closes[i] = 0
  BY <1>1 DEF Shut, ToTell
<1>7. spc' # "force"
  BY <1>1 DEF Loop
<1> HIDE DEF r
<1>8. Steady(sock[k], r)
  BY <1>4 DEF Steady, Alive
<1> HIDE DEF k, i
<1> QED BY <1>1, <1>2, <1>4, <1>5, <1>6, <1>7, <1>8, Reported

LEMMA IdleShut ==
  ASSUME NInv, NInv', Shut, NoCmd \/ sp_wait \/ null_event PROVE Shut' /\ Settled
<1>1. sock' = sock /\ UNCHANGED told /\ alloc_id' = alloc_id /\ spc' # "force"
  BY DEF NoCmd, sp_wait, null_event, Loop
<1>2. alloc_id' >= alloc_id
  BY <1>1, SocketAssumption DEF NInv, Typed
<1> QED BY <1>1, <1>2, SameSteady, Quiet

LEMMA ReportConnectShut == ASSUME NInv, NInv', Shut, report_connect PROVE Shut' /\ Settled
<1> DEFINE k == Head(ev).k
           s == sock[k]
<1>1. OnEvent({"CONNECTING"}) /\ s.type = "CONNECTING" /\ alloc_id' = alloc_id
  BY DEF report_connect, OnEvent
<1>2. k \in Slot /\ Socket(s) /\ Tail(ev) \in Seq(Batched)
  BY <1>1, EventFacts
<1>3. CASE net[s.id].err
  <2>1. StartForce(k, "err", FALSE, Tail(ev))
    BY <1>3 DEF report_connect
  <2> QED BY <1>1, <1>2, <2>1, ForceShut
<1>4. CASE ~ net[s.id].err
  <2> DEFINE w == s.writing /\ ~ nomore_sending_data(s)
             r == [s EXCEPT !.type = "CONNECTED", !.writing = w]
  <2>1. Handled(r, "open", s.id, Tail(ev))
    BY <1>4 DEF report_connect
  <2> HIDE DEF w
  <2>2. r.id = s.id /\ r.type = "CONNECTED"
    BY <1>2 DEF Socket, Fields
  <2> HIDE DEF r
  <2>3. Steady(s, r)
    BY <1>1, <2>2 DEF Steady, Alive
  <2> QED BY <1>1, <1>2, <2>1, <2>3, EventShut
<1> QED BY <1>3, <1>4

LEMMA ReportAcceptShut == ASSUME NInv, NInv', Shut, report_accept PROVE Shut' /\ Settled
<1> DEFINE k == Head(ev).k
           i == sock[k].id
<1>1. OnEvent({"LISTEN"})
  BY DEF report_accept
<1>2. k \in Slot /\ Tail(ev) \in Seq(Batched)
  BY <1>1, EventFacts
<1>3. CASE Handled(sock[k], "none", i, Tail(ev)) /\ alloc_id' = alloc_id
  BY <1>1, <1>2, <1>3, SameSteady, EventShut
<1>4. ASSUME NEW j \in Id, Reservable(j), alloc_id' = j, Report("accept", j),
             sock' = [sock EXCEPT ![HASH_ID(j)] = new_fd(@, j, "PACCEPT")], Loop(Tail(ev))
      PROVE  Shut' /\ Settled
  <2> DEFINE h == HASH_ID(j)
             r == new_fd(sock[h], j, "PACCEPT")
  <2>1. j \in 0..MaxId /\ j > alloc_id /\ alloc_id \in Nat /\ h \in Slot
    BY <1>4, SocketAssumption, HashInSlot DEF Id, NInv, Typed, Reservable
  <2>2. closes[j] = 0
    BY <2>1 DEF Shut, Gone, Counters
  <2>3. r.id = j
    BY <2>1 DEF new_fd, NInv, Typed, SlotsTyped, Socket, Fields
  <2> HIDE DEF r
  <2>4. sock'[h] = r /\ \A n \in Slot \ {h} : sock'[n] = sock[n]
    BY <1>4, <2>1 DEF NInv, Typed, SlotsTyped, r
  <2>5. \A n \in Slot : Steady(sock[n], sock'[n])
    BY <2>2, <2>3, <2>4, SameSteady DEF Steady
  <2>6. alloc_id' >= alloc_id /\ spc' # "force"
    BY <1>4, <2>1 DEF Loop
  <2> QED BY <1>4, <2>1, <2>5, <2>6, ShutStep
<1>5. ASSUME NEW j \in Id, Reservable(j) PROVE send_buffer_empty(sock[HASH_ID(j)])
  BY <1>5, FreeEmpty
<1> QED BY <1>3, <1>4, <1>5 DEF report_accept

LEMMA StaleEventShut == ASSUME NInv, NInv', Shut, stale_event PROVE Shut' /\ Settled
<1>1. /\ OnEvent({"INVALID"}) /\ alloc_id' = alloc_id
      /\ Handled(sock[Head(ev).k], "none", sock[Head(ev).k].id, Tail(ev))
  BY DEF stale_event
<1> QED BY <1>1, EventFacts, SameSteady, EventShut

LEMMA ErrorEventShut == ASSUME NInv, NInv', Shut, error_event PROVE Shut' /\ Settled
<1> DEFINE k == Head(ev).k
           s == sock[k]
<1>1. OnEvent(Open_) /\ alloc_id' = alloc_id /\ s.type # "INVALID"
  BY DEF error_event, OnEvent, Open_
<1>2. k \in Slot /\ Tail(ev) \in Seq(Batched)
  BY <1>1, EventFacts
<1>3. CASE StartForce(k, CloseReport(s), FALSE, Tail(ev))
  <2>1. CloseReport(s) = "close" => s.type # "HALFCLOSE_READ"
    BY DEF CloseReport
  <2> QED BY <1>1, <1>2, <1>3, <2>1, ForceShut
<1>4. CASE Handled(s, "err", s.id, Tail(ev)) \/ Handled(s, "none", s.id, Tail(ev))
  BY <1>1, <1>2, <1>4, SameSteady, EventShut
<1> QED BY <1>3, <1>4 DEF error_event

LEMMA ForwardShut == ASSUME NInv, NInv', Shut, forward_message_tcp PROVE Shut' /\ Settled
<1> DEFINE k == Head(ev).k
           s == sock[k]
           i == s.id
           n == net[i]
<1>1. OnEvent(Open_) /\ alloc_id' = alloc_id /\ s.type \in Open_
  BY DEF forward_message_tcp, OnEvent
<1>2. /\ k \in Slot /\ Socket(s)
      /\ Tail(ev) \in Seq(Batched) /\ Again \in Seq(Batched) /\ ev \in Seq(Batched)
  BY <1>1, EventFacts
<1>3. s.type # "INVALID" /\ (s.type # "RESERVE" => Alive(s))
  BY <1>1 DEF Open_, Alive
<1>4. CASE Abort
  <2>1. sock' = sock /\ UNCHANGED told /\ spc' = "aborted"
    BY <1>4 DEF Abort
  <2>2. alloc_id' >= alloc_id
    BY <1>1, SocketAssumption DEF NInv, Typed
  <2> QED BY <2>1, <2>2, SameSteady, Quiet
<1>5. ASSUME NEW what \in {"none", "err", "data"}, NEW rest \in Seq(Batched),
             Handled(s, what, i, rest), what = "data" => Alive(s) /\ s.type # "HALFCLOSE_READ"
      PROVE  Shut' /\ Settled
  BY <1>1, <1>5, SameSteady, EventShut
<1>6. ASSUME Handled(close_read(s), "close", i, Tail(ev)), Alive(s), s.type # "HALFCLOSE_READ"
      PROVE  Shut' /\ Settled
  <2>1. close_read(s).id = i /\ close_read(s).type = "HALFCLOSE_READ"
    BY <1>2 DEF close_read, Socket, Fields
  <2>2. Steady(s, close_read(s))
    BY <1>6, <2>1 DEF Steady
  <2> QED BY <1>1, <1>2, <1>6, <2>1, <2>2, EventShut
<1>7. ASSUME NEW what \in {"none", "close"}, NEW rest, StartForce(k, what, FALSE, rest),
             what = "close" => s.type # "HALFCLOSE_READ"
      PROVE  Shut' /\ Settled
  BY <1>1, <1>2, <1>3, <1>7, ForceShut
<1>8. CASE s.type = "RESERVE"
  BY <1>4, <1>8 DEF forward_message_tcp
<1>9. CASE s.type # "RESERVE" /\ n.err
  <2>1. Handled(s, "err", i, Tail(ev))
    BY <1>9 DEF forward_message_tcp
  <2> QED BY <1>2, <1>5, <2>1
<1>10. CASE s.type # "RESERVE" /\ ~ n.err /\ n.avail > 0 /\ n.avail # 0
  <2>1. \E rest \in {Again, ev} :
          IF s.type = "HALFCLOSE_READ" THEN rest = Again /\ Handled(s, "none", i, rest)
          ELSE Handled(s, "data", i, rest)
    BY <1>10 DEF forward_message_tcp
  <2>2. PICK rest \in {Again, ev} :
          IF s.type = "HALFCLOSE_READ" THEN rest = Again /\ Handled(s, "none", i, rest)
          ELSE Handled(s, "data", i, rest)
    BY <2>1
  <2>3. rest \in Seq(Batched)
    BY <1>2
  <2>4. CASE s.type = "HALFCLOSE_READ"
    BY <1>5, <2>2, <2>3, <2>4
  <2>5. CASE s.type # "HALFCLOSE_READ"
    BY <1>3, <1>5, <1>10, <2>2, <2>3, <2>5
  <2> QED BY <2>4, <2>5
<1>11. CASE s.type # "RESERVE" /\ ~ n.err /\ n.avail = 0 /\ ~ (n.avail > 0)
  <2>1. CASE n.fin \/ n.rst
    <3>1. /\ net' = net
          /\ CASE s.closing /\ nomore_sending_data(s) -> StartForce(k, "none", FALSE, Again)
               [] ~ s.closing /\ s.type = "HALFCLOSE_WRITE" ->
                    StartForce(k, "close", FALSE, Tail(ev))
               [] ~ s.closing /\ s.type \notin {"HALFCLOSE_READ", "HALFCLOSE_WRITE"} ->
                    Handled(close_read(s), "close", i, Tail(ev)) /\ UNCHANGED <<wire, freed>>
               [] OTHER -> Handled(s, "none", i, Again) /\ UNCHANGED <<wire, freed>>
      BY <1>11, <2>1, Zenon DEF forward_message_tcp
    <3>2. CASE s.closing /\ nomore_sending_data(s)
      BY <1>7, <3>1, <3>2
    <3>3. CASE ~ s.closing /\ s.type = "HALFCLOSE_WRITE"
      BY <1>7, <3>1, <3>3
    <3>4. CASE ~ s.closing /\ s.type \notin {"HALFCLOSE_READ", "HALFCLOSE_WRITE"}
      <4>1. Handled(close_read(s), "close", i, Tail(ev))
        BY <3>1, <3>4
      <4> QED BY <1>3, <1>6, <1>11, <3>4, <4>1
    <3>5. CASE /\ ~ (s.closing /\ nomore_sending_data(s))
               /\ ~ (~ s.closing /\ s.type = "HALFCLOSE_WRITE")
               /\ ~ (~ s.closing /\ s.type \notin {"HALFCLOSE_READ", "HALFCLOSE_WRITE"})
      <4>1. Handled(s, "none", i, Again)
        BY <3>1, <3>5
      <4> QED BY <1>2, <1>5, <4>1
    <3> QED BY <3>2, <3>3, <3>4, <3>5
  <2>2. CASE ~ n.fin /\ ~ n.rst
    <3>1. Handled(s, "none", i, Again)
      BY <1>11, <2>2, Zenon DEF forward_message_tcp
    <3> QED BY <1>2, <1>5, <3>1
  <2> QED BY <2>1, <2>2
<1>12. n.avail = 0 => ~ (n.avail > 0)
  OBVIOUS
<1> QED BY <1>8, <1>9, <1>10, <1>11, <1>12 DEF forward_message_tcp

LEMMA SendBufferShut == ASSUME NInv, NInv', Shut, send_buffer PROVE Shut' /\ Settled
<1> DEFINE k == Head(ev).k
           q == sock[k]
           i == q.id
           s == DwFirst(q)
<1>1. OnEvent(Open_) /\ alloc_id' = alloc_id /\ q.type \in Open_
  BY DEF send_buffer, OnEvent
<1>2. k \in Slot /\ Socket(q) /\ Tail(ev) \in Seq(Batched)
  BY <1>1, EventFacts
<1>3. ASSUME NEW r, NEW what \in {"none", "err", "warning"}, Handled(r, what, i, Tail(ev)),
             r.id = i,
             \/ r.type = q.type
             \/ Alive(q) /\ r.type = "INVALID"
             \/ Alive(q) /\ r.type = "HALFCLOSE_WRITE" /\ q.type # "HALFCLOSE_READ"
      PROVE  Shut' /\ Settled
  <2>1. Steady(q, r)
    BY <1>3 DEF Steady, Alive
  <2> QED BY <1>1, <1>2, <1>3, <2>1, EventShut
<1>4. CASE Abort
  <2>1. sock' = sock /\ UNCHANGED told /\ spc' = "aborted"
    BY <1>4 DEF Abort
  <2>2. alloc_id' >= alloc_id
    BY <1>1, SocketAssumption DEF NInv, Typed
  <2> QED BY <2>1, <2>2, SameSteady, Quiet
<1>5. CASE q.type = "RESERVE"
  <2>1. Abort \/ Handled(q, IF s.writing THEN "err" ELSE "none", i, Tail(ev))
    BY <1>2, <1>5, ReservedEmpty DEF send_buffer
  <2> QED BY <1>3, <1>4, <2>1
<1>6. CASE q.type # "RESERVE" /\ ~ LockFree(q)
  <2>1. Handled(q, "none", i, Tail(ev))
    BY <1>6 DEF send_buffer
  <2> QED BY <1>3, <2>1
<1>7. CASE q.type # "RESERVE" /\ LockFree(q)
  <2>1. Alive(q) /\ q.lock = None
    BY <1>1, <1>7 DEF Alive, Open_, LockFree
  <2>2. CASE net[i].rst /\ ~ send_buffer_empty(s)
    <3>1. \E what \in {"none", "err"} : Handled(close_write(s), what, i, Tail(ev))
      BY <1>7, <2>2 DEF send_buffer
    <3>2. DOMAIN s = Fields /\ s.type = q.type /\ s.id = i
      BY <1>2 DEF DwFirst, Socket, Fields
    <3> HIDE DEF s
    <3>3. /\ close_write(s).id = i
          /\ \/ close_write(s).type = "INVALID"
             \/ close_write(s).type = "HALFCLOSE_WRITE" /\ q.type # "HALFCLOSE_READ"
      BY <3>2 DEF close_write, Closed, Fields
    <3> QED BY <1>3, <2>1, <3>1, <3>3
  <2>3. CASE ~ (net[i].rst /\ ~ send_buffer_empty(s))
    <3>1. \E m \in 0..Len(s.high) + Len(s.low), what \in {"none", "warning"} :
            Handled(IF send_buffer_empty(Sent(s, m)) /\ s.closing THEN Closed(Sent(s, m))
                    ELSE Sent(s, m), what, i, Tail(ev))
      BY <1>7, <2>3 DEF send_buffer
    <3>2. PICK m \in 0..Len(s.high) + Len(s.low), what \in {"none", "warning"} :
            Handled(IF send_buffer_empty(Sent(s, m)) /\ s.closing THEN Closed(Sent(s, m))
                    ELSE Sent(s, m), what, i, Tail(ev))
      BY <3>1
    <3>3. Kept(q, Sent(s, m)) /\ Sent(s, m).type = q.type
      BY <1>2, <2>1, SentKept
    <3>4. /\ Sent(s, m).id = i /\ Closed(Sent(s, m)).id = i
          /\ Closed(Sent(s, m)).type = "INVALID"
      BY <3>3 DEF Kept, Closed, Socket, Fields
    <3> QED BY <1>3, <2>1, <3>2, <3>3, <3>4
  <2> QED BY <2>2, <2>3
<1> QED BY <1>5, <1>6, <1>7

LEMMA SocketThreadShut == ASSUME NInv, NInv', Shut, SocketThread, ~ clobbered' PROVE Shut' /\ Settled
  BY ForceCloseShut, CloseSocketShut, ResumeSocketShut, PauseSocketShut, TriggerWriteShut,
     OpenSocketShut, SendSocketShut, IdleShut, ReportConnectShut, ReportAcceptShut,
     StaleEventShut, ForwardShut, SendBufferShut, ErrorEventShut
     DEF SocketThread

-----------------------------------------------------------------------------
(* ... while workers call and peers act                                    *)

\* Every slot keeps its id and type.
LEMMA SameSockets ==
  ASSUME NInv, NInv', Shut, UNCHANGED <<alloc_id, thread, told>>,
         \A k \in Slot : sock'[k].id = sock[k].id /\ sock'[k].type = sock[k].type
  PROVE  Shut' /\ Settled
<1>1. \A k \in Slot : Steady(sock[k], sock'[k])
  BY DEF Steady, Alive
<1>2. alloc_id' >= alloc_id
  BY SocketAssumption DEF NInv, Typed
<1>3. closing.k \in Slot /\ closing' = closing /\ spc' = spc
  BY DEF NInv, Typed, ThreadTyped, thread
<1>4. spc' = "force" /\ closing'.what = "close" => closes[sock'[closing'.k].id] = 0
  BY <1>3 DEF Shut, ToTell
<1> QED BY <1>1, <1>2, <1>4, Quiet

LEMMA OneSocket ==
  ASSUME NInv, NInv', Shut, UNCHANGED <<alloc_id, thread, told>>, NEW k, NEW r,
         sock' = [sock EXCEPT ![k] = r], k \in Slot => r.id = sock[k].id /\ r.type = sock[k].type
  PROVE  Shut' /\ Settled
<1>1. \A j \in Slot : sock'[j].id = sock[j].id /\ sock'[j].type = sock[j].type
  BY DEF NInv, Typed, SlotsTyped
<1> QED BY <1>1, SameSockets

LEMMA WorkShut == ASSUME NInv, NInv', Shut, NEW t \in Caller, Work(t) PROVE Shut' /\ Settled
<1> DEFINE k == HASH_ID(call[t].id)
           s == sock[k]
<1>1. UNCHANGED <<alloc_id, thread, told>>
  BY DEF Work, PostOpen, FirstCheck, TryLock, CheckLocked, DirectWrite, Wake, inc_sending_ref,
         PostSend, server
<1>2. CASE sock' = sock
  BY <1>1, <1>2, SameSockets
<1>3. CASE PostOpen(t)
  <2>1. k \in Slot => DOMAIN s = Fields
    BY DEF NInv, Typed, SlotsTyped, Socket
  <2> DEFINE r == [s EXCEPT !.seen = call[t].id, !.tcp = FALSE]
  <2>3. sock' = [sock EXCEPT ![k] = r]
    BY <1>3 DEF PostOpen
  <2>4. k \in Slot => r.id = s.id /\ r.type = s.type
    BY <2>1 DEF Fields
  <2> HIDE DEF r, k
  <2> QED BY <1>1, <2>3, <2>4, OneSocket
<1>4. CASE TryLock(t) \/ CheckLocked(t)
  <2>1. k \in Slot => DOMAIN s = Fields
    BY DEF NInv, Typed, SlotsTyped, Socket
  <2>2. sock' = sock \/ \E l : sock' = [sock EXCEPT ![k] = [s EXCEPT !.lock = l]]
    BY <1>4 DEF TryLock, CheckLocked
  <2>3. ASSUME NEW l, sock' = [sock EXCEPT ![k] = [s EXCEPT !.lock = l]] PROVE Shut' /\ Settled
    <3> DEFINE r == [s EXCEPT !.lock = l]
    <3>1. k \in Slot => r.id = s.id /\ r.type = s.type
      BY <2>1 DEF Fields
    <3> HIDE DEF r, k
    <3> QED BY <1>1, <2>3, <3>1, OneSocket DEF r
  <2> QED BY <1>2, <2>2, <2>3
<1>5. CASE DirectWrite(t)
  <2>1. k \in Slot => DOMAIN s = Fields
    BY DEF NInv, Typed, SlotsTyped, Socket
  <2>2. PICK n \in 0..BufSize : sock' = [sock EXCEPT ![k] = Written(s, call[t].buf, n)]
    BY <1>5 DEF DirectWrite
  <2> DEFINE r == Written(s, call[t].buf, n)
  <2>3. k \in Slot => r.id = s.id /\ r.type = s.type
    BY <2>1 DEF Fields, Written
  <2> HIDE DEF r, k
  <2> QED BY <1>1, <2>2, <2>3, OneSocket DEF r
<1>6. CASE inc_sending_ref(t)
  <2>1. k \in Slot => DOMAIN s = Fields
    BY DEF NInv, Typed, SlotsTyped, Socket
  <2> DEFINE r == [s EXCEPT !.sending = @ + 1]
  <2>2. sock' = sock \/ sock' = [sock EXCEPT ![k] = r]
    BY <1>6 DEF inc_sending_ref
  <2>3. k \in Slot => r.id = s.id /\ r.type = s.type
    BY <2>1 DEF Fields
  <2> HIDE DEF r, k
  <2> QED BY <1>1, <1>2, <2>2, <2>3, OneSocket
<1>7. CASE FirstCheck(t) \/ Wake(t) \/ PostSend(t)
  BY <1>2, <1>7 DEF FirstCheck, Wake, PostSend, server
<1> QED BY <1>3, <1>4, <1>5, <1>6, <1>7 DEF Work

LEMMA OpenShut ==
  ASSUME NInv, NInv', Shut, NEW t \in Caller, NEW cmd, Open(t, cmd) PROVE Shut' /\ Settled
<1>1. PICK i \in Id :
        /\ Reservable(i) /\ alloc_id' = i
        /\ sock' = [sock EXCEPT ![HASH_ID(i)] =
                      [sock[HASH_ID(i)] EXCEPT !.type = "RESERVE", !.id = i]]
  BY DEF Open
<1> DEFINE k == HASH_ID(i)
           r == [sock[k] EXCEPT !.type = "RESERVE", !.id = i]
<1>2. i \in 0..MaxId /\ i > alloc_id /\ alloc_id \in Nat /\ k \in Slot /\ sock[k].type = "INVALID"
  BY <1>1, SocketAssumption, HashInSlot DEF Id, NInv, Typed, Reservable
<1>3. closes[i] = 0
  BY <1>2 DEF Shut, Gone, Counters
<1>4. r.id = i
  BY <1>2 DEF NInv, Typed, SlotsTyped, Socket, Fields
<1> HIDE DEF r
<1>5. sock'[k] = r /\ \A n \in Slot \ {k} : sock'[n] = sock[n]
  BY <1>1, <1>2 DEF NInv, Typed, SlotsTyped, r
<1>6. \A n \in Slot : Steady(sock[n], sock'[n])
  BY <1>3, <1>4, <1>5, SameSteady DEF Steady
<1>7. alloc_id' >= alloc_id /\ UNCHANGED <<thread, told>>
  BY <1>1, <1>2 DEF Open
<1>8. spc' = "force" /\ closing'.what = "close" => closes[sock'[closing'.k].id] = 0
  <2>1. spc' = spc /\ closing' = closing /\ closing.k \in Slot
    BY <1>7 DEF thread, NInv, Typed, ThreadTyped
  <2>2. spc = "force" => closing.k # k
    BY <1>2 DEF NInv, Forced, Alive
  <2> QED BY <1>5, <2>1, <2>2 DEF Shut, ToTell
<1> QED BY <1>6, <1>7, <1>8, Quiet

LEMMA ShutNext ==
  ASSUME NInv, NInv', Shut, ~ clobbered', [Next]_vars PROVE Shut' /\ Settled
<1>1. CASE SocketThread
  BY <1>1, SocketThreadShut
<1>2. ASSUME NEW t \in Caller, Work(t) PROVE Shut' /\ Settled
  BY <1>2, WorkShut
<1>3. ASSUME sock' = sock, UNCHANGED <<alloc_id, thread, told>> PROVE Shut' /\ Settled
  BY <1>3, SameSockets
<1>4. ASSUME NEW t \in Caller, Interface(t) PROVE Shut' /\ Settled
  <2>1. CASE \E cmd \in {"K", "KS", "R", "S"} : Command(t, cmd)
    BY <1>3, <2>1 DEF Command
  <2>2. CASE \E prio \in {"D", "P"} : Send(t, prio)
    BY <1>3, <2>2 DEF Send, server
  <2> QED BY <1>4, <2>1, <2>2, OpenShut DEF Interface
<1>5. CASE \E i \in Id : Connected(i) \/ Peer(i)
  BY <1>3, <1>5 DEF Connected, Peer, server
<1>6. CASE UNCHANGED vars
  BY <1>3, <1>6 DEF vars, server
<1> QED BY <1>1, <1>2, <1>4, <1>5, <1>6 DEF Next

\* A service is told once that a socket is closed, whether it or the peer closed it,
\* and gets no data of it afterwards, however a second close, a shutdown, the peer's
\* end, errors and the reuse of the slot come together (close_socket, force_close,
\* forward_message_tcp and the comment on SOCKET_CLOSE).
THEOREM ClosedOnce == Spec => CloseOnce
<1> DEFINE Inv == clobbered \/ (NInv /\ Logged /\ Shut)
<1>1. Init => Inv
  <2>1. Init => NInv /\ Logged
    BY InitHolds, InitLogged
  <2>2. Init => Shut
    BY SocketAssumption DEF Init, Shut, Counters, Gone, HalfClosed, ToTell, Alive
  <2> QED BY <2>1, <2>2
<1>2. Inv /\ [Next]_vars => Inv' /\ (clobbered' \/ Settled)
  BY NInvNext, LoggedNext, ShutNext, ClobberedStays
<1>3. clobbered' \/ Settled =>
        [clobbered' \/ \A i \in DOMAIN closes :
                          closes[i] > 0 => closes'[i] = closes[i] /\ read'[i] = read[i]]_vars
  BY DEF Settled
<1> QED BY <1>1, <1>2, <1>3, PTL DEF Spec, CloseOnce

-----------------------------------------------------------------------------
(* What is under way to a socket                                           *)

\* The packages for socket i in a queue of commands
Packages(q, i) == {x \in 1..Len(q) : q[x].id = i /\ q[x].buf # 0}

LEMMA PackagesFinite ==
  ASSUME NEW q \in Seq(Entry), NEW i
  PROVE  IsFiniteSet(Packages(q, i)) /\ Cardinality(Packages(q, i)) \in Nat
<1>1. IsFiniteSet(1..Len(q)) /\ Packages(q, i) \in SUBSET (1..Len(q))
  BY FS_Interval DEF Packages
<1> QED BY <1>1, FS_Subset, FS_CardinalityType

LEMMA PackagesAppended ==
  ASSUME NEW q \in Seq(Entry), NEW c \in Entry, NEW i
  PROVE  Cardinality(Packages(Append(q, c), i)) =
           Cardinality(Packages(q, i)) + (IF c.id = i /\ c.buf # 0 THEN 1 ELSE 0)
<1> DEFINE a == Append(q, c)
           n == Len(q)
<1>1. /\ Len(a) = n + 1 /\ n \in Nat /\ a[n + 1] = c
      /\ \A x \in 1..n : a[x] = q[x]
      /\ \A x \in 1..n + 1 : x \in 1..n \/ x = n + 1
      /\ n + 1 \in 1..n + 1 /\ n + 1 \notin 1..n /\ 1..n \subseteq 1..n + 1
  OBVIOUS
<1> HIDE DEF a, n
<1>2. CASE c.id = i /\ c.buf # 0
  <2>1. Packages(a, i) = Packages(q, i) \cup {n + 1} /\ n + 1 \notin Packages(q, i)
    BY <1>1, <1>2 DEF Packages, n
  <2> QED BY <1>2, <2>1, PackagesFinite, FS_AddElement DEF a
<1>3. CASE ~ (c.id = i /\ c.buf # 0)
  <2>1. Packages(a, i) = Packages(q, i)
    BY <1>1, <1>3 DEF Packages, n
  <2> QED BY <1>3, <2>1, PackagesFinite DEF a
<1> QED BY <1>2, <1>3

LEMMA PackagesTaken ==
  ASSUME NEW q \in Seq(Entry), q # <<>>, NEW i
  PROVE  Cardinality(Packages(q, i)) = Cardinality(Packages(Tail(q), i))
           + (IF Head(q).id = i /\ Head(q).buf # 0 THEN 1 ELSE 0)
<1> DEFINE a == Tail(q)
           n == Len(q)
           S == Packages(q, i) \ {1}
           T == Packages(a, i)
           f == [x \in S |-> x - 1]
<1>1. /\ Len(a) = n - 1 /\ n \in Nat /\ n > 0 /\ Head(q) = q[1] /\ 1 \in 1..n
      /\ \A x \in 1..n - 1 : a[x] = q[x + 1] /\ x + 1 \in 1..n
      /\ \A x \in 1..n \ {1} : x - 1 \in 1..n - 1 /\ a[x - 1] = q[x]
      /\ a \in Seq(Entry)
  OBVIOUS
<1> HIDE DEF a, n
<1>2. IsFiniteSet(S) /\ IsFiniteSet(Packages(q, i))
  BY PackagesFinite, FS_RemoveElement
<1>3. \A x \in S : x \in Nat /\ x - 1 \in T
  BY <1>1 DEF Packages, n
<1>4. \A y \in T : y \in Nat /\ y + 1 \in S /\ (y + 1) - 1 = y
  BY <1>1 DEF Packages, n
<1>5. f \in Surjection(S, T)
  <2>1. f \in [S -> T]
    BY <1>3
  <2>2. \A y \in T : \E x \in S : f[x] = y
    BY <1>4
  <2> QED BY <2>1, <2>2 DEF Surjection
<1>6. f \in Injection(S, T)
  BY <1>3, <1>5 DEF Injection, Surjection, IsInjective
<1> HIDE DEF f, S, T
<1>7. Cardinality(T) = Cardinality(S)
  BY <1>2, <1>5, <1>6, FS_Surjection
<1>8. Cardinality(S) = IF 1 \in Packages(q, i) THEN Cardinality(Packages(q, i)) - 1
                       ELSE Cardinality(Packages(q, i))
  BY <1>2, FS_RemoveElement DEF S
<1>9. 1 \in Packages(q, i) <=> Head(q).id = i /\ Head(q).buf # 0
  BY <1>1 DEF Packages, n
<1>10. Cardinality(Packages(q, i)) \in Nat
  BY PackagesFinite
<1>11. Cardinality(Packages(a, i)) = Cardinality(S)
  BY <1>7 DEF T
<1> QED BY <1>8, <1>9, <1>10, <1>11 DEF a

\* The calls about to post a package for socket i
Posting(i) == {t \in Caller : At(t, "post") /\ call[t].id = i}

LEMMA PostingFinite ==
  ASSUME NEW i PROVE IsFiniteSet(Posting(i)) /\ Cardinality(Posting(i)) \in Nat
<1>1. Posting(i) \in SUBSET Caller /\ IsFiniteSet(Caller)
  BY SocketAssumption DEF Posting
<1> QED BY <1>1, FS_Subset, FS_CardinalityType

-----------------------------------------------------------------------------
(* Counts, backlogs and buffers                                            *)

\* The lists of a socket are about different buffers, and in the low list a buffer's
\* units are together.
Runs(q) == \A x, y, z \in 1..Len(q) : x <= y /\ y <= z /\ q[x] = q[z] => q[y] = q[x]
Lists(s) ==
  /\ s.high \in Seq(Nat) /\ s.low \in Seq(Nat) /\ s.dw \in Seq(Nat)
  /\ Range(s.high) \cap Range(s.low) = {} /\ Range(s.high) \cap Range(s.dw) = {}
  /\ Range(s.low) \cap Range(s.dw) = {} /\ Runs(s.low)
Numbers(s) ==
  /\ s.wb \in Nat /\ s.warn \in Nat /\ s.tag \in Nat /\ s.sending \in 0..MaxSending
  /\ s.tcp \in BOOLEAN /\ s.closing \in BOOLEAN /\ s.reading \in BOOLEAN
Books == \A k \in Slot : Lists(sock[k]) /\ Numbers(sock[k])

\* The backlog of a socket is its lists, unless it is being closed by force.
Backlog(s) == s.wb = Len(s.high) + Len(s.low) /\ (s.warn # 0 => ~ send_buffer_empty(s))
Forcing(k) == spc = "force" /\ closing.k = k
Backlogs == \A k \in Slot : Alive(sock[k]) /\ ~ Forcing(k) => Backlog(sock[k])

\* A slot was used by ids that hash to it only, and a count of sends is marked with
\* the id it is for, and is theirs, whether its socket is still there or not.
Tags ==
  \A k \in Slot : /\ sock[k].seen # 0 => HASH_ID(sock[k].seen) = k
                  /\ sock[k].tcp => sock[k].tag = ID_TAG16(sock[k].seen)
UnderWay(i) == Cardinality(Posting(i)) + Cardinality(Packages(pipe, i))
Sending == \A k \in Slot : sock[k].tcp => sock[k].sending = UnderWay(sock[k].seen)

\* A direct write leaves its remainder where there is none.
Blank == \A t \in Caller : At(t, "write") => sock[HASH_ID(call[t].id)].dw = <<>>

\* Buffers are those of the sends so far, and only sends have one.
Bufs ==
  /\ sends <= MaxBuf
  /\ \A x \in 1..Len(pipe) :
       IF pipe[x].cmd \in {"D", "P"} THEN pipe[x].buf \in 1..sends ELSE pipe[x].buf = 0
  /\ \A t \in Caller : InHand(t) \subseteq 1..sends
  /\ \A k \in Slot : Held(sock[k]) \subseteq 1..sends

\* A buffer is in one place at a time.
Single ==
  /\ \A t, u \in Caller : \A b \in InHand(t) : b \in InHand(u) => t = u
  /\ \A x, y \in 1..Len(pipe) : pipe[x].buf = pipe[y].buf /\ pipe[x].buf # 0 => x = y
  /\ \A k, l \in Slot : \A b \in Held(sock[k]) : b \in Held(sock[l]) => k = l
  /\ \A t \in Caller, x \in 1..Len(pipe) : pipe[x].buf \notin InHand(t)
  /\ \A t \in Caller, k \in Slot : \A b \in InHand(t) : b \notin Held(sock[k])
  /\ \A x \in 1..Len(pipe), k \in Slot : pipe[x].buf \notin Held(sock[k])

\* It is freed when it is in none.
Piped(b) == \E x \in 1..Len(pipe) : pipe[x].buf = b
Somewhere(b) ==
  (\E t \in Caller : b \in InHand(t)) \/ Piped(b) \/ (\E k \in Slot : b \in Held(sock[k]))
FreedRight ==
  /\ freed \in [Buf -> Nat]
  /\ \A b \in Buf : freed[b] = IF b <= sends /\ ~ Somewhere(b) THEN 1 ELSE 0

Owned == Bufs /\ Single /\ FreedRight

CInv == Books /\ Backlogs /\ Tags /\ Sending /\ Blank /\ Owned

\* A slot that was used keeps an id.
IdsKept == \A k \in Slot : sock'[k].seen = sock[k].seen \/ sock'[k].seen \in Id
CNext == CInv' /\ IdsKept

\* The pipe stays, or loses a command that carries no buffer.
PopBare == pipe' = pipe \/ (pipe # <<>> /\ Head(pipe).buf = 0 /\ pipe' = Tail(pipe))

LEMMA UnderWaySame ==
  ASSUME Typed, call' = call, PopBare, NEW i
  PROVE  UnderWay(i)' = UnderWay(i)
<1>1. Posting(i)' = Posting(i)
  BY DEF Posting, At
<1>2. pipe \in Seq(Entry)
  BY DEF Typed
<1>3. Cardinality(Packages(pipe', i)) = Cardinality(Packages(pipe, i))
  <2>1. CASE pipe' = pipe
    BY <2>1
  <2>2. CASE pipe # <<>> /\ Head(pipe).buf = 0 /\ pipe' = Tail(pipe)
    <3>1. pipe' \in Seq(Entry)
      BY <1>2, <2>2
    <3>2. Cardinality(Packages(pipe', i)) \in Nat
      BY <3>1, PackagesFinite
    <3> QED BY <1>2, <2>2, <3>2, PackagesTaken
  <2> QED BY <2>1, <2>2 DEF PopBare
<1> QED BY <1>1, <1>3 DEF UnderWay

\* What is left in the pipe was there.
LEMMA Shifted ==
  ASSUME Typed, Pop
  PROVE  \E d \in {0, 1} :
           /\ \A x \in 1..Len(pipe') : x + d \in 1..Len(pipe) /\ pipe'[x] = pipe[x + d]
           /\ \A y \in 1..Len(pipe) : y = d \/ (y - d \in 1..Len(pipe') /\ pipe'[y - d] = pipe[y])
           /\ d = 1 => pipe # <<>> /\ Head(pipe) = pipe[1]
           /\ d = 0 => pipe' = pipe
<1>1. CASE pipe' = pipe
  <2>1. \A x \in 1..Len(pipe) : x + 0 = x /\ x - 0 = x
    OBVIOUS
  <2> QED BY <1>1, <2>1
<1>2. CASE pipe # <<>> /\ pipe' = Tail(pipe)
  <2>1. /\ \A x \in 1..Len(pipe') : x + 1 \in 1..Len(pipe) /\ pipe'[x] = pipe[x + 1]
        /\ \A y \in 1..Len(pipe) : y = 1 \/ (y - 1 \in 1..Len(pipe') /\ (y - 1) + 1 = y)
        /\ Head(pipe) = pipe[1]
    BY <1>2, Popped
  <2>2. \A y \in 1..Len(pipe) : y = 1 \/ (y - 1 \in 1..Len(pipe') /\ pipe'[y - 1] = pipe[y])
    BY <2>1
  <2> QED BY <1>2, <2>1, <2>2
<1> QED BY <1>1, <1>2 DEF Pop

LEMMA PipedSame ==
  ASSUME Typed, PopBare, NEW b, b # 0
  PROVE  Piped(b)' <=> Piped(b)
<1>1. PICK d \in {0, 1} :
        /\ \A x \in 1..Len(pipe') : x + d \in 1..Len(pipe) /\ pipe'[x] = pipe[x + d]
        /\ \A y \in 1..Len(pipe) : y = d \/ (y - d \in 1..Len(pipe') /\ pipe'[y - d] = pipe[y])
        /\ d = 1 => pipe # <<>> /\ Head(pipe) = pipe[1]
        /\ d = 0 => pipe' = pipe
  BY Shifted DEF PopBare, Pop
<1>2. ASSUME Piped(b)' PROVE Piped(b)
  <2>1. PICK x \in 1..Len(pipe') : pipe'[x].buf = b
    BY <1>2 DEF Piped
  <2> QED BY <1>1, <2>1 DEF Piped
<1>3. ASSUME Piped(b) PROVE Piped(b)'
  <2>1. PICK y \in 1..Len(pipe) : pipe[y].buf = b
    BY <1>3 DEF Piped
  <2>2. y # d
    <3>1. CASE d = 0
      BY <3>1
    <3>2. CASE d = 1
      <4>1. CASE pipe' = pipe
        <5>1. Len(pipe) \in Nat
          BY DEF Typed
        <5> QED BY <1>1, <3>2, <4>1, <5>1
      <4>2. CASE Head(pipe).buf = 0
        BY <1>1, <2>1, <3>2, <4>2
      <4> QED BY <4>1, <4>2 DEF PopBare
    <3> QED BY <3>1, <3>2
  <2> QED BY <1>1, <2>1, <2>2 DEF Piped
<1> QED BY <1>2, <1>3

-----------------------------------------------------------------------------
(* What is freed                                                           *)

\* Every buffer is freed once more that is in bs.
Frees(bs) ==
  /\ freed' \in [Buf -> Nat]
  /\ \A b \in Buf : freed'[b] = freed[b] + (IF b \in bs THEN 1 ELSE 0)

LEMMA FreeFrees ==
  ASSUME freed \in [Buf -> Nat], NEW bs, Free(bs) \/ (bs = {} /\ freed' = freed)
  PROVE  Frees(bs)
  BY DEF Free, Frees

\* The buffers that are freed were somewhere, and are nowhere now.
LEMMA FreedStep ==
  ASSUME FreedRight, NEW bs, Frees(bs), sends' = sends \/ sends' = sends + 1,
         NEW f, f \in Nat, f = sends,
         \A b \in Buf : b \in bs =>
           /\ b <= sends' /\ ~ Somewhere(b)'
           /\ b <= f => Somewhere(b),
         \A b \in Buf : b \notin bs =>
           IF b <= f THEN Somewhere(b)' <=> Somewhere(b) ELSE b <= sends' => Somewhere(b)'
  PROVE  FreedRight'
<1>1. freed' \in [Buf -> Nat] /\ \A b \in Buf : freed'[b] = freed[b] + (IF b \in bs THEN 1 ELSE 0)
  BY DEF Frees
<1>2. freed \in [Buf -> Nat] /\ \A b \in Buf : freed[b] = IF b <= f /\ ~ Somewhere(b) THEN 1 ELSE 0
  BY DEF FreedRight
<1>3. ASSUME NEW b \in Buf PROVE freed'[b] = IF b <= sends' /\ ~ Somewhere(b)' THEN 1 ELSE 0
  <2>1. b \in Nat /\ (b <= f => b <= sends')
    BY SocketAssumption DEF Buf
  <2>2. CASE b \in bs
    <3>1. freed[b] = 0
      BY <1>2, <2>2
    <3> QED BY <1>1, <2>2, <3>1
  <2>3. CASE b \notin bs
    <3>1. freed'[b] = freed[b]
      BY <1>1, <1>2, <2>3
    <3> QED BY <1>2, <2>1, <2>3, <3>1
  <2> QED BY <2>2, <2>3
<1> QED BY <1>1, <1>3 DEF FreedRight

\* The slots are the same but for k.
Only(k) == \A j \in Slot \ {k} : sock'[j] = sock[j]

\* A list of the socket is shortened, and what falls out is freed.
LEMMA OwnedDrop ==
  ASSUME Typed, Logged, Owned, call' = call, log' = log, PopBare, NEW k \in Slot, Only(k),
         Held(sock'[k]) \subseteq Held(sock[k]), Frees(Held(sock[k]) \ Held(sock'[k]))
  PROVE  Owned'
<1> DEFINE F == Held(sock[k]) \ Held(sock'[k])
<1>0. Bufs /\ Single /\ FreedRight
  BY DEF Owned
<1>1. PICK d \in {0, 1} :
        /\ \A x \in 1..Len(pipe') : x + d \in 1..Len(pipe) /\ pipe'[x] = pipe[x + d]
        /\ \A y \in 1..Len(pipe) : y = d \/ (y - d \in 1..Len(pipe') /\ pipe'[y - d] = pipe[y])
        /\ d = 1 => pipe # <<>> /\ Head(pipe) = pipe[1]
        /\ d = 0 => pipe' = pipe
  BY Shifted DEF PopBare, Pop
<1>2. \A t \in Caller : InHand(t)' = InHand(t)
  BY DEF InHand
<1>3. \A j \in Slot : Held(sock'[j]) \subseteq Held(sock[j])
  BY DEF Only
<1>4. \A x, y \in 1..Len(pipe') : x + d = y + d => x = y
  OBVIOUS
<1>e. \A x \in 1..Len(pipe') : \E y \in 1..Len(pipe) : pipe'[x] = pipe[y]
  BY <1>1
<1>5. sends' = sends /\ sends \in Nat
  BY DEF Logged, sends
<1>6. Bufs'
  <2>1. \A x \in 1..Len(pipe') :
          IF pipe'[x].cmd \in {"D", "P"} THEN pipe'[x].buf \in 1..sends ELSE pipe'[x].buf = 0
    BY <1>0, <1>e DEF Bufs
  <2>2. \A t \in Caller : InHand(t)' \subseteq 1..sends
    BY <1>0, <1>2 DEF Bufs
  <2>3. \A j \in Slot : Held(sock'[j]) \subseteq 1..sends
    BY <1>0, <1>3 DEF Bufs
  <2>4. \A j \in Slot : Held(sock[j])' = Held(sock'[j])
    BY DEF Held
  <2>5. sends' <= MaxBuf
    BY <1>0, <1>5 DEF Bufs
  <2> QED BY <2>1, <2>2, <2>3, <2>4, <2>5, <1>5 DEF Bufs
<1>7. Single'
  <2>1. \A t, u \in Caller : \A b \in InHand(t)' : b \in InHand(u)' => t = u
    BY <1>0, <1>2 DEF Single
  <2>2. \A x, y \in 1..Len(pipe') : pipe'[x].buf = pipe'[y].buf /\ pipe'[x].buf # 0 => x = y
    <3> SUFFICES ASSUME NEW x \in 1..Len(pipe'), NEW y \in 1..Len(pipe'),
                        pipe'[x].buf = pipe'[y].buf, pipe'[x].buf # 0
                 PROVE  x = y
      OBVIOUS
    <3>1. x + d \in 1..Len(pipe) /\ pipe'[x] = pipe[x + d]
      BY <1>1
    <3>2. y + d \in 1..Len(pipe) /\ pipe'[y] = pipe[y + d]
      BY <1>1
    <3>3. x + d = y + d
      BY <1>0, <3>1, <3>2 DEF Single
    <3> QED BY <1>4, <3>3
  <2>3. \A j, l \in Slot : \A b \in Held(sock'[j]) : b \in Held(sock'[l]) => j = l
    BY <1>0, <1>3 DEF Single
  <2>4. ASSUME NEW t \in Caller, NEW x \in 1..Len(pipe') PROVE pipe'[x].buf \notin InHand(t)'
    <3>1. PICK y \in 1..Len(pipe) : pipe'[x] = pipe[y]
      BY <1>e
    <3> QED BY <1>0, <1>2, <3>1 DEF Single
  <2>5. \A t \in Caller, j \in Slot : \A b \in InHand(t)' : b \notin Held(sock'[j])
    BY <1>0, <1>2, <1>3 DEF Single
  <2>6. ASSUME NEW x \in 1..Len(pipe'), NEW j \in Slot
        PROVE  pipe'[x].buf \notin Held(sock'[j])
    <3>1. PICK y \in 1..Len(pipe) : pipe'[x] = pipe[y]
      BY <1>e
    <3>2. pipe[y].buf \notin Held(sock[j])
      BY <1>0 DEF Single
    <3> QED BY <1>3, <3>1, <3>2
  <2>7. \A j \in Slot : Held(sock[j])' = Held(sock'[j])
    BY DEF Held
  <2> HIDE DEF F
  <2> QED BY <2>1, <2>2, <2>3, <2>4, <2>5, <2>6, <2>7 DEF Single
<1>8. FreedRight'
  <2>1. ASSUME NEW b \in Buf, b \notin F PROVE Somewhere(b)' <=> Somewhere(b)
    <3>1. Piped(b)' <=> Piped(b)
      BY PipedSame, SocketAssumption DEF Buf
    <3>2. \A j \in Slot : b \in Held(sock'[j]) <=> b \in Held(sock[j])
      BY <1>3, <2>1 DEF Only
    <3>3. \A j \in Slot : Held(sock[j])' = Held(sock'[j])
      BY DEF Held
    <3> QED BY <1>2, <3>1, <3>2, <3>3 DEF Somewhere
  <2>2. ASSUME NEW b \in Buf, b \in F PROVE b <= sends /\ ~ Somewhere(b)' /\ Somewhere(b)
    <3>1. b \in Held(sock[k]) /\ b \notin Held(sock'[k]) /\ b # 0
      BY <2>2, SocketAssumption DEF Buf
    <3>2. b \in 1..sends
      BY <1>0, <3>1 DEF Bufs
    <3>3. /\ \A t \in Caller : b \notin InHand(t)
          /\ \A x \in 1..Len(pipe) : pipe[x].buf # b
          /\ \A j \in Slot : b \in Held(sock[j]) => j = k
      BY <1>0, <3>1 DEF Single
    <3>4. ~ Piped(b) /\ ~ Piped(b)'
      BY <3>1, <3>3, PipedSame DEF Piped
    <3>5. \A j \in Slot : b \notin Held(sock'[j])
      BY <1>3, <3>1, <3>3
    <3>6. \A j \in Slot : Held(sock[j])' = Held(sock'[j])
      BY DEF Held
    <3> QED BY <1>2, <3>1, <3>2, <3>3, <3>4, <3>5, <3>6 DEF Somewhere
  <2>3. Frees(F)
    OBVIOUS
  <2> HIDE DEF F
  <2>4. \A b \in Buf : b \in F => b <= sends' /\ ~ Somewhere(b)' /\ (b <= sends => Somewhere(b))
    BY <2>2, <1>5
  <2>5. \A b \in Buf : b \notin F =>
           IF b <= sends THEN Somewhere(b)' <=> Somewhere(b) ELSE b <= sends' => Somewhere(b)'
    BY <2>1, <1>5
  <2> QED BY <1>0, <1>5, <2>3, <2>4, <2>5, FreedStep
<1> QED BY <1>6, <1>7, <1>8 DEF Owned

-----------------------------------------------------------------------------
(* Steps that move no data                                                 *)

\* A socket keeps whose it is and its count of sends, its lists may only get shorter.
Lighter(s, r) ==
  /\ Lists(r) /\ Numbers(r)
  /\ r.seen = s.seen /\ r.tcp = s.tcp /\ r.tag = s.tag /\ r.sending = s.sending
  /\ r.dw = s.dw \/ r.dw = <<>>
  /\ Held(r) \subseteq Held(s)

LEMMA CallSlot == ASSUME Typed, NEW t \in Caller PROVE HASH_ID(call[t].id) \in Slot
  BY Ids DEF Typed, InCall

\* A step of the socket thread that sends nothing.
LEMMA DropKeeps ==
  ASSUME NInv, Logged, CInv, call' = call, log' = log, PopBare, NEW k \in Slot, Only(k),
         Lighter(sock[k], sock'[k]), Frees(Held(sock[k]) \ Held(sock'[k])),
         Alive(sock'[k]) /\ ~ Forcing(k)' => Backlog(sock'[k]),
         \A j \in Slot \ {k} : Forcing(j) => Forcing(j)'
  PROVE  CNext
<1>0. Typed /\ Books /\ Backlogs /\ Tags /\ Sending /\ Blank /\ Owned
  BY DEF NInv, CInv
<1>1. Owned'
  BY <1>0, OwnedDrop DEF Lighter
<1>2. Books'
  <2>1. \A j \in Slot : Lists(sock'[j]) /\ Numbers(sock'[j])
    BY <1>0 DEF Books, Only, Lighter
  <2> QED BY <2>1 DEF Books, Lists, Numbers, Runs
<1>3. Backlogs'
  <2>1. \A j \in Slot : Alive(sock'[j]) /\ ~ Forcing(j)' => Backlog(sock'[j])
    BY <1>0 DEF Backlogs, Only
  <2> QED BY <2>1 DEF Backlogs, Backlog, Alive, send_buffer_empty
<1>4. Tags'
  BY <1>0 DEF Tags, Only, Lighter
<1>5. \A i : UnderWay(i)' = UnderWay(i)
  BY <1>0, UnderWaySame
<1>6. Sending'
  <2>1. \A j \in Slot : sock'[j].tcp => sock'[j].sending = UnderWay(sock'[j].seen)
    BY <1>0 DEF Sending, Only, Lighter
  <2>2. ASSUME NEW j \in Slot, NEW i, i = sock'[j].seen, sock'[j].tcp
        PROVE  sock'[j].sending = UnderWay(i)'
    BY <1>5, <2>1, <2>2
  <2> QED BY <2>2 DEF Sending, UnderWay, Posting, Packages, At
<1>7. Blank'
  <2>1. \A j \in Slot : sock[j].dw = <<>> => sock'[j].dw = <<>>
    BY DEF Only, Lighter
  <2> QED BY <1>0, <2>1, CallSlot DEF Blank, At
<1>8. IdsKept
  BY DEF IdsKept, Only, Lighter
<1> QED BY <1>1, <1>2, <1>3, <1>4, <1>6, <1>7, <1>8 DEF CInv, CNext

\* Only what the socket is doing changes, not its data.
SameData(s, r) ==
  /\ r.closing \in BOOLEAN /\ r.reading \in BOOLEAN
  /\ r.seen = s.seen /\ r.tcp = s.tcp /\ r.tag = s.tag /\ r.sending = s.sending
  /\ r.high = s.high /\ r.low = s.low /\ r.dw = s.dw /\ r.wb = s.wb /\ r.warn = s.warn

LEMMA SameLighter ==
  ASSUME NEW s, NEW r, Lists(s), Numbers(s), SameData(s, r)
  PROVE  Lighter(s, r) /\ Held(r) = Held(s) /\ (Backlog(s) => Backlog(r))
  BY DEF Lighter, SameData, Lists, Numbers, Held, Backlog, send_buffer_empty

LEMMA FlagsKeep ==
  ASSUME NInv, Logged, CInv, call' = call, log' = log, freed' = freed, PopBare,
         spc # "force", spc' # "force", NEW k \in Slot, Only(k),
         SameData(sock[k], sock'[k]), Alive(sock'[k]) => Alive(sock[k])
  PROVE  CNext
<1>1. Lists(sock[k]) /\ Numbers(sock[k])
  BY DEF CInv, Books
<1>2. Lighter(sock[k], sock'[k]) /\ Held(sock'[k]) = Held(sock[k])
  BY <1>1, SameLighter
<1>3. Frees(Held(sock[k]) \ Held(sock'[k]))
  BY <1>2, FreeFrees DEF CInv, Owned, FreedRight
<1>4. Alive(sock'[k]) => Backlog(sock'[k])
  BY <1>1, SameLighter DEF CInv, Backlogs, Forcing
<1> QED BY <1>2, <1>3, <1>4, DropKeeps DEF Forcing

LEMMA SameKeeps ==
  ASSUME NInv, Logged, CInv, call' = call, log' = log, freed' = freed, PopBare,
         sock' = sock, spc # "force", spc' # "force"
  PROVE  CNext
<1>1. 0 \in Slot
  BY SocketAssumption DEF Slot
<1>2. Numbers(sock[0])
  BY <1>1 DEF CInv, Books
<1>3. SameData(sock[0], sock'[0]) /\ Only(0) /\ (Alive(sock'[0]) => Alive(sock[0]))
  BY <1>2 DEF SameData, Numbers, Only
<1> QED BY <1>1, <1>3, FlagsKeep

\* A command that is no send carries no buffer.
LEMMA BareCommand ==
  ASSUME NInv, Logged, CInv, NEW names, Cmd(names), "D" \notin names, "P" \notin names
  PROVE  PopBare /\ log' = log
<1>1. Head(pipe) = pipe[1] /\ 1 \in 1..Len(pipe) /\ Head(pipe).cmd \notin {"D", "P"}
  BY Popped DEF NInv, Cmd
<1>2. Head(pipe).buf = 0
  BY <1>1 DEF CInv, Owned, Bufs
<1> QED BY <1>2 DEF PopBare, Cmd, bounds

LEMMA BareEvent == ASSUME NEW types, OnEvent(types) PROVE PopBare /\ log' = log
  BY DEF OnEvent, PopBare, bounds

LEMMA OneSlot ==
  ASSUME NInv, NEW k \in Slot, NEW r, sock' = [sock EXCEPT ![k] = r]
  PROVE  sock'[k] = r /\ Only(k)
  BY DEF NInv, Typed, SlotsTyped, Only

\* force_close begins: the lists are freed.
LEMMA ForceCounts ==
  ASSUME NInv, Logged, CInv, NEW k \in Slot, NEW what, NEW ctl, NEW rest,
         StartForce(k, what, ctl, rest),
         call' = call, log' = log, PopBare, spc # "force"
  PROVE  CNext
<1>1. CASE sock[k].type = "RESERVE"
  BY <1>1, SameKeeps DEF StartForce, Abort
<1>2. CASE sock[k].type # "RESERVE"
  <2> DEFINE s == sock[k]
             r == [s EXCEPT !.high = <<>>, !.low = <<>>]
  <2>1. /\ Free(Range(s.high) \cup Range(s.low)) /\ sock' = [sock EXCEPT ![k] = r]
        /\ closing' = [k |-> k, what |-> what, ctl |-> ctl] /\ spc' = "force"
    BY <1>2 DEF StartForce
  <2>2. DOMAIN s = Fields /\ Lists(s) /\ Numbers(s)
    BY DEF NInv, Typed, SlotsTyped, Socket, CInv, Books
  <2>3. /\ r.high = <<>> /\ r.low = <<>> /\ r.dw = s.dw /\ r.seen = s.seen /\ r.tcp = s.tcp
        /\ r.tag = s.tag /\ r.sending = s.sending /\ r.wb = s.wb /\ r.warn = s.warn
        /\ r.closing = s.closing /\ r.reading = s.reading
    BY <2>2 DEF Fields
  <2> HIDE DEF r
  <2>4. sock'[k] = r /\ Only(k)
    BY <2>1, OneSlot
  <2>5. Range(r.high) = {} /\ Range(r.low) = {} /\ Runs(r.low)
        /\ r.high \in Seq(Nat) /\ r.low \in Seq(Nat)
    BY <2>3 DEF Range, Runs
  <2>6. Lists(r) /\ Numbers(r)
    BY <2>2, <2>3, <2>5 DEF Lists, Numbers
  <2>7. Held(r) \subseteq Held(s) /\ Held(s) \ Held(r) = Range(s.high) \cup Range(s.low)
    BY <2>2, <2>3, <2>5 DEF Held, Lists
  <2>8. Lighter(s, r)
    BY <2>3, <2>6, <2>7 DEF Lighter
  <2>9. Frees(Held(s) \ Held(r))
    BY <2>1, <2>7, FreeFrees DEF CInv, Owned, FreedRight
  <2>10. Forcing(k)'
    BY <2>1 DEF Forcing
  <2>11. \A j \in Slot : ~ Forcing(j)
    BY DEF Forcing
  <2> QED BY <2>4, <2>8, <2>9, <2>10, <2>11, DropKeeps
<1> QED BY <1>1, <1>2

-----------------------------------------------------------------------------
(* Commands that move no data                                              *)

\* A command, or an event, changes what its socket is doing.
LEMMA CmdFlags ==
  ASSUME NInv, Logged, CInv, NEW names, Cmd(names), ~ clobbered', PopBare, log' = log, freed' = freed,
         NEW r, NEW what, NEW i, Finish(HASH_ID(CmdId), r, what, i), SameData(CmdSlot, r),
         Alive(r) => Alive(CmdSlot)
  PROVE  CNext
<1> DEFINE k == HASH_ID(CmdId)
<1>1. k \in Slot /\ spc = "poll" /\ call' = call
  BY CmdFacts
<1>2. sock' = [sock EXCEPT ![k] = r] /\ spc' # "force"
  BY <1>1, FinishThread
<1> HIDE DEF k
<1>3. sock'[k] = r /\ Only(k)
  BY <1>1, <1>2, OneSlot
<1>4. CmdSlot = sock[k]
  BY DEF CmdSlot, k
<1> QED BY <1>1, <1>2, <1>3, <1>4, FlagsKeep

LEMMA EventFlags ==
  ASSUME NInv, Logged, CInv, NEW types, OnEvent(types), freed' = freed,
         NEW r, NEW what, NEW i, NEW rest \in Seq(Batched), Handled(r, what, i, rest),
         SameData(sock[Head(ev).k], r), Alive(r) => Alive(sock[Head(ev).k])
  PROVE  CNext
<1> DEFINE k == Head(ev).k
<1>1. k \in Slot /\ spc = "event" /\ call' = call /\ PopBare /\ log' = log
  BY EventFacts, BareEvent
<1>2. sock' = [sock EXCEPT ![k] = r] /\ spc' # "force"
  BY HandledThread
<1> HIDE DEF k
<1>3. sock'[k] = r /\ Only(k)
  BY <1>1, <1>2, OneSlot
<1>4. SameData(sock[k], r) /\ (Alive(r) => Alive(sock[k]))
  BY DEF k
<1> QED BY <1>1, <1>2, <1>3, <1>4, FlagsKeep

\* The fields of a slot
LEMMA SlotFields ==
  ASSUME NInv, CInv, NEW k \in Slot
  PROVE  /\ DOMAIN sock[k] = Fields /\ Lists(sock[k]) /\ Numbers(sock[k])
         /\ SameData(sock[k], sock[k])
  BY DEF NInv, Typed, SlotsTyped, Socket, CInv, Books, SameData, Numbers

LEMMA CmdSlotFields ==
  ASSUME NInv, CInv, NEW names, Cmd(names), ~ clobbered'
  PROVE  /\ DOMAIN CmdSlot = Fields /\ Lists(CmdSlot) /\ Numbers(CmdSlot)
         /\ SameData(CmdSlot, CmdSlot)
  BY CmdFacts, SlotFields DEF CmdSlot

LEMMA CloseSocketCounts == ASSUME NInv, Logged, CInv, close_socket, ~ clobbered' PROVE CNext
<1> DEFINE s == CmdSlot
           k == HASH_ID(CmdId)
<1>1. Cmd({"K", "KS"}) /\ PopBare /\ log' = log
  BY BareCommand DEF close_socket
<1>2. k \in Slot /\ call' = call /\ spc = "poll" /\ DOMAIN s = Fields /\ SameData(s, s)
  BY <1>1, CmdFacts, CmdSlotFields
<1>3. CASE socket_invalid(s, CmdId)
  <2>1. sock' = sock /\ spc' = spc /\ freed' = freed
    BY <1>3 DEF close_socket, Ignore
  <2> QED BY <1>1, <1>2, <2>1, SameKeeps
<1>4. CASE ~ socket_invalid(s, CmdId) /\ (Head(pipe).cmd = "KS" \/ nomore_sending_data(s))
  <2>1. StartForce(k, CloseReport(s), TRUE, ev)
    BY <1>4 DEF close_socket
  <2> QED BY <1>1, <1>2, <2>1, ForceCounts
<1>5. CASE ~ socket_invalid(s, CmdId) /\ ~ (Head(pipe).cmd = "KS" \/ nomore_sending_data(s))
  <2> DEFINE r == IF s.type = "HALFCLOSE_READ" THEN [s EXCEPT !.closing = TRUE]
                  ELSE [close_read(s) EXCEPT !.closing = TRUE]
  <2>1. Finish(k, r, CloseReport(s), CmdId) /\ freed' = freed
    BY <1>5 DEF close_socket
  <2>2. SameData(s, r)
    BY <1>2 DEF SameData, close_read, Fields
  <2>3. Alive(s)
    BY <1>1, <1>5, CmdFacts DEF Opening
  <2> HIDE DEF r
  <2> QED BY <1>1, <2>1, <2>2, <2>3, CmdFlags
<1> QED BY <1>3, <1>4, <1>5

LEMMA ResumeSocketCounts == ASSUME NInv, Logged, CInv, resume_socket, ~ clobbered' PROVE CNext
<1> DEFINE s == CmdSlot
<1>1. Cmd({"R"}) /\ PopBare /\ log' = log /\ freed' = freed
  BY BareCommand DEF resume_socket
<1>2. DOMAIN s = Fields /\ SameData(s, s)
  BY <1>1, CmdSlotFields
<1>3. CASE socket_invalid(s, CmdId) \/ s.type = "HALFCLOSE_READ"
  <2>1. Finish(HASH_ID(CmdId), s, "err", CmdId)
    BY <1>3 DEF resume_socket
  <2> QED BY <1>1, <1>2, <2>1, CmdFlags
<1>4. CASE ~ (socket_invalid(s, CmdId) \/ s.type = "HALFCLOSE_READ")
  <2> DEFINE type == CASE s.type = "PACCEPT" -> "CONNECTED"
                       [] s.type = "PLISTEN" -> "LISTEN"
                       [] OTHER -> s.type
             r == [s EXCEPT !.reading = TRUE, !.type = type]
             what == IF s.type \in {"PACCEPT", "PLISTEN", "CONNECTED"} THEN "open" ELSE "none"
  <2>1. Finish(HASH_ID(CmdId), r, what, CmdId)
    BY <1>4 DEF resume_socket
  <2>2. Alive(r) => Alive(s)
    BY <1>2, <1>4 DEF Alive, Fields, socket_invalid
  <2> HIDE DEF type, what
  <2>3. SameData(s, r)
    BY <1>2 DEF SameData, Fields
  <2> HIDE DEF r
  <2> QED BY <1>1, <2>1, <2>2, <2>3, CmdFlags
<1> QED BY <1>3, <1>4

LEMMA PauseSocketCounts == ASSUME NInv, Logged, CInv, pause_socket, ~ clobbered' PROVE CNext
<1> DEFINE r == [CmdSlot EXCEPT !.reading = FALSE]
<1>1. Cmd({"S"}) /\ PopBare /\ log' = log /\ freed' = freed
  BY BareCommand DEF pause_socket
<1>2. DOMAIN CmdSlot = Fields /\ SameData(CmdSlot, CmdSlot) /\ spc = "poll" /\ call' = call
  BY <1>1, CmdFacts, CmdSlotFields
<1>3. CASE socket_invalid(CmdSlot, CmdId)
  <2>1. sock' = sock /\ spc' = spc
    BY <1>3 DEF pause_socket, Ignore
  <2> QED BY <1>1, <1>2, <2>1, SameKeeps
<1>4. CASE ~ socket_invalid(CmdSlot, CmdId)
  <2>1. Finish(HASH_ID(CmdId), r, "none", CmdId)
    BY <1>4 DEF pause_socket
  <2>2. SameData(CmdSlot, r) /\ r.type = CmdSlot.type
    BY <1>2 DEF SameData, Fields
  <2> HIDE DEF r
  <2> QED BY <1>1, <2>1, <2>2, CmdFlags DEF Alive
<1> QED BY <1>3, <1>4

LEMMA TriggerWriteCounts == ASSUME NInv, Logged, CInv, trigger_write, ~ clobbered' PROVE CNext
<1> DEFINE r == [CmdSlot EXCEPT !.writing = TRUE]
<1>1. Cmd({"W"}) /\ PopBare /\ log' = log /\ freed' = freed
  BY BareCommand DEF trigger_write
<1>2. DOMAIN CmdSlot = Fields /\ SameData(CmdSlot, CmdSlot) /\ spc = "poll" /\ call' = call
  BY <1>1, CmdFacts, CmdSlotFields
<1>3. CASE socket_invalid(CmdSlot, CmdId)
  <2>1. sock' = sock /\ spc' = spc
    BY <1>3 DEF trigger_write, Ignore
  <2> QED BY <1>1, <1>2, <2>1, SameKeeps
<1>4. CASE ~ socket_invalid(CmdSlot, CmdId)
  <2>1. Finish(HASH_ID(CmdId), r, "none", CmdId)
    BY <1>4 DEF trigger_write
  <2>2. SameData(CmdSlot, r) /\ r.type = CmdSlot.type
    BY <1>2 DEF SameData, Fields
  <2> HIDE DEF r
  <2> QED BY <1>1, <2>1, <2>2, CmdFlags DEF Alive
<1> QED BY <1>3, <1>4

-----------------------------------------------------------------------------
(* Events that move no data                                                *)

LEMMA ForceCloseCounts == ASSUME NInv, Logged, CInv, ForceClose PROVE CNext
<1> DEFINE k == closing.k
           s == sock[k]
           r == Closed(s)
<1>1. /\ spc = "force" /\ sock' = [sock EXCEPT ![k] = r] /\ Free(Range(s.dw))
      /\ call' = call /\ log' = log /\ PopBare /\ Loop(ev')
  BY DEF ForceClose, PopBare, bounds
<1>2. k \in Slot /\ send_buffer_empty(s)
  BY <1>1 DEF NInv, Typed, ThreadTyped, Forced
<1>3. DOMAIN s = Fields /\ Lists(s) /\ Numbers(s)
  BY <1>2, SlotFields
<1>4. /\ r.high = <<>> /\ r.low = <<>> /\ r.dw = <<>> /\ r.seen = s.seen /\ r.tcp = s.tcp
      /\ r.tag = s.tag /\ r.sending = s.sending /\ r.wb = s.wb /\ r.warn = s.warn
      /\ r.closing = s.closing /\ r.reading = s.reading /\ r.type = "INVALID"
  BY <1>2, <1>3 DEF Closed, Fields, send_buffer_empty
<1> HIDE DEF r
<1>5. sock'[k] = r /\ Only(k)
  BY <1>1, <1>2, OneSlot
<1>6. Range(<<>>) = {} /\ <<>> \in Seq(Nat)
  BY DEF Range
<1>7. Lists(r) /\ Numbers(r)
  BY <1>3, <1>4, <1>6 DEF Lists, Numbers, Runs
<1>8. Held(r) = {} /\ Held(s) = Range(s.dw)
  BY <1>2, <1>4, <1>6 DEF Held, send_buffer_empty
<1>9. Lighter(s, r)
  BY <1>4, <1>7, <1>8 DEF Lighter
<1>10. Frees(Held(s) \ Held(r))
  BY <1>1, <1>8, FreeFrees DEF CInv, Owned, FreedRight
<1>11. ~ Alive(r) /\ \A j \in Slot \ {k} : ~ Forcing(j)
  BY <1>4 DEF Alive, Forcing
<1> HIDE DEF k
<1> QED BY <1>1, <1>2, <1>5, <1>9, <1>10, <1>11, DropKeeps

LEMMA IdleCounts ==
  ASSUME NInv, Logged, CInv, NoCmd \/ sp_wait \/ null_event PROVE CNext
<1>1. /\ call' = call /\ log' = log /\ freed' = freed /\ PopBare /\ sock' = sock
      /\ spc # "force" /\ spc' # "force"
  BY DEF NoCmd, sp_wait, null_event, Loop, PopBare, bounds
<1> QED BY <1>1, SameKeeps

LEMMA ReportConnectCounts == ASSUME NInv, Logged, CInv, report_connect PROVE CNext
<1> DEFINE k == Head(ev).k
           s == sock[k]
<1>1. OnEvent({"CONNECTING"}) /\ s.type = "CONNECTING"
  BY DEF report_connect, OnEvent
<1>2. /\ k \in Slot /\ Tail(ev) \in Seq(Batched) /\ call' = call /\ spc = "event"
      /\ PopBare /\ log' = log /\ DOMAIN s = Fields /\ SameData(s, s)
  BY <1>1, EventFacts, BareEvent, SlotFields
<1>3. CASE net[s.id].err
  <2>1. StartForce(k, "err", FALSE, Tail(ev))
    BY <1>3 DEF report_connect
  <2> QED BY <1>2, <2>1, ForceCounts
<1>4. CASE ~ net[s.id].err
  <2> DEFINE w == s.writing /\ ~ nomore_sending_data(s)
             r == [s EXCEPT !.type = "CONNECTED", !.writing = w]
  <2>1. Handled(r, "open", s.id, Tail(ev)) /\ freed' = freed
    BY <1>4 DEF report_connect
  <2> HIDE DEF w
  <2>2. SameData(s, r)
    BY <1>2 DEF SameData, Fields
  <2>3. Alive(s)
    BY <1>1 DEF Alive
  <2> HIDE DEF r
  <2> QED BY <1>1, <1>2, <2>1, <2>2, <2>3, EventFlags
<1> QED BY <1>3, <1>4

LEMMA StaleEventCounts == ASSUME NInv, Logged, CInv, stale_event PROVE CNext
<1>1. /\ OnEvent({"INVALID"}) /\ freed' = freed
      /\ Handled(sock[Head(ev).k], "none", sock[Head(ev).k].id, Tail(ev))
  BY DEF stale_event
<1>2. Tail(ev) \in Seq(Batched) /\ SameData(sock[Head(ev).k], sock[Head(ev).k])
  BY <1>1, EventFacts, SlotFields
<1> QED BY <1>1, <1>2, EventFlags

LEMMA ErrorEventCounts == ASSUME NInv, Logged, CInv, error_event PROVE CNext
<1> DEFINE k == Head(ev).k
           s == sock[k]
<1>1. OnEvent(Open_)
  BY DEF error_event
<1>2. /\ k \in Slot /\ Tail(ev) \in Seq(Batched) /\ call' = call /\ spc = "event"
      /\ PopBare /\ log' = log /\ SameData(s, s)
  BY <1>1, EventFacts, BareEvent, SlotFields
<1>3. CASE StartForce(k, CloseReport(s), FALSE, Tail(ev))
  BY <1>2, <1>3, ForceCounts
<1>4. CASE /\ Handled(s, "err", s.id, Tail(ev)) \/ Handled(s, "none", s.id, Tail(ev))
           /\ freed' = freed
  BY <1>1, <1>2, <1>4, EventFlags
<1> QED BY <1>3, <1>4 DEF error_event

LEMMA ForwardCounts == ASSUME NInv, Logged, CInv, forward_message_tcp PROVE CNext
<1> DEFINE k == Head(ev).k
           s == sock[k]
           i == s.id
           n == net[i]
<1>1. OnEvent(Open_)
  BY DEF forward_message_tcp
<1>2. /\ k \in Slot /\ Tail(ev) \in Seq(Batched) /\ Again \in Seq(Batched) /\ ev \in Seq(Batched)
      /\ call' = call /\ spc = "event" /\ PopBare /\ log' = log
      /\ SameData(s, s) /\ DOMAIN s = Fields
  BY <1>1, EventFacts, BareEvent, SlotFields
<1>3. ASSUME Abort PROVE CNext
  BY <1>2, <1>3, SameKeeps DEF Abort
<1>4. ASSUME NEW what, NEW rest \in Seq(Batched), Handled(s, what, i, rest), freed' = freed
      PROVE  CNext
  BY <1>1, <1>2, <1>4, EventFlags
<1>5. ASSUME Handled(close_read(s), "close", i, Tail(ev)), s.type # "RESERVE", freed' = freed
      PROVE  CNext
  <2>1. SameData(s, close_read(s))
    BY <1>2 DEF SameData, close_read, Fields
  <2>2. Alive(s)
    BY <1>1, <1>5 DEF Alive, OnEvent, Open_
  <2> QED BY <1>1, <1>2, <1>5, <2>1, <2>2, EventFlags
<1>6. ASSUME NEW what, NEW rest, StartForce(k, what, FALSE, rest) PROVE CNext
  BY <1>2, <1>6, ForceCounts
<1>7. CASE s.type = "RESERVE"
  BY <1>3, <1>7 DEF forward_message_tcp
<1>8. CASE s.type # "RESERVE" /\ n.err
  <2>1. Handled(s, "err", i, Tail(ev)) /\ freed' = freed
    BY <1>8 DEF forward_message_tcp
  <2> QED BY <1>2, <1>4, <2>1
<1>9. CASE s.type # "RESERVE" /\ ~ n.err /\ n.avail > 0 /\ n.avail # 0
  <2>1. /\ \E rest \in {Again, ev}, what \in {"none", "data"} : Handled(s, what, i, rest)
        /\ freed' = freed
    BY <1>9 DEF forward_message_tcp
  <2> QED BY <1>2, <1>4, <2>1
<1>10. CASE s.type # "RESERVE" /\ ~ n.err /\ n.avail = 0 /\ ~ (n.avail > 0)
  <2>1. CASE n.fin \/ n.rst
    <3>1. /\ net' = net
          /\ CASE s.closing /\ nomore_sending_data(s) -> StartForce(k, "none", FALSE, Again)
               [] ~ s.closing /\ s.type = "HALFCLOSE_WRITE" ->
                    StartForce(k, "close", FALSE, Tail(ev))
               [] ~ s.closing /\ s.type \notin {"HALFCLOSE_READ", "HALFCLOSE_WRITE"} ->
                    Handled(close_read(s), "close", i, Tail(ev)) /\ UNCHANGED <<wire, freed>>
               [] OTHER -> Handled(s, "none", i, Again) /\ UNCHANGED <<wire, freed>>
      BY <1>10, <2>1, Zenon DEF forward_message_tcp
    <3>2. CASE s.closing /\ nomore_sending_data(s)
      BY <1>6, <3>1, <3>2
    <3>3. CASE ~ s.closing /\ s.type = "HALFCLOSE_WRITE"
      BY <1>6, <3>1, <3>3
    <3>4. CASE ~ s.closing /\ s.type \notin {"HALFCLOSE_READ", "HALFCLOSE_WRITE"}
      <4>1. Handled(close_read(s), "close", i, Tail(ev)) /\ freed' = freed
        BY <3>1, <3>4
      <4> QED BY <1>5, <1>10, <4>1
    <3>5. CASE /\ ~ (s.closing /\ nomore_sending_data(s))
               /\ ~ (~ s.closing /\ s.type = "HALFCLOSE_WRITE")
               /\ ~ (~ s.closing /\ s.type \notin {"HALFCLOSE_READ", "HALFCLOSE_WRITE"})
      <4>1. Handled(s, "none", i, Again) /\ freed' = freed
        BY <3>1, <3>5
      <4> QED BY <1>2, <1>4, <4>1
    <3> QED BY <3>2, <3>3, <3>4, <3>5
  <2>2. CASE ~ n.fin /\ ~ n.rst
    <3>1. Handled(s, "none", i, Again) /\ freed' = freed
      BY <1>10, <2>2, Zenon DEF forward_message_tcp
    <3> QED BY <1>2, <1>4, <3>1
  <2> QED BY <2>1, <2>2
<1>11. n.avail = 0 => ~ (n.avail > 0)
  OBVIOUS
<1> QED BY <1>7, <1>8, <1>9, <1>10, <1>11 DEF forward_message_tcp

-----------------------------------------------------------------------------
(* The lists                                                               *)

\* A buffer whose units are together is at the start of its list, and nowhere else.
LEMMA HeadRun ==
  ASSUME NEW q \in Seq(Nat), q # <<>>, Runs(q)
  PROVE  /\ Count(q, Head(q)) \in 1..Len(q)
         /\ \A x \in 1..Len(q) : q[x] = Head(q) <=> x <= Count(q, Head(q))
<1> DEFINE N == Len(q)
           S == {j \in DOMAIN q : q[j] = Head(q)}
           n == Cardinality(S)
<1>1. N \in Nat /\ N > 0 /\ DOMAIN q = 1..N /\ Head(q) = q[1]
  OBVIOUS
<1>2. \A z \in S : \A y \in 1..N : y <= z => y \in S
  <2> SUFFICES ASSUME NEW z \in S, NEW y \in 1..N, y <= z PROVE y \in S
    OBVIOUS
  <2>1. z \in 1..N /\ q[z] = q[1] /\ 1 \in 1..N /\ 1 <= y
    BY <1>1
  <2>2. q[y] = q[1]
    BY <2>1 DEF Runs
  <2> QED BY <1>1, <2>2
<1>3. S \in SUBSET (1..N) /\ 1 \in S
  BY <1>1
<1> HIDE DEF S, N
<1>4. IsFiniteSet(S) /\ n \in Nat
  <2>1. IsFiniteSet(1..N)
    BY <1>1, FS_Interval
  <2>2. IsFiniteSet(S)
    BY <1>3, <2>1, FS_Subset
  <2> QED BY <2>2, FS_CardinalityType
<1>5. \A a \in 0..N : IsFiniteSet(1..a) /\ Cardinality(1..a) = a
  <2> TAKE a \in 0..N
  <2>1. a \in Int /\ a >= 0
    BY <1>1
  <2>2. IsFiniteSet(1..a) /\ Cardinality(1..a) = IF 1 > a THEN 0 ELSE a - 1 + 1
    BY <2>1, FS_Interval
  <2> QED BY <2>1, <2>2
<1>6. \A x \in 1..N : x \in S => x <= n
  <2> SUFFICES ASSUME NEW x \in 1..N, x \in S PROVE x <= n
    OBVIOUS
  <2>1. 1..x \subseteq S
    BY <1>1, <1>2
  <2> QED BY <1>1, <1>4, <1>5, <2>1, FS_Subset
<1>7. \A x \in 1..N : x \notin S => x > n
  <2> SUFFICES ASSUME NEW x \in 1..N, x \notin S PROVE x > n
    OBVIOUS
  <2>1. S \subseteq 1..(x - 1) /\ x - 1 \in 0..N
    BY <1>1, <1>2, <1>3
  <2>2. Cardinality(S) <= Cardinality(1..(x - 1))
    BY <1>5, <2>1, FS_Subset
  <2> QED BY <1>1, <1>4, <1>5, <2>1, <2>2
<1>8. n <= N
  <2>1. N \in 0..N
    BY <1>1
  <2>2. IsFiniteSet(1..N) /\ Cardinality(1..N) = N
    BY <1>5, <2>1
  <2>3. Cardinality(S) <= Cardinality(1..N)
    BY <1>3, <2>2, FS_Subset
  <2> QED BY <2>2, <2>3
<1>9. n >= 1
  BY <1>1, <1>3, <1>6
<1>10. Count(q, Head(q)) = n
  BY DEF Count, S
<1>11. \A x \in 1..N : x \in S <=> q[x] = Head(q)
  BY <1>1 DEF S
<1>12. \A x \in 1..N : q[x] = Head(q) <=> x <= n
  BY <1>1, <1>4, <1>6, <1>7, <1>11
<1> HIDE DEF n
<1> QED BY <1>1, <1>4, <1>8, <1>9, <1>10, <1>12 DEF N

\* A list that lost its first units
LEMMA Shorter ==
  ASSUME NEW q \in Seq(Nat), NEW m \in 0..Len(q)
  PROVE  /\ Without(q, m) \in Seq(Nat) /\ Len(Without(q, m)) = Len(q) - m
         /\ \A x \in 1..Len(q) - m : Without(q, m)[x] = q[x + m] /\ x + m \in 1..Len(q)
         /\ Range(Without(q, m)) \subseteq Range(q)
         /\ Runs(q) => Runs(Without(q, m))
<1> DEFINE w == Without(q, m)
<1>1. /\ w \in Seq(Nat) /\ Len(w) = Len(q) - m /\ Len(q) \in Nat /\ m \in Nat
      /\ \A x \in 1..Len(q) - m : w[x] = q[x + m] /\ x + m \in 1..Len(q)
  BY DEF Without
<1> HIDE DEF w
<1>a. DOMAIN w = 1..Len(w) /\ DOMAIN q = 1..Len(q)
  BY <1>1
<1>2. Range(w) \subseteq Range(q)
  BY <1>1, <1>a DEF Range
<1>3. ASSUME Runs(q) PROVE Runs(w)
  <2> SUFFICES ASSUME NEW x \in 1..Len(w), NEW y \in 1..Len(w), NEW z \in 1..Len(w),
                      x <= y, y <= z, w[x] = w[z]
               PROVE  w[y] = w[x]
    BY DEF Runs
  <2>1. /\ x + m \in 1..Len(q) /\ y + m \in 1..Len(q) /\ z + m \in 1..Len(q)
        /\ w[x] = q[x + m] /\ w[y] = q[y + m] /\ w[z] = q[z + m]
    BY <1>1
  <2>2. x + m <= y + m /\ y + m <= z + m
    BY <1>1
  <2> QED BY <1>3, <2>1, <2>2 DEF Runs
<1> QED BY <1>1, <1>2, <1>3 DEF w

LEMMA Joined ==
  ASSUME NEW p \in Seq(Nat), NEW q \in Seq(Nat)
  PROVE  /\ p \o q \in Seq(Nat) /\ Len(p \o q) = Len(p) + Len(q)
         /\ Range(p \o q) = Range(p) \cup Range(q)
<1>1. /\ p \o q \in Seq(Nat) /\ Len(p \o q) = Len(p) + Len(q)
      /\ Len(p) \in Nat /\ Len(q) \in Nat
      /\ \A x \in 1..Len(p) : (p \o q)[x] = p[x] /\ x \in 1..Len(p \o q)
      /\ \A x \in 1..Len(q) : (p \o q)[x + Len(p)] = q[x] /\ x + Len(p) \in 1..Len(p \o q)
      /\ \A x \in 1..Len(p \o q) : x \in 1..Len(p) \/ (x - Len(p) \in 1..Len(q)
                                     /\ (p \o q)[x] = q[x - Len(p)])
  OBVIOUS
<1>2. DOMAIN p = 1..Len(p) /\ DOMAIN q = 1..Len(q) /\ DOMAIN (p \o q) = 1..Len(p \o q)
  BY <1>1
<1>3. Range(p \o q) \subseteq Range(p) \cup Range(q)
  BY <1>1, <1>2 DEF Range
<1>4. Range(p) \subseteq Range(p \o q)
  <2> SUFFICES ASSUME NEW x \in 1..Len(p) PROVE p[x] \in Range(p \o q)
    BY <1>2 DEF Range
  <2>1. (p \o q)[x] = p[x] /\ x \in DOMAIN (p \o q)
    BY <1>1, <1>2
  <2> QED BY <2>1 DEF Range
<1>5. Range(q) \subseteq Range(p \o q)
  <2> SUFFICES ASSUME NEW x \in 1..Len(q) PROVE q[x] \in Range(p \o q)
    BY <1>2 DEF Range
  <2>1. (p \o q)[x + Len(p)] = q[x] /\ x + Len(p) \in DOMAIN (p \o q)
    BY <1>1, <1>2
  <2> QED BY <2>1 DEF Range
<1> QED BY <1>1, <1>3, <1>4, <1>5

LEMMA LighterTwice ==
  ASSUME NEW s, NEW d, NEW r, Lighter(s, d), Lighter(d, r) PROVE Lighter(s, r)
  BY DEF Lighter

LEMMA DwFirstData ==
  ASSUME NEW s, DOMAIN s = Fields, Lists(s), Numbers(s), Backlog(s)
  PROVE  LET d == DwFirst(s)
         IN DOMAIN d = Fields /\ d.dw = <<>> /\ d.type = s.type /\ d.closing = s.closing
            /\ Lighter(s, d) /\ Backlog(d)
<1> DEFINE h == s.dw \o s.high
           w == s.wb + Len(s.dw)
           d == DwFirst(s)
<1>1. /\ h \in Seq(Nat) /\ Len(h) = Len(s.dw) + Len(s.high)
      /\ Range(h) = Range(s.dw) \cup Range(s.high)
  BY Joined DEF Lists
<1>2. w \in Nat /\ w = Len(h) + Len(s.low)
  <2>1. PICK a \in Nat, b \in Nat, c \in Nat : a = Len(s.dw) /\ b = Len(s.high) /\ c = Len(s.low)
    BY DEF Lists
  <2>2. s.wb = b + c /\ Len(h) = a + b
    BY <1>1, <2>1 DEF Backlog
  <2>3. (b + c) + a = (a + b) + c /\ (b + c) + a \in Nat
    OBVIOUS
  <2> QED BY <2>1, <2>2, <2>3
<1>3. s.high # <<>> => h # <<>>
  BY <1>1 DEF Lists
<1> HIDE DEF h, w
<1>4. d = [s EXCEPT !.high = h, !.wb = w, !.dw = <<>>]
  BY DEF DwFirst, h, w
<1> HIDE DEF d
<1>5. /\ DOMAIN d = Fields /\ d.dw = <<>> /\ d.type = s.type /\ d.closing = s.closing
      /\ d.high = h /\ d.low = s.low /\ d.wb = w /\ d.seen = s.seen /\ d.tcp = s.tcp
      /\ d.tag = s.tag /\ d.sending = s.sending /\ d.warn = s.warn /\ d.reading = s.reading
  BY <1>4 DEF Fields
<1>6. Range(<<>>) = {} /\ <<>> \in Seq(Nat)
  BY DEF Range
<1>7. Lists(d)
  BY <1>1, <1>5, <1>6 DEF Lists
<1>8. Numbers(d)
  BY <1>2, <1>5 DEF Numbers
<1>9. Held(d) \subseteq Held(s)
  BY <1>1, <1>5, <1>6 DEF Held
<1>10. Backlog(d)
  BY <1>2, <1>3, <1>5 DEF Backlog, send_buffer_empty
<1> QED BY <1>5, <1>7, <1>8, <1>9, <1>10 DEF Lighter, d

LEMMA RaisedData ==
  ASSUME NEW s, DOMAIN s = Fields, Lists(s), Numbers(s), Backlog(s), s.high = <<>>, s.low # <<>>
  PROVE  LET r == Raised(s)
         IN DOMAIN r = Fields /\ r.closing = s.closing /\ Lighter(s, r) /\ Backlog(r)
<1> DEFINE n == Count(s.low, Head(s.low))
           h == SubSeq(s.high, 1, 0) \o SubSeq(s.low, 1, n)
           l == Without(s.low, n)
           r == Raised(s)
<1>0. s.low \in Seq(Nat) /\ Runs(s.low) /\ Len(s.low) \in Nat
  BY DEF Lists
<1>1. n \in 1..Len(s.low) /\ \A x \in 1..Len(s.low) : s.low[x] = Head(s.low) <=> x <= n
  BY <1>0, HeadRun
<1> HIDE DEF n
<1>2. /\ h \in Seq(Nat) /\ Len(h) = n /\ n \in Nat /\ n > 0
      /\ \A x \in 1..n : h[x] = s.low[x] /\ x \in 1..Len(s.low)
  BY <1>0, <1>1
<1>3. /\ l \in Seq(Nat) /\ Len(l) = Len(s.low) - n
      /\ \A x \in 1..Len(s.low) - n : l[x] = s.low[x + n] /\ x + n \in 1..Len(s.low)
      /\ Range(l) \subseteq Range(s.low) /\ Runs(l)
  <2>1. n \in 0..Len(s.low)
    BY <1>0, <1>1
  <2> QED BY <1>0, <2>1, Shorter
<1> HIDE DEF h, l
<1>4. /\ DOMAIN h = 1..n /\ DOMAIN l = 1..Len(s.low) - n /\ DOMAIN s.low = 1..Len(s.low)
  BY <1>0, <1>2, <1>3
<1>5. \A x \in 1..n : h[x] = Head(s.low)
  BY <1>1, <1>2
<1>6. \A x \in 1..Len(s.low) - n : l[x] # Head(s.low)
  <2> SUFFICES ASSUME NEW x \in 1..Len(s.low) - n PROVE l[x] # Head(s.low)
    OBVIOUS
  <2>1. l[x] = s.low[x + n] /\ x + n \in 1..Len(s.low) /\ ~ (x + n <= n)
    BY <1>1, <1>2, <1>3
  <2> QED BY <1>1, <2>1
<1>7. Range(h) \cap Range(l) = {} /\ Range(h) \subseteq Range(s.low)
  BY <1>2, <1>4, <1>5, <1>6 DEF Range
<1>8. CASE n = BufSize
  <2>1. r = s
    BY <1>8 DEF Raised, n
  <2> QED BY <2>1 DEF Lighter, Held
<1>9. CASE n # BufSize
  <2>1. r = [s EXCEPT !.high = h, !.low = l]
    BY <1>9 DEF Raised, n, h, l
  <2> HIDE DEF r
  <2>2. /\ DOMAIN r = Fields /\ r.dw = s.dw /\ r.closing = s.closing
        /\ r.high = h /\ r.low = l /\ r.wb = s.wb /\ r.seen = s.seen /\ r.tcp = s.tcp
        /\ r.tag = s.tag /\ r.sending = s.sending /\ r.warn = s.warn /\ r.reading = s.reading
    BY <2>1 DEF Fields
  <2>3. Lists(r)
    BY <1>2, <1>3, <1>7, <2>2 DEF Lists
  <2>4. Numbers(r)
    BY <2>2 DEF Numbers
  <2>5. Held(r) \subseteq Held(s)
    BY <1>3, <1>7, <2>2 DEF Held
  <2>6. Len(r.high) + Len(r.low) = Len(s.high) + Len(s.low)
    <3>1. Len(s.high) = 0
      OBVIOUS
    <3>2. n + (Len(s.low) - n) = 0 + Len(s.low)
      BY <1>0, <1>2
    <3> QED BY <1>2, <1>3, <2>2, <3>1, <3>2
  <2>7. r.high # <<>>
    BY <1>2, <2>2
  <2>8. Backlog(r)
    BY <2>2, <2>6, <2>7 DEF Backlog, send_buffer_empty
  <2> QED BY <2>2, <2>3, <2>4, <2>5, <2>8 DEF Lighter, r
<1> QED BY <1>8, <1>9

LEMMA SentData ==
  ASSUME NEW s, DOMAIN s = Fields, Lists(s), Numbers(s), Backlog(s),
         NEW m \in 0..Len(s.high) + Len(s.low)
  PROVE  LET r == Sent(s, m)
         IN DOMAIN r = Fields /\ r.closing = s.closing /\ Lighter(s, r) /\ Backlog(r)
<1> DEFINE h == IF m > Len(s.high) THEN Len(s.high) ELSE m
           hi == Without(s.high, h)
           lo == Without(s.low, m - h)
           w == s.wb - m
           rest == [s EXCEPT !.high = hi, !.low = lo, !.wb = w]
           r == Sent(s, m)
<1>1. s.high \in Seq(Nat) /\ s.low \in Seq(Nat) /\ Runs(s.low) /\ s.wb = Len(s.high) + Len(s.low)
  BY DEF Lists, Backlog
<1>a. PICK a \in Nat, b \in Nat : a = Len(s.high) /\ b = Len(s.low)
  BY <1>1
<1>2. h \in 0..Len(s.high) /\ m - h \in 0..Len(s.low)
  <2>1. m \in 0..a + b /\ h = IF m > a THEN a ELSE m
    BY <1>a
  <2>2. h \in 0..a /\ m - h \in 0..b
    <3> HIDE DEF h
    <3> QED BY <2>1
  <2> QED BY <1>a, <2>2
<1> HIDE DEF h
<1>3. hi \in Seq(Nat) /\ Len(hi) = Len(s.high) - h /\ Range(hi) \subseteq Range(s.high)
  BY <1>1, <1>2, Shorter
<1>4. /\ lo \in Seq(Nat) /\ Len(lo) = Len(s.low) - (m - h) /\ Range(lo) \subseteq Range(s.low)
      /\ Runs(lo)
  BY <1>1, <1>2, Shorter
<1>5. w \in Nat /\ w = Len(hi) + Len(lo)
  <2>1. /\ s.wb = a + b /\ Len(hi) = a - h /\ Len(lo) = b - (m - h)
        /\ h \in 0..a /\ m - h \in 0..b /\ m \in 0..a + b
    BY <1>1, <1>2, <1>3, <1>4, <1>a
  <2>2. (a + b) - m \in Nat /\ (a + b) - m = (a - h) + (b - (m - h))
    BY <2>1
  <2> QED BY <2>1, <2>2
<1> HIDE DEF hi, lo, w
<1>6. r = IF rest.high # <<>> THEN rest
          ELSE IF rest.low # <<>> THEN Raised(rest)
          ELSE [rest EXCEPT !.writing = FALSE, !.warn = 0]
  BY DEF Sent, h, hi, lo, w
<1> HIDE DEF r
<1>7. /\ DOMAIN rest = Fields /\ rest.dw = s.dw /\ rest.closing = s.closing
      /\ rest.high = hi /\ rest.low = lo /\ rest.wb = w /\ rest.seen = s.seen /\ rest.tcp = s.tcp
      /\ rest.tag = s.tag /\ rest.sending = s.sending /\ rest.warn = s.warn
      /\ rest.reading = s.reading
  BY DEF Fields
<1> HIDE DEF rest
<1>8. Lists(rest)
  BY <1>3, <1>4, <1>7 DEF Lists
<1>9. Numbers(rest)
  BY <1>5, <1>7 DEF Numbers
<1>10. Held(rest) \subseteq Held(s)
  BY <1>3, <1>4, <1>7 DEF Held
<1>11. Lighter(s, rest)
  BY <1>7, <1>8, <1>9, <1>10 DEF Lighter
<1>12. ~ send_buffer_empty(rest) => Backlog(rest)
  BY <1>5, <1>7 DEF Backlog
<1>13. CASE rest.high # <<>>
  BY <1>6, <1>7, <1>11, <1>12, <1>13 DEF r, send_buffer_empty
<1>14. CASE rest.high = <<>> /\ rest.low # <<>>
  <2>1. r = Raised(rest) /\ Backlog(rest)
    BY <1>6, <1>12, <1>14 DEF send_buffer_empty
  <2>2. DOMAIN r = Fields /\ r.closing = rest.closing /\ Lighter(rest, r) /\ Backlog(r)
    BY <1>7, <1>8, <1>9, <1>14, <2>1, RaisedData
  <2> QED BY <1>7, <1>11, <2>2, LighterTwice DEF r
<1>15. CASE rest.high = <<>> /\ rest.low = <<>>
  <2>1. r = [rest EXCEPT !.writing = FALSE, !.warn = 0]
    BY <1>6, <1>15
  <2>2. /\ DOMAIN r = Fields /\ r.dw = rest.dw /\ r.closing = rest.closing
        /\ r.high = rest.high /\ r.low = rest.low /\ r.wb = rest.wb /\ r.seen = rest.seen
        /\ r.tcp = rest.tcp /\ r.tag = rest.tag /\ r.sending = rest.sending /\ r.warn = 0
        /\ r.reading = rest.reading
    BY <1>7, <2>1 DEF Fields
  <2>3. Lists(r)
    BY <1>8, <2>2 DEF Lists
  <2>4. Numbers(r)
    BY <1>9, <2>2 DEF Numbers
  <2>5. Held(r) = Held(rest)
    BY <2>2 DEF Held
  <2>6. Backlog(r)
    BY <1>5, <1>7, <2>2 DEF Backlog
  <2>7. Lighter(rest, r)
    BY <2>2, <2>3, <2>4, <2>5 DEF Lighter
  <2> QED BY <1>7, <1>11, <2>2, <2>6, <2>7, LighterTwice DEF r
<1> QED BY <1>13, <1>14, <1>15

-----------------------------------------------------------------------------
(* What a socket sends, and how it closes                                  *)

\* A socket that is closed when it has nothing to send, or whose lists are thrown away
LEMMA ClosedData ==
  ASSUME NEW s, DOMAIN s = Fields, Lists(s), Numbers(s)
  PROVE  LET r == Closed(s)
             e == [Closed(s) EXCEPT !.high = <<>>, !.low = <<>>]
         IN Lighter(s, r) /\ ~ Alive(r) /\ Lighter(s, e) /\ ~ Alive(e)
<1> DEFINE r == Closed(s)
           e == [r EXCEPT !.high = <<>>, !.low = <<>>]
<1>1. Range(<<>>) = {} /\ <<>> \in Seq(Nat) /\ Runs(<<>>)
  BY DEF Range, Runs
<1>2. /\ DOMAIN r = Fields /\ r.dw = <<>> /\ r.high = s.high /\ r.low = s.low /\ r.wb = s.wb
      /\ r.seen = s.seen /\ r.tcp = s.tcp /\ r.tag = s.tag /\ r.sending = s.sending
      /\ r.warn = s.warn /\ r.closing = s.closing /\ r.reading = s.reading /\ r.type = "INVALID"
  BY DEF Closed, Fields
<1> HIDE DEF r
<1>3. /\ e.dw = <<>> /\ e.high = <<>> /\ e.low = <<>> /\ e.wb = s.wb
      /\ e.seen = s.seen /\ e.tcp = s.tcp /\ e.tag = s.tag /\ e.sending = s.sending
      /\ e.warn = s.warn /\ e.closing = s.closing /\ e.reading = s.reading /\ e.type = "INVALID"
  BY <1>2 DEF Fields
<1> HIDE DEF e
<1>4. Lists(r) /\ Lists(e)
  BY <1>1, <1>2, <1>3 DEF Lists
<1>5. Numbers(r) /\ Numbers(e)
  BY <1>2, <1>3 DEF Numbers
<1>6. Held(r) \subseteq Held(s) /\ Held(e) \subseteq Held(s)
  BY <1>1, <1>2, <1>3 DEF Held
<1>7. Lighter(s, r) /\ Lighter(s, e) /\ ~ Alive(r) /\ ~ Alive(e)
  BY <1>2, <1>3, <1>4, <1>5, <1>6 DEF Lighter, Alive
<1> QED BY <1>7 DEF r, e

LEMMA CloseWriteData ==
  ASSUME NEW s, DOMAIN s = Fields, Lists(s), Numbers(s), Backlog(s)
  PROVE  LET r == close_write(s)
         IN Lighter(s, r) /\ (Alive(r) => Backlog(r))
<1>1. CASE s.closing \/ s.type = "HALFCLOSE_READ"
  BY <1>1, ClosedData DEF close_write
<1>2. CASE ~ (s.closing \/ s.type = "HALFCLOSE_READ")
  <2> DEFINE r == IF s.type = "HALFCLOSE_WRITE" THEN s
                  ELSE [s EXCEPT !.type = "HALFCLOSE_WRITE", !.writing = FALSE]
  <2>1. close_write(s) = r
    BY <1>2 DEF close_write
  <2>2. SameData(s, r)
    BY DEF SameData, Fields, Numbers
  <2> HIDE DEF r
  <2> QED BY <2>1, <2>2, SameLighter
<1> QED BY <1>1, <1>2

LEMMA SendBufferCounts == ASSUME NInv, Logged, CInv, send_buffer PROVE CNext
<1> DEFINE k == Head(ev).k
           q == sock[k]
           i == q.id
           s == DwFirst(q)
<1>1. OnEvent(Open_) /\ q.type \in Open_
  BY DEF send_buffer, OnEvent
<1>2. /\ k \in Slot /\ Tail(ev) \in Seq(Batched) /\ call' = call /\ spc = "event"
      /\ PopBare /\ log' = log
      /\ DOMAIN q = Fields /\ Lists(q) /\ Numbers(q) /\ SameData(q, q)
  BY <1>1, EventFacts, BareEvent, SlotFields
<1>3. CASE Abort
  BY <1>2, <1>3, SameKeeps DEF Abort
<1>4. CASE /\ Handled(q, "none", i, Tail(ev)) \/ Handled(q, "err", i, Tail(ev))
           /\ freed' = freed
  BY <1>1, <1>2, <1>4, EventFlags
<1>5. ASSUME NEW r, NEW what, Handled(r, what, i, Tail(ev)), Free(Held(q) \ Held(r)),
             Lighter(q, r), Alive(r) => Backlog(r)
      PROVE  CNext
  <2>1. sock' = [sock EXCEPT ![k] = r] /\ spc' # "force"
    BY <1>2, <1>5, HandledThread
  <2>2. sock'[k] = r /\ Only(k)
    BY <1>2, <2>1, OneSlot
  <2>3. Frees(Held(q) \ Held(r))
    BY <1>5, FreeFrees DEF CInv, Owned, FreedRight
  <2>4. \A j \in Slot : ~ Forcing(j)
    BY <1>2 DEF Forcing
  <2> HIDE DEF k
  <2> QED BY <1>2, <1>5, <2>2, <2>3, <2>4, DropKeeps
<1>6. CASE q.type = "RESERVE"
  <2>1. Abort \/ (/\ Handled(q, "err", i, Tail(ev)) \/ Handled(q, "none", i, Tail(ev))
                  /\ freed' = freed)
    BY <1>2, <1>6, ReservedEmpty DEF send_buffer
  <2> QED BY <1>3, <1>4, <2>1
<1>7. CASE q.type # "RESERVE" /\ ~ LockFree(q)
  <2>1. Handled(q, "none", i, Tail(ev)) /\ freed' = freed
    BY <1>7 DEF send_buffer
  <2> QED BY <1>4, <2>1
<1>8. CASE q.type # "RESERVE" /\ LockFree(q)
  <2>1. Alive(q) /\ ~ Forcing(k)
    BY <1>1, <1>2, <1>8 DEF Alive, Open_, Forcing
  <2>2. Backlog(q)
    BY <1>2, <2>1 DEF CInv, Backlogs
  <2>3. /\ DOMAIN s = Fields /\ Lists(s) /\ Numbers(s) /\ Lighter(q, s) /\ Backlog(s)
    BY <1>2, <2>2, DwFirstData DEF Lighter
  <2>4. CASE net[i].rst /\ ~ send_buffer_empty(s)
    <3>1. PICK what \in {"none", "err"} :
            /\ Handled(close_write(s), what, i, Tail(ev))
            /\ Free(Held(q) \ Held(close_write(s)))
      BY <1>8, <2>4 DEF send_buffer
    <3> HIDE DEF s
    <3>2. Lighter(s, close_write(s)) /\ (Alive(close_write(s)) => Backlog(close_write(s)))
      BY <2>3, CloseWriteData
    <3> QED BY <1>5, <2>3, <3>1, <3>2, LighterTwice
  <2>5. CASE ~ (net[i].rst /\ ~ send_buffer_empty(s))
    <3> DEFINE End(m) == IF send_buffer_empty(Sent(s, m)) /\ s.closing THEN Closed(Sent(s, m))
                         ELSE Sent(s, m)
    <3>1. \E m \in 0..Len(s.high) + Len(s.low), what \in {"none", "warning"} :
            Handled(End(m), what, i, Tail(ev)) /\ Free(Held(q) \ Held(End(m)))
      BY <1>8, <2>5 DEF send_buffer
    <3>2. PICK m \in 0..Len(s.high) + Len(s.low), what \in {"none", "warning"} :
            Handled(End(m), what, i, Tail(ev)) /\ Free(Held(q) \ Held(End(m)))
      BY <3>1
    <3> HIDE DEF s
    <3>3. /\ DOMAIN Sent(s, m) = Fields /\ Lighter(s, Sent(s, m)) /\ Backlog(Sent(s, m))
          /\ Lists(Sent(s, m)) /\ Numbers(Sent(s, m))
      BY <2>3, SentData DEF Lighter
    <3>4. Lighter(Sent(s, m), Closed(Sent(s, m))) /\ ~ Alive(Closed(Sent(s, m)))
      BY <3>3, ClosedData
    <3>5. Lighter(s, End(m)) /\ (Alive(End(m)) => Backlog(End(m)))
      BY <3>3, <3>4, LighterTwice
    <3> HIDE DEF End
    <3> QED BY <1>5, <2>3, <3>2, <3>5, LighterTwice
  <2> QED BY <2>4, <2>5
<1> QED BY <1>6, <1>7, <1>8

-----------------------------------------------------------------------------
(* A slot is taken by another socket                                       *)

\* No package is under way to an id that no service was told of.
LEMMA NoneUnderWay ==
  ASSUME NInv, Owned, NEW i, i \notin opened PROVE UnderWay(i) = 0
<1>1. Posting(i) = {}
  BY DEF Posting, NInv, Known, At
<1>2. \A x \in 1..Len(pipe) : pipe[x].buf # 0 => pipe[x].id \in opened
  <2>1. \A x \in 1..Len(pipe) : pipe[x].buf # 0 => pipe[x].cmd \in {"D", "P"}
    BY DEF Owned, Bufs
  <2> QED BY <2>1 DEF NInv, Known, Opening
<1>3. Packages(pipe, i) = {}
  BY <1>2 DEF Packages
<1> QED BY <1>1, <1>3, FS_EmptySet DEF UnderWay

\* A slot that holds no socket gets one, of id i.
Fresh(r, i) ==
  /\ r.seen = i /\ r.tcp /\ r.tag = ID_TAG16(i) /\ r.sending = 0
  /\ r.high = <<>> /\ r.low = <<>> /\ r.dw = <<>> /\ r.wb = 0 /\ r.warn = 0
  /\ r.tcp \in BOOLEAN /\ r.closing \in BOOLEAN /\ r.reading \in BOOLEAN

LEMMA FreshKeeps ==
  ASSUME NInv, Logged, CInv, call' = call, log' = log, freed' = freed, PopBare,
         spc # "force", spc' # "force", NEW i \in Id, NEW k \in Slot, k = HASH_ID(i), Only(k),
         i \notin opened, ~ Alive(sock[k]), Fresh(sock'[k], i)
  PROVE  CNext
<1> DEFINE r == sock'[k]
<1>0. Typed /\ Books /\ Backlogs /\ Tags /\ Sending /\ Blank /\ Owned
  BY DEF NInv, CInv
<1>1. Range(<<>>) = {} /\ <<>> \in Seq(Nat) /\ Runs(<<>>) /\ Len(<<>>) = 0
  BY DEF Range, Runs
<1>2. Held(r) = {} /\ Held(sock[k]) = {}
  BY <1>1 DEF Held, Fresh, NInv, Clean, Empty
<1>3. i \in Nat /\ ID_TAG16(i) \in Nat /\ 0 \in 0..MaxSending
  BY SocketAssumption DEF Id, ID_TAG16
<1>4. Lists(r) /\ Numbers(r) /\ Backlog(r)
  BY <1>1, <1>3 DEF Fresh, Lists, Numbers, Backlog
<1>5. Owned'
  <2>1. Frees(Held(sock[k]) \ Held(r))
    BY <1>0, <1>2, FreeFrees DEF Owned, FreedRight
  <2> QED BY <1>0, <1>2, <2>1, OwnedDrop
<1>6. Books'
  <2>1. \A j \in Slot : Lists(sock'[j]) /\ Numbers(sock'[j])
    BY <1>0, <1>4 DEF Books, Only
  <2> QED BY <2>1 DEF Books, Lists, Numbers, Runs
<1>7. Backlogs'
  <2>1. \A j \in Slot : Alive(sock'[j]) => Backlog(sock'[j])
    BY <1>0, <1>4 DEF Backlogs, Only, Forcing
  <2> QED BY <2>1 DEF Backlogs, Backlog, Alive, send_buffer_empty
<1>8. Tags'
  BY <1>0 DEF Tags, Only, Fresh
<1>9. Sending'
  <2>1. \A j : UnderWay(j)' = UnderWay(j)
    BY <1>0, UnderWaySame
  <2>2. UnderWay(i) = 0
    BY <1>0, NoneUnderWay
  <2>3. \A j \in Slot : sock'[j].tcp => sock'[j].sending = UnderWay(sock'[j].seen)
    BY <1>0, <2>2 DEF Sending, Only, Fresh
  <2>4. ASSUME NEW j \in Slot, NEW n, n = sock'[j].seen, sock'[j].tcp
        PROVE  sock'[j].sending = UnderWay(n)'
    BY <2>1, <2>3, <2>4
  <2> QED BY <2>4 DEF Sending, UnderWay, Posting, Packages, At
<1>10. Blank'
  <2>1. \A j \in Slot : sock[j].dw = <<>> => sock'[j].dw = <<>>
    BY DEF Only, Fresh
  <2> QED BY <1>0, <2>1, CallSlot DEF Blank, At
<1>11. IdsKept
  BY DEF IdsKept, Only, Fresh
<1> QED BY <1>5, <1>6, <1>7, <1>8, <1>9, <1>10, <1>11 DEF CInv, CNext

LEMMA NewFdFresh ==
  ASSUME NEW s, DOMAIN s = Fields, Empty(s), NEW i, NEW type
  PROVE  Fresh(new_fd(s, i, type), i) /\ DOMAIN new_fd(s, i, type) = Fields
  BY DEF new_fd, Fresh, Empty, Fields

LEMMA OpenSocketCounts == ASSUME NInv, Logged, CInv, open_socket, ~ clobbered' PROVE CNext
<1> DEFINE i == CmdId
           s == CmdSlot
           k == HASH_ID(i)
           c == Head(pipe).cmd
<1>1. Cmd(Opening) /\ Cmd({"O", "L", "B"})
  BY DEF open_socket, Opening
<1>2. /\ i \in Id /\ k \in Slot /\ s = sock[k] /\ pipe # <<>> /\ spc = "poll"
      /\ call' = call /\ c \in Opening /\ freed' = freed /\ DOMAIN s = Fields
      /\ PopBare /\ log' = log /\ SameData(s, s)
  BY <1>1, CmdFacts, BareCommand, CmdSlotFields DEF CmdSlot, Cmd, open_socket
<1>3. s.type = "RESERVE" /\ Claimed(i)
  BY <1>2, Popped DEF NInv, CmdId, CmdSlot, Claims, Claimed
<1>4. Empty(s) /\ ~ Alive(s) /\ i \notin opened
  BY <1>2, <1>3 DEF NInv, Clean, Alive, Known
<1>5. ASSUME NEW r, NEW what, Finish(k, r, what, i), Fresh(r, i) PROVE CNext
  <2>1. sock' = [sock EXCEPT ![k] = r] /\ spc' # "force"
    BY <1>2, <1>5, FinishThread
  <2> HIDE DEF k, i, s
  <2>2. sock'[k] = r /\ Only(k)
    BY <1>2, <2>1, OneSlot
  <2>3. k = HASH_ID(i)
    BY DEF k
  <2> QED BY <1>2, <1>4, <1>5, <2>1, <2>2, <2>3, FreshKeeps
<1>6. CASE Finish(k, [s EXCEPT !.type = "INVALID"], "err", i)
  <2> DEFINE r == [s EXCEPT !.type = "INVALID"]
  <2>1. SameData(s, r) /\ ~ Alive(r)
    BY <1>2 DEF SameData, Alive, Fields
  <2> HIDE DEF r
  <2> QED BY <1>1, <1>2, <1>6, <2>1, CmdFlags DEF r
<1>7. \A type : Fresh(new_fd(s, i, type), i) /\ DOMAIN new_fd(s, i, type) = Fields
  BY <1>2, <1>4, NewFdFresh
<1>8. CASE Finish(k, new_fd(s, i, Opened[c]), "open", i)
  BY <1>5, <1>7, <1>8
<1>9. CASE Finish(k, [new_fd(s, i, "CONNECTING") EXCEPT !.writing = TRUE], "none", i)
  <2> DEFINE f == new_fd(s, i, "CONNECTING")
             r == [f EXCEPT !.writing = TRUE]
  <2>1. Fresh(f, i) /\ DOMAIN f = Fields
    BY <1>7
  <2> HIDE DEF f
  <2>2. Fresh(r, i)
    BY <2>1 DEF Fresh, Fields
  <2> HIDE DEF r
  <2> QED BY <1>5, <1>9, <2>2 DEF r, f
<1>10. ~ (s.type # "RESERVE" \/ ~ send_buffer_empty(s))
  BY <1>3, <1>4 DEF Empty, send_buffer_empty
<1> QED BY <1>6, <1>8, <1>9, <1>10 DEF open_socket

LEMMA ReportAcceptCounts == ASSUME NInv, Logged, CInv, report_accept PROVE CNext
<1> DEFINE k == Head(ev).k
           i == sock[k].id
<1>1. OnEvent({"LISTEN"}) /\ freed' = freed
  BY DEF report_accept
<1>2. /\ k \in Slot /\ Tail(ev) \in Seq(Batched) /\ call' = call /\ spc = "event"
      /\ PopBare /\ log' = log /\ SameData(sock[k], sock[k])
  BY <1>1, EventFacts, BareEvent, SlotFields
<1>3. CASE Handled(sock[k], "none", i, Tail(ev))
  BY <1>1, <1>2, <1>3, EventFlags
<1>4. ASSUME NEW j \in Id, Reservable(j), Loop(Tail(ev)),
             sock' = [sock EXCEPT ![HASH_ID(j)] = new_fd(@, j, "PACCEPT")]
      PROVE  CNext
  <2> DEFINE h == HASH_ID(j)
             r == new_fd(sock[h], j, "PACCEPT")
  <2>1. j \in Nat /\ j > alloc_id /\ alloc_id \in Nat /\ h \in Slot /\ sock[h].type = "INVALID"
    BY <1>4, SocketAssumption, HashInSlot DEF Id, NInv, Typed, Reservable
  <2>2. ~ Alive(sock[h]) /\ Empty(sock[h])
    BY <2>1 DEF NInv, Clean, Alive
  <2>3. DOMAIN sock[h] = Fields
    BY <2>1, SlotFields DEF NInv
  <2>7. Fresh(r, j)
    BY <2>2, <2>3, NewFdFresh
  <2>4. j \notin opened
    BY <2>1, SocketAssumption DEF NInv, Known, Typed, Id
  <2>5. sock'[h] = r /\ Only(h) /\ spc' # "force"
    BY <1>4, <2>1, OneSlot DEF Loop
  <2>6. h = HASH_ID(j)
    OBVIOUS
  <2> HIDE DEF r, h
  <2> QED BY <1>1, <1>2, <2>1, <2>2, <2>3, <2>4, <2>5, <2>6, <2>7, FreshKeeps
<1>5. ASSUME NEW j \in Id, Reservable(j) PROVE send_buffer_empty(sock[HASH_ID(j)])
  BY <1>5, FreeEmpty
<1> QED BY <1>3, <1>4, <1>5 DEF report_accept

-----------------------------------------------------------------------------
(* A package goes from the pipe to a list                                  *)

LEMMA OneBuffer ==
  ASSUME NEW b \in Nat, NEW n \in Nat
  PROVE  /\ Units(b, n) \in Seq(Nat) /\ Len(Units(b, n)) = n
         /\ \A x \in 1..n : Units(b, n)[x] = b
         /\ Range(Units(b, n)) \subseteq {b}
         /\ n # 0 => Range(Units(b, n)) = {b} /\ Units(b, n) # <<>>
         /\ Runs(Units(b, n))
<1> DEFINE u == Units(b, n)
<1>1. u \in Seq(Nat) /\ Len(u) = n /\ DOMAIN u = 1..n /\ \A x \in 1..n : u[x] = b
  BY DEF Units
<1> HIDE DEF u
<1>2. n # 0 => 1 \in 1..n /\ u # <<>>
  BY <1>1
<1>3. Range(u) \subseteq {b} /\ (n # 0 => Range(u) = {b})
  BY <1>1, <1>2 DEF Range
<1>4. Runs(u)
  BY <1>1 DEF Runs
<1> QED BY <1>1, <1>2, <1>3, <1>4 DEF u

LEMMA RunAdded ==
  ASSUME NEW q \in Seq(Nat), Runs(q), NEW b \in Nat, NEW n \in Nat, b \notin Range(q)
  PROVE  Runs(q \o Units(b, n))
<1> DEFINE u == Units(b, n)
           w == q \o u
           N == Len(q)
<1>1. u \in Seq(Nat) /\ Len(u) = n /\ \A x \in 1..n : u[x] = b
  BY OneBuffer
<1> HIDE DEF u
<1>2. /\ N \in Nat /\ Len(w) = N + n
      /\ \A x \in 1..N : w[x] = q[x] /\ q[x] # b
  BY <1>1 DEF Range
<1>3. \A x \in 1..N + n : x > N => w[x] = b
  <2> SUFFICES ASSUME NEW x \in 1..N + n, x > N PROVE w[x] = b
    OBVIOUS
  <2>1. x - N \in 1..n
    BY <1>2
  <2>2. w[x] = u[x - N]
    BY <1>1, <1>2, <2>1
  <2> QED BY <1>1, <2>1, <2>2
<1> HIDE DEF w, N
<1>4. ASSUME NEW x \in 1..N + n, NEW y \in 1..N + n, NEW z \in 1..N + n,
             x <= y, y <= z, w[x] = w[z]
      PROVE  w[y] = w[x]
  <2>1. CASE z <= N
    <3>1. x \in 1..N /\ y \in 1..N /\ z \in 1..N
      BY <1>2, <1>4, <2>1
    <3> QED BY <1>2, <1>4, <3>1 DEF Runs, N
  <2>2. CASE z > N
    <3>1. w[x] = b
      BY <1>3, <1>4, <2>2
    <3>2. x > N
      BY <1>2, <3>1
    <3>3. y > N
      BY <1>2, <1>4, <3>2
    <3> QED BY <1>3, <3>1, <3>3
  <2> QED BY <1>2, <2>1, <2>2
<1> QED BY <1>2, <1>4 DEF Runs, w, u

LEMMA QueuedData ==
  ASSUME NEW s, DOMAIN s = Fields, Lists(s), Numbers(s), Backlog(s),
         NEW c, c.buf \in Nat, c.buf \notin Held(s)
  PROVE  LET r == Warned(Queued(s, c))
         IN /\ DOMAIN r = Fields /\ Lists(r) /\ Numbers(r) /\ Backlog(r)
            /\ Held(r) = Held(s) \cup {c.buf}
            /\ r.seen = s.seen /\ r.tcp = s.tcp /\ r.tag = s.tag /\ r.sending = s.sending
            /\ r.dw = s.dw /\ r.type = s.type
<1> DEFINE b == c.buf
           u == Units(b, BufSize)
           q == Queued(s, c)
           r == Warned(q)
<1>1. BufSize \in Nat /\ BufSize # 0 /\ WARNING_SIZE \in Nat
  BY SocketAssumption
<1>2. u \in Seq(Nat) /\ Len(u) = BufSize /\ Range(u) = {b}
  BY <1>1, OneBuffer
<1>3. s.high \in Seq(Nat) /\ s.low \in Seq(Nat) /\ s.dw \in Seq(Nat) /\ Runs(s.low)
  BY DEF Lists
<1>4. b \notin Range(s.high) /\ b \notin Range(s.low) /\ b \notin Range(s.dw)
  BY DEF Held
<1>5. Runs(s.low \o u)
  BY <1>1, <1>3, <1>4, RunAdded
<1> HIDE DEF u
<1>6. /\ s.high \o u \in Seq(Nat) /\ Len(s.high \o u) = Len(s.high) + BufSize
      /\ Range(s.high \o u) = Range(s.high) \cup {b}
  BY <1>2, <1>3, Joined
<1>7. /\ s.low \o u \in Seq(Nat) /\ Len(s.low \o u) = Len(s.low) + BufSize
      /\ Range(s.low \o u) = Range(s.low) \cup {b}
  BY <1>2, <1>3, Joined
<1>8. PICK h \in Nat, l \in Nat : h = Len(s.high) /\ l = Len(s.low) /\ s.wb = h + l
  <2>1. Len(s.high) \in Nat /\ Len(s.low) \in Nat
    BY <1>3
  <2> QED BY <2>1 DEF Backlog
<1>9. /\ DOMAIN q = Fields
      /\ \/ q.high = s.high \o u /\ q.low = s.low
         \/ q.high = s.high /\ q.low = s.low \o u
      /\ q.dw = s.dw /\ q.wb = s.wb /\ q.warn = s.warn /\ q.seen = s.seen /\ q.tcp = s.tcp
      /\ q.tag = s.tag /\ q.sending = s.sending /\ q.type = s.type /\ q.closing = s.closing
      /\ q.reading = s.reading
  BY DEF Queued, u, Fields
<1> HIDE DEF q
<1> DEFINE wb == s.wb + BufSize
           warn == IF wb < WARNING_SIZE \/ wb < q.warn THEN q.warn
                   ELSE 2 * (IF q.warn = 0 THEN WARNING_SIZE ELSE q.warn)
<1>10. r = [q EXCEPT !.wb = wb, !.warn = warn]
  BY <1>9 DEF Warned
<1>11. wb \in Nat /\ wb = (h + l) + BufSize
  <2>1. (h + l) + BufSize \in Nat
    BY <1>1
  <2> QED BY <1>8, <2>1
<1>12. warn \in Nat
  <2> HIDE DEF wb
  <2>1. q.warn \in Nat
    BY <1>9 DEF Numbers
  <2> QED BY <1>1, <2>1
<1> HIDE DEF wb, warn, r
<1>13. /\ DOMAIN r = Fields /\ r.high = q.high /\ r.low = q.low /\ r.dw = s.dw /\ r.wb = wb
       /\ r.warn = warn /\ r.seen = s.seen /\ r.tcp = s.tcp /\ r.tag = s.tag /\ r.type = s.type
       /\ r.sending = s.sending /\ r.closing = s.closing /\ r.reading = s.reading
  BY <1>9, <1>10 DEF Fields
<1>14. Lists(r)
  <2>1. Range(s.high) \cap Range(s.low) = {} /\ Range(s.high) \cap Range(s.dw) = {}
    BY DEF Lists
  <2>2. Range(s.low) \cap Range(s.dw) = {}
    BY DEF Lists
  <2>3. CASE q.high = s.high \o u /\ q.low = s.low
    BY <1>3, <1>4, <1>6, <1>13, <2>1, <2>2, <2>3 DEF Lists
  <2>4. CASE q.high = s.high /\ q.low = s.low \o u
    BY <1>3, <1>4, <1>5, <1>7, <1>13, <2>1, <2>2, <2>4 DEF Lists
  <2> QED BY <1>9, <2>3, <2>4
<1>15. Numbers(r)
  BY <1>11, <1>12, <1>13 DEF Numbers
<1>16. Held(r) = Held(s) \cup {b}
  BY <1>6, <1>7, <1>9, <1>13 DEF Held
<1>17. Len(r.high) + Len(r.low) = (h + l) + BufSize
  <2>1. (h + BufSize) + l = (h + l) + BufSize /\ h + (l + BufSize) = (h + l) + BufSize
    BY <1>1
  <2> QED BY <1>6, <1>7, <1>8, <1>9, <1>13, <2>1
<1>18. ~ send_buffer_empty(r)
  <2>1. Len(<<>>) = 0
    OBVIOUS
  <2>2. (h + l) + BufSize # 0 + 0
    BY <1>1
  <2> QED BY <1>17, <2>1, <2>2 DEF send_buffer_empty
<1>19. Backlog(r)
  BY <1>11, <1>13, <1>17, <1>18 DEF Backlog
<1> QED BY <1>13, <1>14, <1>15, <1>16, <1>19 DEF r, q

LEMMA HeldNext == \A j \in Slot : Held(sock[j])' = Held(sock'[j])
  BY DEF Held

\* The first package is taken from the pipe: its buffer goes to a list, or is freed.
LEMMA OwnedTaken ==
  ASSUME Typed, Logged, Owned, call' = call, log' = log, pipe # <<>>, pipe' = Tail(pipe),
         NEW k \in Slot, Only(k), NEW b, b = Head(pipe).buf, b # 0,
         \/ Held(sock'[k]) = Held(sock[k]) \cup {b} /\ Frees({})
         \/ Held(sock'[k]) = Held(sock[k]) /\ Frees({b})
  PROVE  Owned'
<1>0. Bufs /\ Single /\ FreedRight
  BY DEF Owned
<1>1. pipe[1].buf = b /\ 1 \in 1..Len(pipe)
  BY Popped
<1>2. \A x \in 1..Len(pipe') : pipe'[x] = pipe[x + 1] /\ x + 1 \in 1..Len(pipe) /\ x + 1 # 1
  BY Popped
<1>3. \A x \in 1..Len(pipe) : x = 1 \/ \E y \in 1..Len(pipe') : pipe'[y] = pipe[x]
  BY Popped
<1>4. \A x \in 1..Len(pipe') : \E y \in 1..Len(pipe) : y # 1 /\ pipe'[x] = pipe[y]
  BY <1>2
<1>5. \A t \in Caller : InHand(t)' = InHand(t)
  BY DEF InHand
<1>6. sends' = sends /\ sends \in Nat
  BY DEF Logged, sends
<1>7. b \in 1..sends
  BY <1>0, <1>1 DEF Bufs
<1>8. /\ \A t \in Caller : b \notin InHand(t)
      /\ \A j \in Slot : b \notin Held(sock[j])
      /\ \A x \in 1..Len(pipe') : pipe'[x].buf # b
  <2>1. \A x \in 1..Len(pipe) : pipe[x].buf = b => x = 1
    BY <1>0, <1>1 DEF Single
  <2> QED BY <1>0, <1>1, <1>4, <2>1 DEF Single
<1>9. \A j \in Slot : \A c : c # b => (c \in Held(sock'[j]) <=> c \in Held(sock[j]))
  BY DEF Only
<1>10. \A j \in Slot : b \in Held(sock'[j]) => j = k
  BY <1>8 DEF Only
<1>11. Bufs'
  <2>1. \A x \in 1..Len(pipe') :
          IF pipe'[x].cmd \in {"D", "P"} THEN pipe'[x].buf \in 1..sends ELSE pipe'[x].buf = 0
    BY <1>0, <1>4 DEF Bufs
  <2>2. \A t \in Caller : InHand(t)' \subseteq 1..sends
    BY <1>0, <1>5 DEF Bufs
  <2>3. \A j \in Slot : Held(sock'[j]) \subseteq 1..sends
    BY <1>0, <1>7, <1>9 DEF Bufs
  <2>4. sends' <= MaxBuf
    BY <1>0, <1>6 DEF Bufs
  <2> QED BY <2>1, <2>2, <2>3, <2>4, <1>6, HeldNext DEF Bufs
<1>12. Single'
  <2>1. \A t, u \in Caller : \A c \in InHand(t)' : c \in InHand(u)' => t = u
    BY <1>0, <1>5 DEF Single
  <2>2. \A x, y \in 1..Len(pipe') : pipe'[x].buf = pipe'[y].buf /\ pipe'[x].buf # 0 => x = y
    <3> SUFFICES ASSUME NEW x \in 1..Len(pipe'), NEW y \in 1..Len(pipe'),
                        pipe'[x].buf = pipe'[y].buf, pipe'[x].buf # 0
                 PROVE  x = y
      OBVIOUS
    <3>1. x + 1 \in 1..Len(pipe) /\ pipe'[x] = pipe[x + 1]
      BY <1>2
    <3>2. y + 1 \in 1..Len(pipe) /\ pipe'[y] = pipe[y + 1]
      BY <1>2
    <3>3. x + 1 = y + 1
      BY <1>0, <3>1, <3>2 DEF Single
    <3>4. x \in Int /\ y \in Int
      OBVIOUS
    <3> QED BY <3>3, <3>4
  <2>3. \A j, l \in Slot : \A c \in Held(sock'[j]) : c \in Held(sock'[l]) => j = l
    <3> SUFFICES ASSUME NEW j \in Slot, NEW l \in Slot, NEW c, c \in Held(sock'[j]),
                        c \in Held(sock'[l])
                 PROVE  j = l
      OBVIOUS
    <3>1. CASE c = b
      BY <1>10, <3>1
    <3>2. CASE c # b
      <4>1. c \in Held(sock[j]) /\ c \in Held(sock[l])
        BY <1>9, <3>2
      <4> QED BY <1>0, <4>1 DEF Single
    <3> QED BY <3>1, <3>2
  <2>4. \A t \in Caller, x \in 1..Len(pipe') : pipe'[x].buf \notin InHand(t)'
    BY <1>0, <1>4, <1>5 DEF Single
  <2>5. \A t \in Caller, j \in Slot : \A c \in InHand(t)' : c \notin Held(sock'[j])
    BY <1>0, <1>5, <1>8, <1>9 DEF Single
  <2>6. \A x \in 1..Len(pipe'), j \in Slot : pipe'[x].buf \notin Held(sock'[j])
    <3> SUFFICES ASSUME NEW x \in 1..Len(pipe'), NEW j \in Slot,
                        pipe'[x].buf \in Held(sock'[j])
                 PROVE  FALSE
      OBVIOUS
    <3>1. PICK y \in 1..Len(pipe) : pipe'[x] = pipe[y]
      BY <1>4
    <3>2. pipe[y].buf \in Held(sock[j])
      BY <1>8, <1>9, <3>1
    <3> QED BY <1>0, <3>2 DEF Single
  <2> QED BY <2>1, <2>2, <2>3, <2>4, <2>5, <2>6, HeldNext DEF Single
<1>13. \A c : c # b => (Somewhere(c)' <=> Somewhere(c))
  <2> TAKE c
  <2> SUFFICES ASSUME c # b PROVE Somewhere(c)' <=> Somewhere(c)
    OBVIOUS
  <2>1. Piped(c)' <=> Piped(c)
    BY <1>1, <1>3, <1>4 DEF Piped
  <2>2. \A j \in Slot : c \in Held(sock'[j]) <=> c \in Held(sock[j])
    BY <1>9
  <2> QED BY <1>5, <2>1, <2>2, HeldNext DEF Somewhere
<1>14. Somewhere(b)
  BY <1>1 DEF Somewhere, Piped
<1>15. Somewhere(b)' <=> b \in Held(sock'[k])
  BY <1>5, <1>8, <1>10, HeldNext DEF Somewhere, Piped
<1>16. FreedRight'
  <2>1. CASE Held(sock'[k]) = Held(sock[k]) \cup {b} /\ Frees({})
    <3>1. \A c \in Buf : Somewhere(c)' <=> Somewhere(c)
      BY <1>13, <1>14, <1>15, <2>1
    <3>2. \A c \in Buf : c \notin {} =>
            IF c <= sends THEN Somewhere(c)' <=> Somewhere(c) ELSE c <= sends' => Somewhere(c)'
      BY <1>6, <3>1
    <3>3. \A c \in Buf : c \in {} => c <= sends' /\ ~ Somewhere(c)' /\ (c <= sends => Somewhere(c))
      OBVIOUS
    <3> QED BY <1>0, <1>6, <2>1, <3>2, <3>3, FreedStep
  <2>2. CASE Held(sock'[k]) = Held(sock[k]) /\ Frees({b})
    <3>1. \A c \in Buf : c \notin {b} =>
            IF c <= sends THEN Somewhere(c)' <=> Somewhere(c) ELSE c <= sends' => Somewhere(c)'
      BY <1>6, <1>13
    <3>2. \A c \in Buf : c \in {b} =>
            c <= sends' /\ ~ Somewhere(c)' /\ (c <= sends => Somewhere(c))
      BY <1>6, <1>7, <1>8, <1>14, <1>15, <2>2
    <3> QED BY <1>0, <1>6, <2>2, <3>1, <3>2, FreedStep
  <2> QED BY <2>1, <2>2
<1> QED BY <1>11, <1>12, <1>16 DEF Owned

\* A send that is counted is under way to its socket: dec_sending_ref finds its count.
LEMMA OneLess ==
  ASSUME Typed, call' = call, pipe # <<>>, pipe' = Tail(pipe), Head(pipe).buf # 0, NEW j
  PROVE  /\ UnderWay(j) = UnderWay(j)' + (IF Head(pipe).id = j THEN 1 ELSE 0)
         /\ UnderWay(j)' \in Nat
<1>1. Posting(j)' = Posting(j)
  BY DEF Posting, At
<1>2. pipe \in Seq(Entry) /\ pipe' \in Seq(Entry)
  BY DEF Typed
<1>3. Cardinality(Packages(pipe, j)) =
        Cardinality(Packages(pipe', j)) + (IF Head(pipe).id = j THEN 1 ELSE 0)
  BY <1>2, PackagesTaken
<1>4. Cardinality(Packages(pipe', j)) \in Nat
  BY <1>2, PackagesFinite
<1>5. Cardinality(Posting(j)) \in Nat
  BY PostingFinite
<1>6. UnderWay(j)' = Cardinality(Posting(j)) + Cardinality(Packages(pipe', j))
  BY <1>1 DEF UnderWay
<1> QED BY <1>3, <1>4, <1>5, <1>6 DEF UnderWay

LEMMA SendSocketCounts == ASSUME NInv, Logged, CInv, send_socket, ~ clobbered' PROVE CNext
<1>a. PICK i : i = CmdId
  OBVIOUS
<1> DEFINE s == CmdSlot
           k == HASH_ID(i)
           b == Head(pipe).buf
           to == IF Rejects(s, i) THEN s ELSE Warned(Queued(s, Head(pipe)))
           n == IF Counted(s, i) THEN to.sending - 1 ELSE to.sending
           r == [to EXCEPT !.sending = n]
<1>0. Typed /\ Books /\ Backlogs /\ Tags /\ Sending /\ Blank /\ Owned
  BY DEF NInv, CInv
<1>1. Cmd({"D", "P"})
  BY DEF send_socket
<1>2. /\ i \in Id /\ k \in Slot /\ s = sock[k] /\ spc = "poll" /\ call' = call /\ log' = log
      /\ pipe # <<>> /\ pipe' = Tail(pipe) /\ Head(pipe).cmd \in {"D", "P"} /\ Head(pipe).id = i
      /\ DOMAIN s = Fields /\ Lists(s) /\ Numbers(s)
      /\ ~ socket_invalid(s, i) => Alive(s)
  BY <1>1, <1>a, CmdFacts, CmdSlotFields DEF CmdSlot, CmdId, Cmd, bounds, Opening
<1>3. b \in 1..sends /\ b # 0 /\ b \in Nat
  BY <1>0, <1>2, Popped DEF Owned, Bufs, Logged, sends
<1>4. b \notin Held(s)
  BY <1>0, <1>2, Popped DEF Owned, Single
<1>5. \A j : /\ UnderWay(j) = UnderWay(j)' + (IF i = j THEN 1 ELSE 0)
             /\ UnderWay(j)' \in Nat
  BY <1>0, <1>2, <1>3, OneLess
<1>6. s.tcp => s.sending = UnderWay(s.seen)
  BY <1>0, <1>2 DEF Sending
<1>7. Counted(s, i) => s.sending = UnderWay(i)' + 1
  BY <1>5, <1>6 DEF Counted
<1>8. ~ (Counted(s, i) /\ s.sending = 0)
  BY <1>5, <1>7
<1>9. /\ Finish(k, r, IF to.warn # s.warn THEN "warning" ELSE "none", i)
      /\ Free({c \in {b} : Rejects(s, i)})
  BY <1>8, <1>a DEF send_socket
<1>10. sock' = [sock EXCEPT ![k] = r] /\ spc' # "force"
  BY <1>2, <1>9, FinishThread
<1>11. sock'[k] = r /\ Only(k)
  BY <1>2, <1>10, OneSlot
<1>12. /\ DOMAIN to = Fields /\ Lists(to) /\ Numbers(to)
       /\ Alive(s) => Backlog(to)
       /\ to.seen = s.seen /\ to.tcp = s.tcp /\ to.tag = s.tag /\ to.sending = s.sending
       /\ to.dw = s.dw /\ to.type = s.type
       /\ Held(to) = Held(s) \cup (IF Rejects(s, i) THEN {} ELSE {b})
  <2>1. Alive(s) => Backlog(s)
    BY <1>0, <1>2 DEF Backlogs, Forcing
  <2>2. CASE Rejects(s, i)
    BY <1>2, <2>1, <2>2
  <2>3. CASE ~ Rejects(s, i)
    <3>1. Alive(s)
      BY <1>2, <2>3 DEF Rejects
    <3> HIDE DEF s
    <3>2. to = Warned(Queued(s, Head(pipe)))
      BY <2>3
    <3> QED BY <1>2, <1>3, <1>4, <2>1, <2>3, <3>1, <3>2, QueuedData
  <2> QED BY <2>2, <2>3
<1>13. n \in 0..MaxSending
  <2>1. to.sending \in 0..MaxSending /\ (Counted(s, i) => to.sending # 0)
    BY <1>8, <1>12 DEF Numbers
  <2> HIDE DEF to
  <2> QED BY <2>1, SocketAssumption
<1>14. n = IF Counted(s, i) THEN s.sending - 1 ELSE s.sending
  BY <1>12
<1> HIDE DEF to, n
<1>15. /\ r.high = to.high /\ r.low = to.low /\ r.dw = to.dw /\ r.wb = to.wb /\ r.warn = to.warn
       /\ r.seen = to.seen /\ r.tcp = to.tcp /\ r.tag = to.tag /\ r.sending = n /\ r.type = to.type
       /\ r.closing = to.closing /\ r.reading = to.reading
  BY <1>12 DEF Fields
<1> HIDE DEF r
<1>16. Lists(r) /\ Numbers(r) /\ Held(r) = Held(to) /\ (Alive(s) => Backlog(r))
  BY <1>12, <1>13, <1>15 DEF Lists, Numbers, Held, Backlog, send_buffer_empty
<1>17. Alive(r) => Alive(s)
  BY <1>12, <1>15 DEF Alive
<1>18. Owned'
  <2>1. CASE Rejects(s, i)
    <3>1. Held(sock'[k]) = Held(sock[k])
      BY <1>2, <1>11, <1>12, <1>16, <2>1
    <3>2. {c \in {b} : Rejects(s, i)} = {b}
      BY <2>1
    <3>3. Frees({b})
      BY <1>0, <1>9, <3>2, FreeFrees DEF Owned, FreedRight
    <3> HIDE DEF b, k
    <3>4. b = Head(pipe).buf
      BY DEF b
    <3> QED BY <1>0, <1>2, <1>3, <1>11, <3>1, <3>3, <3>4, OwnedTaken
  <2>2. CASE ~ Rejects(s, i)
    <3>1. Held(sock'[k]) = Held(sock[k]) \cup {b}
      BY <1>2, <1>11, <1>12, <1>16, <2>2
    <3>2. {c \in {b} : Rejects(s, i)} = {}
      BY <2>2
    <3>3. Frees({})
      BY <1>0, <1>9, <3>2, FreeFrees DEF Owned, FreedRight
    <3> HIDE DEF b, k
    <3>4. b = Head(pipe).buf
      BY DEF b
    <3> QED BY <1>0, <1>2, <1>3, <1>11, <3>1, <3>3, <3>4, OwnedTaken
  <2> QED BY <2>1, <2>2
<1> HIDE DEF s, k, b
<1>19. Books'
  <2>1. \A j \in Slot : Lists(sock'[j]) /\ Numbers(sock'[j])
    BY <1>0, <1>11, <1>16 DEF Books, Only
  <2> QED BY <2>1 DEF Books, Lists, Numbers, Runs
<1>20. Backlogs'
  <2>1. \A j \in Slot : Alive(sock'[j]) => Backlog(sock'[j])
    BY <1>0, <1>2, <1>11, <1>16, <1>17 DEF Backlogs, Only, Forcing
  <2> QED BY <2>1 DEF Backlogs, Backlog, Alive, send_buffer_empty
<1>21. Tags'
  BY <1>0, <1>2, <1>11, <1>12, <1>15 DEF Tags, Only
<1>22. Sending'
  <2>1. ASSUME NEW j \in Slot, NEW m, m = sock'[j].seen, sock'[j].tcp
        PROVE  sock'[j].sending = UnderWay(m)'
    <3>1. CASE j = k
      <4>1. m = s.seen /\ s.tcp /\ sock'[j].sending = n
        BY <1>11, <1>12, <1>15, <2>1, <3>1
      <4>2. s.sending = UnderWay(m)
        BY <1>6, <4>1
      <4>3. Counted(s, i) <=> m = i
        BY <4>1 DEF Counted
      <4> QED BY <1>5, <1>14, <4>1, <4>2, <4>3
    <3>2. CASE j # k
      <4>1. sock'[j] = sock[j]
        BY <1>11, <3>2 DEF Only
      <4>2. m # i
        BY <1>0, <1>2, <2>1, <3>2, <4>1, SocketAssumption DEF Tags, Id, k
      <4> QED BY <1>0, <1>5, <2>1, <4>1, <4>2 DEF Sending
    <3> QED BY <3>1, <3>2
  <2> QED BY <2>1 DEF Sending, UnderWay, Posting, Packages, At
<1>23. Blank'
  <2>1. \A j \in Slot : sock[j].dw = <<>> => sock'[j].dw = <<>>
    BY <1>2, <1>11, <1>12, <1>15 DEF Only
  <2> QED BY <1>0, <1>2, <2>1, CallSlot DEF Blank, At
<1>24. IdsKept
  BY <1>2, <1>11, <1>12, <1>15 DEF IdsKept, Only
<1> QED BY <1>18, <1>19, <1>20, <1>21, <1>22, <1>23, <1>24 DEF CInv, CNext

LEMMA SocketThreadCounts == ASSUME NInv, Logged, CInv, SocketThread, ~ clobbered' PROVE CNext
  BY ForceCloseCounts, CloseSocketCounts, ResumeSocketCounts, PauseSocketCounts,
     TriggerWriteCounts, OpenSocketCounts, SendSocketCounts, IdleCounts, ReportConnectCounts,
     ReportAcceptCounts, StaleEventCounts, ForwardCounts, SendBufferCounts, ErrorEventCounts
     DEF SocketThread

-----------------------------------------------------------------------------
(* Steps of the callers and of the peers                                   *)

\* The pipe stays, or a command that carries no buffer is posted.
PostBare ==
  \/ pipe' = pipe
  \/ \E e \in Entry : e.cmd \notin {"D", "P"} /\ e.buf = 0 /\ pipe' = Append(pipe, e)

LEMMA UnderWayBare ==
  ASSUME Typed, PostBare, NEW i, Posting(i)' = Posting(i)
  PROVE  UnderWay(i)' = UnderWay(i)
<1>1. pipe \in Seq(Entry)
  BY DEF Typed
<1>2. Cardinality(Packages(pipe', i)) = Cardinality(Packages(pipe, i))
  <2>1. CASE pipe' = pipe
    BY <2>1
  <2>2. ASSUME NEW e \in Entry, e.buf = 0, pipe' = Append(pipe, e)
        PROVE  Cardinality(Packages(pipe', i)) = Cardinality(Packages(pipe, i))
    <3>1. Cardinality(Packages(pipe, i)) \in Nat
      BY <1>1, PackagesFinite
    <3> QED BY <1>1, <2>2, <3>1, PackagesAppended
  <2> QED BY <2>1, <2>2 DEF PostBare
<1> QED BY <1>2 DEF UnderWay

\* What is in the pipe was there or has been posted.
LEMMA Grown ==
  ASSUME Typed, NEW e \in Entry, pipe' = pipe \/ pipe' = Append(pipe, e)
  PROVE  /\ \A x \in 1..Len(pipe) : x \in 1..Len(pipe') /\ pipe'[x] = pipe[x]
         /\ \A x \in 1..Len(pipe') :
              \/ x \in 1..Len(pipe) /\ pipe'[x] = pipe[x]
              \/ pipe' # pipe /\ x = Len(pipe) + 1 /\ pipe'[x] = e
<1>1. CASE pipe' = pipe
  BY <1>1
<1>2. CASE pipe' = Append(pipe, e)
  <2>1. \A x \in 1..Len(pipe) : x \in 1..Len(pipe')
    BY <1>2, Posted
  <2>2. Len(pipe') # Len(pipe)
    BY <1>2, Posted
  <2> QED BY <1>2, <2>1, <2>2, Posted
<1> QED BY <1>1, <1>2

\* No buffer goes anywhere.
LEMMA OwnedSame ==
  ASSUME Typed, Logged, Owned, log' = log, freed' = freed, PostBare,
         \A t \in Caller : InHand(t)' = InHand(t),
         \A j \in Slot : Held(sock'[j]) = Held(sock[j])
  PROVE  Owned'
<1>0. Bufs /\ Single /\ FreedRight
  BY DEF Owned
<1>1. /\ \A x \in 1..Len(pipe) : x \in 1..Len(pipe') /\ pipe'[x] = pipe[x]
      /\ \A x \in 1..Len(pipe') :
           \/ x \in 1..Len(pipe) /\ pipe'[x] = pipe[x]
           \/ pipe'[x].cmd \notin {"D", "P"} /\ pipe'[x].buf = 0
  <2>1. CASE pipe' = pipe
    BY <2>1
  <2>2. ASSUME NEW e \in Entry, e.cmd \notin {"D", "P"}, e.buf = 0, pipe' = Append(pipe, e)
        PROVE  /\ \A x \in 1..Len(pipe) : x \in 1..Len(pipe') /\ pipe'[x] = pipe[x]
               /\ \A x \in 1..Len(pipe') :
                    \/ x \in 1..Len(pipe) /\ pipe'[x] = pipe[x]
                    \/ pipe'[x].cmd \notin {"D", "P"} /\ pipe'[x].buf = 0
    BY <2>2, Grown
  <2> QED BY <2>1, <2>2 DEF PostBare
<1>2. sends' = sends /\ sends \in Nat
  BY DEF Logged, sends
<1>3. /\ \A t \in Caller : 0 \notin InHand(t)
      /\ \A j \in Slot : 0 \notin Held(sock[j])
  <2>1. 0 \notin 1..sends
    BY <1>2
  <2> QED BY <1>0, <2>1 DEF Bufs
<1>4. Bufs'
  <2>1. \A x \in 1..Len(pipe') :
          IF pipe'[x].cmd \in {"D", "P"} THEN pipe'[x].buf \in 1..sends ELSE pipe'[x].buf = 0
    BY <1>0, <1>1 DEF Bufs
  <2>2. \A t \in Caller : InHand(t)' \subseteq 1..sends
    BY <1>0 DEF Bufs
  <2>3. \A j \in Slot : Held(sock'[j]) \subseteq 1..sends
    BY <1>0 DEF Bufs
  <2>4. sends' <= MaxBuf
    BY <1>0, <1>2 DEF Bufs
  <2> QED BY <2>1, <2>2, <2>3, <2>4, <1>2, HeldNext DEF Bufs
<1>5. Single'
  <2>1. \A t, u \in Caller : \A c \in InHand(t)' : c \in InHand(u)' => t = u
    BY <1>0 DEF Single
  <2>2. \A x, y \in 1..Len(pipe') : pipe'[x].buf = pipe'[y].buf /\ pipe'[x].buf # 0 => x = y
    BY <1>0, <1>1 DEF Single
  <2>3. \A j, l \in Slot : \A c \in Held(sock'[j]) : c \in Held(sock'[l]) => j = l
    BY <1>0 DEF Single
  <2>4. \A t \in Caller, x \in 1..Len(pipe') : pipe'[x].buf \notin InHand(t)'
    BY <1>0, <1>1, <1>3 DEF Single
  <2>5. \A t \in Caller, j \in Slot : \A c \in InHand(t)' : c \notin Held(sock'[j])
    BY <1>0 DEF Single
  <2>6. \A x \in 1..Len(pipe'), j \in Slot : pipe'[x].buf \notin Held(sock'[j])
    BY <1>0, <1>1, <1>3 DEF Single
  <2> QED BY <2>1, <2>2, <2>3, <2>4, <2>5, <2>6, HeldNext DEF Single
<1>6. FreedRight'
  <2>1. ASSUME NEW b \in Buf PROVE Somewhere(b)' <=> Somewhere(b)
    <3>1. b # 0
      BY SocketAssumption DEF Buf
    <3>2. Piped(b)' <=> Piped(b)
      BY <1>1, <3>1 DEF Piped
    <3> QED BY <3>2, HeldNext DEF Somewhere
  <2> QED BY <1>0, <1>2, <2>1 DEF FreedRight
<1> QED BY <1>4, <1>5, <1>6 DEF Owned

\* A slot keeps its data; it may be reserved for another id, which has no data yet.
Tame(s, r) ==
  /\ r.tcp \in BOOLEAN
  /\ r.tag = s.tag /\ r.sending = s.sending /\ r.closing = s.closing /\ r.reading = s.reading
  /\ r.high = s.high /\ r.low = s.low /\ r.dw = s.dw /\ r.wb = s.wb /\ r.warn = s.warn
  /\ r.tcp => s.tcp /\ r.seen = s.seen
  /\ Alive(r) => Alive(s)

LEMMA SameTame == ASSUME NInv, CInv, NEW k \in Slot PROVE Tame(sock[k], sock[k])
  BY DEF CInv, Books, Numbers, Tame

\* Data and counts stay as they are.
LEMMA TameKeeps ==
  ASSUME NInv, CInv, spc' = spc, closing' = closing,
         \A k \in Slot : /\ Tame(sock[k], sock'[k])
                         /\ sock'[k].seen = sock[k].seen \/ HASH_ID(sock'[k].seen) = k,
         \A i : UnderWay(i)' = UnderWay(i)
  PROVE  Books' /\ Backlogs' /\ Tags' /\ Sending'
<1>0. Books /\ Backlogs /\ Tags /\ Sending
  BY DEF CInv
<1>1. Books'
  <2>1. \A j \in Slot : Lists(sock'[j]) /\ Numbers(sock'[j])
    BY <1>0 DEF Books, Lists, Numbers, Tame
  <2> QED BY <2>1 DEF Books, Lists, Numbers, Runs
<1>2. Backlogs'
  <2>1. \A j \in Slot : Forcing(j)' <=> Forcing(j)
    BY DEF Forcing
  <2>2. \A j \in Slot : Alive(sock'[j]) /\ ~ Forcing(j)' => Backlog(sock'[j])
    BY <1>0, <2>1 DEF Backlogs, Backlog, Tame, send_buffer_empty
  <2> QED BY <2>2 DEF Backlogs, Backlog, Alive, send_buffer_empty
<1>3. Tags'
  BY <1>0 DEF Tags, Tame
<1>4. Sending'
  <2>1. \A j \in Slot : sock'[j].tcp => sock'[j].sending = UnderWay(sock'[j].seen)
    BY <1>0 DEF Sending, Tame
  <2>2. ASSUME NEW j \in Slot, NEW i, i = sock'[j].seen, sock'[j].tcp
        PROVE  sock'[j].sending = UnderWay(i)'
    BY <2>1, <2>2
  <2> QED BY <2>2 DEF Sending, UnderWay, Posting, Packages, At
<1> QED BY <1>1, <1>2, <1>3, <1>4

\* A step that moves no buffer and counts no send
LEMMA PlainKeeps ==
  ASSUME NInv, Logged, CInv, IdsKept, log' = log, freed' = freed, spc' = spc, closing' = closing, PostBare,
         \A t \in Caller : InHand(t)' = InHand(t),
         \A i : Posting(i)' = Posting(i),
         \A k \in Slot : /\ Tame(sock[k], sock'[k])
                         /\ sock'[k].seen = sock[k].seen \/ HASH_ID(sock'[k].seen) = k,
         Blank'
  PROVE  CNext
<1>0. Typed /\ Owned
  BY DEF NInv, CInv
<1>1. \A i : UnderWay(i)' = UnderWay(i)
  BY <1>0, UnderWayBare
<1>2. Books' /\ Backlogs' /\ Tags' /\ Sending'
  BY <1>1, TameKeeps
<1>3. Owned'
  <2>1. \A j \in Slot : Held(sock'[j]) = Held(sock[j])
    BY DEF Tame, Held
  <2> QED BY <1>0, <2>1, OwnedSame
<1> QED BY <1>2, <1>3 DEF CInv, CNext

\* The place a caller is at in its call changes, and no buffer with it.
LEMMA HandSame ==
  ASSUME NInv, NEW t \in Caller, NEW l \in {"idle", "try", "lock", "check", "write", "wake", "inc"},
         call' = [call EXCEPT ![t].pc = l], ~ At(t, "post"),
         (l \notin {"idle", "wake"}) <=> (call[t].pc \in {"try", "lock", "check", "write", "inc"})
  PROVE  /\ \A u \in Caller : InHand(u)' = InHand(u)
         /\ \A i : Posting(i)' = Posting(i)
         /\ \A u \in Caller : At(u, "write")' => (u = t /\ l = "write") \/ At(u, "write")
         /\ \A u \in Caller : call'[u].id = call[u].id
<1>1. /\ call'[t].pc = l /\ call'[t].id = call[t].id /\ call'[t].buf = call[t].buf
      /\ \A u \in Caller \ {t} : call'[u] = call[u]
  BY DEF NInv, Typed, InCall
<1>2. InHand(t)' = InHand(t)
  BY <1>1 DEF InHand, At
<1>3. \A u \in Caller : InHand(u)' = InHand(u)
  BY <1>1, <1>2 DEF InHand
<1>4. \A i : Posting(i)' = Posting(i)
  BY <1>1 DEF Posting, At
<1> QED BY <1>1, <1>3, <1>4 DEF At

\* No remainder comes or goes.
LEMMA BlankSame ==
  ASSUME NInv, CInv, \A k \in Slot : Tame(sock[k], sock'[k]),
         \A u \in Caller : call'[u].pc = "write" =>
           /\ call'[u].id = call[u].id
           /\ call[u].pc = "write" \/ sock[HASH_ID(call[u].id)].dw = <<>>
  PROVE  Blank'
<1>1. \A u \in Caller : HASH_ID(call[u].id) \in Slot
  BY CallSlot DEF NInv
<1> QED BY <1>1 DEF CInv, Blank, Tame, At

LEMMA FirstCheckCounts ==
  ASSUME NInv, Logged, CInv, NEW t \in Caller, FirstCheck(t) PROVE CNext
<1>1. PICK l \in {"lock", "inc"} : call' = [call EXCEPT ![t].pc = l]
  BY DEF FirstCheck, Goto
<1>2. /\ call[t].pc = "try" /\ sock' = sock /\ pipe' = pipe /\ spc' = spc /\ closing' = closing
      /\ log' = log /\ freed' = freed
  BY DEF FirstCheck, At, server, thread, bounds
<1>3. \A k \in Slot : Tame(sock[k], sock'[k])
  BY <1>2, SameTame
<1>4. /\ \A u \in Caller : InHand(u)' = InHand(u)
      /\ \A i : Posting(i)' = Posting(i)
      /\ \A u \in Caller : At(u, "write")' => At(u, "write")
      /\ \A u \in Caller : call'[u].id = call[u].id
  <2>1. ~ At(t, "post") /\ (l \notin {"idle", "wake"}) /\ l # "write"
    BY <1>2 DEF At
  <2>2. l \in {"idle", "try", "lock", "check", "write", "wake", "inc"}
    OBVIOUS
  <2>3. (l \notin {"idle", "wake"}) <=> (call[t].pc \in {"try", "lock", "check", "write", "inc"})
    BY <1>2, <2>1
  <2> QED BY <1>1, <2>1, <2>2, <2>3, HandSame
<1>5. Blank'
  <2>1. \A u \in Caller : call'[u].pc = "write" => call'[u].id = call[u].id /\ call[u].pc = "write"
    BY <1>4 DEF At
  <2> QED BY <1>3, <2>1, BlankSame
<1> QED BY <1>2, <1>3, <1>4, <1>5, PlainKeeps DEF PostBare, IdsKept

LEMMA OneTame ==
  ASSUME NInv, CInv, NEW k \in Slot, NEW r, sock' = [sock EXCEPT ![k] = r], Tame(sock[k], r),
         r.seen = sock[k].seen \/ (r.seen \in Id /\ HASH_ID(r.seen) = k)
  PROVE  /\ IdsKept
         /\ \A j \in Slot : /\ Tame(sock[j], sock'[j])
                            /\ sock'[j].seen = sock[j].seen \/ HASH_ID(sock'[j].seen) = j
<1>1. sock'[k] = r /\ Only(k)
  BY OneSlot
<1>2. \A j \in Slot \ {k} : Tame(sock[j], sock'[j]) /\ sock'[j].seen = sock[j].seen
  BY <1>1, SameTame DEF Only
<1> QED BY <1>1, <1>2 DEF IdsKept

LEMMA LockTame ==
  ASSUME NInv, CInv, NEW k \in Slot, NEW l
  PROVE  LET r == [sock[k] EXCEPT !.lock = l] IN Tame(sock[k], r) /\ r.seen = sock[k].seen
<1>1. Tame(sock[k], sock[k]) /\ DOMAIN sock[k] = Fields
  BY SameTame, SlotFields
<1> QED BY <1>1 DEF Tame, Fields, Alive

\* A step of a call that takes or leaves the lock of its slot, or does neither
LEMMA LockCounts ==
  ASSUME NInv, Logged, CInv, NEW t \in Caller, NEW l \in {"check", "write", "inc"},
         call[t].pc \in {"lock", "check"}, call' = [call EXCEPT ![t].pc = l],
         NEW k, k = HASH_ID(call[t].id), l = "write" => sock[k].dw = <<>>,
         NEW o, sock' = sock \/ sock' = [sock EXCEPT ![k].lock = o],
         pipe' = pipe, spc' = spc, closing' = closing, log' = log, freed' = freed
  PROVE  CNext
<1>1. /\ \A u \in Caller : InHand(u)' = InHand(u)
      /\ \A i : Posting(i)' = Posting(i)
      /\ \A u \in Caller : At(u, "write")' => (u = t /\ l = "write") \/ At(u, "write")
      /\ \A u \in Caller : call'[u].id = call[u].id
  <2>1. /\ l \in {"idle", "try", "lock", "check", "write", "wake", "inc"} /\ ~ At(t, "post")
        /\ (l \notin {"idle", "wake"}) <=> (call[t].pc \in {"try", "lock", "check", "write", "inc"})
    BY DEF At
  <2> QED BY <2>1, HandSame
<1>2. k \in Slot
  BY CallFacts
<1>3. /\ IdsKept
      /\ \A j \in Slot : /\ Tame(sock[j], sock'[j])
                         /\ sock'[j].seen = sock[j].seen \/ HASH_ID(sock'[j].seen) = j
  <2>1. CASE sock' = sock
    BY <2>1, SameTame DEF IdsKept
  <2>2. CASE sock' = [sock EXCEPT ![k].lock = o]
    <3> DEFINE r == [sock[k] EXCEPT !.lock = o]
    <3>1. sock' = [sock EXCEPT ![k] = r]
      BY <2>2
    <3>2. Tame(sock[k], r) /\ r.seen = sock[k].seen
      BY <1>2, LockTame
    <3> HIDE DEF r
    <3> QED BY <1>2, <3>1, <3>2, OneTame
  <2> QED BY <2>1, <2>2
<1>4. Blank'
  BY <1>1, <1>3, BlankSame DEF At
<1> QED BY <1>1, <1>3, <1>4, PlainKeeps DEF PostBare

LEMMA TryLockCounts == ASSUME NInv, Logged, CInv, NEW t \in Caller, TryLock(t) PROVE CNext
<1> DEFINE k == HASH_ID(call[t].id)
<1>1. PICK l \in {"check", "inc"} : call' = [call EXCEPT ![t].pc = l]
  BY DEF TryLock, Goto
<1>2. /\ call[t].pc = "lock" /\ pipe' = pipe /\ spc' = spc /\ closing' = closing
      /\ log' = log /\ freed' = freed
      /\ sock' = sock \/ sock' = [sock EXCEPT ![k].lock = t]
  BY DEF TryLock, At, thread, bounds
<1> QED BY <1>1, <1>2, LockCounts

LEMMA CheckLockedCounts ==
  ASSUME NInv, Logged, CInv, NEW t \in Caller, CheckLocked(t) PROVE CNext
<1> DEFINE k == HASH_ID(call[t].id)
           s == sock[k]
<1>1. PICK l \in {"write", "inc"} :
        call' = [call EXCEPT ![t].pc = l] /\ (l = "write" => DoubleCheck(s, call[t].id))
  BY DEF CheckLocked, Goto
<1>2. /\ call[t].pc = "check" /\ pipe' = pipe /\ spc' = spc /\ closing' = closing
      /\ log' = log /\ freed' = freed
      /\ sock' = sock \/ sock' = [sock EXCEPT ![k].lock = None]
  BY DEF CheckLocked, At, thread, bounds
<1>3. l = "write" => s.dw = <<>>
  BY <1>1 DEF DoubleCheck, can_direct_write, nomore_sending_data
<1> QED BY <1>1, <1>2, <1>3, LockCounts

LEMMA WakeCounts == ASSUME NInv, Logged, CInv, NEW t \in Caller, Wake(t) PROVE CNext
<1>1. /\ call[t].pc = "wake" /\ sock' = sock /\ spc' = spc /\ closing' = closing
      /\ log' = log /\ freed' = freed /\ call' = [call EXCEPT ![t].pc = "idle"]
      /\ pipe' = Append(pipe, [cmd |-> "W", id |-> call[t].id, buf |-> 0])
  BY DEF Wake, At, Post, Goto, thread, bounds
<1>2. PostBare
  <2>1. [cmd |-> "W", id |-> call[t].id, buf |-> 0] \in Entry
    BY <1>1, CallFacts DEF Entry, Cmds
  <2> QED BY <1>1, <2>1 DEF PostBare
<1>3. \A k \in Slot : Tame(sock[k], sock'[k])
  BY <1>1, SameTame
<1>4. /\ \A u \in Caller : InHand(u)' = InHand(u)
      /\ \A i : Posting(i)' = Posting(i)
      /\ \A u \in Caller : At(u, "write")' => At(u, "write")
      /\ \A u \in Caller : call'[u].id = call[u].id
  BY <1>1, HandSame DEF At
<1>5. Blank'
  BY <1>3, <1>4, BlankSame DEF At
<1> QED BY <1>1, <1>2, <1>3, <1>4, <1>5, PlainKeeps DEF IdsKept

\* Everything but the pipe stays.
LEMMA StillCounts ==
  ASSUME NInv, Logged, CInv, sock' = sock, call' = call, spc' = spc, closing' = closing,
         log' = log, freed' = freed, PostBare
  PROVE  CNext
<1>1. \A k \in Slot : Tame(sock[k], sock'[k])
  BY SameTame
<1>2. Blank'
  BY DEF CInv, Blank, At
<1>3. (\A u \in Caller : InHand(u)' = InHand(u)) /\ (\A i : Posting(i)' = Posting(i))
  BY DEF InHand, Posting, At
<1> QED BY <1>1, <1>2, <1>3, PlainKeeps DEF IdsKept

LEMMA CommandCounts ==
  ASSUME NInv, Logged, CInv, NEW t \in Caller, NEW cmd \in {"K", "KS", "R", "S"}, Command(t, cmd)
  PROVE  CNext
<1>1. PICK i \in opened : pipe' = Append(pipe, [cmd |-> cmd, id |-> i, buf |-> 0])
  BY DEF Command, Post
<1>2. [cmd |-> cmd, id |-> i, buf |-> 0] \in Entry
  BY DEF NInv, Typed, Entry, Cmds
<1>3. PostBare
  BY <1>1, <1>2 DEF PostBare
<1> QED BY <1>3, StillCounts DEF Command, thread

LEMMA PostOpenCounts == ASSUME NInv, Logged, CInv, NEW t \in Caller, PostOpen(t) PROVE CNext
<1> DEFINE i == call[t].id
           k == HASH_ID(i)
           r == [sock[k] EXCEPT !.seen = i, !.tcp = FALSE]
           c == [cmd |-> call[t].cmd, id |-> i, buf |-> 0]
<1>1. /\ call[t].pc = "reserved" /\ sock' = [sock EXCEPT ![k] = r] /\ spc' = spc
      /\ closing' = closing /\ log' = log /\ freed' = freed /\ pipe' = Append(pipe, c)
      /\ call' = [call EXCEPT ![t].pc = "idle"]
  BY DEF PostOpen, At, Post, Goto, thread, bounds
<1>2. /\ call[t].cmd \in Opening /\ Claimed(i) /\ i \in 1..alloc_id /\ call[t] \in InCall
      /\ i \in Id /\ k \in Slot
  BY <1>1, Ids, SocketAssumption DEF NInv, Claims, Known, At, Typed, InCall, Id
<1>3. PostBare
  <2>1. c \in Entry /\ c.buf = 0 /\ c.cmd \notin {"D", "P"}
    BY <1>2 DEF Entry, Cmds, Opening
  <2> HIDE DEF c
  <2> QED BY <1>1, <2>1 DEF PostBare
<1>4. Tame(sock[k], r) /\ r.seen \in Id /\ HASH_ID(r.seen) = k
  <2>1. Tame(sock[k], sock[k]) /\ DOMAIN sock[k] = Fields
    BY <1>2, SameTame, SlotFields
  <2> QED BY <1>2, <2>1 DEF Tame, Fields, Alive
<1>5. /\ IdsKept
      /\ \A j \in Slot : /\ Tame(sock[j], sock'[j])
                         /\ sock'[j].seen = sock[j].seen \/ HASH_ID(sock'[j].seen) = j
  <2> HIDE DEF r
  <2> QED BY <1>1, <1>2, <1>4, OneTame
<1>6. /\ \A u \in Caller : InHand(u)' = InHand(u)
      /\ \A n : Posting(n)' = Posting(n)
      /\ \A u \in Caller : At(u, "write")' => At(u, "write")
      /\ \A u \in Caller : call'[u].id = call[u].id
  BY <1>1, HandSame DEF At
<1>7. Blank'
  BY <1>5, <1>6, BlankSame DEF At
<1> QED BY <1>1, <1>3, <1>5, <1>6, <1>7, PlainKeeps

LEMMA OpenCounts ==
  ASSUME NInv, Logged, CInv, NEW t \in Caller, NEW cmd, Open(t, cmd)
  PROVE  CNext
<1>1. PICK i \in Id :
        /\ Reservable(i)
        /\ sock' = [sock EXCEPT ![HASH_ID(i)] =
                      [sock[HASH_ID(i)] EXCEPT !.type = "RESERVE", !.id = i]]
        /\ call' = [call EXCEPT ![t] = [call[t] EXCEPT !.pc = "reserved", !.id = i, !.cmd = cmd]]
  BY DEF Open
<1> DEFINE k == HASH_ID(i)
           r == [sock[k] EXCEPT !.type = "RESERVE", !.id = i]
           c == [call[t] EXCEPT !.pc = "reserved", !.id = i, !.cmd = cmd]
<1>2. /\ call[t].pc = "idle" /\ pipe' = pipe /\ spc' = spc /\ closing' = closing
      /\ log' = log /\ freed' = freed
  BY DEF Open, At, thread, bounds
<1>3. k \in Slot
  BY SocketAssumption, HashInSlot DEF Id
<1>4. Tame(sock[k], r) /\ r.seen = sock[k].seen
  <2>1. Tame(sock[k], sock[k]) /\ DOMAIN sock[k] = Fields
    BY <1>3, SameTame, SlotFields
  <2> QED BY <2>1 DEF Tame, Fields, Alive
<1>5. c.pc = "reserved"
  BY DEF NInv, Typed, InCall
<1> HIDE DEF r, c, k
<1>6. /\ IdsKept
      /\ \A j \in Slot : /\ Tame(sock[j], sock'[j])
                         /\ sock'[j].seen = sock[j].seen \/ HASH_ID(sock'[j].seen) = j
  BY <1>1, <1>3, <1>4, OneTame DEF r, k
<1>7. call'[t].pc = "reserved" /\ \A u \in Caller \ {t} : call'[u] = call[u]
  BY <1>1, <1>5 DEF NInv, Typed, c
<1>8. InHand(t)' = {} /\ InHand(t) = {}
  BY <1>2, <1>7 DEF InHand
<1>9. \A u \in Caller : InHand(u)' = InHand(u)
  BY <1>7, <1>8 DEF InHand
<1>10. \A n : Posting(n)' = Posting(n)
  BY <1>2, <1>7 DEF Posting, At
<1>11. Blank'
  BY <1>6, <1>7, BlankSame
<1> QED BY <1>2, <1>6, <1>9, <1>10, <1>11, PlainKeeps DEF PostBare

-----------------------------------------------------------------------------
(* A package is written at once, or posted                                 *)

\* The buffer of a call, in its hand or new, stays with it, goes to a list or to the
\* pipe, or is freed.
LEMMA OwnedMoved ==
  ASSUME Typed, Logged, Owned, NEW t \in Caller, NEW b \in Buf,
         \/ InHand(t) = {b} /\ sends' = sends
         \/ InHand(t) = {} /\ b = sends + 1 /\ sends' = sends + 1,
         \A u \in Caller \ {t} : InHand(u)' = InHand(u),
         NEW k \in Slot, Only(k), NEW e \in Entry, e.buf = b, e.cmd \in {"D", "P"},
         \/ /\ InHand(t)' = {b} /\ Held(sock'[k]) = Held(sock[k]) /\ pipe' = pipe /\ Frees({})
         \/ /\ InHand(t)' = {} /\ Held(sock'[k]) = Held(sock[k]) \cup {b} /\ pipe' = pipe
            /\ Frees({})
         \/ /\ InHand(t)' = {} /\ Held(sock'[k]) = Held(sock[k]) /\ pipe' = Append(pipe, e)
            /\ Frees({})
         \/ /\ InHand(t)' = {} /\ Held(sock'[k]) = Held(sock[k]) /\ pipe' = pipe /\ Frees({b})
  PROVE  Owned'
<1>0. Bufs /\ Single /\ FreedRight
  BY DEF Owned
<1>1. sends \in Nat /\ b \in Nat /\ b # 0 /\ b \in 1..sends' /\ 1..sends \subseteq 1..sends'
      /\ sends' <= MaxBuf /\ b <= sends'
  <2>1. sends \in Nat /\ MaxBuf \in Nat /\ sends <= MaxBuf /\ b \in 1..MaxBuf
    BY <1>0, SocketAssumption DEF Logged, sends, Bufs, Buf
  <2>2. InHand(t) = {b} => b \in 1..sends
    BY <1>0 DEF Bufs
  <2> QED BY <2>1, <2>2
<1>2. /\ \A u \in Caller \ {t} : b \notin InHand(u)
      /\ \A j \in Slot : b \notin Held(sock[j])
      /\ \A x \in 1..Len(pipe) : pipe[x].buf # b
  <2>1. CASE InHand(t) = {b}
    BY <1>0, <2>1 DEF Single
  <2>2. CASE b = sends + 1
    <3>1. b \notin 1..sends /\ b # 0
      BY <1>1, <2>2
    <3> QED BY <1>0, <3>1 DEF Bufs
  <2> QED BY <2>1, <2>2
<1>3. /\ \A x \in 1..Len(pipe) : x \in 1..Len(pipe') /\ pipe'[x] = pipe[x]
      /\ \A x \in 1..Len(pipe') :
           \/ x \in 1..Len(pipe) /\ pipe'[x] = pipe[x]
           \/ pipe' # pipe /\ x = Len(pipe) + 1 /\ pipe'[x] = e
  BY Grown
<1>4. /\ \A u \in Caller : \A c : c # b => (c \in InHand(u)' <=> c \in InHand(u))
      /\ \A u \in Caller : b \in InHand(u)' => u = t
  BY <1>2
<1>5. /\ \A j \in Slot : \A c : c # b => (c \in Held(sock'[j]) <=> c \in Held(sock[j]))
      /\ \A j \in Slot : b \in Held(sock'[j]) => j = k
  BY <1>2 DEF Only
<1>6. /\ b \in InHand(t)' => b \notin Held(sock'[k]) /\ pipe' = pipe
      /\ b \in Held(sock'[k]) => pipe' = pipe
  BY <1>2
<1>7. \A x \in 1..Len(pipe') :
        \/ pipe'[x].buf # b /\ x \in 1..Len(pipe) /\ pipe'[x] = pipe[x]
        \/ pipe'[x].buf = b /\ pipe' # pipe /\ x = Len(pipe) + 1 /\ pipe'[x] = e
  BY <1>2, <1>3
<1>8. Bufs'
  <2>1. \A x \in 1..Len(pipe') :
          IF pipe'[x].cmd \in {"D", "P"} THEN pipe'[x].buf \in 1..sends' ELSE pipe'[x].buf = 0
    BY <1>0, <1>1, <1>7 DEF Bufs
  <2>2. \A u \in Caller : InHand(u)' \subseteq 1..sends'
    BY <1>0, <1>1, <1>4 DEF Bufs
  <2>3. \A j \in Slot : Held(sock'[j]) \subseteq 1..sends'
    BY <1>0, <1>1, <1>5 DEF Bufs
  <2> QED BY <2>1, <2>2, <2>3, <1>1, HeldNext DEF Bufs
<1>9. Single'
  <2>1. \A u, v \in Caller : \A c \in InHand(u)' : c \in InHand(v)' => u = v
    <3> SUFFICES ASSUME NEW u \in Caller, NEW v \in Caller, NEW c, c \in InHand(u)', c \in InHand(v)'
                 PROVE  u = v
      OBVIOUS
    <3>1. CASE c = b
      BY <1>4, <3>1
    <3>2. CASE c # b
      <4>1. c \in InHand(u) /\ c \in InHand(v)
        BY <1>4, <3>2
      <4> QED BY <1>0, <4>1 DEF Single
    <3> QED BY <3>1, <3>2
  <2>2. \A x, y \in 1..Len(pipe') : pipe'[x].buf = pipe'[y].buf /\ pipe'[x].buf # 0 => x = y
    BY <1>0, <1>7 DEF Single
  <2>3. \A j, l \in Slot : \A c \in Held(sock'[j]) : c \in Held(sock'[l]) => j = l
    <3> SUFFICES ASSUME NEW j \in Slot, NEW l \in Slot, NEW c, c \in Held(sock'[j]),
                        c \in Held(sock'[l])
                 PROVE  j = l
      OBVIOUS
    <3>1. CASE c = b
      BY <1>5, <3>1
    <3>2. CASE c # b
      <4>1. c \in Held(sock[j]) /\ c \in Held(sock[l])
        BY <1>5, <3>2
      <4> QED BY <1>0, <4>1 DEF Single
    <3> QED BY <3>1, <3>2
  <2>4. \A u \in Caller, x \in 1..Len(pipe') : pipe'[x].buf \notin InHand(u)'
    <3> SUFFICES ASSUME NEW u \in Caller, NEW x \in 1..Len(pipe'), pipe'[x].buf \in InHand(u)'
                 PROVE  FALSE
      OBVIOUS
    <3>1. CASE pipe'[x].buf = b
      BY <1>4, <1>6, <1>7, <3>1
    <3>2. CASE pipe'[x].buf # b
      <4>1. x \in 1..Len(pipe) /\ pipe[x].buf \in InHand(u)
        BY <1>4, <1>7, <3>2
      <4> QED BY <1>0, <4>1 DEF Single
    <3> QED BY <3>1, <3>2
  <2>5. \A u \in Caller, j \in Slot : \A c \in InHand(u)' : c \notin Held(sock'[j])
    <3> SUFFICES ASSUME NEW u \in Caller, NEW j \in Slot, NEW c, c \in InHand(u)', c \in Held(sock'[j])
                 PROVE  FALSE
      OBVIOUS
    <3>1. CASE c = b
      BY <1>4, <1>5, <1>6, <3>1
    <3>2. CASE c # b
      <4>1. c \in InHand(u) /\ c \in Held(sock[j])
        BY <1>4, <1>5, <3>2
      <4> QED BY <1>0, <4>1 DEF Single
    <3> QED BY <3>1, <3>2
  <2>6. \A x \in 1..Len(pipe'), j \in Slot : pipe'[x].buf \notin Held(sock'[j])
    <3> SUFFICES ASSUME NEW x \in 1..Len(pipe'), NEW j \in Slot, pipe'[x].buf \in Held(sock'[j])
                 PROVE  FALSE
      OBVIOUS
    <3>1. CASE pipe'[x].buf = b
      BY <1>5, <1>6, <1>7, <3>1
    <3>2. CASE pipe'[x].buf # b
      <4>1. x \in 1..Len(pipe) /\ pipe[x].buf \in Held(sock[j])
        BY <1>5, <1>7, <3>2
      <4> QED BY <1>0, <4>1 DEF Single
    <3> QED BY <3>1, <3>2
  <2> QED BY <2>1, <2>2, <2>3, <2>4, <2>5, <2>6, HeldNext DEF Single
<1>10. \A c : c # b => (Somewhere(c)' <=> Somewhere(c))
  <2> TAKE c
  <2> SUFFICES ASSUME c # b PROVE Somewhere(c)' <=> Somewhere(c)
    OBVIOUS
  <2>1. Piped(c)' <=> Piped(c)
    BY <1>3, <1>7 DEF Piped
  <2> QED BY <1>4, <1>5, <2>1, HeldNext DEF Somewhere
<1>11. b <= sends => Somewhere(b)
  <2>1. InHand(t) = {b} \/ ~ b <= sends
    BY <1>1
  <2> QED BY <2>1 DEF Somewhere
<1>12. CASE Frees({}) /\ Somewhere(b)'
  <2>1. \A c \in Buf : c \notin {} =>
          IF c <= sends THEN Somewhere(c)' <=> Somewhere(c) ELSE c <= sends' => Somewhere(c)'
    <3>1. \A c \in Buf : c <= sends' => c <= sends \/ c = b
      BY <1>1, SocketAssumption DEF Buf
    <3> QED BY <1>10, <1>11, <1>12, <3>1
  <2>2. FreedRight'
    BY <1>0, <1>1, <1>12, <2>1, FreedStep
  <2> QED BY <1>8, <1>9, <2>2 DEF Owned
<1>13. CASE Frees({b}) /\ ~ Somewhere(b)'
  <2>1. \A c \in Buf : c \notin {b} =>
          IF c <= sends THEN Somewhere(c)' <=> Somewhere(c) ELSE c <= sends' => Somewhere(c)'
    <3>1. \A c \in Buf : c <= sends' => c <= sends \/ c = b
      BY <1>1, SocketAssumption DEF Buf
    <3> QED BY <1>10, <3>1
  <2>2. \A c \in Buf : c \in {b} => c <= sends' /\ ~ Somewhere(c)' /\ (c <= sends => Somewhere(c))
    BY <1>1, <1>11, <1>13
  <2>3. FreedRight'
    BY <1>0, <1>1, <1>13, <2>1, <2>2, FreedStep
  <2> QED BY <1>8, <1>9, <2>3 DEF Owned
<1>14. pipe' = Append(pipe, e) => Piped(b)'
  <2>1. ASSUME pipe' = Append(pipe, e) PROVE Len(pipe) + 1 \in 1..Len(pipe') /\ pipe'[Len(pipe) + 1] = e
    BY <2>1, Posted
  <2> QED BY <2>1 DEF Piped
<1>15. b \in InHand(t)' \/ b \in Held(sock'[k]) \/ Piped(b)' => Somewhere(b)'
  BY HeldNext DEF Somewhere
<1>16. ~ (b \in InHand(t)' \/ b \in Held(sock'[k]) \/ pipe' # pipe) => ~ Somewhere(b)'
  BY <1>2, <1>4, <1>5, HeldNext DEF Somewhere, Piped
<1> QED BY <1>2, <1>12, <1>13, <1>14, <1>15, <1>16

LEMMA SendCounts ==
  ASSUME NInv, Logged, CInv, NEW t \in Caller, NEW prio \in {"D", "P"}, Send(t, prio)
  PROVE  CNext
<1>0. Typed /\ Owned
  BY DEF NInv, CInv
<1>1. PICK i \in opened :
        /\ log' = Append(log, [t |-> t, prio |-> prio, id |-> i])
        /\ \/ Free({sends + 1}) /\ call' = call
           \/ /\ call' = [call EXCEPT ![t] = [pc |-> IF prio = "D" THEN "try" ELSE "inc",
                                              id |-> i, cmd |-> prio, buf |-> sends + 1]]
              /\ freed' = freed
  BY DEF Send
<1>2. /\ call[t].pc = "idle" /\ sends < MaxBuf /\ sock' = sock /\ pipe' = pipe /\ spc' = spc
      /\ closing' = closing
  BY DEF Send, Begin, At, server, thread
<1>3. sends \in Nat /\ sends' = sends + 1
  BY <1>1 DEF sends, Logged
<1>a. PICK b : b = sends + 1
  OBVIOUS
<1>4. b \in Buf
  BY <1>2, <1>3, <1>a, SocketAssumption DEF Buf
<1> DEFINE k == HASH_ID(i)
           e == [cmd |-> prio, id |-> i, buf |-> b]
<1>5. i \in Id /\ k \in Slot /\ e \in Entry /\ e.buf = b /\ e.cmd \in {"D", "P"}
  <2>1. i \in Id
    BY DEF NInv, Typed
  <2>2. b \in Nat
    BY <1>3, <1>a
  <2> QED BY <2>1, <2>2, SocketAssumption, HashInSlot DEF Entry, Cmds, Id
<1> HIDE DEF e, k
<1>6. InHand(t) = {}
  BY <1>2 DEF InHand
<1>7. /\ \A u \in Caller \ {t} : call'[u] = call[u]
      /\ \/ Free({b}) /\ InHand(t)' = {} /\ call'[t].pc = "idle"
         \/ freed' = freed /\ InHand(t)' = {b} /\ call'[t].pc \in {"try", "inc"}
  <2>1. CASE Free({sends + 1}) /\ call' = call
    BY <1>2, <1>6, <1>a, <2>1 DEF InHand
  <2>2. CASE /\ call' = [call EXCEPT ![t] = [pc |-> IF prio = "D" THEN "try" ELSE "inc",
                                             id |-> i, cmd |-> prio, buf |-> sends + 1]]
             /\ freed' = freed
    <3>1. /\ call'[t].buf = b /\ call'[t].pc \in {"try", "inc"}
          /\ \A u \in Caller \ {t} : call'[u] = call[u]
      BY <1>a, <2>2 DEF NInv, Typed
    <3> QED BY <2>2, <3>1 DEF InHand
  <2> QED BY <1>1, <2>1, <2>2
<1>8. \A u \in Caller \ {t} : InHand(u)' = InHand(u)
  BY <1>7 DEF InHand
<1>9. Only(k) /\ Held(sock'[k]) = Held(sock[k])
  BY <1>2 DEF Only
<1>10. Owned'
  <2>1. \A bs : Free(bs) \/ (bs = {} /\ freed' = freed) => Frees(bs)
    BY <1>0, FreeFrees DEF Owned, FreedRight
  <2>2. \/ InHand(t)' = {b} /\ Held(sock'[k]) = Held(sock[k]) /\ pipe' = pipe /\ Frees({})
        \/ InHand(t)' = {} /\ Held(sock'[k]) = Held(sock[k]) /\ pipe' = pipe /\ Frees({b})
    BY <1>2, <1>7, <1>9, <2>1
  <2> QED BY <1>0, <1>3, <1>4, <1>5, <1>6, <1>8, <1>9, <1>a, <2>2, OwnedMoved
<1>11. \A n : UnderWay(n)' = UnderWay(n)
  <2>1. \A n : Posting(n)' = Posting(n)
    BY <1>2, <1>7 DEF Posting, At
  <2> QED BY <1>2, <2>1 DEF UnderWay
<1>12. \A j \in Slot : Tame(sock[j], sock'[j]) /\ sock'[j].seen = sock[j].seen
  BY <1>2, SameTame
<1>13. Books' /\ Backlogs' /\ Tags' /\ Sending'
  BY <1>2, <1>11, <1>12, TameKeeps
<1>14. Blank'
  BY <1>2, <1>7, <1>12, BlankSame
<1> QED BY <1>10, <1>12, <1>13, <1>14 DEF CInv, CNext, IdsKept

LEMMA PostSendCounts == ASSUME NInv, Logged, CInv, NEW t \in Caller, PostSend(t) PROVE CNext
<1>0. Typed /\ Owned
  BY DEF NInv, CInv
<1>a. PICK e : e = [cmd |-> call[t].cmd, id |-> call[t].id, buf |-> call[t].buf]
  OBVIOUS
<1>b. PICK b : b = call[t].buf
  OBVIOUS
<1>1. /\ call[t].pc = "post" /\ sock' = sock /\ spc' = spc /\ closing' = closing
      /\ log' = log /\ freed' = freed /\ pipe' = Append(pipe, e)
  BY <1>a DEF PostSend, At, Post, thread, bounds
<1>2. /\ call'[t].pc = "idle" /\ \A u \in Caller \ {t} : call'[u] = call[u]
  BY IdleAgain DEF PostSend
<1>3. call[t].id \in Id /\ call[t].cmd \in {"D", "P"} /\ call[t] \in InCall /\ HASH_ID(call[t].id) \in Slot
  BY <1>1, CallFacts
<1>4. e \in Entry /\ e.buf = b /\ e.cmd \in {"D", "P"} /\ e.id = call[t].id
  BY <1>3, <1>a, <1>b DEF Entry, Cmds, InCall
<1>5. InHand(t) = {b} /\ InHand(t)' = {}
  BY <1>1, <1>2, <1>b DEF InHand
<1>6. b \in Buf /\ sends' = sends
  <2>1. b \in 1..sends /\ sends \in Nat /\ sends <= MaxBuf
    BY <1>0, <1>5 DEF Owned, Bufs, Logged, sends
  <2> QED BY <1>1, <2>1, SocketAssumption DEF Buf, sends
<1>7. Frees({})
  BY <1>0, <1>1, FreeFrees DEF Owned, FreedRight
<1>8. Owned'
  <2>1. \A u \in Caller \ {t} : InHand(u)' = InHand(u)
    BY <1>2 DEF InHand
  <2>2. Only(HASH_ID(call[t].id))
    BY <1>1 DEF Only
  <2>3. InHand(t)' = {} /\ pipe' = Append(pipe, e) /\ Frees({})
        /\ Held(sock'[HASH_ID(call[t].id)]) = Held(sock[HASH_ID(call[t].id)])
    BY <1>1, <1>5, <1>7
  <2> QED BY <1>0, <1>3, <1>4, <1>5, <1>6, <2>1, <2>2, <2>3, OwnedMoved
<1>9. \A n : UnderWay(n)' = UnderWay(n)
  <2> TAKE n
  <2>1. b # 0
    BY <1>6, SocketAssumption DEF Buf
  <2>2. Cardinality(Packages(pipe', n)) =
          Cardinality(Packages(pipe, n)) + (IF e.id = n /\ e.buf # 0 THEN 1 ELSE 0)
    BY <1>0, <1>1, <1>4, PackagesAppended DEF Typed
  <2>3. /\ Cardinality(Packages(pipe, n)) \in Nat
        /\ IsFiniteSet(Posting(n)) /\ Cardinality(Posting(n)) \in Nat
    BY <1>0, PackagesFinite, PostingFinite DEF Typed
  <2>4. CASE e.id = n
    <3>1. t \in Posting(n) /\ Posting(n)' = Posting(n) \ {t}
      BY <1>1, <1>2, <1>4, <2>4 DEF Posting, At
    <3>2. Cardinality(Posting(n)') = Cardinality(Posting(n)) - 1
      BY <2>3, <3>1, FS_RemoveElement
    <3> QED BY <1>4, <2>1, <2>2, <2>3, <2>4, <3>2 DEF UnderWay
  <2>5. CASE e.id # n
    <3>1. Posting(n)' = Posting(n)
      BY <1>1, <1>2, <1>4, <2>5 DEF Posting, At
    <3> QED BY <2>2, <2>3, <2>5, <3>1 DEF UnderWay
  <2> QED BY <2>4, <2>5
<1>10. \A j \in Slot : Tame(sock[j], sock'[j]) /\ sock'[j].seen = sock[j].seen
  BY <1>1, SameTame
<1>11. Books' /\ Backlogs' /\ Tags' /\ Sending'
  BY <1>1, <1>9, <1>10, TameKeeps
<1>12. Blank'
  BY <1>2, <1>10, BlankSame
<1> QED BY <1>8, <1>10, <1>11, <1>12 DEF CInv, CNext, IdsKept

LEMMA DirectWriteCounts ==
  ASSUME NInv, Logged, CInv, NEW t \in Caller, DirectWrite(t) PROVE CNext
<1>0. Typed /\ Books /\ Backlogs /\ Tags /\ Sending /\ Blank /\ Owned
  BY DEF NInv, CInv
<1>a. PICK k : k = HASH_ID(call[t].id)
  OBVIOUS
<1>b. PICK b : b = call[t].buf
  OBVIOUS
<1>c. PICK n \in 0..BufSize :
        /\ sock' = [sock EXCEPT ![k] = Written(sock[k], b, n)]
        /\ call' = [call EXCEPT ![t].pc = IF n = BufSize THEN "idle" ELSE "wake"]
        /\ Free({b : x \in {n} \cap {BufSize}})
  <2>1. PICK n \in 0..BufSize :
          /\ sock' = [sock EXCEPT ![HASH_ID(call[t].id)] = Written(@, call[t].buf, n)]
          /\ Goto(t, IF n = BufSize THEN "idle" ELSE "wake")
          /\ Free({call[t].buf : x \in {n} \cap {BufSize}})
    BY Zenon DEF DirectWrite
  <2>2. sock' = [sock EXCEPT ![k] = Written(sock[k], b, n)]
    BY <1>a, <1>b, <2>1
  <2>3. Free({b : x \in {n} \cap {BufSize}})
    BY <1>b, <2>1
  <2> QED BY <2>1, <2>2, <2>3 DEF Goto
<1> DEFINE s == sock[k]
           r == Written(s, b, n)
           l == IF n = BufSize THEN "idle" ELSE "wake"
           bs == {b : x \in {n} \cap {BufSize}}
<1>1. /\ call[t].pc = "write" /\ pipe' = pipe /\ spc' = spc /\ closing' = closing /\ log' = log
  BY DEF DirectWrite, At, thread, bounds
<1>2. k \in Slot /\ s.lock = t /\ s.dw = <<>> /\ Alive(s)
  BY <1>0, <1>1, <1>a, CallFacts DEF NInv, Locks, Blank, At
<1>3. DOMAIN s = Fields /\ Lists(s) /\ Numbers(s)
  BY <1>2, SlotFields
<1>4. /\ call'[t].pc = l /\ call'[t].id = call[t].id
      /\ \A u \in Caller \ {t} : call'[u] = call[u]
  BY <1>0, <1>c DEF Typed, InCall
<1>5. l \notin {"write", "post", "try", "lock", "check", "inc"}
  OBVIOUS
<1> HIDE DEF l
<1>6. InHand(t) = {b} /\ InHand(t)' = {}
  BY <1>1, <1>4, <1>5, <1>b DEF InHand
<1>7. \A u \in Caller \ {t} : InHand(u)' = InHand(u)
  BY <1>4 DEF InHand
<1>8. b \in Buf /\ b \in Nat /\ sends' = sends /\ b \notin Held(s)
  <2>1. b \in 1..sends /\ sends \in Nat /\ sends <= MaxBuf /\ b \notin Held(s)
    BY <1>0, <1>2, <1>6 DEF Owned, Bufs, Single, Logged, sends
  <2> QED BY <1>1, <2>1, SocketAssumption DEF Buf, sends
<1>9. BufSize \in Nat /\ BufSize # 0 /\ BufSize - n \in Nat /\ (n # BufSize => BufSize - n # 0)
  BY SocketAssumption
<1>10. /\ r.high = s.high /\ r.low = s.low /\ r.wb = s.wb /\ r.warn = s.warn /\ r.seen = s.seen
       /\ r.tcp = s.tcp /\ r.tag = s.tag /\ r.sending = s.sending /\ r.type = s.type
       /\ r.closing = s.closing /\ r.reading = s.reading
       /\ r.dw = IF n = BufSize THEN <<>> ELSE Units(b, BufSize - n)
  BY <1>2, <1>3 DEF Written, Fields
<1>11. sock' = [sock EXCEPT ![k] = r]
  BY <1>c
<1> HIDE DEF r
<1>12. sock'[k] = r /\ Only(k)
  BY <1>2, <1>11, OneSlot
<1>13. /\ r.dw \in Seq(Nat) /\ Range(r.dw) \subseteq {b}
       /\ Range(r.dw) = IF n = BufSize THEN {} ELSE {b}
  <2>1. CASE n = BufSize
    <3>1. Range(<<>>) = {} /\ <<>> \in Seq(Nat)
      BY DEF Range
    <3>2. r.dw = <<>>
      BY <1>10, <2>1
    <3> QED BY <2>1, <3>1, <3>2
  <2>2. CASE n # BufSize
    <3>1. PICK m \in Nat : m = BufSize - n /\ m # 0
      BY <1>9, <2>2
    <3>2. r.dw = Units(b, m)
      BY <1>10, <2>2, <3>1
    <3>3. Units(b, m) \in Seq(Nat) /\ Range(Units(b, m)) = {b}
      BY <1>8, <3>1, OneBuffer
    <3> QED BY <2>2, <3>2, <3>3
  <2> QED BY <2>1, <2>2
<1>14. Lists(r) /\ Numbers(r) /\ (Backlog(s) => Backlog(r))
  <2>1. b \notin Range(s.high) /\ b \notin Range(s.low)
    BY <1>8 DEF Held
  <2>2. Lists(r)
    BY <1>3, <1>10, <1>13, <2>1 DEF Lists
  <2> QED BY <1>3, <1>10, <2>2 DEF Numbers, Backlog, send_buffer_empty
<1>15. Held(r) = Held(s) \cup (IF n = BufSize THEN {} ELSE {b})
  <2>1. Range(s.dw) = {}
    BY <1>2 DEF Range
  <2> QED BY <1>10, <1>13, <2>1 DEF Held
<1>16. Frees(bs)
  BY <1>0, <1>c, FreeFrees DEF Owned, FreedRight
<1>17. bs = IF n = BufSize THEN {b} ELSE {}
  OBVIOUS
<1> HIDE DEF bs
<1>18. Owned'
  <2>1. [cmd |-> "D", id |-> call[t].id, buf |-> b] \in Entry
    BY <1>1, <1>8, CallFacts DEF Entry, Cmds
  <2>2. PICK e \in Entry : e.buf = b /\ e.cmd \in {"D", "P"}
    BY <2>1
  <2>3. \/ /\ InHand(t)' = {} /\ Held(sock'[k]) = Held(sock[k]) \cup {b} /\ pipe' = pipe
           /\ Frees({})
        \/ /\ InHand(t)' = {} /\ Held(sock'[k]) = Held(sock[k]) /\ pipe' = pipe /\ Frees({b})
    BY <1>1, <1>6, <1>12, <1>15, <1>16, <1>17
  <2> QED BY <1>0, <1>2, <1>6, <1>7, <1>8, <1>12, <2>2, <2>3, OwnedMoved
<1> HIDE DEF s
<1>19. Books'
  <2>1. \A j \in Slot : Lists(sock'[j]) /\ Numbers(sock'[j])
    BY <1>0, <1>12, <1>14 DEF Books, Only
  <2> QED BY <2>1 DEF Books, Lists, Numbers, Runs
<1>20. Backlogs'
  <2>1. Alive(r) => Alive(s)
    BY <1>10 DEF Alive
  <2>2. \A j \in Slot : Forcing(j)' <=> Forcing(j)
    BY <1>1 DEF Forcing
  <2>3. \A j \in Slot : Alive(sock'[j]) /\ ~ Forcing(j)' => Backlog(sock'[j])
    BY <1>0, <1>12, <1>14, <2>1, <2>2 DEF Backlogs, Only, s
  <2> QED BY <2>3 DEF Backlogs, Backlog, Alive, send_buffer_empty
<1>21. \A j \in Slot : /\ sock'[j].seen = sock[j].seen /\ sock'[j].tcp = sock[j].tcp
                       /\ sock'[j].tag = sock[j].tag /\ sock'[j].sending = sock[j].sending
  BY <1>10, <1>12 DEF Only, s
<1>22. Tags' /\ IdsKept
  BY <1>0, <1>21 DEF Tags, IdsKept
<1>23. Sending'
  <2>1. \A m : Posting(m)' = Posting(m)
    BY <1>1, <1>4, <1>5 DEF Posting, At
  <2>2. \A m : UnderWay(m)' = UnderWay(m)
    BY <1>1, <2>1 DEF UnderWay
  <2>3. \A j \in Slot : sock'[j].tcp => sock'[j].sending = UnderWay(sock'[j].seen)
    BY <1>0, <1>21 DEF Sending
  <2>4. ASSUME NEW j \in Slot, NEW i, i = sock'[j].seen, sock'[j].tcp
        PROVE  sock'[j].sending = UnderWay(i)'
    BY <2>2, <2>3, <2>4
  <2> QED BY <2>4 DEF Sending, UnderWay, Posting, Packages, At
<1>24. Blank'
  <2> SUFFICES ASSUME NEW u \in Caller, call'[u].pc = "write"
               PROVE  sock'[HASH_ID(call'[u].id)].dw = <<>>
    BY DEF Blank, At
  <2>1. u # t /\ call'[u] = call[u] /\ call[u].pc = "write"
    BY <1>4, <1>5
  <2>2. HASH_ID(call[u].id) # k
    BY <1>2, <2>1 DEF NInv, Locks, At, s
  <2>3. HASH_ID(call[u].id) \in Slot
    BY <1>0, CallSlot
  <2> QED BY <1>0, <1>12, <2>1, <2>2, <2>3 DEF Blank, Only, At
<1> QED BY <1>18, <1>19, <1>20, <1>22, <1>23, <1>24 DEF CInv, CNext

LEMMA SameTag ==
  ASSUME NEW i \in Nat, NEW j \in Nat, HASH_ID(i) = HASH_ID(j), ID_TAG16(i) = ID_TAG16(j)
  PROVE  i = j
<1>1. MAX_SOCKET \in Nat /\ MAX_SOCKET > 0
  BY SocketAssumption
<1>2. \A n \in Nat : n = MAX_SOCKET * ID_TAG16(n) + HASH_ID(n)
  BY <1>1 DEF HASH_ID, ID_TAG16
<1> QED BY <1>2, Zenon

\* The slot of an id that was handed out is not one that was never used.
Used == \A i \in opened : sock[HASH_ID(i)].seen # 0

LEMMA IncCounts ==
  ASSUME NInv, Logged, CInv, Used, NEW t \in Caller, inc_sending_ref(t) PROVE CNext
<1>0. Typed /\ Books /\ Backlogs /\ Tags /\ Sending /\ Blank /\ Owned
  BY DEF NInv, CInv
<1>a. PICK i : i = call[t].id
  OBVIOUS
<1>b. PICK k : k = HASH_ID(i)
  OBVIOUS
<1> DEFINE s == sock[k]
           r == [s EXCEPT !.sending = @ + 1]
<1>1. /\ call[t].pc = "inc" /\ pipe' = pipe /\ spc' = spc /\ closing' = closing /\ log' = log
      /\ freed' = freed /\ call' = [call EXCEPT ![t].pc = "post"]
      /\ \/ Tagged(s, i) /\ Room(s) /\ sock' = [sock EXCEPT ![k] = r]
         \/ ~ Tagged(s, i) /\ sock' = sock
  BY <1>a, <1>b DEF inc_sending_ref, At, Goto, thread, bounds
<1>2. /\ call'[t].pc = "post" /\ call'[t].id = i /\ call'[t].buf = call[t].buf
      /\ \A u \in Caller \ {t} : call'[u] = call[u]
  BY <1>0, <1>1, <1>a DEF Typed, InCall
<1>3. i \in Id /\ k \in Slot /\ i \in opened
  BY <1>1, <1>a, <1>b, CallFacts
<1>4. s.seen # 0 /\ s.seen \in Nat /\ i \in Nat /\ HASH_ID(s.seen) = k
  <2>2. s.seen # 0
    BY <1>3, <1>b DEF Used
  <2>3. s.seen \in 0..MaxId
    BY <1>3 DEF NInv, Typed, SlotsTyped, Socket
  <2> QED BY <1>0, <1>3, <2>2, <2>3, SocketAssumption DEF Tags, Id
<1>5. s.tcp => (Tagged(s, i) <=> s.seen = i)
  BY <1>0, <1>3, <1>4, <1>b, SameTag DEF Tags, Tagged
<1>6. \A u \in Caller : InHand(u)' = InHand(u)
  <2>1. InHand(t)' = InHand(t)
    BY <1>1, <1>2 DEF InHand
  <2> QED BY <1>2, <2>1 DEF InHand
<1>7. \A m : UnderWay(m)' = UnderWay(m) + (IF m = i THEN 1 ELSE 0)
  <2> TAKE m
  <2>1. /\ Cardinality(Packages(pipe, m)) \in Nat
        /\ IsFiniteSet(Posting(m)) /\ Cardinality(Posting(m)) \in Nat
    BY <1>0, PackagesFinite, PostingFinite DEF Typed
  <2>2. CASE m = i
    <3>1. t \notin Posting(m) /\ Posting(m)' = Posting(m) \cup {t}
      BY <1>1, <1>2, <2>2 DEF Posting, At
    <3>2. Cardinality(Posting(m)') = Cardinality(Posting(m)) + 1
      BY <2>1, <3>1, FS_AddElement
    <3> QED BY <1>1, <2>1, <2>2, <3>2 DEF UnderWay
  <2>3. CASE m # i
    <3>1. Posting(m)' = Posting(m)
      BY <1>1, <1>2, <2>3, <1>a DEF Posting, At
    <3> QED BY <1>1, <2>1, <2>3, <3>1 DEF UnderWay
  <2> QED BY <2>2, <2>3
<1>8. /\ DOMAIN s = Fields /\ Lists(s) /\ Numbers(s)
  BY <1>3, SlotFields
<1>9. /\ r.high = s.high /\ r.low = s.low /\ r.dw = s.dw /\ r.wb = s.wb /\ r.warn = s.warn
      /\ r.seen = s.seen /\ r.tcp = s.tcp /\ r.tag = s.tag /\ r.sending = s.sending + 1
      /\ r.type = s.type /\ r.closing = s.closing /\ r.reading = s.reading
  BY <1>8 DEF Fields
<1> HIDE DEF r
<1>10. sock' = sock \/ (sock'[k] = r /\ Only(k))
  BY <1>1, <1>3, OneSlot
<1>11. \A j \in Slot :
         LET q == sock'[j]
         IN /\ q.high = sock[j].high /\ q.low = sock[j].low /\ q.dw = sock[j].dw
            /\ q.wb = sock[j].wb /\ q.warn = sock[j].warn /\ q.seen = sock[j].seen
            /\ q.tcp = sock[j].tcp /\ q.tag = sock[j].tag /\ q.type = sock[j].type
            /\ q.closing = sock[j].closing /\ q.reading = sock[j].reading
  BY <1>9, <1>10 DEF Only
<1>12. \A j \in Slot :
         sock'[j].sending = sock[j].sending + (IF j = k /\ Tagged(s, i) THEN 1 ELSE 0)
         /\ sock'[j].sending \in 0..MaxSending
  <2> TAKE j \in Slot
  <2>1. sock[j].sending \in 0..MaxSending
    BY <1>0 DEF Books, Numbers
  <2>2. CASE Tagged(s, i) /\ Room(s) /\ sock' = [sock EXCEPT ![k] = r]
    <3>1. sock'[k] = r /\ Only(k)
      BY <1>3, <2>2, OneSlot
    <3>2. CASE j = k
      BY <1>9, <2>1, <2>2, <3>1, <3>2, SocketAssumption DEF Room
    <3>3. CASE j # k
      BY <2>1, <3>1, <3>3 DEF Only
    <3> QED BY <3>2, <3>3
  <2>3. CASE ~ Tagged(s, i) /\ sock' = sock
    BY <2>1, <2>3
  <2> QED BY <1>1, <2>2, <2>3
<1>13. Books'
  <2>1. \A j \in Slot : Lists(sock'[j])
    BY <1>0, <1>11 DEF Books, Lists
  <2>2. \A j \in Slot : Numbers(sock'[j])
    BY <1>0, <1>11, <1>12 DEF Books, Numbers
  <2> QED BY <2>1, <2>2 DEF Books, Lists, Numbers, Runs
<1>14. Backlogs'
  <2>1. \A j \in Slot : Forcing(j)' <=> Forcing(j)
    BY <1>1 DEF Forcing
  <2>2. \A j \in Slot : Alive(sock'[j]) => Alive(sock[j])
    BY <1>11 DEF Alive
  <2>3. \A j \in Slot : Backlog(sock[j]) => Backlog(sock'[j])
    BY <1>11 DEF Backlog, send_buffer_empty
  <2>4. \A j \in Slot : Alive(sock'[j]) /\ ~ Forcing(j)' => Backlog(sock'[j])
    BY <1>0, <2>1, <2>2, <2>3 DEF Backlogs
  <2> QED BY <2>4 DEF Backlogs, Backlog, Alive, send_buffer_empty
<1>15. Tags' /\ IdsKept
  BY <1>0, <1>11 DEF Tags, IdsKept
<1>16. Sending'
  <2>1. ASSUME NEW j \in Slot, NEW m, m = sock'[j].seen, sock'[j].tcp
        PROVE  sock'[j].sending = UnderWay(m)'
    <3>1. sock[j].tcp /\ sock[j].seen = m /\ sock[j].sending = UnderWay(m)
      BY <1>0, <1>11, <2>1 DEF Sending
    <3>2. (j = k /\ Tagged(s, i)) <=> m = i
      <4>1. CASE j = k
        BY <1>5, <3>1, <4>1
      <4>2. CASE j # k
        <5>1. i # 0
          BY <1>3, SocketAssumption DEF Id
        <5> QED BY <1>0, <1>b, <3>1, <4>2, <5>1 DEF Tags
      <4> QED BY <4>1, <4>2
    <3>3. sock[j].sending \in Nat
      BY <1>0, SocketAssumption DEF Books, Numbers
    <3> HIDE DEF s
    <3>4. sock'[j].sending = sock[j].sending + (IF m = i THEN 1 ELSE 0)
      BY <1>12, <3>2
    <3> QED BY <1>7, <3>1, <3>4
  <2> QED BY <2>1 DEF Sending, UnderWay, Posting, Packages, At
<1>17. Blank'
  <2> SUFFICES ASSUME NEW u \in Caller, call'[u].pc = "write"
               PROVE  sock'[HASH_ID(call'[u].id)].dw = <<>>
    BY DEF Blank, At
  <2>1. call'[u] = call[u] /\ call[u].pc = "write"
    BY <1>2
  <2>2. HASH_ID(call[u].id) \in Slot
    BY <1>0, CallSlot
  <2> QED BY <1>0, <1>11, <2>1, <2>2 DEF Blank, At
<1>18. Owned'
  <2>1. \A j \in Slot : Held(sock'[j]) = Held(sock[j])
    BY <1>11 DEF Held
  <2> QED BY <1>0, <1>1, <1>6, <2>1, OwnedSame DEF PostBare
<1> QED BY <1>13, <1>14, <1>15, <1>16, <1>17, <1>18 DEF CInv, CNext

-----------------------------------------------------------------------------
(* The counts are exact                                                    *)

LEMMA InitCounts == ASSUME Init PROVE CInv /\ Used
<1>1. /\ pipe = <<>> /\ Len(pipe) = 0 /\ sends = 0 /\ alloc_id = 0 /\ spc = "poll"
      /\ \A t \in Caller : call[t].pc = "idle"
      /\ freed = [b \in Buf |-> 0]
  BY DEF sends, Init
<1>2. \A k \in Slot :
        LET s == sock[k]
        IN /\ s.type = "INVALID" /\ s.high = <<>> /\ s.low = <<>> /\ s.dw = <<>> /\ s.seen = 0
           /\ s.tcp \in BOOLEAN /\ s.tag = 0 /\ s.sending = 0 /\ s.wb = 0 /\ s.warn = 0
           /\ s.closing \in BOOLEAN /\ s.reading \in BOOLEAN
  BY DEF Init
<1>3. Range(<<>>) = {} /\ <<>> \in Seq(Nat) /\ Runs(<<>>)
  BY DEF Range, Runs
<1>4. Books
  <2>1. \A k \in Slot : Lists(sock[k])
    BY <1>2, <1>3 DEF Lists
  <2>2. 0 \in 0..MaxSending
    BY SocketAssumption
  <2>3. \A k \in Slot : Numbers(sock[k])
    BY <1>2, <2>2 DEF Numbers
  <2> QED BY <2>1, <2>3 DEF Books
<1>5. Backlogs
  BY <1>2 DEF Backlogs, Alive
<1>6. Tags
  <2>1. ID_TAG16(0) = 0
    BY SocketAssumption DEF ID_TAG16
  <2> QED BY <1>2, <2>1 DEF Tags
<1>7. UnderWay(0) = 0
  <2>1. Posting(0) = {}
    BY <1>1 DEF Posting, At
  <2>2. Packages(pipe, 0) = {}
    BY <1>1 DEF Packages
  <2>3. Cardinality(Posting(0)) = 0 /\ Cardinality(Packages(pipe, 0)) = 0
    BY <2>1, <2>2, FS_EmptySet
  <2> QED BY <2>3 DEF UnderWay
<1>8. Sending
  BY <1>2, <1>7 DEF Sending
<1>9. Blank
  BY <1>1 DEF Blank, At
<1>10. (\A t \in Caller : InHand(t) = {}) /\ \A k \in Slot : Held(sock[k]) = {}
  BY <1>1, <1>2, <1>3 DEF InHand, Held
<1>11. Owned
  <2>1. 1..Len(pipe) = {} /\ sends <= MaxBuf
    BY <1>1, SocketAssumption
  <2>2. Bufs
    BY <1>10, <2>1 DEF Bufs
  <2>3. Single
    BY <1>10, <2>1 DEF Single
  <2>4. FreedRight
    BY <1>1, SocketAssumption DEF FreedRight, Buf
  <2> QED BY <2>2, <2>3, <2>4 DEF Owned
<1>12. Used
  BY DEF Used, Init
<1> QED BY <1>4, <1>5, <1>6, <1>8, <1>9, <1>11, <1>12 DEF CInv

\* A service is told of a socket once its slot holds its id.
LEMMA Handed ==
  ASSUME NInv, ~ clobbered', [Next]_vars
  PROVE  \A n \in opened' : n \in opened \/ sock'[HASH_ID(n)].seen = n
<1>a. ASSUME NEW n \in Id, NEW type, sock' = [sock EXCEPT ![HASH_ID(n)] = new_fd(@, n, type)]
      PROVE  sock'[HASH_ID(n)].seen = n
  <2>1. HASH_ID(n) \in Slot
    BY SocketAssumption, HashInSlot DEF Id
  <2>2. sock'[HASH_ID(n)] = new_fd(sock[HASH_ID(n)], n, type) /\ DOMAIN sock[HASH_ID(n)] = Fields
    BY <1>a, <2>1 DEF NInv, Typed, SlotsTyped, Socket
  <2> QED BY <2>2 DEF new_fd, Fields
<1>b. ASSUME NEW what, NEW i, Report(what, i), what \notin {"open", "accept"} PROVE opened' = opened
  BY <1>b DEF Report
<1>c. Abort => opened' = opened
  BY DEF Abort, told
<1>d. ASSUME NEW k, NEW what \in {"none", "close", "err"}, NEW ctl, NEW rest,
             StartForce(k, what, ctl, rest)
      PROVE  opened' = opened
  BY <1>c, <1>d DEF StartForce, told
<1>e. \A s : CloseReport(s) \in {"none", "close", "err"}
  BY DEF CloseReport
<1>1. CASE report_accept
  <2>1. CASE Handled(sock[Head(ev).k], "none", sock[Head(ev).k].id, Tail(ev)) \/ Abort
    BY <2>1, <1>b, <1>c DEF Handled
  <2>2. ASSUME NEW j \in Id, sock' = [sock EXCEPT ![HASH_ID(j)] = new_fd(@, j, "PACCEPT")],
               Report("accept", j)
        PROVE  \A n \in opened' : n \in opened \/ sock'[HASH_ID(n)].seen = n
    BY <2>2, <1>a DEF Report
  <2> QED BY <1>1, <2>1, <2>2 DEF report_accept
<1>2. CASE open_socket
  <2>1. CmdId \in Id
    BY <1>2, CmdFacts DEF open_socket
  <2>2. CASE Abort
    BY <2>2, <1>c
  <2>3. CASE \E s : Finish(HASH_ID(CmdId), s, "err", CmdId) \/ Finish(HASH_ID(CmdId), s, "none", CmdId)
    BY <2>3, <1>b DEF Finish
  <2>4. ASSUME NEW type, Finish(HASH_ID(CmdId), new_fd(CmdSlot, CmdId, type), "open", CmdId)
        PROVE  \A n \in opened' : n \in opened \/ sock'[HASH_ID(n)].seen = n
    BY <2>1, <2>4, <1>a DEF Finish, Report, CmdSlot
  <2> QED BY <1>2, <2>2, <2>3, <2>4 DEF open_socket
<1>3. CASE resume_socket
  <2>1. Cmd({"R"}) /\ Head(pipe).cmd = "R"
    BY <1>3 DEF resume_socket, Cmd
  <2>2. socket_invalid(CmdSlot, CmdId) \/ CmdId \in opened
    BY <2>1, CmdFacts DEF Opening
  <2> QED BY <1>3, <2>2 DEF resume_socket, Finish, Report
<1>4. CASE report_connect
  <2> DEFINE k == Head(ev).k
             s == sock[k]
  <2>1. k \in Slot /\ s.type = "CONNECTING"
    BY <1>4, EventFacts DEF report_connect, OnEvent
  <2>2. HASH_ID(s.id) = k /\ s.seen = s.id /\ DOMAIN s = Fields /\ DOMAIN sock = Slot
    BY <2>1 DEF NInv, Homed, Alive, Typed, SlotsTyped, Socket
  <2>3. CASE StartForce(k, "err", FALSE, Tail(ev))
    BY <2>3, <1>d
  <2>4. ASSUME NEW w, Handled([s EXCEPT !.type = "CONNECTED", !.writing = w], "open", s.id, Tail(ev))
        PROVE  \A n \in opened' : n \in opened \/ sock'[HASH_ID(n)].seen = n
    BY <2>1, <2>2, <2>4 DEF Handled, Report, Fields
  <2> QED BY <1>4, <2>3, <2>4 DEF report_connect
<1>5. CASE close_socket \/ pause_socket \/ trigger_write \/ send_socket
  <2>1. CASE close_socket
    BY <2>1, <1>b, <1>d, <1>e DEF close_socket, Finish, Ignore, told
  <2>2. CASE pause_socket \/ trigger_write
    BY <2>2, <1>b DEF pause_socket, trigger_write, Finish, Ignore, told
  <2>3. CASE send_socket
    BY <2>3, <1>b, <1>c DEF send_socket, Finish
  <2> QED BY <1>5, <2>1, <2>2, <2>3
<1>6. CASE ForceClose \/ NoCmd \/ sp_wait \/ null_event
  <2>1. CASE ForceClose
    <3>1. closing.what \in {"none", "close", "err"}
      BY DEF NInv, Typed, ThreadTyped
    <3> QED BY <2>1, <3>1, <1>b DEF ForceClose
  <2> QED BY <1>6, <2>1 DEF NoCmd, sp_wait, null_event, told
<1>7. CASE stale_event \/ forward_message_tcp \/ send_buffer \/ error_event
  <2>1. CASE stale_event
    BY <2>1, <1>b DEF stale_event, Handled
  <2>a. ASSUME NEW s, NEW what, NEW i, NEW rest, Handled(s, what, i, rest),
               what \notin {"open", "accept"}
        PROVE  opened' = opened
    BY <2>a, <1>b DEF Handled
  <2>2. CASE forward_message_tcp
    <3> DEFINE k == Head(ev).k
               s == sock[k]
               i == s.id
    <3>1. \/ Abort \/ Handled(s, "err", i, Tail(ev))
          \/ \E rest : Handled(s, "none", i, rest) \/ Handled(s, "data", i, rest)
          \/ Handled(close_read(s), "close", i, Tail(ev))
          \/ StartForce(k, "none", FALSE, Again) \/ StartForce(k, "close", FALSE, Tail(ev))
      BY <2>2 DEF forward_message_tcp
    <3>2. StartForce(k, "none", FALSE, Again) \/ StartForce(k, "close", FALSE, Tail(ev))
            => opened' = opened
      BY <1>c DEF StartForce, told
    <3>3. ASSUME \/ Handled(s, "err", i, Tail(ev))
                 \/ \E rest : Handled(s, "none", i, rest) \/ Handled(s, "data", i, rest)
                 \/ Handled(close_read(s), "close", i, Tail(ev))
          PROVE  opened' = opened
      BY <3>3 DEF Handled, Report
    <3> HIDE DEF k, s, i
    <3> QED BY <3>1, <3>2, <3>3, <1>c
  <2>3. CASE send_buffer
    <3> DEFINE i == sock[Head(ev).k].id
    <3>1. Abort \/ \E s, what : what \in {"none", "err", "warning"} /\ Handled(s, what, i, Tail(ev))
      BY <2>3 DEF send_buffer
    <3> QED BY <2>a, <3>1, <1>c
  <2>4. CASE error_event
    <3> DEFINE k == Head(ev).k
               s == sock[k]
    <3>1. \/ Handled(s, "err", s.id, Tail(ev)) \/ Handled(s, "none", s.id, Tail(ev))
          \/ StartForce(k, CloseReport(s), FALSE, Tail(ev))
      BY <2>4 DEF error_event
    <3>2. StartForce(k, CloseReport(s), FALSE, Tail(ev)) => opened' = opened
      BY <1>c DEF StartForce, told
    <3>3. Handled(s, "err", s.id, Tail(ev)) \/ Handled(s, "none", s.id, Tail(ev))
            => opened' = opened
      BY DEF Handled, Report
    <3> HIDE DEF k, s
    <3> QED BY <3>1, <3>2, <3>3
  <2> QED BY <1>7, <2>1, <2>2, <2>3, <2>4
<1>8. ASSUME NEW t \in Caller, Work(t) \/ Interface(t) PROVE opened' = opened
  BY <1>8 DEF Work, PostOpen, FirstCheck, TryLock, CheckLocked, DirectWrite, Wake, inc_sending_ref,
              PostSend, Interface, Open, Command, Send, told
<1>9. CASE (\E i \in Id : Connected(i) \/ Peer(i)) \/ UNCHANGED vars
  BY <1>9 DEF Connected, Peer, vars, told
<1> QED BY <1>1, <1>2, <1>3, <1>4, <1>5, <1>6, <1>7, <1>8, <1>9 DEF Next, SocketThread

LEMMA UsedNext ==
  ASSUME NInv, NInv', Used, IdsKept, \A n \in opened' : n \in opened \/ sock'[HASH_ID(n)].seen = n
  PROVE  Used'
<1>1. opened' \subseteq Id /\ 0 \notin Id
  BY SocketAssumption DEF NInv, Known, Typed, Id
<1>2. \A n \in Id : HASH_ID(n) \in Slot
  BY SocketAssumption, HashInSlot DEF Id
<1> QED BY <1>1, <1>2 DEF Used, IdsKept

LEMMA CInvNext ==
  ASSUME NInv, Logged, CInv, Used, ~ clobbered', [Next]_vars PROVE (CInv /\ Used)'
<1>1. CNext
  <2>1. CASE SocketThread
    BY <2>1, SocketThreadCounts
  <2>2. ASSUME NEW t \in Caller, Work(t) PROVE CNext
    BY <2>2, PostOpenCounts, FirstCheckCounts, TryLockCounts, CheckLockedCounts,
       DirectWriteCounts, WakeCounts, IncCounts, PostSendCounts DEF Work
  <2>3. ASSUME NEW t \in Caller, Interface(t) PROVE CNext
    BY <2>3, OpenCounts, CommandCounts, SendCounts DEF Interface
  <2>4. CASE (\E i \in Id : Connected(i) \/ Peer(i)) \/ UNCHANGED vars
    <3>1. /\ sock' = sock /\ call' = call /\ spc' = spc /\ closing' = closing
          /\ log' = log /\ freed' = freed /\ pipe' = pipe
      BY <2>4 DEF Connected, Peer, vars, server, thread, bounds
    <3> QED BY <3>1, StillCounts DEF PostBare
  <2> QED BY <2>1, <2>2, <2>3, <2>4 DEF Next
<1>2. Used'
  BY <1>1, NInvNext, UsedNext, Handed DEF CNext
<1> QED BY <1>1, <1>2 DEF CNext

LEMMA AtMostOne ==
  ASSUME NEW S, \A x, y \in S : x = y
  PROVE  Cardinality(S) = IF S = {} THEN 0 ELSE 1
<1>1. CASE S = {}
  BY <1>1, FS_EmptySet
<1>2. CASE S # {}
  <2>1. PICK x : x \in S
    BY <1>2
  <2>2. S = {x}
    BY <2>1
  <2> QED BY <1>2, <2>2, FS_Singleton
<1> QED BY <1>1, <1>2

LEMMA CountedRight == ASSUME NInv, Logged, CInv PROVE CountsExact
<1>0. Typed /\ Books /\ Backlogs /\ Tags /\ Sending /\ Blank /\ Owned
  BY DEF NInv, CInv
<1>1. DOMAIN sock = Slot /\ DOMAIN pipe = 1..Len(pipe)
  BY <1>0 DEF Typed, SlotsTyped
<1>2. SendingExact
  <2>1. \A k \in Slot : Alive(sock[k]) => sock[k].seen = sock[k].id
    BY DEF NInv, Homed
  <2> QED BY <1>0, <1>1, <2>1 DEF SendingExact, Sending, UnderWay, Posting, Packages
<1>3. BacklogExact
  BY <1>0, <1>1 DEF BacklogExact, Backlogs, Backlog, Forcing
<1>4. ASSUME NEW b \in 1..sends PROVE Places(b) + freed[b] = 1
  <2> DEFINE A == {t \in Caller : b \in InHand(t)}
             P == {x \in DOMAIN pipe : pipe[x].buf = b}
             L == {x \in (DOMAIN sock) \X {"high", "low", "dw"} : b \in Range(sock[x[1]][x[2]])}
  <2>1. b \in Buf /\ b # 0 /\ b <= sends
    <3>1. sends \in Nat /\ sends <= MaxBuf /\ MaxBuf \in Nat
      BY <1>0, SocketAssumption DEF Logged, sends, Owned, Bufs
    <3> QED BY <3>1 DEF Buf
  <2>2. \A t, u \in A : t = u
    BY <1>0 DEF Owned, Single
  <2>3. \A x, y \in P : x = y
    BY <1>0, <1>1, <2>1 DEF Owned, Single
  <2>4. \A x \in L :
          /\ x[1] \in Slot /\ x[2] \in {"high", "low", "dw"} /\ x = <<x[1], x[2]>>
          /\ b \in Range(sock[x[1]][x[2]]) /\ b \in Held(sock[x[1]])
    BY <1>1 DEF Held
  <2>5. \A x, y \in L : x = y
    <3> SUFFICES ASSUME NEW x \in L, NEW y \in L PROVE x = y
      OBVIOUS
    <3>1. x[1] = y[1]
      BY <1>0, <2>4 DEF Owned, Single
    <3>2. PICK k \in Slot : k = x[1]
      BY <2>4
    <3>3. Lists(sock[k])
      BY <1>0 DEF Books
    <3>4. b \in Range(sock[k][x[2]]) /\ b \in Range(sock[k][y[2]])
      BY <2>4, <3>1, <3>2
    <3>5. x[2] = y[2]
      BY <2>4, <3>3, <3>4 DEF Lists
    <3> QED BY <2>4, <3>1, <3>5
  <2>6. (A # {} => P = {} /\ L = {}) /\ (P # {} => L = {})
    <3>1. A # {} => P = {}
      BY <1>0, <1>1 DEF Owned, Single
    <3>2. A # {} \/ P # {} => L = {}
      BY <1>0, <1>1, <2>4 DEF Owned, Single
    <3> QED BY <3>1, <3>2
  <2>7. Somewhere(b) <=> A # {} \/ P # {} \/ L # {}
    <3>1. Somewhere(b) => A # {} \/ P # {} \/ L # {}
      <4>1. ASSUME NEW k \in Slot, b \in Held(sock[k]) PROVE L # {}
        <5>1. PICK f \in {"high", "low", "dw"} : b \in Range(sock[k][f])
          BY <4>1 DEF Held
        <5>2. <<k, f>> \in L
          BY <1>1, <5>1
        <5> QED BY <5>2
      <4> QED BY <1>1, <4>1 DEF Somewhere, Piped
    <3>2. A # {} \/ P # {} \/ L # {} => Somewhere(b)
      BY <1>1, <2>4 DEF Somewhere, Piped
    <3> QED BY <3>1, <3>2
  <2>8. Places(b) = (Cardinality(A) + Cardinality(P)) + Cardinality(L)
    BY DEF Places
  <2>9. freed[b] = IF Somewhere(b) THEN 0 ELSE 1
    BY <1>0, <2>1 DEF Owned, FreedRight
  <2> HIDE DEF A, P, L
  <2>10. /\ Cardinality(A) = IF A = {} THEN 0 ELSE 1
         /\ Cardinality(P) = IF P = {} THEN 0 ELSE 1
         /\ Cardinality(L) = IF L = {} THEN 0 ELSE 1
    BY <2>2, <2>3, <2>5, AtMostOne
  <2> QED BY <2>6, <2>7, <2>8, <2>9, <2>10
<1>5. FreedOnce
  BY <1>4 DEF FreedOnce
<1> QED BY <1>2, <1>3, <1>5 DEF CountsExact

\* The count of sends under way to a socket is the number of packages that
\* inc_sending_ref counted and dec_sending_ref has not; wb_size is the amount in its
\* lists, and a service that was warned is told when it is gone; the buffer of a
\* socket_server_send is in one place until it is freed, once, whether it is written
\* at once, queued, rejected or thrown away with its socket (free_wb_list).
THEOREM SocketCountsExact == Spec => []CountsExact
<1> DEFINE Inv == clobbered \/ (NInv /\ Logged /\ CInv /\ Used)
<1>1. Init => Inv
  <2>1. Init => NInv /\ Logged
    BY InitHolds, InitLogged
  <2> QED BY <2>1, InitCounts
<1>2. Inv /\ [Next]_vars => Inv'
  BY NInvNext, LoggedNext, CInvNext, ClobberedStays
<1>3. Inv => CountsExact
  <2>1. clobbered => CountsExact
    BY DEF CountsExact
  <2> QED BY <2>1, CountedRight
<1> QED BY <1>1, <1>2, <1>3, PTL DEF Spec

=============================================================================
