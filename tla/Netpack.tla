------------------------------ MODULE Netpack ------------------------------
(***************************************************************************)
(* The netpack library (lua-netpack.cpp) under a gate server               *)
(* (gateserver.lua): socket messages of many connections are cut into      *)
(* packages with a two-byte length.  One complete package is handed over   *)
(* at once; several go through a ring that grows, and are popped by the    *)
(* server; the tail of an unfinished one waits in a table (a hash of lists *)
(* in the code, a function here).                                          *)
(***************************************************************************)
EXTENDS Frames, Integers

CONSTANTS
  Fd,
  Stream,       \* what a client may send: sequences of package lengths
  Base,         \* 256
  QUEUESIZE,
  MaxChunk,     \* bound: bytes in one socket message
  None

NetpackAssumption == {Base, QUEUESIZE, MaxChunk} \subseteq Nat \ {0}

VARIABLES
  ring, cap, head, tail,   \* struct queue
  uncomplete,   \* per fd: None or the package begun: bytes, its size, its header byte
  rest, from,   \* push_more: the bytes still to be cut and their fd
  busy,         \* "idle", "more" (push_more) or "pop" (dispatch_queue)
  sends,        \* per fd: the lengths its client sends
  coming,       \* per fd: the bytes still to come
  connection,   \* per fd: "true", "false" (closed by the peer) or "nil"
  got           \* per fd: packages the handler was given

vars == <<ring, cap, head, tail, uncomplete, rest, from, busy, sends, coming, connection, got>>
queue == <<ring, cap, head, tail>>

Pack(fd, data) == [fd |-> fd, data |-> data]

\* dispatch_msg: what comes from a connection that was closed is dropped
Dispatched(p) ==
  IF connection[p.fd] = "true" THEN [got EXCEPT ![p.fd] = Append(@, p.data)] ELSE got

\* Mutant: the entries are copied as they lie in the old ring.
MutMoved(q, i) == q[i % cap]

\* The i-th package of the ring q.
Moved(q, i) == q[(head + i) % cap]

\* push_data, with expand_queue when the ring has become full
push_data(p) ==
  LET q == [ring EXCEPT ![tail] = p]
      t == IF tail + 1 >= cap THEN tail + 1 - cap ELSE tail + 1
  IN IF t # head
     THEN ring' = q /\ tail' = t /\ UNCHANGED <<head, cap>>
     ELSE /\ cap' = cap + QUEUESIZE
          /\ ring' = [i \in 0 .. cap' - 1 |-> IF i < cap THEN Moved(q, i) ELSE None]
          /\ head' = 0 /\ tail' = cap

save_uncomplete(fd, uc) == uncomplete' = [uncomplete EXCEPT ![fd] = uc]

\* What is saved of a first byte, and of the beginning of a package.
HeaderByte(b) == [header |-> b, size |-> 0, data |-> <<>>, read |-> -1]
Begun(size, data) == [header |-> 0, size |-> size, data |-> data, read |-> Len(data)]

\* Bytes where a package begins: filter_data_ without an unfinished one, and push_more.
Cut(fd, bytes, one) ==
  LET size == Number(SubSeq(bytes, 1, 2), Base)
      body == Drop(bytes, 2)
  IN \/ /\ Len(bytes) = 1
        /\ save_uncomplete(fd, HeaderByte(bytes[1]))
        /\ rest' = <<>>
        /\ UNCHANGED <<queue, got>>
     \/ /\ Len(bytes) > 1 /\ Len(body) < size
        /\ save_uncomplete(fd, Begun(size, body))
        /\ rest' = <<>>
        /\ UNCHANGED <<queue, got>>
     \/ /\ Len(bytes) > 1 /\ Len(body) = size /\ one
        /\ got' = Dispatched(Pack(fd, body))
        /\ rest' = <<>>
        /\ UNCHANGED <<uncomplete, queue>>
     \/ /\ Len(bytes) > 1 /\ Len(body) >= size /\ ~ (one /\ Len(body) = size)
        /\ push_data(Pack(fd, SubSeq(body, 1, size)))
        /\ rest' = Drop(body, size)
        /\ UNCHANGED <<uncomplete, got>>

Size(header, b) == header * Base + b

\* filter_data_ with an unfinished package, taken out of the table
Fill(fd, bytes, uc) ==
  LET u == IF uc.read < 0
           THEN [uc EXCEPT !.size = Size(uc.header, bytes[1]), !.read = 0] ELSE uc
      now == IF uc.read < 0 THEN Tail(bytes) ELSE bytes
      need == u.size - u.read
      data == u.data \o First(now, need)
  IN \/ /\ Len(now) < need
        /\ save_uncomplete(fd, [u EXCEPT !.data = data, !.read = Len(data)])
        /\ rest' = <<>>
        /\ UNCHANGED <<queue, got>>
     \/ /\ Len(now) = need
        /\ got' = Dispatched(Pack(fd, data))
        /\ save_uncomplete(fd, None)
        /\ rest' = <<>>
        /\ UNCHANGED queue
     \/ /\ Len(now) > need
        /\ push_data(Pack(fd, data))
        /\ save_uncomplete(fd, None)
        /\ rest' = Drop(now, need)
        /\ UNCHANGED got

\* A socket message: lfilter and the dispatch of gateserver.
filter_data(fd, k) ==
  LET bytes == SubSeq(coming[fd], 1, k)
  IN /\ busy = "idle" /\ k \in 1 .. Len(coming[fd])
     /\ coming' = [coming EXCEPT ![fd] = Drop(@, k)]
     /\ \/ uncomplete[fd] = None /\ Cut(fd, bytes, TRUE)
        \/ uncomplete[fd] # None /\ Fill(fd, bytes, uncomplete[fd])
     /\ from' = fd /\ busy' = IF rest' # <<>> THEN "more" ELSE "idle"
     /\ UNCHANGED <<sends, connection>>

push_more ==
  /\ busy = "more"
  /\ Cut(from, rest, FALSE)
  /\ busy' = IF rest' # <<>> THEN "more" ELSE "pop"
  /\ UNCHANGED <<from, sends, coming, connection>>

\* Mutant: one package is popped per socket message.
MutPopping == "idle"

\* What follows the dispatch of a package.
Popping == "pop"

\* dispatch_queue: lpop until it is empty; while a handler waits, the coroutine
\* forked before goes on.
lpop ==
  /\ busy = "pop"
  /\ \/ /\ head = tail
        /\ busy' = "idle"
        /\ UNCHANGED <<head, got>>
     \/ /\ head # tail
        /\ got' = Dispatched(ring[head])
        /\ head' = IF head + 1 >= cap THEN 0 ELSE head + 1
        /\ busy' = Popping
  /\ UNCHANGED <<ring, cap, tail, uncomplete, rest, from, sends, coming, connection>>

\* gateserver.closeclient, by a handler
closeclient(fd) ==
  /\ connection[fd] = "true"
  /\ connection' = [connection EXCEPT ![fd] = "nil"]
  /\ UNCHANGED <<queue, uncomplete, rest, from, busy, sends, coming, got>>

\* The peer closes or fails: close_uncomplete, MSG.close.
close_uncomplete(fd) ==
  /\ busy = "idle" /\ connection[fd] # "false"
  /\ uncomplete' = [uncomplete EXCEPT ![fd] = None]
  /\ connection' = [connection EXCEPT ![fd] = IF @ = "true" THEN "false" ELSE @]
  /\ coming' = [coming EXCEPT ![fd] = <<>>]
  /\ UNCHANGED <<queue, rest, from, busy, sends, got>>

\* get_queue; MSG.open for every fd
Init ==
  /\ cap = QUEUESIZE /\ ring = [i \in 0 .. QUEUESIZE - 1 |-> None] /\ head = 0 /\ tail = 0
  /\ uncomplete = [fd \in Fd |-> None] /\ rest = <<>> /\ busy = "idle"
  /\ from = CHOOSE fd \in Fd : TRUE
  /\ sends \in [Fd -> Stream]
  /\ coming = [fd \in Fd |-> Framed(sends[fd], Base, 2)]
  /\ connection = [fd \in Fd |-> "true"] /\ got = [fd \in Fd |-> <<>>]

Next ==
  \/ \E fd \in Fd :
       closeclient(fd) \/ close_uncomplete(fd) \/ \E k \in 1 .. MaxChunk : filter_data(fd, k)
  \/ push_more \/ lpop

Spec == Init /\ [][Next]_vars

-----------------------------------------------------------------------------
\* Every package the handler is given is one the client sent, whole and in
\* order, and all that have arrived are given, however they were cut, while the
\* ring wraps and grows and other connections' packages lie between.
PackagesExact ==
  \A fd \in Fd :
    /\ got[fd] = [k \in DOMAIN got[fd] |-> Body(k, sends[fd][k])]
    /\ busy = "idle" /\ coming[fd] = <<>> /\ connection[fd] = "true"
         => Len(got[fd]) = Len(sends[fd]) /\ uncomplete[fd] = None

\* Nothing is left in the ring when the next socket message comes: a package
\* handed over at once never overtakes one that waits.
RingEmptied == busy = "idle" => head = tail

=============================================================================
