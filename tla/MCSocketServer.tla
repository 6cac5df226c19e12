--------------------------- MODULE MCSocketServer ---------------------------
(***************************************************************************)
(* Three small socket servers, one after the other in one run: the         *)
(* configuration file's (one slot, one connection and its peer), one that  *)
(* accepts connections, and one whose only slot is used by two ids.  The   *)
(* variable part says which; they share the other variables.               *)
(***************************************************************************)
EXTENDS SocketServer, TLC

VARIABLE part

Accept == INSTANCE SocketServer WITH MAX_SOCKET <- 2, MaxId <- 2, Opens <- {"L"}
Reuse == INSTANCE SocketServer WITH MaxId <- 2, MaxNet <- 0

MCInit ==
  \/ part = "stream" /\ Init
  \/ part = "accept" /\ Accept!Init
  \/ part = "reuse" /\ Reuse!Init

MCNext ==
  /\ \/ part = "stream" /\ Next
     \/ part = "accept" /\ Accept!Next
     \/ part = "reuse" /\ Reuse!Next
  /\ UNCHANGED part

MCSpec == MCInit /\ [][MCNext]_<<vars, part>>

\* What a socket's peer gets is whole and in order, and the fields of the sockets,
\* the pipe and the threads keep their types, which range over the slots and the ids
\* of the part (struct socket, request_package).
ServerExact ==
  /\ StreamExact
  /\ CASE part = "stream" -> TypeOK
       [] part = "accept" -> Accept!TypeOK
       [] part = "reuse" -> Reuse!TypeOK

Sym == Permutations(Caller)

=============================================================================
