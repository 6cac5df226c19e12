---------------------------- MODULE LoginServer ----------------------------
(***************************************************************************)
(* The login server of snax (loginserver.lua): the master accepts          *)
(* connections, has its slaves authenticate them, and calls the login      *)
(* handler, for one user not twice at a time unless conf.multilogin is     *)
(* set.  Reading a line and calling a handler wait, so the connections are *)
(* all at different steps, and the client may leave at any of them.  What  *)
(* the cryptography decides is a choice: the client's line is right or     *)
(* not.  A slave serves any number of connections at once, so which one    *)
(* has a connection makes no difference.                                   *)
(***************************************************************************)
EXTENDS Naturals, Sequences, FiniteSets

CONSTANTS
  Fd,             \* connections
  Uid,            \* users
  None

LoginAssumption == None \notin Uid

VARIABLES
  multilogin,     \* conf.multilogin
  client,         \* connections that have a client: it has not left and was not cut off
  step,           \* per connection: how far its coroutines are
  uid,            \* the user it turned out to be, or None
  user_login,     \* users whose login handler runs
  told,           \* per connection: the codes written to it
  logins          \* the connections whose login handler succeeded

vars == <<multilogin, client, step, uid, user_login, told, logins>>

Lines == <<"key", "hmac", "token">>     \* what the slave reads, in this order
Reading == {"key", "hmac", "token"}

TypeOK ==
  /\ multilogin \in BOOLEAN /\ client \subseteq Fd
  /\ step \in [Fd -> Reading \union {"none", "auth", "ok", "refused", "lost", "login", "done"}]
  /\ uid \in [Fd -> Uid \union {None}]
  /\ user_login \subseteq Uid /\ logins \subseteq Fd

Go(fd, where) == step' = [step EXCEPT ![fd] = where]

\* write: nothing reaches a client that left.  It raises an error then, which ends the
\* connection as the end of accept does.
write(fd, code) ==
  told' = IF fd \in client THEN [told EXCEPT ![fd] = Append(@, code)] ELSE told

-----------------------------------------------------------------------------
\* The listening socket has a new connection: the slave starts it and reads.
Connect(fd) ==
  /\ step[fd] = "none"
  /\ Go(fd, "key")
  /\ UNCHANGED <<multilogin, client, uid, user_login, told, logins>>

\* auth in the slave, one line after the other: each is right, wrong, or does not come
\* because the client left or socket.limit cut it off.
auth(fd) ==
  /\ \/ /\ \E i \in DOMAIN Lines :
             /\ step[fd] = Lines[i]
             /\ \/ Go(fd, IF i = Len(Lines) THEN "auth" ELSE Lines[i + 1])
                \/ Go(fd, "refused")
        /\ UNCHANGED client
     \/ /\ step[fd] \in Reading
        /\ Go(fd, "lost") /\ client' = client \ {fd}
  /\ UNCHANGED <<multilogin, uid, user_login, told, logins>>

\* The application's auth_handler says who the user is, or fails.
auth_handler(fd) ==
  /\ step[fd] = "auth"
  /\ \/ \E u \in Uid : uid' = [uid EXCEPT ![fd] = u] /\ Go(fd, "ok")
     \/ Go(fd, "refused") /\ UNCHANGED uid
  /\ UNCHANGED <<multilogin, client, user_login, told, logins>>

\* The slave's answer is here, and it is no.
Unauthorized(fd) ==
  /\ \/ step[fd] = "refused" /\ write(fd, 401)
     \/ step[fd] = "lost" /\ UNCHANGED told
  /\ Go(fd, "done")
  /\ UNCHANGED <<multilogin, client, uid, user_login, logins>>

\* Mutant: the end of a refused login unlocks the user.
MutNotAcceptable(fd) ==
  /\ step[fd] = "ok" /\ ~ multilogin /\ uid[fd] \in user_login
  /\ write(fd, 406)
  /\ Go(fd, "done")
  /\ user_login' = user_login \ {uid[fd]}
  /\ UNCHANGED <<multilogin, client, uid, logins>>

NotAcceptable(fd) ==
  /\ step[fd] = "ok" /\ ~ multilogin /\ uid[fd] \in user_login
  /\ write(fd, 406)
  /\ Go(fd, "done")
  /\ UNCHANGED <<multilogin, client, uid, user_login, logins>>

\* accept goes on with the login handler, which may wait.
Lock(fd) ==
  /\ step[fd] = "ok" /\ (multilogin \/ uid[fd] \notin user_login)
  /\ user_login' = IF multilogin THEN user_login ELSE user_login \union {uid[fd]}
  /\ Go(fd, "login")
  /\ UNCHANGED <<multilogin, client, uid, told, logins>>

\* The login handler returns a subid, or fails.
LoginEnds(fd) ==
  /\ step[fd] = "login"
  /\ user_login' = user_login \ {uid[fd]}
  /\ \/ write(fd, 200) /\ logins' = logins \union {fd}
     \/ write(fd, 403) /\ UNCHANGED logins
  /\ Go(fd, "done")
  /\ UNCHANGED <<multilogin, client, uid>>

Leave(fd) ==
  /\ fd \in client /\ step[fd] \notin {"none", "done"}
  /\ client' = client \ {fd}
  /\ UNCHANGED <<multilogin, step, uid, user_login, told, logins>>

Init ==
  /\ multilogin \in BOOLEAN
  /\ client = Fd /\ step = [fd \in Fd |-> "none"] /\ uid = [fd \in Fd |-> None]
  /\ user_login = {} /\ told = [fd \in Fd |-> <<>>] /\ logins = {}

Next ==
  \E fd \in Fd :
    \/ Connect(fd) \/ auth(fd) \/ auth_handler(fd) \/ Unauthorized(fd) \/ NotAcceptable(fd)
    \/ Lock(fd) \/ LoginEnds(fd) \/ Leave(fd)

Spec == Init /\ [][Next]_vars

-----------------------------------------------------------------------------
\* A user is locked exactly while a login handler runs for it, which is one at most
\* unless several are allowed.
OneLoginPerUser ==
  ~ multilogin =>
    \A u \in Uid :
      Cardinality({fd \in Fd : step[fd] = "login" /\ uid[fd] = u})
        = IF u \in user_login THEN 1 ELSE 0

\* A client that stays is told how its login ended, once, and 200 if and only if the
\* login handler succeeded for its connection.
ToldOnce ==
  \A fd \in Fd :
    /\ step[fd] # "done" => told[fd] = <<>>
    /\ step[fd] = "done" /\ fd \in client =>
         Len(told[fd]) = 1 /\ (fd \in logins <=> told[fd] = <<200>>)

=============================================================================
