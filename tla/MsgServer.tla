----------------------------- MODULE MsgServer -----------------------------
(***************************************************************************)
(* The message server of snax (msgserver.lua) for one user: a client that  *)
(* loses its connection comes back with a higher index and sends again the *)
(* requests it has no answer to; the server keeps answers for such         *)
(* requests and lets them expire.  The handler of a request yields, so the *)
(* connection may change, and the user may log out, before the answer is   *)
(* there.  The client sends a request once per connection, and uses a      *)
(* session again only in the same connection, when it has the answer.      *)
(* What it sent on a connection before it left is read until the end of    *)
(* that connection is reported, after a new one is authenticated too.      *)
(***************************************************************************)
EXTENDS Naturals, Sequences, FiniteSetsExt

CONSTANTS
  Session,
  expired_number,
  MaxConns, MaxRequests, MaxLogins     \* bounds

MsgAssumption ==
  /\ {expired_number, MaxConns, MaxRequests, MaxLogins} \subseteq Nat /\ expired_number > 0

Connection == 1 .. MaxConns

VARIABLES
  \* the server
  users,        \* per login: { version, index, fd, response }; response gives, per session,
                \* one of objs, or 0 (nil)
  logins, online,        \* logins so far; user_online: the last one, or 0 (nil)
  objs,         \* { return_fd, response, version, index } of every request
  handshake, connection, \* connection: per fd a login, or 0 (nil)
  gate,         \* per fd: "none", "open", "closed" (by this end) or "gone"
  \* the client
  cfd,          \* its connection
  wait,         \* per session: the request it has no answer to, or 0
  sent,         \* per fd: the requests it has sent
  used,         \* per session: the connection it was used in last, or 0
  reuse,        \* per session: "no", "yes" if it was used before, "strayed" when such a
                \* request was sent again in another connection
  inbox,        \* per fd: messages to the server
  out,          \* per fd: answers to the client
  \* history
  requests, runs,     \* requests made, and how often each was handled
  overtaken,          \* requests whose answer came when another connection was authenticated
  discarded,          \* requests whose answer was forgotten
  early,              \* an answer expired too early
  wrong,              \* an answer to another request was received
  orphaned,           \* an old connection ended after a new one was authenticated
  late                \* sessions of requests that were read from such a one

uvars == <<users, logins, online>>
kvars == <<handshake, connection, gate>>
cvars == <<cfd, wait, sent, used, reuse>>
hvars == <<overtaken, discarded, early, wrong, orphaned, late>>
vars  == <<uvars, objs, kvars, cvars, inbox, out, requests, runs, hvars>>

closeclient(fd) == IF gate[fd] = "open" THEN [gate EXCEPT ![fd] = "closed"] ELSE gate

-----------------------------------------------------------------------------
\* The client

\* The socket is accepted (handler.connect); the first package is the hand-shake,
\* with an index that is higher each time.
Connect ==
  /\ cfd < MaxConns
  /\ cfd' = cfd + 1
  /\ gate' = [gate EXCEPT ![cfd'] = "open"]
  /\ handshake' = handshake \cup {cfd'}
  /\ inbox' = [inbox EXCEPT ![cfd'] = <<[auth |-> cfd', session |-> 0, req |-> 0]>>]
  /\ UNCHANGED <<uvars, objs, connection, wait, sent, used, reuse, out, requests, runs, hvars>>

SendRequest(s, r) ==
  /\ cfd # 0 /\ gate[cfd] = "open"
  /\ sent' = [sent EXCEPT ![cfd] = @ \cup {r}]
  /\ used' = [used EXCEPT ![s] = cfd]
  /\ inbox' = [inbox EXCEPT ![cfd] = Append(@, [auth |-> 0, session |-> s, req |-> r])]

NewRequest(s) ==
  /\ wait[s] = 0 /\ used[s] \in {0, cfd} /\ requests < MaxRequests
  /\ requests' = requests + 1
  /\ wait' = [wait EXCEPT ![s] = requests']
  /\ runs' = Append(runs, 0)
  /\ reuse' = [reuse EXCEPT ![s] = IF used[s] = 0 THEN "no" ELSE "yes"]
  /\ SendRequest(s, requests')
  /\ UNCHANGED <<uvars, objs, kvars, cfd, out, hvars>>

Resend(s) ==
  /\ wait[s] # 0 /\ cfd # 0 /\ wait[s] \notin sent[cfd]
  /\ reuse' = [reuse EXCEPT ![s] = IF @ = "no" THEN @ ELSE "strayed"]
  /\ SendRequest(s, wait[s])
  /\ UNCHANGED <<uvars, objs, kvars, cfd, wait, out, requests, runs, hvars>>

Receive ==
  /\ cfd # 0 /\ out[cfd] # <<>>
  /\ LET m == Head(out[cfd])
     IN /\ wrong' = (wrong \/ (/\ reuse[m.session] # "strayed" /\ m.session \notin late
                               /\ m.req # wait[m.session]))
        /\ wait' = [wait EXCEPT ![m.session] = 0]
  /\ out' = [out EXCEPT ![cfd] = Tail(@)]
  /\ UNCHANGED <<uvars, objs, kvars, cfd, sent, used, reuse, inbox, requests, runs, overtaken,
                 discarded, early, orphaned, late>>

-----------------------------------------------------------------------------
\* The server

\* server.login
login ==
  /\ online = 0 /\ logins < MaxLogins
  /\ logins' = logins + 1 /\ online' = logins'
  /\ users' = Append(users, [version |-> 0, index |-> 0, fd |-> 0,
                             response |-> [s \in Session |-> 0]])
  /\ UNCHANGED <<objs, kvars, cvars, inbox, out, requests, runs, hvars>>

\* server.logout
logout ==
  /\ online # 0
  /\ online' = 0
  /\ LET fd == users[online].fd
     IN IF fd # 0 /\ connection[fd] # 0
        THEN gate' = closeclient(fd) /\ connection' = [connection EXCEPT ![fd] = 0]
        ELSE UNCHANGED <<gate, connection>>
  /\ discarded' = 1 .. requests
  /\ UNCHANGED <<users, logins, objs, handshake, cvars, inbox, out, requests, runs, overtaken,
                 early, wrong, orphaned, late>>

\* auth and do_auth: the connection is the user's, or is closed.
auth(fd, idx) ==
  /\ handshake' = handshake \ {fd}
  /\ IF online # 0 /\ idx > users[online].version
     THEN /\ users' = [users EXCEPT ![online].version = idx, ![online].fd = fd]
          /\ connection' = [connection EXCEPT ![fd] = online]
          /\ UNCHANGED gate
     ELSE /\ gate' = closeclient(fd)
          /\ UNCHANGED <<users, connection>>
  /\ UNCHANGED <<objs, out, runs, hvars>>

\* Mutant: answers expire one too many.
MutExpired(o) == o.index <= expired_number

\* The answers that are forgotten when the index is twice expired_number.
Expired(o) == o.index < expired_number

\* retire_response: the user u with the requests os
retire_response(e, u, os) ==
  IF u.index < expired_number * 2
  THEN /\ users' = [users EXCEPT ![e] = u] /\ objs' = os
       /\ UNCHANGED <<discarded, early>>
  ELSE LET done == {s \in Session : u.response[s] # 0 /\ os[u.response[s]].fd = 0}
           old  == {s \in done : Expired(os[u.response[s]])}
           kept == {u.response[s] : s \in done \ old}
           aged == [o \in DOMAIN os |->
                      IF o \in kept THEN [os[o] EXCEPT !.index = @ - expired_number] ELSE os[o]]
       IN /\ objs' = aged
          /\ users' = [users EXCEPT ![e] =
               [u EXCEPT !.response = [s \in Session |-> IF s \in old THEN 0 ELSE @[s]],
                         !.index = 1 + Max({aged[o].index : o \in kept} \cup {0})]]
          /\ discarded' = discarded \cup {os[u.response[s]].req : s \in old}
          /\ early' = (early \/ \E s \in old : os[u.response[s]].age < expired_number)

\* The end of do_request: the answer p goes to the connection that asked last.
Answer(os, p) ==
  LET e == os[p].user
      m == [session |-> os[p].session, req |-> os[p].req]
  IN /\ out' = [fd \in Connection |-> IF fd = os[p].fd /\ connection[fd] # 0
                              THEN Append(out[fd], m) ELSE out[fd]]
     /\ retire_response(e, [users[e] EXCEPT !.index = @ + 1],
          [o \in DOMAIN os |->
             IF o = p THEN [os[o] EXCEPT !.fd = 0, !.age = 0]
             ELSE [os[o] EXCEPT !.age = IF @ < expired_number THEN @ + 1 ELSE @]])

\* Mutant: the answer stays with the connection that asked first.
MutAsked(o, fd) == [o EXCEPT !.version = users[o.user].version, !.index = users[o.user].index]

\* A request that is known: its answer goes to this connection.
Asked(o, fd) ==
  [o EXCEPT !.fd = fd, !.version = users[o.user].version, !.index = users[o.user].index]

\* do_request for the user e, up to the call of the handler or to the end
do_request(fd, e, s, r) ==
  LET p    == users[e].response[s]
      same == p # 0 /\ objs[p].version = users[e].version
  IN \/ /\ p = 0 \/ (same /\ objs[p].done)
        /\ objs' = Append(objs, [fd |-> fd, done |-> FALSE, version |-> 0, index |-> 0,
                                 user |-> e, session |-> s, req |-> r, age |-> 0])
        /\ users' = [users EXCEPT ![e].response[s] = Len(objs')]
        /\ runs' = [runs EXCEPT ![r] = @ + 1]
        /\ UNCHANGED <<gate, out, discarded, early>>
     \/ /\ same /\ ~ objs[p].done       \* "Conflict session"
        /\ users' = [users EXCEPT ![e].response[s] = 0]
        /\ gate' = closeclient(fd)
        /\ UNCHANGED <<objs, out, runs, discarded, early>>
     \/ /\ p # 0 /\ ~ same
        /\ LET os == [objs EXCEPT ![p] = Asked(@, fd)]
           IN IF objs[p].done
              THEN Answer(os, p)
              ELSE objs' = os /\ UNCHANGED <<users, out, discarded, early>>
        /\ UNCHANGED <<gate, runs>>

\* handler.message; a connection that is open and past its hand-shake is somebody's.
Message(fd) ==
  LET m == Head(inbox[fd])
      e == connection[fd]
  IN /\ inbox[fd] # <<>> /\ gate[fd] = "open"
     /\ inbox' = [inbox EXCEPT ![fd] = Tail(@)]
     /\ \/ fd \in handshake /\ auth(fd, m.auth)
        \/ /\ fd \notin handshake /\ e # 0
           /\ do_request(fd, e, m.session, m.req)
           /\ late' = IF users[e].version # fd THEN late \cup {m.session} ELSE late
           /\ UNCHANGED <<handshake, connection, overtaken, wrong, orphaned>>
     /\ UNCHANGED <<logins, online, cvars, requests>>

\* The handler has returned.
Done(p) ==
  /\ p \in DOMAIN objs /\ ~ objs[p].done
  /\ LET u == users[objs[p].user]
     IN /\ overtaken' = IF objs[p].fd # u.version THEN overtaken \cup {objs[p].req} ELSE overtaken
        /\ Answer([objs EXCEPT ![p].done = TRUE, ![p].version = u.version,
                               ![p].index = u.index], p)
  /\ UNCHANGED <<logins, online, kvars, cvars, inbox, requests, runs, wrong, orphaned,
                 late>>

\* handler.disconnect, when the end of the connection is reported; what was not read
\* by then is lost.
disconnect(fd) ==
  LET e == connection[fd]
  IN /\ gate[fd] = "closed" \/ (gate[fd] = "open" /\ fd # cfd)
     /\ handshake' = handshake \ {fd}
     /\ gate' = [gate EXCEPT ![fd] = "gone"]
     /\ connection' = [connection EXCEPT ![fd] = 0]
     /\ users' = [i \in DOMAIN users |-> IF i = e THEN [users[i] EXCEPT !.fd = 0] ELSE users[i]]
     /\ orphaned' = (orphaned \/ (e # 0 /\ users[e].fd # fd))
     /\ inbox' = [inbox EXCEPT ![fd] = <<>>]
     /\ UNCHANGED <<logins, online, objs, cvars, out, requests, runs, overtaken, discarded,
                    early, wrong, late>>

Init ==
  /\ users = <<>> /\ logins = 0 /\ online = 0 /\ objs = <<>>
  /\ handshake = {} /\ connection = [fd \in Connection |-> 0]
  /\ gate = [fd \in Connection |-> "none"]
  /\ cfd = 0 /\ wait = [s \in Session |-> 0] /\ sent = [fd \in Connection |-> {}]
  /\ used = [s \in Session |-> 0] /\ reuse = [s \in Session |-> "no"]
  /\ inbox = [fd \in Connection |-> <<>>] /\ out = [fd \in Connection |-> <<>>]
  /\ requests = 0 /\ runs = <<>>
  /\ overtaken = {} /\ discarded = {} /\ early = FALSE /\ wrong = FALSE /\ orphaned = FALSE
  /\ late = {}

Next ==
  \/ Connect \/ Receive \/ login \/ logout
  \/ \E s \in Session : NewRequest(s) \/ Resend(s)
  \/ \E fd \in Connection : Message(fd) \/ disconnect(fd)
  \/ \E p \in 1 .. Len(objs) : Done(p)

Spec == Init /\ [][Next]_vars

-----------------------------------------------------------------------------
\* An answer the client gets is that to the request it made last with that session,
\* unless the session had been used before and the request was sent again in another
\* connection, or a request with that session was read late, from an old connection.
OwnAnswer == ~ wrong

\* A request that is sent again after a lost connection is not handled again, unless
\* its answer was forgotten or came when another connection was authenticated, or one
\* was read late.  (An old connection that ends late may stay in use after the user
\* has logged out.)
HandledOnce ==
  ~ orphaned => \A r \in DOMAIN runs :
                  runs[r] > 1 =>
                    \/ r \in discarded \cup overtaken
                    \/ \E p \in DOMAIN objs : objs[p].req = r /\ objs[p].session \in late

\* An answer is kept for at least expired_number later ones.
KeptLongEnough == ~ early

\* When nothing is under way, every request that the client has sent on its
\* connection, which is authenticated and open, was answered on it, unless one with
\* that session was read late: the answer then goes to the old connection.
AnswerReachesAsker ==
  /\ cfd # 0 /\ gate[cfd] = "open" /\ connection[cfd] # 0
  /\ \A p \in DOMAIN objs : objs[p].done
  /\ inbox[cfd] = <<>> /\ out[cfd] = <<>>
  => \A s \in Session \ late : wait[s] \notin sent[cfd]

\* Logging out ends the connection that was authenticated last, unless an older one
\* ended after it.  (Older ones that have not ended stay.)
LoggedOut ==
  ~ orphaned => \A fd \in Connection :
                  connection[fd] \in {0, online} \/ users[connection[fd]].version # fd

=============================================================================
