------------------------------- MODULE LogFile -------------------------------
(***************************************************************************)
(* The log file of one service: LOGON opens it and LOGOFF takes it away    *)
(* from whatever thread runs the command, while a worker writes every      *)
(* message it dispatches to the file and the last release of the context   *)
(* closes it (cmd_logon and cmd_logoff in fengnet.cpp, dispatch_message    *)
(* and delete_context in fengnet_server.cpp).  ctx->logfile is an atomic   *)
(* pointer; nothing else orders these threads.                             *)
(*                                                                         *)
(* compare_exchange_weak does not fail spuriously on x86, the build's      *)
(* target.  A FILE is an address: fopen may return one that was closed.    *)
(***************************************************************************)
EXTENDS Naturals, FiniteSets

CONSTANTS
  Caller,      \* threads that run LOGON and LOGOFF on the service
  File,        \* bound: addresses of FILE objects
  NoFile       \* the null pointer

LogFileAssumption == NoFile \notin File

\* The worker that dispatches the service's messages: one at a time.
Dispatcher == "worker"
Thread == Caller \cup {Dispatcher}

VARIABLES
  logfile,     \* ctx->logfile
  open,        \* FILE objects that are open
  pc, f,       \* per thread: where it is and its local pointer f
  registered,  \* the handle storage still holds the context
  life,        \* the context: "live" or "freed"
  stale,       \* history: threads whose f another thread has closed
  twice        \* history: one of them has closed it again

ghosts == <<stale, twice>>
vars == <<logfile, open, pc, f, registered, life, ghosts>>

Goto(t, l) == pc' = [pc EXCEPT ![t] = l]

\* fengnet_handle_grab at the head of a command or of a dispatch turn.
Grab(t, l) ==
  /\ pc[t] = "idle" /\ registered
  /\ Goto(t, l)
  /\ UNCHANGED <<logfile, open, f, registered, life, ghosts>>

\* cmd_logon: nothing to do when the service logs already.
LogonLoad(t) ==
  /\ pc[t] = "logon"
  /\ Goto(t, IF logfile = NoFile THEN "open" ELSE "release")
  /\ UNCHANGED <<logfile, open, f, registered, life, ghosts>>

\* Mutant: a failed fopen is not noticed.
MutOpen(t) ==
  /\ pc[t] = "open"
  /\ \E x \in (File \ open) \cup {NoFile} :
       /\ f' = [f EXCEPT ![t] = x]
       /\ open' = (open \cup {x}) \ {NoFile}
       /\ Goto(t, "publish")
  /\ UNCHANGED <<logfile, registered, life, ghosts>>

\* fengnet_log_open: fopen, which may fail.
Open(t) ==
  /\ pc[t] = "open"
  /\ \/ \E x \in File \ open :
          /\ f' = [f EXCEPT ![t] = x]
          /\ open' = open \cup {x}
          /\ Goto(t, "publish")
     \/ Goto(t, "release") /\ UNCHANGED <<f, open>>
  /\ UNCHANGED <<logfile, registered, life, ghosts>>

\* The exchange from null to f.
Publish(t) ==
  /\ pc[t] = "publish"
  /\ \/ /\ logfile = NoFile
        /\ logfile' = f[t]
        /\ f' = [f EXCEPT ![t] = NoFile]
        /\ Goto(t, "release")
     \/ /\ logfile # NoFile
        /\ Goto(t, "fclose")
        /\ UNCHANGED <<logfile, f>>
  /\ UNCHANGED <<open, registered, life, ghosts>>

\* cmd_logoff
LogoffLoad(t) ==
  /\ pc[t] = "logoff"
  /\ f' = [f EXCEPT ![t] = logfile]
  /\ Goto(t, IF logfile = NoFile THEN "release" ELSE "detach")
  /\ UNCHANGED <<logfile, open, registered, life, ghosts>>

\* Mutant: whoever detaches the file closes it while it is still published.
MutDetach(t) ==
  /\ pc[t] = "detach"
  /\ Goto(t, "fclose")
  /\ UNCHANGED <<logfile, f, open, registered, life, ghosts>>

\* The exchange from f to null; the thread whose exchange FAILS closes f.
Detach(t) ==
  /\ pc[t] = "detach"
  /\ \/ /\ logfile = f[t]
        /\ logfile' = NoFile
        /\ f' = [f EXCEPT ![t] = NoFile]
        /\ stale' = stale \ {t}
        /\ Goto(t, "release")
     \/ /\ logfile # f[t]
        /\ Goto(t, "fclose")
        /\ UNCHANGED <<logfile, f, stale>>
  /\ UNCHANGED <<open, registered, life, twice>>

\* fclose by the loser of an exchange (fengnet_log_close in cmd_logoff).
Close(t) ==
  /\ pc[t] = "fclose"
  /\ open' = open \ {f[t]}
  /\ f' = [f EXCEPT ![t] = NoFile]
  /\ Goto(t, "release")
  /\ twice' = (twice \/ t \in stale)
  /\ stale' = (stale \ {t}) \cup {u \in Caller \ {t} : f[u] = f[t]}
  /\ UNCHANGED <<logfile, registered, life>>

\* dispatch_message: load the pointer, write the message to the file.
DispatchLoad ==
  /\ pc[Dispatcher] = "dispatch"
  /\ f' = [f EXCEPT ![Dispatcher] = logfile]
  /\ Goto(Dispatcher, IF logfile = NoFile THEN "release" ELSE "output")
  /\ UNCHANGED <<logfile, open, registered, life, ghosts>>

DispatchOutput ==
  /\ pc[Dispatcher] = "output"
  /\ f' = [f EXCEPT ![Dispatcher] = NoFile]
  /\ Goto(Dispatcher, "release")
  /\ UNCHANGED <<logfile, open, registered, life, ghosts>>

\* fengnet_context_release: the last one runs delete_context.
Release(t) ==
  /\ pc[t] = "release"
  /\ Goto(t, "idle")
  /\ \/ /\ ~ registered /\ \A u \in Thread \ {t} : pc[u] = "idle"
        /\ life' = "freed"
        /\ open' = open \ {logfile}
     \/ /\ registered \/ \E u \in Thread \ {t} : pc[u] # "idle"
        /\ UNCHANGED <<life, open>>
  /\ UNCHANGED <<logfile, f, registered, ghosts>>

\* fengnet_handle_retire by some thread: the handle storage's reference goes.
Retire ==
  /\ registered
  /\ registered' = FALSE
  /\ \/ /\ \A u \in Thread : pc[u] = "idle"
        /\ life' = "freed"
        /\ open' = open \ {logfile}
     \/ /\ \E u \in Thread : pc[u] # "idle"
        /\ UNCHANGED <<life, open>>
  /\ UNCHANGED <<logfile, pc, f, ghosts>>

Init ==
  /\ logfile = NoFile
  /\ open = {}
  /\ pc = [t \in Thread |-> "idle"]
  /\ f = [t \in Thread |-> NoFile]
  /\ registered = TRUE
  /\ life = "live"
  /\ stale = {} /\ twice = FALSE

\* What follows the second fclose of a file is undefined, and left out.
Next ==
  /\ ~ twice
  /\ \/ \E t \in Caller :
          \/ Grab(t, "logon") \/ Grab(t, "logoff")
          \/ LogonLoad(t) \/ Open(t) \/ Publish(t) \/ LogoffLoad(t) \/ Detach(t) \/ Close(t)
     \/ Grab(Dispatcher, "dispatch") \/ DispatchLoad \/ DispatchOutput
     \/ \E t \in Thread : Release(t)
     \/ Retire

Spec == Init /\ [][Next]_vars
-----------------------------------------------------------------------------
\* TypeOK: in particular a thread about to publish, detach, close or write holds
\* a file.
TypeOK ==
  /\ logfile \in File \cup {NoFile}
  /\ open \subseteq File
  /\ pc \in [Thread -> {"idle", "logon", "open", "publish", "logoff", "detach", "fclose",
                        "dispatch", "output", "release"}]
  /\ f \in [Thread -> File \cup {NoFile}]
  /\ \A t \in Thread : pc[t] \in {"publish", "detach", "fclose", "output"} => f[t] # NoFile
  /\ registered \in BOOLEAN
  /\ life \in {"live", "freed"}
  /\ stale \subseteq Caller /\ twice \in BOOLEAN

Published == life = "live" /\ logfile # NoFile

\* PublishedIsOpen: the file a context points to is open until the context
\* itself is destroyed, so the next dispatch and delete_context may use it,
\* however LOGON, LOGOFF and a retire race, until two threads that have lost the
\* exchange of LOGOFF close one file: then the second may close a new file that has
\* the address of the old one.
PublishedIsOpen == Published /\ ~ twice => logfile \in open

\* PublishedStaysOpen: what LOGOFF closes is not the context's file any more: "logfile
\* may close in other thread", which is why the pointer is exchanged (fengnet.cpp:294).
PublishedStaysOpen == Published => logfile \in open

\* OpenFileIsOwned: an open FILE is the one the context points to or is in the
\* hands of a thread that will publish or close it, so no descriptor leaks.
OpenFileIsOwned ==
  \A x \in open :
    \/ life = "live" /\ x = logfile
    \/ \E t \in Thread : f[t] = x /\ pc[t] \in {"publish", "detach", "fclose"}

\* LogFileExact: who is about to use a log file has one, and the one a living
\* context points to is open, until one is closed twice.
LogFileExact == TypeOK /\ PublishedIsOpen

=============================================================================
