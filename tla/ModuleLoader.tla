---------------------------- MODULE ModuleLoader ----------------------------
(***************************************************************************)
(* The table of C service modules (fengnet_module.cpp): threads look a     *)
(* name up without the lock, and load the module under the lock if it is   *)
(* not there.  The table is filled in place: the name of the caller first, *)
(* the functions, a copy of the name, and the count last.  Accesses are    *)
(* taken in program order.                                                 *)
(***************************************************************************)
EXTENDS Naturals

CONSTANTS
  Loader,             \* threads that look names up
  Library,            \* names
  Missing,            \* names of which there is no library
  Broken,             \* names of which the library has no _init
  MAX_MODULE_TYPE,
  Nobody

LoaderAssumption ==
  MAX_MODULE_TYPE \in Nat \ {0} /\ Missing \cup Broken \subseteq Library /\ Nobody \notin Loader

VARIABLES
  modules,      \* per index: [name, owned, init]; owned: the name is a copy
  module_count,
  module_lock,  \* the thread that holds it, or Nobody
  loader_pc,    \* per thread: "idle", "look", "lock", "again", "open", "symbols", "copy",
                \* "count" or "unlock"
  asked,        \* per thread: the name it asks for
  entry,        \* the index its _query is at
  found         \* the index it has found, 0 for nullptr

loaderVars == <<modules, module_count, module_lock, loader_pc, asked, entry, found>>

Go(t, s) == loader_pc' = [loader_pc EXCEPT ![t] = s]

\* fengnet_module_query is called.
fengnet_module_query(t, x) ==
  /\ loader_pc[t] = "idle"
  /\ asked' = [asked EXCEPT ![t] = x]
  /\ entry' = [entry EXCEPT ![t] = 1]
  /\ found' = [found EXCEPT ![t] = 0]
  /\ Go(t, "look")
  /\ UNCHANGED <<modules, module_count, module_lock>>

\* One turn of _query's loop, without the lock ("look") or under it ("again")
_query(t) ==
  /\ loader_pc[t] \in {"look", "again"}
  /\ \/ /\ entry[t] <= module_count /\ modules[entry[t]].name # asked[t]
        /\ entry' = [entry EXCEPT ![t] = @ + 1]
        /\ UNCHANGED <<loader_pc, found>>
     \/ /\ entry[t] <= module_count /\ modules[entry[t]].name = asked[t]
        /\ found' = [found EXCEPT ![t] = entry[t]]
        /\ Go(t, IF loader_pc[t] = "look" THEN "idle" ELSE "unlock")
        /\ UNCHANGED entry
     \/ /\ entry[t] > module_count
        /\ Go(t, IF loader_pc[t] = "look" THEN "lock" ELSE "open")
        /\ UNCHANGED <<entry, found>>
  /\ UNCHANGED <<modules, module_count, module_lock, asked>>

\* Mutant: the name is not looked up again under the lock.
MutLocked(t) == Go(t, "open")

\* What a thread that has the lock does first
Locked(t) == Go(t, "again")

Lock(t) ==
  /\ loader_pc[t] = "lock" /\ module_lock = Nobody
  /\ module_lock' = t
  /\ entry' = [entry EXCEPT ![t] = 1]
  /\ Locked(t)
  /\ UNCHANGED <<modules, module_count, asked, found>>

\* _try_open; the entry gets the caller's name.
_try_open(t) ==
  /\ loader_pc[t] = "open"
  /\ IF module_count = MAX_MODULE_TYPE \/ asked[t] \in Missing
     THEN Go(t, "unlock") /\ UNCHANGED modules
     ELSE /\ modules' = [modules EXCEPT ![module_count + 1].name = asked[t],
                                        ![module_count + 1].owned = FALSE]
          /\ Go(t, "symbols")
  /\ UNCHANGED <<module_count, module_lock, asked, entry, found>>

open_sym(t) ==
  /\ loader_pc[t] = "symbols"
  /\ modules' = [modules EXCEPT ![module_count + 1].init = asked[t] \notin Broken]
  /\ Go(t, IF asked[t] \in Broken THEN "unlock" ELSE "copy")
  /\ UNCHANGED <<module_count, module_lock, asked, entry, found>>

\* fengnet_strdup
CopyName(t) ==
  /\ loader_pc[t] = "copy"
  /\ modules' = [modules EXCEPT ![module_count + 1].owned = TRUE]
  /\ Go(t, "count")
  /\ UNCHANGED <<module_count, module_lock, asked, entry, found>>

Publish(t) ==
  /\ loader_pc[t] = "count"
  /\ module_count' = module_count + 1
  /\ found' = [found EXCEPT ![t] = module_count']
  /\ Go(t, "unlock")
  /\ UNCHANGED <<modules, module_lock, asked, entry>>

Unlock(t) ==
  /\ loader_pc[t] = "unlock"
  /\ module_lock' = Nobody
  /\ Go(t, "idle")
  /\ UNCHANGED <<modules, module_count, asked, entry, found>>

LoaderInit ==
  /\ modules = [x \in 1 .. MAX_MODULE_TYPE |-> [name |-> Nobody, owned |-> FALSE, init |-> FALSE]]
  /\ module_count = 0 /\ module_lock = Nobody
  /\ loader_pc = [t \in Loader |-> "idle"] /\ asked = [t \in Loader |-> Nobody]
  /\ entry = [t \in Loader |-> 1] /\ found = [t \in Loader |-> 0]

LoaderNext ==
  \E t \in Loader :
    \/ \E x \in Library : fengnet_module_query(t, x)
    \/ _query(t) \/ Lock(t) \/ _try_open(t) \/ open_sym(t) \/ CopyName(t) \/ Publish(t) \/ Unlock(t)

LoaderSpec == LoaderInit /\ [][LoaderNext]_loaderVars

-----------------------------------------------------------------------------
\* A module is in the table once, whole and under a name that is the table's own; a
\* query answers with the module it was asked for, and with none only if the module
\* cannot be loaded or the table is full.
LoadedOnce ==
  /\ \A x, y \in 1 .. module_count : modules[x].name = modules[y].name => x = y
  /\ \A x \in 1 .. module_count : modules[x].owned /\ modules[x].init
  /\ \A t \in Loader : loader_pc[t] = "idle" /\ asked[t] # Nobody =>
       IF found[t] # 0
       THEN found[t] <= module_count /\ modules[found[t]].name = asked[t]
       ELSE asked[t] \in Missing \cup Broken \/ module_count = MAX_MODULE_TYPE

=============================================================================
