----------------------------- MODULE DataCenter -----------------------------
(***************************************************************************)
(* datacenterd.lua: a tree of values, here two levels deep, and clients    *)
(* that wait for the value of a path.  Where clients wait, wait_queue has  *)
(* a queue; above a queue it has branches, which stay.                     *)
(***************************************************************************)
EXTENDS Sequences, SequencesExt, FiniteSets

CONSTANTS
  Key, Sub,        \* keys of the first and of the second level
  Value,           \* values that are not tables
  Waiter,          \* clients
  NoValue, Table   \* nil, and a value that is a table

DataAssumption ==
  /\ NoValue \notin Value \cup {Table, "error", "queue", "branch"}
  /\ Table \notin Value \cup {"error"} /\ "error" \notin Value

Path == {<<k>> : k \in Key} \cup (Key \X Sub)

VARIABLES
  database,     \* per path its value
  wait_queue,   \* per path: the clients that wait
  queue_mode,   \* per key: NoValue, "queue" or "branch", for wait_queue[key]
  waiter,       \* per client: "idle", "wait", "ok" or "error"
  path,         \* per client: the path it waits for
  overlooked    \* history: clients that waited when their path became a branch without values

dataVars == <<database, wait_queue, queue_mode, waiter, path, overlooked>>

\* command.QUERY; "error" when a value that is no table is indexed
QUERY(p) ==
  IF Len(p) = 2 /\ database[<<p[1]>>] \in Value THEN "error" ELSE database[p]

\* Mutant: clients on the way to the value are left.
MutBlocked(p) == <<>>

\* Clients that wait for a path that has become a branch
Blocked(p) == IF Len(p) = 2 /\ queue_mode[p[1]] = "queue" THEN wait_queue[<<p[1]>>] ELSE <<>>

\* Whoever waits is told of a value where there was none.
Fresh(p, v) == database[p] = NoValue /\ v # NoValue

\* update and, for a new value, wakeup
UPDATE(p, v) ==
  LET k    == p[1]
      woken == IF Fresh(p, v) THEN ToSet(wait_queue[p]) ELSE {}
      fail  == IF Fresh(p, v) THEN ToSet(Blocked(p)) ELSE {}
      away  == IF Fresh(p, v) /\ queue_mode[k] = "queue" THEN {k} ELSE {}
  IN /\ Len(p) = 2 => database[<<k>>] \notin Value     \* or the update fails
     /\ database' = [x \in Path |->
          CASE x = p -> v
            [] x = <<k>> /\ Len(p) = 2 -> Table
            [] Len(x) = 2 /\ x[1] = k /\ Len(p) = 1 -> NoValue
            [] OTHER -> database[x]]
     /\ wait_queue' = [x \in Path |->
          IF (x = p /\ Fresh(p, v)) \/ x \in {<<j>> : j \in away} THEN <<>> ELSE wait_queue[x]]
     /\ queue_mode' = [j \in Key |-> IF j \in away THEN NoValue ELSE queue_mode[j]]
     /\ waiter' = [c \in Waiter |->
          CASE c \in woken -> "ok" [] c \in fail -> "error" [] OTHER -> waiter[c]]
     /\ overlooked' = IF Len(p) = 2 /\ database[<<k>>] = NoValue /\ v = NoValue
                      THEN overlooked \cup ToSet(wait_queue[<<k>>]) ELSE overlooked
     /\ UNCHANGED path

\* WAIT and waitfor
WAIT(c, p) ==
  LET k    == p[1]
      want == IF Len(p) = 1 THEN "queue" ELSE "branch"
  IN /\ waiter[c] # "wait"
     /\ path' = [path EXCEPT ![c] = p]
     /\ \/ /\ QUERY(p) \notin {NoValue, "error"}
           /\ waiter' = [waiter EXCEPT ![c] = "ok"]
           /\ UNCHANGED <<wait_queue, queue_mode>>
        \/ /\ QUERY(p) = "error" \/ (QUERY(p) = NoValue /\ queue_mode[k] \notin {NoValue, want})
           /\ waiter' = [waiter EXCEPT ![c] = "error"]
           /\ UNCHANGED <<wait_queue, queue_mode>>
        \/ /\ QUERY(p) = NoValue /\ queue_mode[k] \in {NoValue, want}
           /\ queue_mode' = [queue_mode EXCEPT ![k] = want]
           /\ wait_queue' = [wait_queue EXCEPT ![p] = Append(@, c)]
           /\ waiter' = [waiter EXCEPT ![c] = "wait"]
     /\ overlooked' = overlooked \ {c}
     /\ UNCHANGED database

DataInit ==
  /\ database = [p \in Path |-> NoValue] /\ wait_queue = [p \in Path |-> <<>>]
  /\ queue_mode = [k \in Key |-> NoValue]
  /\ waiter = [c \in Waiter |-> "idle"] /\ path = [c \in Waiter |-> <<>>]
  /\ overlooked = {}

DataNext ==
  \/ \E p \in Path, v \in Value \cup {NoValue} : UPDATE(p, v)
  \/ \E c \in Waiter, p \in Path : WAIT(c, p)

DataSpec == DataInit /\ [][DataNext]_dataVars

-----------------------------------------------------------------------------
\* A client waits only for what is not there, unless nobody was told of a branch
\* without values; it waits once, and in a queue that the next value will find.
WaitersFound ==
  /\ \A c \in Waiter : waiter[c] = "wait" =>
       /\ QUERY(path[c]) \in {NoValue, "error"} \/ c \in overlooked
       /\ Cardinality({i \in DOMAIN wait_queue[path[c]] : wait_queue[path[c]][i] = c}) = 1
       /\ queue_mode[path[c][1]] = (IF Len(path[c]) = 1 THEN "queue" ELSE "branch")
  /\ \A p \in Path : \A i \in DOMAIN wait_queue[p] :
       waiter[wait_queue[p][i]] = "wait" /\ path[wait_queue[p][i]] = p

=============================================================================
