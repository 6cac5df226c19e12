---------------------------- MODULE HandleStorage ----------------------------
(***************************************************************************)
(* fengnet_handle.cpp: the hash table from handles to contexts, which      *)
(* doubles when a registration finds no free slot, and the sorted array of *)
(* local names.  Every function runs under one lock, so each is one step;  *)
(* but the new handle is stored in the context after fengnet_handle_register*)
(* has returned, outside the lock.                                         *)
(*                                                                         *)
(* Doubling deletes the contexts it has just moved.  Reading a deleted     *)
(* context finds what it held or, once the block is used again, something  *)
(* else: Seen is that choice.  A context whose handle read as another than *)
(* the one it was given, because it is deleted or because its creator has  *)
(* not stored it yet, is moved to a slot where it is not looked for.       *)
(***************************************************************************)
EXTENDS Integers, Sequences, FiniteSets

CONSTANTS
  Context,             \* the contexts there can be
  Name,                \* service names, numbers in the order of strcmp
  DEFAULT_SLOT_SIZE,
  HANDLE_MASK,         \* the largest handle
  MaxLaunching,        \* how many threads may be inside fengnet_context_new
  MaxSlotSize,         \* bound: the table is not doubled beyond this size
  None

HandleAssumption ==
  /\ Name \subseteq Nat
  /\ DEFAULT_SLOT_SIZE \in Nat \ {0}
  /\ HANDLE_MASK \in Nat \ {0}
  /\ MaxLaunching \in Nat \ {0}

VARIABLES
  slot, slot_size, handle_index,
  handle,      \* ctx->handle, 0 until the creator has stored it
  state,       \* a context: "none", "new" (registered, handle not stored), "live", "retired"
  given,       \* the handle fengnet_handle_register returned
  freed,       \* contexts that doubling has deleted
  strayed,     \* history: contexts that were moved by another handle than their own
  clash,       \* assert(new_slot[hash] == nullptr) has failed
  name         \* the name array: <<name, handle>> in ascending order of name

vars == <<slot, slot_size, handle_index, handle, state, given, freed, strayed, clash, name>>

Hash(h, size) == h % size

\* What ctx->handle reads as.
Seen(c) == IF c \in freed THEN {handle[c], 0} ELSE {handle[c]}
-----------------------------------------------------------------------------
(* fengnet_handle_register *)

\* Mutant: the scan runs past HANDLE_MASK.
MutTried(i) == handle_index + i

\* The i-th handle the scan tries: past HANDLE_MASK it goes on from 1.
Tried(i) == ((handle_index - 1 + i) % HANDLE_MASK) + 1

\* The first tried handle whose slot in table sl is free, 0 if there is none.
Scan(sl, size) ==
  LET free == {i \in 0 .. size - 1 : sl[Hash(Tried(i), size)] = None}
  IN  IF free = {} THEN 0 ELSE Tried(CHOOSE i \in free : \A j \in free : i <= j)

\* Mutant: the contexts keep their positions in the doubled table.
MutRehash(h) ==
  [k \in 0 .. 2 * slot_size - 1 |-> IF k < slot_size THEN slot[k] ELSE None]

\* The doubled table, given what each context's handle reads as.
Rehash(h) ==
  [k \in 0 .. 2 * slot_size - 1 |->
     LET here == {i \in 0 .. slot_size - 1 :
                    slot[i] # None /\ Hash(h[slot[i]], 2 * slot_size) = k}
     IN  IF here = {} THEN None
         ELSE slot[CHOOSE i \in here : \A j \in here : j <= i]]

\* Two contexts would move to the same slot.
Collides(h) ==
  \E i, j \in 0 .. slot_size - 1 :
    /\ i # j /\ slot[i] # None /\ slot[j] # None
    /\ Hash(h[slot[i]], 2 * slot_size) = Hash(h[slot[j]], 2 * slot_size)

InTable == {slot[i] : i \in 0 .. slot_size - 1} \ {None}
Launching == {c \in Context : state[c] = "new"}

Taken(c, h) ==
  /\ handle_index' = h + 1
  /\ given' = [given EXCEPT ![c] = h]
  /\ state' = [state EXCEPT ![c] = "new"]

Register(c) ==
  LET h == Scan(slot, slot_size)
  IN  /\ state[c] = "none"
      /\ Cardinality(Launching) < MaxLaunching
      /\ h # 0
      /\ slot' = [slot EXCEPT ![Hash(h, slot_size)] = c]
      /\ Taken(c, h)
      /\ UNCHANGED <<slot_size, handle, freed, strayed, clash, name>>

\* No slot is free: the table is doubled, the contexts in it deleted, and the
\* scan repeated.
RegisterExpand(c) ==
  /\ state[c] = "none"
  /\ Cardinality(Launching) < MaxLaunching
  /\ Scan(slot, slot_size) = 0
  /\ 2 * slot_size - 1 <= HANDLE_MASK
  /\ 2 * slot_size <= MaxSlotSize
  /\ \E h \in [Context -> UNION {Seen(d) : d \in Context}] :
       /\ \A d \in Context : h[d] \in Seen(d)
       /\ \A d \in Context \ InTable : h[d] = handle[d]
       /\ clash' = Collides(h)
       /\ strayed' = strayed \cup {d \in InTable \cap (freed \cup Launching) : h[d] # given[d]}
       /\ IF clash'
          THEN UNCHANGED <<slot, slot_size, handle_index, given, state, freed>>
          ELSE LET table == Rehash(h)
                   new   == Scan(table, 2 * slot_size)
               IN  /\ slot' = [table EXCEPT ![Hash(new, 2 * slot_size)] = c]
                   /\ slot_size' = 2 * slot_size
                   /\ freed' = freed \cup InTable
                   /\ Taken(c, new)
  /\ UNCHANGED <<handle, name>>

\* Mutant: the handle is returned but not stored in the context.
MutStoreHandle(c) ==
  /\ state[c] = "new"
  /\ state' = [state EXCEPT ![c] = "live"]
  /\ UNCHANGED <<slot, slot_size, handle_index, handle, given, freed, strayed, clash, name>>

\* ctx->handle = ..., by the creator.
StoreHandle(c) ==
  /\ state[c] = "new"
  /\ handle' = [handle EXCEPT ![c] = given[c]]
  /\ state' = [state EXCEPT ![c] = "live"]
  /\ UNCHANGED <<slot, slot_size, handle_index, given, freed, strayed, clash, name>>
-----------------------------------------------------------------------------
Handle == 1 .. HANDLE_MASK

\* The context found for handle h when the one in its slot reads handle v.
Found(h, v) ==
  IF slot[Hash(h, slot_size)] # None /\ v = h THEN slot[Hash(h, slot_size)] ELSE None

SeenAt(h) ==
  IF slot[Hash(h, slot_size)] = None THEN {0} ELSE Seen(slot[Hash(h, slot_size)])

\* Mutant: the names of a retired handle stay.
MutRetire(h) ==
  \E v \in SeenAt(h) :
    /\ Found(h, v) # None
    /\ slot' = [slot EXCEPT ![Hash(h, slot_size)] = None]
    /\ state' = [state EXCEPT ![Found(h, v)] = "retired"]
    /\ UNCHANGED <<slot_size, handle_index, handle, given, freed, strayed, clash, name>>

\* fengnet_handle_retire: a handle that is not registered changes nothing.
fengnet_handle_retire(h) ==
  \E v \in SeenAt(h) :
    /\ Found(h, v) # None
    /\ slot' = [slot EXCEPT ![Hash(h, slot_size)] = None]
    /\ state' = [state EXCEPT ![Found(h, v)] = "retired"]
    /\ name' = SelectSeq(name, LAMBDA e : e[2] # h)
    /\ UNCHANGED <<slot_size, handle_index, handle, given, freed, strayed, clash>>
-----------------------------------------------------------------------------
(* Names *)

\* The binary search of fengnet_handle_findname and _insert_name: the range
\* <<begin, end>> when the loop stops, at the name or with begin > end.
Mid(r) == (r[1] + r[2]) \div 2
Stops(n, r) == r[1] > r[2] \/ name[Mid(r) + 1][1] = n

Search(n) ==
  LET range[k \in 0 .. Len(name)] ==
        IF k = 0 THEN <<0, Len(name) - 1>>
        ELSE LET r == range[k - 1]
             IN  IF Stops(n, r) THEN r
                 ELSE IF name[Mid(r) + 1][1] < n THEN <<Mid(r) + 1, r[2]>>
                 ELSE <<r[1], Mid(r) - 1>>
  IN  range[Len(name)]

NameTaken(n) == Search(n)[1] <= Search(n)[2]

\* fengnet_handle_findname.
fengnet_handle_findname(n) == IF NameTaken(n) THEN name[Mid(Search(n)) + 1][2] ELSE 0

\* Mutant: the new name goes after the position the search ends at.
MutInsertName(n, h) ==
  LET p == Search(n)[1]
  IN  IF p >= Len(name) THEN Append(name, <<n, h>>)
      ELSE SubSeq(name, 1, p + 1) \o <<<<n, h>>>> \o SubSeq(name, p + 2, Len(name))

\* _insert_name_before: the array with the new name at the search's end.
insert_name(n, h) ==
  LET p == Search(n)[1]
  IN  SubSeq(name, 1, p) \o <<<<n, h>>>> \o SubSeq(name, p + 1, Len(name))

\* fengnet_handle_namehandle: a name that is taken is refused.  The handle is
\* one the caller was given (REG and NAME); nothing checks that it is alive.
fengnet_handle_namehandle(n, c) ==
  /\ state[c] \in {"live", "retired"}
  /\ ~ NameTaken(n)
  /\ name' = insert_name(n, given[c])
  /\ UNCHANGED <<slot, slot_size, handle_index, handle, state, given, freed, strayed, clash>>
-----------------------------------------------------------------------------
\* fengnet_handle_init.
Init ==
  /\ slot_size = DEFAULT_SLOT_SIZE
  /\ slot = [k \in 0 .. slot_size - 1 |-> None]
  /\ handle_index = 1
  /\ handle = [c \in Context |-> 0]
  /\ state = [c \in Context |-> "none"]
  /\ given = [c \in Context |-> 0]
  /\ freed = {}
  /\ strayed = {}
  /\ clash = FALSE
  /\ name = <<>>

\* operator new gives a context that has not been used: one stands for all.
New == {c \in Context : state[c] = "none"}
Fresh == {c \in New : c = CHOOSE d \in New : TRUE}

\* Nothing happens after the assertion has failed.
Next ==
  /\ ~ clash
  /\ \/ \E c \in Fresh : Register(c) \/ RegisterExpand(c)
     \/ \E c \in Context : StoreHandle(c)
     \/ \E h \in Handle : fengnet_handle_retire(h)
     \/ \E n \in Name, c \in Context : fengnet_handle_namehandle(n, c)

Spec == Init /\ [][Next]_vars
-----------------------------------------------------------------------------
\* TypeOK: the table has slot_size slots, handles are 1 .. HANDLE_MASK.
TypeOK ==
  /\ slot \in [0 .. slot_size - 1 -> Context \cup {None}]
  /\ handle_index \in 1 .. HANDLE_MASK + 1
  /\ handle \in [Context -> 0 .. HANDLE_MASK]
  /\ given \in [Context -> 0 .. HANDLE_MASK]
  /\ state \in [Context -> {"none", "new", "live", "retired"}]
  /\ freed \subseteq Context /\ strayed \subseteq Context
  /\ clash \in BOOLEAN
  /\ name \in Seq(Name \X Handle)

\* EveryHandleFindable: a registered context sits in the slot its handle hashes
\* to, alone, before and after doubling and across the wrap of handle_index, so
\* fengnet_handle_grab finds it, and no two registered contexts share a handle;
\* a retired one is found by no handle.  Only a context that was deleted, or whose
\* creator had not stored its handle yet, when the table grew may be elsewhere, and
\* only such a one can make two contexts move to one slot.
EveryHandleFindable ==
  /\ \A c \in Context \ strayed :
       IF state[c] \in {"new", "live"}
       THEN {k \in 0 .. slot_size - 1 : slot[k] = c} = {Hash(given[c], slot_size)}
       ELSE c \notin InTable
  /\ clash => strayed # {}

\* FindnameExact: the binary search answers what a linear one would: the handle
\* of the one entry with that name, 0 when there is none.
FindnameExact ==
  /\ \A i, j \in 1 .. Len(name) : i < j => name[i][1] < name[j][1]
  /\ \A n \in Name :
       fengnet_handle_findname(n) =
         IF \E i \in 1 .. Len(name) : name[i][1] = n
         THEN name[CHOOSE i \in 1 .. Len(name) : name[i][1] = n][2]
         ELSE 0

\* RetireForgetsNames: when a handle is retired no name leads to it any more.
RetireForgetsNames ==
  [][ \A c \in Context :
        (state[c] = "live" /\ state'[c] = "retired") =>
          \A i \in 1 .. Len(name') : name'[i][2] # given[c] ]_vars

\* TableHoldsLiveMemory: a context in the table has not been deleted.
TableHoldsLiveMemory == InTable \cap freed = {}

\* NoSlotClash: assert(new_slot[hash] == nullptr) in fengnet_handle_register, whoever
\* else registers a context at the same time.
NoSlotClash == ~ clash

\* HandlesExact: the table keeps its types, and fengnet_handle_grab finds exactly the
\* registered contexts but for those that strayed.
HandlesExact == TypeOK /\ EveryHandleFindable

\* NamesExact: fengnet_handle_findname finds exactly the names that were given, and
\* a retired handle loses its names in the same step.
NamesExact == []FindnameExact /\ RetireForgetsNames

=============================================================================
