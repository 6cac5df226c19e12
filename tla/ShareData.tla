----------------------------- MODULE ShareData -----------------------------
(***************************************************************************)
(* Shared configuration data: the service that owns the objects of one     *)
(* name (sharedatad.lua), the services that read them through boxes        *)
(* (sharedata.lua, corelib.lua) and the counts in the objects              *)
(* (lua-sharedata.cpp).  An object is freed when it was replaced or        *)
(* deleted and its count is zero.  A reader holds a count from the moment  *)
(* its request is served until it confirms; a box holds one of its own,    *)
(* which the garbage collector gives back.                                 *)
(***************************************************************************)
EXTENDS Integers, Sequences, FiniteSets, SequencesExt

CONSTANTS
  Reader,                          \* services that read
  MaxObj, MaxBox, MaxQuery         \* bounds: objects, boxes, queries of a reader

ShareAssumption == {MaxObj, MaxBox, MaxQuery} \subseteq Nat

Obj == 1 .. MaxObj

VARIABLES
  pool,        \* the object of the name, or 0
  objmap,      \* per object: "none", "live", "true" (replaced or deleted) or "freed"
  sref, dirty, \* per object: state.ref and state.dirty
  watch,       \* the boxes whose monitor call waits
  made,        \* objects made
  boxes,       \* [owner, obj, gc (__gcobj), update, mon]; mon: "call", "ended", "failed", "gone"
  cache,       \* per reader: a box, or 0
  mail, back,  \* requests to the service, answers to the readers
  garbage,     \* boxes of objects the garbage collector has not seen yet
  lost,        \* objects whose reader failed before it could confirm
  asks, forgotten    \* queries so far; boxes whose monitor call nobody will answer

ovars == <<pool, objmap, sref, dirty, watch, made>>
vars  == <<ovars, boxes, cache, mail, back, garbage, lost, asks, forgotten>>

Add(f, o, n) == [f EXCEPT ![o] = @ + n]
Post(r, m) == [mail EXCEPT ![r] = @ \o m]
Reply(r, m) == [back EXCEPT ![r] = Append(@, m)]

-----------------------------------------------------------------------------
\* The service

\* CMD.new, for the name's next object, with the counts as they are
newobj(refs, map) ==
  /\ made < MaxObj
  /\ made' = made + 1
  /\ pool' = made'
  /\ sref' = Add(refs, made', 1)
  /\ objmap' = [map EXCEPT ![made'] = "live"]

new ==
  /\ pool = 0
  /\ newobj(sref, objmap)
  /\ UNCHANGED <<dirty, watch, boxes, cache, mail, back, garbage, lost, asks, forgotten>>

\* Everyone who watches is answered with o, 0 for nil.
TellAll(o) ==
  back' = [r \in Reader |->
             back[r] \o SetToSeq({[t |-> "changed", box |-> b, obj |-> o] :
                                   b \in {w \in watch : boxes[w].owner = r}})]

delete ==
  /\ pool # 0
  /\ pool' = 0 /\ watch' = {}
  /\ objmap' = [objmap EXCEPT ![pool] = "true"]
  /\ sref' = Add(sref, pool, -1)
  /\ TellAll(0)
  /\ UNCHANGED <<dirty, made, boxes, cache, mail, garbage, lost, asks, forgotten>>

\* Mutant: only one count for all who are told.
MutToldRefs(refs) == Add(refs, made + 1, IF watch = {} THEN 0 ELSE 1)

\* The new object is counted for everyone who is told of it.
ToldRefs(refs) == Add(refs, made + 1, Cardinality(watch))

\* update; the text of the new object may be wrong, and then the name is gone.
update ==
  /\ pool # 0
  /\ LET refs == Add(sref, pool, -1)
         map  == [objmap EXCEPT ![pool] = "true"]
     IN \/ /\ newobj(ToldRefs(refs), map)
           /\ dirty' = [dirty EXCEPT ![pool] = TRUE]
           /\ TellAll(made')
           /\ UNCHANGED forgotten
        \/ /\ pool' = 0 /\ sref' = refs /\ objmap' = map
           /\ forgotten' = forgotten \cup watch
           /\ UNCHANGED <<dirty, made, back>>
  /\ watch' = {}
  /\ UNCHANGED <<boxes, cache, mail, garbage, lost, asks>>

\* Mutant: an object that was given out is not counted.
MutGiven(o) == sref

\* query and monitor give out the object with a count.
Given(o) == Add(sref, o, 1)

\* query, monitor and confirm
Serve(r) ==
  LET m == Head(mail[r])
  IN /\ mail[r] # <<>>
     /\ mail' = [mail EXCEPT ![r] = Tail(@)]
     /\ \/ /\ m.t = "query"
           /\ back' = Reply(r, [t |-> "object", box |-> 0, obj |-> pool])
           /\ sref' = IF pool = 0 THEN sref ELSE Given(pool)
           /\ UNCHANGED watch
        \/ /\ m.t = "monitor" /\ pool = 0
           /\ back' = Reply(r, [t |-> "error", box |-> m.box, obj |-> 0])
           /\ UNCHANGED <<sref, watch>>
        \/ /\ m.t = "monitor" /\ pool # 0 /\ m.obj # pool
           /\ back' = Reply(r, [t |-> "changed", box |-> m.box, obj |-> pool])
           /\ sref' = Given(pool)
           /\ UNCHANGED watch
        \/ /\ m.t = "monitor" /\ pool # 0 /\ m.obj = pool
           /\ watch' = watch \cup {m.box}
           /\ UNCHANGED <<back, sref>>
        \/ /\ m.t = "confirm"
           /\ sref' = IF objmap[m.obj] \in {"live", "true"} THEN Add(sref, m.obj, -1) ELSE sref
           /\ UNCHANGED <<back, watch>>
     /\ UNCHANGED <<pool, objmap, dirty, made, boxes, cache, garbage, lost, asks, forgotten>>

\* collectobj: what nobody counts on is freed.
collectobj ==
  /\ \E o \in Obj : objmap[o] = "true" /\ sref[o] <= 0
  /\ objmap' = [o \in Obj |-> IF objmap[o] = "true" /\ sref[o] <= 0 THEN "freed" ELSE objmap[o]]
  /\ UNCHANGED <<pool, sref, dirty, watch, made, boxes, cache, mail, back, garbage, lost, asks,
                 forgotten>>

-----------------------------------------------------------------------------
\* A reader

\* sharedata.query, up to the call; several coroutines may be here at a time.
query(r) ==
  /\ cache[r] = 0 /\ asks[r] < MaxQuery
  /\ asks' = [asks EXCEPT ![r] = @ + 1]
  /\ mail' = Post(r, <<[t |-> "query", box |-> 0, obj |-> 0]>>)
  /\ UNCHANGED <<ovars, boxes, cache, back, garbage, lost, forgotten>>

Confirm(o) == [t |-> "confirm", box |-> 0, obj |-> o]
Monitor(b, o) == [t |-> "monitor", box |-> b, obj |-> o]

\* The rest of query: the object is known here, or gets a box and a monitor.
Queried(r, o) ==
  \/ /\ o = 0
     /\ UNCHANGED <<sref, boxes, cache, mail>>
  \/ /\ o # 0 /\ cache[r] # 0 /\ boxes[cache[r]].obj = o
     /\ mail' = Post(r, <<Confirm(o)>>)
     /\ UNCHANGED <<sref, boxes, cache>>
  \/ /\ o # 0 /\ ~ (cache[r] # 0 /\ boxes[cache[r]].obj = o)
     /\ Len(boxes) < MaxBox
     /\ boxes' = Append(boxes, [owner |-> r, obj |-> o, gc |-> o, update |-> 0, mon |-> "call"])
     /\ sref' = Add(sref, o, 1)
     /\ cache' = [cache EXCEPT ![r] = Len(boxes')]
     /\ mail' = Post(r, <<Confirm(o), Monitor(Len(boxes'), o)>>)

Forget(r, b) == [cache EXCEPT ![r] = IF @ = b THEN 0 ELSE @]

\* monitor: the name is gone, the object cannot replace the one in the box (an
\* assertion of corelib or an error of lua-sharedata), or it is taken.
Changed(r, b, o) ==
  LET x == boxes[b]
  IN \/ /\ o = 0
        /\ boxes' = [boxes EXCEPT ![b].mon = "ended"]
        /\ cache' = Forget(r, b)
        /\ UNCHANGED <<sref, mail, garbage, lost>>
     \/ /\ o # 0 /\ (~ dirty[x.obj] \/ x.gc = o)
        /\ boxes' = [boxes EXCEPT ![b].mon = "failed"]
        /\ lost' = Append(lost, o)
        /\ UNCHANGED <<sref, cache, mail, garbage>>
     \/ /\ o # 0 /\ dirty[x.obj] /\ x.gc # o
        /\ boxes' = [boxes EXCEPT ![b].update = o]
        /\ garbage' = IF x.update = 0 THEN garbage ELSE Append(garbage, x.update)
        /\ sref' = Add(sref, o, 1)
        /\ mail' = Post(r, <<Confirm(o), Monitor(b, o)>>)
        /\ UNCHANGED <<cache, lost>>

Answered(r) ==
  LET m == Head(back[r])
  IN /\ back[r] # <<>>
     /\ back' = [back EXCEPT ![r] = Tail(@)]
     /\ \/ m.t = "object" /\ Queried(r, m.obj) /\ UNCHANGED <<garbage, lost>>
        \/ m.t = "changed" /\ Changed(r, m.box, m.obj)
        \/ /\ m.t = "error"
           /\ boxes' = [boxes EXCEPT ![m.box].mon = "failed"]
           /\ UNCHANGED <<sref, cache, mail, garbage, lost>>
     /\ UNCHANGED <<pool, objmap, dirty, watch, made, asks, forgotten>>

\* getcobj: the data are read; a dirty object is left for the one that replaces it.
getcobj(b) ==
  /\ boxes[b].mon # "gone" /\ dirty[boxes[b].obj] /\ boxes[b].update # 0
  /\ boxes' = [boxes EXCEPT ![b].obj = boxes[b].update, ![b].gc = boxes[b].update, ![b].update = 0]
  /\ garbage' = Append(garbage, boxes[b].gc)
  /\ UNCHANGED <<ovars, cache, mail, back, lost, asks, forgotten>>

\* A box that no coroutine uses any more is dropped.
Drop(b) ==
  /\ boxes[b].mon \in {"ended", "failed"}
  /\ boxes' = [boxes EXCEPT ![b].mon = "gone", ![b].gc = 0, ![b].update = 0]
  /\ garbage' = garbage \o SelectSeq(<<boxes[b].gc, boxes[b].update>>, LAMBDA o : o # 0)
  /\ cache' = Forget(boxes[b].owner, b)
  /\ UNCHANGED <<ovars, mail, back, lost, asks, forgotten>>

\* The finaliser of a box of an object
releaseobj ==
  /\ garbage # <<>>
  /\ sref' = Add(sref, Head(garbage), -1)
  /\ garbage' = Tail(garbage)
  /\ UNCHANGED <<pool, objmap, dirty, watch, made, boxes, cache, mail, back, lost, asks, forgotten>>

Init ==
  /\ pool = 0 /\ objmap = [o \in Obj |-> "none"]
  /\ sref = [o \in Obj |-> 0] /\ dirty = [o \in Obj |-> FALSE]
  /\ watch = {} /\ made = 0 /\ boxes = <<>> /\ cache = [r \in Reader |-> 0]
  /\ mail = [r \in Reader |-> <<>>] /\ back = [r \in Reader |-> <<>>]
  /\ garbage = <<>> /\ lost = <<>> /\ asks = [r \in Reader |-> 0] /\ forgotten = {}

Next ==
  \/ new \/ delete \/ update \/ collectobj \/ releaseobj
  \/ \E r \in Reader : query(r) \/ Serve(r) \/ Answered(r)
  \/ \E b \in 1 .. Len(boxes) : getcobj(b) \/ Drop(b)

Spec == Init /\ [][Next]_vars

-----------------------------------------------------------------------------
\* Messages m with the object o in the streams f
Carried(f, types, o) ==
  {<<r, i>> \in Reader \X (1 .. 9) :
     i <= Len(f[r]) /\ f[r][i].t \in types /\ f[r][i].obj = o}

Times(s, o) == Cardinality({i \in DOMAIN s : s[i] = o})

\* Whoever can still touch an object counts: the name, an answer under way, one that
\* is not confirmed, a box, and what is garbage.
RefsExact ==
  \A o \in Obj : objmap[o] \in {"live", "true"} =>
    sref[o] = (IF pool = o THEN 1 ELSE 0)
              + Cardinality(Carried(back, {"object", "changed"}, o))
              + Cardinality(Carried(mail, {"confirm"}, o))
              + Cardinality({b \in DOMAIN boxes : boxes[b].gc = o})
              + Cardinality({b \in DOMAIN boxes : boxes[b].update = o})
              + Times(garbage, o) + Times(lost, o)

\* No reader, no message and no name has an object that was freed.
NoFreedObject ==
  /\ pool # 0 => objmap[pool] = "live"
  /\ \A b \in DOMAIN boxes : boxes[b].mon # "gone" =>
       \A o \in {boxes[b].obj, boxes[b].gc, boxes[b].update} \ {0} : objmap[o] # "freed"
  /\ \A o \in Obj : Carried(back, {"object", "changed"}, o) # {} => objmap[o] # "freed"

\* A box that waits for a change has the newest object, or knows of it; and one whose
\* monitor runs is waited for by the service or has a message under way, unless an
\* update failed.
UpToDate ==
  /\ \A b \in watch : pool = (IF boxes[b].update # 0 THEN boxes[b].update ELSE boxes[b].obj)
  /\ \A b \in DOMAIN boxes : boxes[b].mon = "call" =>
       \/ b \in watch \cup forgotten
       \/ \E f \in {mail, back} : \E i \in DOMAIN f[boxes[b].owner] : f[boxes[b].owner][i].box = b

=============================================================================
