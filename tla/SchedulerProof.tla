--------------------------- MODULE SchedulerProof ---------------------------
(***************************************************************************)
(* Proofs about module Scheduler for any services, workers, outside        *)
(* threads, weights and number of calls: the type invariant and the        *)
(* exactness of the reference counts.  Neither is inductive alone.  That a *)
(* count stays a natural number (TypeOK) needs that whoever releases a     *)
(* reference holds one (RefCountExact), and that needs to know which       *)
(* locals are set at which point of the code (Locals) and that a context   *)
(* that was never created has no references (Unmade).                      *)
(*                                                                         *)
(* The second half is about who owns a queue and a context: a message      *)
(* queue is in one place at a time, no queue with messages is stranded,    *)
(* nothing freed is pointed to, callbacks run alone and only after the     *)
(* launch, and G_NODE.total is exact.                                      *)
(***************************************************************************)
EXTENDS Scheduler, FiniteSetTheorems, SequenceTheorems, TLAPS

\* Where in the code each local pointer of a worker is set.
WorkerLocals(w) ==
  /\ pc[w] \in {"grab", "orphan", "first", "pop", "length", "run", "next", "requeue"} =>
       q[w] # None
  /\ ctx[w] # None <=>
       pc[w] \in {"first", "pop", "length", "run", "next", "requeue", "finish"}
  /\ pc[w] = "pop" => left[w] > 0
  /\ npc[w] # "none" => born[w] # None
  /\ npc[w] \notin {"none", "init", "discard"} => op[w] = "none"
  /\ dropq[w] # None => npc[w] = "none"

\* A thread holds a reference to its peer from the grab to the release.
CallLocals(t) == peer[t] # None <=> op[t] \in {"push", "unref"}

Locals == (\A w \in Worker : WorkerLocals(w)) /\ (\A t \in Thread : CallLocals(t))

\* A context that does not exist yet is referred to by nobody.
Unmade == \A s \in Service : life[s] = "none" => ref[s] = 0

RInv == TypeOK /\ Locals /\ Unmade /\ RefCountExact
-----------------------------------------------------------------------------
(* Counting references *)

\* Only finitely many threads can hold a reference.
LEMMA HoldersFinite == \A s \in Service : IsFiniteSet(Holders(s))
<1>1. IsFiniteSet(Thread)
  BY SchedulerAssumption, FS_Union DEF Thread
<1>2. IsFiniteSet(Maybe(Thread))
  BY <1>1, FS_AddElement DEF Maybe
<1>3. IsFiniteSet({"slot", "ctx", "peer", "born", "reserved"})
  <2>1. IsFiniteSet({} \cup {"slot"} \cup {"ctx"} \cup {"peer"} \cup {"born"} \cup {"reserved"})
    BY FS_EmptySet, FS_AddElement
  <2>2. {} \cup {"slot"} \cup {"ctx"} \cup {"peer"} \cup {"born"} \cup {"reserved"}
          = {"slot", "ctx", "peer", "born", "reserved"}
    OBVIOUS
  <2> QED
    BY <2>1, <2>2
<1>4. IsFiniteSet(Token)
  BY <1>2, <1>3, FS_Product DEF Token
<1> QED
  BY <1>4, FS_Subset DEF Holders

\* Whoever holds a reference is counted.
LEMMA HolderIsCounted ==
  ASSUME TypeOK, RefCountExact, NEW s \in Service, NEW k \in Holders(s)
  PROVE  ref[s] > 0
<1>1. IsFiniteSet(Holders(s)) /\ Holders(s) # {}
  BY HoldersFinite
<1>2. Cardinality(Holders(s)) # 0
  BY <1>1, FS_EmptySet
<1>3. ref[s] \in Nat /\ ref[s] = Cardinality(Holders(s))
  BY DEF TypeOK, RefCountExact
<1> QED
  BY <1>2, <1>3

\* A context with count 0 has no references.
LEMMA UncountedHasNoHolder ==
  ASSUME RefCountExact, NEW s \in Service, ref[s] = 0
  PROVE  Holders(s) = {}
  BY HoldersFinite, FS_EmptySet DEF RefCountExact

\* Nothing about references changes.
LEMMA RefSame ==
  ASSUME RefCountExact, ref' = ref, \A s \in Service : Holders(s)' = Holders(s)
  PROVE  RefCountExact'
  BY DEF RefCountExact

\* One reference is taken and the count incremented.
LEMMA RefUp ==
  ASSUME TypeOK, RefCountExact, NEW s \in Service, NEW k,
         k \notin Holders(s), Holders(s)' = Holders(s) \cup {k},
         \A r \in Service \ {s} : Holders(r)' = Holders(r),
         ref' = [ref EXCEPT ![s] = @ + 1]
  PROVE  RefCountExact'
<1>1. Cardinality(Holders(s) \cup {k}) = Cardinality(Holders(s)) + 1
  BY HoldersFinite, FS_AddElement
<1> QED
  BY <1>1 DEF RefCountExact, TypeOK

\* One reference is dropped and the count decremented.
LEMMA RefDown ==
  ASSUME TypeOK, RefCountExact, NEW s \in Service, NEW k,
         k \in Holders(s), Holders(s)' = Holders(s) \ {k},
         \A r \in Service \ {s} : Holders(r)' = Holders(r),
         ref' = [ref EXCEPT ![s] = @ - 1]
  PROVE  RefCountExact'
<1>1. Cardinality(Holders(s) \ {k}) = Cardinality(Holders(s)) - 1
  BY HoldersFinite, FS_RemoveElement
<1> QED
  BY <1>1 DEF RefCountExact, TypeOK

\* One reference passes from one holder to another.
LEMMA RefMove ==
  ASSUME TypeOK, RefCountExact, NEW s \in Service, NEW k, NEW l,
         k \in Holders(s), l \notin Holders(s), Holders(s)' = (Holders(s) \ {k}) \cup {l},
         \A r \in Service \ {s} : Holders(r)' = Holders(r),
         ref' = ref
  PROVE  RefCountExact'
<1>1. IsFiniteSet(Holders(s)) /\ Cardinality(Holders(s)) \in Nat
  BY HoldersFinite, FS_CardinalityType
<1>2. /\ IsFiniteSet(Holders(s) \ {k})
      /\ Cardinality(Holders(s) \ {k}) = Cardinality(Holders(s)) - 1
  BY <1>1, FS_RemoveElement
<1>3. Cardinality((Holders(s) \ {k}) \cup {l}) = Cardinality(Holders(s) \ {k}) + 1
  BY <1>2, FS_AddElement
<1>4. Cardinality(Holders(s)') = Cardinality(Holders(s))
  BY <1>1, <1>2, <1>3
<1> QED
  BY <1>4 DEF RefCountExact
-----------------------------------------------------------------------------
(* The ways in which the code takes, passes and drops a reference *)

\* A step that touches no pointer to a context.
LEMMA NoReference ==
  ASSUME slot' = slot, reserved' = reserved, ctx' = ctx, peer' = peer, ref' = ref,
         \A w \in Worker, r \in Service : Making(w, r)' <=> Making(w, r),
         RefCountExact
  PROVE  RefCountExact'
<1>1. ASSUME NEW s \in Service PROVE Holders(s)' = Holders(s)
  BY DEF Holders, Holds
<1> QED
  BY <1>1, RefSame

\* fengnet_handle_grab by a call.
LEMMA PeerUp ==
  ASSUME TypeOK, RefCountExact, NEW t \in Thread, NEW s \in Service, peer[t] = None,
         slot' = slot, reserved' = reserved, ctx' = ctx, born' = born, npc' = npc,
         peer' = [peer EXCEPT ![t] = s],
         ref' = [ref EXCEPT ![s] = @ + 1]
  PROVE  RefCountExact'
<1> DEFINE k == <<"peer", t>>
<1>1. k \in Token
  BY DEF Token, Maybe
<1>2. \A r \in Service : ~ Holds(k, r)
  BY SchedulerAssumption DEF Holds
<1>3. Holds(k, s)' /\ \A r \in Service \ {s} : ~ Holds(k, r)'
  BY DEF Holds, TypeOK
<1>4. \A r \in Service, l \in Token \ {k} : Holds(l, r)' <=> Holds(l, r)
  BY DEF Holds, TypeOK, Token, Making
<1> HIDE DEF k
<1>5. Holders(s)' = Holders(s) \cup {k} /\ k \notin Holders(s)
  BY <1>1, <1>2, <1>3, <1>4 DEF Holders
<1>6. \A r \in Service \ {s} : Holders(r)' = Holders(r)
  BY <1>2, <1>3, <1>4 DEF Holders
<1> QED
  BY <1>5, <1>6, RefUp

\* fengnet_context_release of a context a call has grabbed.
LEMMA PeerDown ==
  ASSUME TypeOK, RefCountExact, NEW t \in Thread, NEW s \in Service, peer[t] = s,
         slot' = slot, reserved' = reserved, ctx' = ctx, born' = born, npc' = npc,
         peer' = [peer EXCEPT ![t] = None],
         ref' = [ref EXCEPT ![s] = @ - 1]
  PROVE  RefCountExact'
<1> DEFINE k == <<"peer", t>>
<1>1. k \in Token
  BY DEF Token, Maybe
<1>2. \A r \in Service : ~ Holds(k, r)'
  BY SchedulerAssumption DEF Holds, TypeOK
<1>3. Holds(k, s) /\ \A r \in Service \ {s} : ~ Holds(k, r)
  BY DEF Holds, TypeOK
<1>4. \A r \in Service, l \in Token \ {k} : Holds(l, r)' <=> Holds(l, r)
  BY DEF Holds, TypeOK, Token, Making
<1> HIDE DEF k
<1>5. Holders(s)' = Holders(s) \ {k} /\ k \in Holders(s)
  BY <1>1, <1>2, <1>3, <1>4 DEF Holders
<1>6. \A r \in Service \ {s} : Holders(r)' = Holders(r)
  BY <1>2, <1>3, <1>4 DEF Holders
<1> QED
  BY <1>5, <1>6, RefDown

\* fengnet_handle_retire: the storage's reference passes to the caller.
LEMMA SlotToPeer ==
  ASSUME TypeOK, RefCountExact, NEW t \in Thread, NEW s \in slot, peer[t] = None,
         reserved' = reserved, ctx' = ctx, ref' = ref,
         \A w \in Worker, r \in Service : Making(w, r)' <=> Making(w, r),
         slot' = slot \ {s},
         peer' = [peer EXCEPT ![t] = s]
  PROVE  RefCountExact'
<1> DEFINE k == <<"slot", None>>
           l == <<"peer", t>>
<1>0. s \in Service
  BY DEF TypeOK
<1>1. k \in Token /\ l \in Token /\ k # l
  BY DEF Token, Maybe
<1>2. Holds(k, s) /\ ~ Holds(k, s)'
  BY DEF Holds
<1>3. \A r \in Service \ {s} : Holds(k, r)' <=> Holds(k, r)
  BY DEF Holds
<1>4. Holds(l, s)' /\ ~ Holds(l, s)
  BY <1>0, SchedulerAssumption DEF Holds, TypeOK
<1>5. \A r \in Service \ {s} : ~ Holds(l, r)' /\ ~ Holds(l, r)
  BY <1>0, SchedulerAssumption DEF Holds, TypeOK
<1>6. \A r \in Service, j \in Token \ {k, l} : Holds(j, r)' <=> Holds(j, r)
  BY DEF Holds, TypeOK, Token
<1> HIDE DEF k, l
<1>7. /\ k \in Holders(s) /\ l \notin Holders(s)
      /\ Holders(s)' = (Holders(s) \ {k}) \cup {l}
  BY <1>0, <1>1, <1>2, <1>4, <1>6 DEF Holders
<1>8. \A r \in Service \ {s} : Holders(r)' = Holders(r)
  BY <1>3, <1>5, <1>6 DEF Holders
<1> QED
  BY <1>0, <1>7, <1>8, RefMove

\* fengnet_handle_grab by the dispatch function.
LEMMA CtxUp ==
  ASSUME TypeOK, RefCountExact, NEW w \in Worker, NEW s \in Service, ctx[w] = None,
         slot' = slot, reserved' = reserved, peer' = peer, born' = born, npc' = npc,
         ctx' = [ctx EXCEPT ![w] = s],
         ref' = [ref EXCEPT ![s] = @ + 1]
  PROVE  RefCountExact'
<1> DEFINE k == <<"ctx", w>>
<1>1. k \in Token
  BY DEF Token, Maybe, Thread
<1>2. \A r \in Service : ~ Holds(k, r)
  BY SchedulerAssumption DEF Holds
<1>3. Holds(k, s)' /\ \A r \in Service \ {s} : ~ Holds(k, r)'
  BY DEF Holds, TypeOK
<1>4. \A r \in Service, l \in Token \ {k} : Holds(l, r)' <=> Holds(l, r)
  BY DEF Holds, TypeOK, Token, Making
<1> HIDE DEF k
<1>5. Holders(s)' = Holders(s) \cup {k} /\ k \notin Holders(s)
  BY <1>1, <1>2, <1>3, <1>4 DEF Holders
<1>6. \A r \in Service \ {s} : Holders(r)' = Holders(r)
  BY <1>2, <1>3, <1>4 DEF Holders
<1> QED
  BY <1>5, <1>6, RefUp

\* The release at the end of the dispatch function.
LEMMA CtxDown ==
  ASSUME TypeOK, RefCountExact, NEW w \in Worker, NEW s \in Service, ctx[w] = s,
         slot' = slot, reserved' = reserved, peer' = peer, born' = born, npc' = npc,
         ctx' = [ctx EXCEPT ![w] = None],
         ref' = [ref EXCEPT ![s] = @ - 1]
  PROVE  RefCountExact'
<1> DEFINE k == <<"ctx", w>>
<1>1. k \in Token
  BY DEF Token, Maybe, Thread
<1>2. \A r \in Service : ~ Holds(k, r)'
  BY SchedulerAssumption DEF Holds, TypeOK
<1>3. Holds(k, s) /\ \A r \in Service \ {s} : ~ Holds(k, r)
  BY DEF Holds, TypeOK
<1>4. \A r \in Service, l \in Token \ {k} : Holds(l, r)' <=> Holds(l, r)
  BY DEF Holds, TypeOK, Token, Making
<1> HIDE DEF k
<1>5. Holders(s)' = Holders(s) \ {k} /\ k \in Holders(s)
  BY <1>1, <1>2, <1>3, <1>4 DEF Holders
<1>6. \A r \in Service \ {s} : Holders(r)' = Holders(r)
  BY <1>2, <1>3, <1>4 DEF Holders
<1> QED
  BY <1>5, <1>6, RefDown

\* fengnet_context_new drops the creator's reference when init has returned.
LEMMA BornDown ==
  ASSUME TypeOK, RefCountExact, NEW w \in Worker, NEW s \in Service, Making(w, s),
         slot' = slot, reserved' = reserved, ctx' = ctx, peer' = peer, born' = born,
         NEW p, p \notin {"register", "init"},
         npc' = [npc EXCEPT ![w] = p],
         ref' = [ref EXCEPT ![s] = @ - 1]
  PROVE  RefCountExact'
<1> DEFINE k == <<"born", w>>
<1>1. k \in Token
  BY DEF Token, Maybe, Thread
<1>2. \A r \in Service : ~ Holds(k, r)'
  BY DEF Holds, TypeOK, Making
<1>3. Holds(k, s) /\ \A r \in Service \ {s} : ~ Holds(k, r)
  BY DEF Holds, TypeOK, Making
<1>4. \A r \in Service, l \in Token \ {k} : Holds(l, r)' <=> Holds(l, r)
  BY DEF Holds, TypeOK, Token, Making
<1> HIDE DEF k
<1>5. Holders(s)' = Holders(s) \ {k} /\ k \in Holders(s)
  BY <1>1, <1>2, <1>3, <1>4 DEF Holders
<1>6. \A r \in Service \ {s} : Holders(r)' = Holders(r)
  BY <1>2, <1>3, <1>4 DEF Holders
<1> QED
  BY <1>5, <1>6, RefDown

\* fengnet_context_reserve.
LEMMA ReservedUp ==
  ASSUME TypeOK, RefCountExact, NEW s \in Service, s \notin reserved,
         slot' = slot, ctx' = ctx, peer' = peer, born' = born, npc' = npc,
         reserved' = reserved \cup {s},
         ref' = [ref EXCEPT ![s] = @ + 1]
  PROVE  RefCountExact'
<1> DEFINE k == <<"reserved", None>>
<1>1. k \in Token
  BY DEF Token, Maybe
<1>2. ~ Holds(k, s) /\ Holds(k, s)'
  BY DEF Holds
<1>3. \A r \in Service \ {s} : Holds(k, r)' <=> Holds(k, r)
  BY DEF Holds
<1>4. \A r \in Service, l \in Token \ {k} : Holds(l, r)' <=> Holds(l, r)
  BY DEF Holds, Token, Making
<1> HIDE DEF k
<1>5. Holders(s)' = Holders(s) \cup {k} /\ k \notin Holders(s)
  BY <1>1, <1>2, <1>4 DEF Holders
<1>6. \A r \in Service \ {s} : Holders(r)' = Holders(r)
  BY <1>3, <1>4 DEF Holders
<1> QED
  BY <1>5, <1>6, RefUp

\* fengnet_context_new: a new context starts with two references, the handle
\* storage's and the creator's.
LEMMA RefNew ==
  ASSUME TypeOK, RefCountExact, NEW w \in Worker, NEW s \in Service, ref[s] = 0,
         npc[w] = "none",
         reserved' = reserved, ctx' = ctx, peer' = peer,
         slot' = slot \cup {s},
         born' = [born EXCEPT ![w] = s],
         npc' = [npc EXCEPT ![w] = "register"],
         ref' = [ref EXCEPT ![s] = 2]
  PROVE  RefCountExact'
<1> DEFINE k == <<"slot", None>>
           l == <<"born", w>>
<1>1. k \in Token /\ l \in Token /\ k # l
  BY DEF Token, Maybe, Thread
<1>2. Holders(s) = {}
  BY UncountedHasNoHolder
<1>3. Holds(k, s)' /\ Holds(l, s)'
  BY DEF Holds, TypeOK, Making
<1>4. \A r \in Service \ {s} : (Holds(k, r)' <=> Holds(k, r)) /\ ~ Holds(l, r)' /\ ~ Holds(l, r)
  BY DEF Holds, TypeOK, Making
<1>5. \A r \in Service, j \in Token \ {k, l} : Holds(j, r)' <=> Holds(j, r)
  BY DEF Holds, TypeOK, Token, Making
<1> HIDE DEF k, l
<1>6. Holders(s)' = (Holders(s) \cup {k}) \cup {l}
  BY <1>1, <1>2, <1>3, <1>5 DEF Holders
<1>7. Cardinality(Holders(s)') = 2
  <2>1. IsFiniteSet(Holders(s)) /\ Cardinality(Holders(s)) = 0
    BY <1>2, FS_EmptySet
  <2>2. k \notin Holders(s) /\ l \notin Holders(s) \cup {k}
    BY <1>1, <1>2
  <2> DEFINE one == Holders(s) \cup {k}
  <2>3. IsFiniteSet(one) /\ Cardinality(one) = 1 /\ l \notin one
    BY <2>1, <2>2, FS_AddElement
  <2> HIDE DEF one
  <2>4. Cardinality(one \cup {l}) = Cardinality(one) + 1
    BY <2>3, FS_AddElement
  <2> QED
    BY <1>6, <2>3, <2>4 DEF one
<1>8. \A r \in Service \ {s} : Holders(r)' = Holders(r)
  BY <1>4, <1>5 DEF Holders
<1> QED
  BY <1>7, <1>8 DEF RefCountExact, TypeOK
-----------------------------------------------------------------------------
\* What the proofs of the steps use of the constants.
LEMMA Names == None \notin Service /\ Monitor \in Maybe(Service)
  BY SchedulerAssumption
-----------------------------------------------------------------------------
(* Every step preserves the invariant: one lemma per action *)

\* A context somebody refers to has been created, and its count is positive.
LEMMA ReferredIsMade ==
  ASSUME RInv
  PROVE  /\ \A s \in slot \cup reserved : ref[s] > 0 /\ life[s] # "none"
         /\ \A w \in Worker : ctx[w] # None => ref[ctx[w]] > 0 /\ life[ctx[w]] # "none"
         /\ \A t \in Thread : peer[t] # None => ref[peer[t]] > 0 /\ life[peer[t]] # "none"
         /\ \A w \in Worker : npc[w] \in {"register", "init"} =>
               ref[born[w]] > 0 /\ life[born[w]] # "none"
<1>1. ASSUME NEW s \in Service, NEW k \in Token, Holds(k, s)
      PROVE  ref[s] > 0 /\ life[s] # "none"
  <2>1. k \in Holders(s)
    BY <1>1 DEF Holders
  <2>2. ref[s] > 0
    BY <2>1, HolderIsCounted DEF RInv
  <2> QED
    BY <2>2 DEF RInv, Unmade
<1>2. ASSUME NEW s \in slot \cup reserved PROVE ref[s] > 0 /\ life[s] # "none"
  <2>1. s \in Service
    BY DEF RInv, TypeOK
  <2>2. /\ <<"slot", None>> \in Token /\ <<"reserved", None>> \in Token
        /\ Holds(<<"slot", None>>, s) \/ Holds(<<"reserved", None>>, s)
    BY DEF Token, Maybe, Holds
  <2> QED
    BY <2>1, <2>2, <1>1
<1>3. ASSUME NEW w \in Worker, ctx[w] # None
      PROVE  ref[ctx[w]] > 0 /\ life[ctx[w]] # "none"
  <2>1. ctx[w] \in Service
    BY <1>3 DEF RInv, TypeOK, Maybe
  <2>2. <<"ctx", w>> \in Token /\ Holds(<<"ctx", w>>, ctx[w])
    BY DEF Token, Maybe, Thread, Holds
  <2> QED
    BY <2>1, <2>2, <1>1
<1>4. ASSUME NEW t \in Thread, peer[t] # None
      PROVE  ref[peer[t]] > 0 /\ life[peer[t]] # "none"
  <2>1. peer[t] \in Service
    BY <1>4 DEF RInv, TypeOK, Maybe
  <2>2. <<"peer", t>> \in Token /\ Holds(<<"peer", t>>, peer[t])
    BY DEF Token, Maybe, Holds
  <2> QED
    BY <2>1, <2>2, <1>1
<1>5. ASSUME NEW w \in Worker, npc[w] \in {"register", "init"}
      PROVE  ref[born[w]] > 0 /\ life[born[w]] # "none"
  <2>1. born[w] \in Service
    BY <1>5 DEF RInv, TypeOK, Maybe, Locals, WorkerLocals
  <2>2. <<"born", w>> \in Token /\ Holds(<<"born", w>>, born[w])
    BY <1>5 DEF Token, Maybe, Thread, Holds, Making
  <2> QED
    BY <2>1, <2>2, <1>1
<1> QED
  BY <1>2, <1>3, <1>4, <1>5

\* Send preserves the invariant.
LEMMA SendStep ==
  ASSUME RInv, NEW t \in Thread, NEW s \in Service, Send(t, s)
  PROVE  RInv'
<1>a. Self(t) \in Maybe(Service)
  BY DEF Self, RInv, TypeOK, Maybe, Thread
<1>1. TypeOK'
  BY <1>a, Names
     DEF Send, workVars, mqVars, newVars, Registered, Calling, Free, RInv, TypeOK,
         Maybe, PCs, NPCs, Ops
<1>2. Locals'
  BY <1>a, Names
     DEF Send, workVars, mqVars, newVars, Registered, Calling, Free, Self, RInv,
         TypeOK, Locals, WorkerLocals, CallLocals, Maybe, PCs, NPCs, Ops
<1>3. Unmade'
  BY ReferredIsMade, Names, <1>a
     DEF Send, workVars, mqVars, newVars, Registered, Calling, Free, Self, RInv,
         Unmade, TypeOK, Locals, WorkerLocals, CallLocals, Maybe
<1>4. RefCountExact'
  BY PeerUp
     DEF Send, workVars, mqVars, newVars, Registered, Calling, Free, Self, RInv,
         Locals, WorkerLocals, CallLocals
<1> QED
  BY <1>1, <1>2, <1>3, <1>4 DEF RInv

\* PushMessage preserves the invariant.
LEMMA PushMessageStep ==
  ASSUME RInv, NEW t \in Thread, PushMessage(t)
  PROVE  RInv'
<1>a. peer[t] \in Service
  BY DEF PushMessage, RInv, Locals, CallLocals, TypeOK, Maybe
<1>b. Append(mq[peer[t]], letter[t]) \in Seq(Maybe(Service)) /\ Append(global, peer[t]) \in Seq(Service)
  BY <1>a, AppendProperties DEF RInv, TypeOK
<1>1. TypeOK'
  <2>1. mq' \in [Service -> Seq(Maybe(Service))]
    BY <1>a, <1>b, Names
       DEF PushMessage, workVars, ctxVars, newVars, fengnet_mq_push, RInv, TypeOK,
           Maybe, PCs, NPCs, Ops
  <2>2. in_global' \in [Service -> {0, 1}]
    BY <1>a, <1>b, Names
       DEF PushMessage, workVars, ctxVars, newVars, fengnet_mq_push, RInv, TypeOK,
           Maybe, PCs, NPCs, Ops
  <2>3. global' \in Seq(Service)
    BY <1>a, <1>b, Names
       DEF PushMessage, workVars, ctxVars, newVars, fengnet_mq_push, RInv, TypeOK,
           Maybe, PCs, NPCs, Ops
  <2>4. q' \in [Worker -> Maybe(Service)]
    BY <1>a, <1>b, Names
       DEF PushMessage, workVars, ctxVars, newVars, fengnet_mq_push, RInv, TypeOK,
           Maybe, PCs, NPCs, Ops
  <2>5. op' \in [Thread -> Ops]
    BY <1>a, <1>b, Names
       DEF PushMessage, workVars, ctxVars, newVars, fengnet_mq_push, RInv, TypeOK,
           Maybe, PCs, NPCs, Ops
  <2>6. letter' \in [Thread -> Maybe(Service)]
    BY <1>a, <1>b, Names
       DEF PushMessage, workVars, ctxVars, newVars, fengnet_mq_push, RInv, TypeOK,
           Maybe, PCs, NPCs, Ops
  <2> QED
    BY <2>1, <2>2, <2>3, <2>4, <2>5, <2>6
       DEF PushMessage, workVars, ctxVars, newVars, fengnet_mq_push, RInv, TypeOK
<1>2. Locals'
  BY <1>a, <1>b, Names
     DEF PushMessage, workVars, ctxVars, newVars, fengnet_mq_push, RInv, TypeOK,
         Locals, WorkerLocals, CallLocals, Maybe, PCs, NPCs, Ops
<1>3. Unmade'
  BY DEF PushMessage, workVars, ctxVars, newVars, fengnet_mq_push, RInv, Unmade
<1>4. RefCountExact'
  BY NoReference
     DEF PushMessage, workVars, ctxVars, newVars, fengnet_mq_push, RInv, Making
<1> QED
  BY <1>1, <1>2, <1>3, <1>4 DEF RInv

\* Borrow preserves the invariant.
LEMMA BorrowStep ==
  ASSUME RInv, NEW t \in Thread, NEW s \in Service, Borrow(t, s)
  PROVE  RInv'
<1>1. TypeOK'
  BY Names
     DEF Borrow, workVars, mqVars, newVars, Registered, Calling, Free, RInv,
         TypeOK, Maybe, PCs, NPCs, Ops
<1>2. Locals'
  BY Names
     DEF Borrow, workVars, mqVars, newVars, Registered, Calling, Free, RInv,
         TypeOK, Locals, WorkerLocals, CallLocals, Maybe, PCs, NPCs, Ops
<1>3. Unmade'
  BY ReferredIsMade, Names
     DEF Borrow, workVars, mqVars, newVars, Registered, Calling, Free, RInv,
         Unmade, TypeOK, Locals, WorkerLocals, CallLocals, Maybe
<1>4. RefCountExact'
  BY PeerUp
     DEF Borrow, workVars, mqVars, newVars, Registered, Calling, Free, RInv,
         Locals, WorkerLocals, CallLocals
<1> QED
  BY <1>1, <1>2, <1>3, <1>4 DEF RInv

\* ReleasePeer preserves the invariant.
LEMMA ReleasePeerStep ==
  ASSUME RInv, NEW t \in Thread, ReleasePeer(t)
  PROVE  RInv'
<1>1. TypeOK'
  <2>1. ref' \in [Service -> Nat]
    BY Names, ReferredIsMade
       DEF ReleasePeer, workVars, mqVars, newVars, fengnet_context_release, RInv,
           TypeOK, Maybe, PCs, NPCs, Ops, Locals, WorkerLocals, CallLocals
  <2>2. op' \in [Thread -> Ops]
    BY Names, ReferredIsMade
       DEF ReleasePeer, workVars, mqVars, newVars, fengnet_context_release, RInv,
           TypeOK, Maybe, PCs, NPCs, Ops, Locals, WorkerLocals, CallLocals
  <2>3. cont' \in [Thread -> {"none", "retire", "abort"}]
    BY Names, ReferredIsMade
       DEF ReleasePeer, workVars, mqVars, newVars, fengnet_context_release, RInv,
           TypeOK, Maybe, PCs, NPCs, Ops, Locals, WorkerLocals, CallLocals
  <2>4. peer' \in [Thread -> Maybe(Service)]
    BY Names, ReferredIsMade
       DEF ReleasePeer, workVars, mqVars, newVars, fengnet_context_release, RInv,
           TypeOK, Maybe, PCs, NPCs, Ops, Locals, WorkerLocals, CallLocals
  <2>5. del' \in [Thread -> Maybe(Service)]
    BY Names, ReferredIsMade
       DEF ReleasePeer, workVars, mqVars, newVars, fengnet_context_release, RInv,
           TypeOK, Maybe, PCs, NPCs, Ops, Locals, WorkerLocals, CallLocals
  <2> QED
    BY <2>1, <2>2, <2>3, <2>4, <2>5
       DEF ReleasePeer, workVars, mqVars, newVars, fengnet_context_release, RInv,
           TypeOK
<1>2. Locals'
  <2>1. ASSUME NEW v \in Worker PROVE WorkerLocals(v)'
    BY Names, <2>1
       DEF ReleasePeer, workVars, mqVars, newVars, fengnet_context_release, RInv,
           TypeOK, Locals, WorkerLocals, CallLocals, Maybe, PCs, NPCs, Ops
  <2>2. ASSUME NEW u \in Thread PROVE CallLocals(u)'
    BY Names, <2>2
       DEF ReleasePeer, workVars, mqVars, newVars, fengnet_context_release, RInv,
           TypeOK, Locals, WorkerLocals, CallLocals, Maybe, PCs, NPCs, Ops
  <2> QED
    BY <2>1, <2>2 DEF Locals
<1>3. Unmade'
  BY ReferredIsMade, Names
     DEF ReleasePeer, workVars, mqVars, newVars, fengnet_context_release, RInv,
         Unmade, TypeOK, Locals, WorkerLocals, CallLocals, Maybe
<1>4. RefCountExact'
  <2>1. peer[t] \in Service
    BY DEF ReleasePeer, RInv, Locals, WorkerLocals, CallLocals, TypeOK, Maybe
  <2> QED
    BY <2>1, PeerDown DEF ReleasePeer, workVars, mqVars, newVars, fengnet_context_release, RInv
<1> QED
  BY <1>1, <1>2, <1>3, <1>4 DEF RInv

\* MarkRelease preserves the invariant.
LEMMA MarkReleaseStep ==
  ASSUME RInv, NEW t \in Thread, MarkRelease(t)
  PROVE  RInv'
<1>1. TypeOK'
  BY Names, AppendProperties
     DEF MarkRelease, workVars, opVars, newVars, RInv, TypeOK, Maybe, PCs, NPCs, Ops
<1>2. Locals'
  BY Names
     DEF MarkRelease, workVars, opVars, newVars, RInv, TypeOK, Locals,
         WorkerLocals, CallLocals, Maybe, PCs, NPCs, Ops
<1>3. Unmade'
  BY DEF MarkRelease, workVars, opVars, newVars, RInv, Unmade
<1>4. RefCountExact'
  BY NoReference
     DEF MarkRelease, workVars, opVars, newVars, RInv, Making
<1> QED
  BY <1>1, <1>2, <1>3, <1>4 DEF RInv

\* DeleteContext preserves the invariant.
LEMMA DeleteContextStep ==
  ASSUME RInv, NEW t \in Thread, DeleteContext(t)
  PROVE  RInv'
<1>1. TypeOK'
  BY Names
     DEF DeleteContext, workVars, opVars, mqVars, newVars, RInv, TypeOK, Maybe,
         PCs, NPCs, Ops
<1>2. Locals'
  BY Names
     DEF DeleteContext, workVars, opVars, mqVars, newVars, RInv, TypeOK, Locals,
         WorkerLocals, CallLocals, Maybe, PCs, NPCs, Ops
<1>3. Unmade'
  BY DEF DeleteContext, workVars, opVars, mqVars, newVars, RInv, Unmade
<1>4. RefCountExact'
  BY NoReference
     DEF DeleteContext, workVars, opVars, mqVars, newVars, RInv, Making
<1> QED
  BY <1>1, <1>2, <1>3, <1>4 DEF RInv

\* Kill preserves the invariant.
LEMMA KillStep ==
  ASSUME RInv, NEW t \in Thread, NEW s \in Service, Kill(t, s)
  PROVE  RInv'
<1>1. op[t] = "none" /\ peer[t] = None /\ (t \in Worker => npc[t] \in {"none", "init"})
  BY DEF Kill, workVars, mqVars, newVars, Calling, Free, RInv, TypeOK, Locals,
         WorkerLocals, CallLocals
<1>2. CASE Monitor # None /\ Registered(Monitor)
  <2>1. /\ Monitor \in Service
        /\ victim' = [victim EXCEPT ![t] = s]
        /\ calls' = calls + 1
        /\ ref' = [ref EXCEPT ![Monitor] = @ + 1]
        /\ op' = [op EXCEPT ![t] = "push"]
        /\ cont' = [cont EXCEPT ![t] = "retire"]
        /\ peer' = [peer EXCEPT ![t] = Monitor]
        /\ letter' = [letter EXCEPT ![t] = s]
        /\ UNCHANGED <<slot, init, life, reserved, total, mq, mqlife, in_global,
                        release, global, pc, q, ctx, nq, left, npc, born, dropq, del>>
    BY <1>2, Names
       DEF Kill, workVars, mqVars, newVars, Calling, Free, Registered, RInv, TypeOK,
           Maybe, ctxVars, opVars
  <2>2. TypeOK'
    BY <2>1, <1>1 DEF RInv, TypeOK, Maybe, PCs, NPCs, Ops
  <2>3. Locals'
    <3>1. ASSUME NEW v \in Worker PROVE WorkerLocals(v)'
      BY <2>1, <1>1, Names DEF RInv, TypeOK, Locals, WorkerLocals
    <3>2. ASSUME NEW u \in Thread PROVE CallLocals(u)'
      BY <2>1, <1>1, Names DEF RInv, TypeOK, Locals, CallLocals
    <3> QED
      BY <3>1, <3>2 DEF Locals
  <2>4. Unmade'
    <3>1. life[Monitor] # "none"
      BY <1>2, ReferredIsMade DEF Registered
    <3> QED
      BY <2>1, <3>1 DEF RInv, Unmade, TypeOK
  <2>5. RefCountExact'
    BY <2>1, <1>1, PeerUp DEF RInv
  <2> QED
    BY <2>2, <2>3, <2>4, <2>5 DEF RInv
<1>3. CASE ~ (Monitor # None /\ Registered(Monitor))
  <2>1. /\ victim' = [victim EXCEPT ![t] = s]
        /\ calls' = calls + 1
        /\ op' = [op EXCEPT ![t] = "retire"]
        /\ UNCHANGED <<slot, ref, init, life, reserved, total, mq, mqlife,
                        in_global, release, global, pc, q, ctx, nq, left, npc,
                        born, dropq, cont, peer, letter, del>>
    BY <1>3, Names
       DEF Kill, workVars, mqVars, newVars, Calling, Free, Registered, RInv, TypeOK,
           Maybe, ctxVars, opVars
  <2>2. TypeOK'
    BY <2>1, <1>1 DEF RInv, TypeOK, Maybe, PCs, NPCs, Ops
  <2>3. Locals'
    <3>1. ASSUME NEW v \in Worker PROVE WorkerLocals(v)'
      BY <2>1, <1>1, Names DEF RInv, TypeOK, Locals, WorkerLocals
    <3>2. ASSUME NEW u \in Thread PROVE CallLocals(u)'
      BY <2>1, <1>1, Names DEF RInv, TypeOK, Locals, CallLocals
    <3> QED
      BY <3>1, <3>2 DEF Locals
  <2>4. Unmade'
    BY <2>1 DEF RInv, Unmade
  <2>5. RefCountExact'
    BY <2>1, <1>1, NoReference DEF RInv, Making, TypeOK
  <2> QED
    BY <2>2, <2>3, <2>4, <2>5 DEF RInv
<1> QED
  BY <1>2, <1>3

\* Retire preserves the invariant.
LEMMA RetireStep ==
  ASSUME RInv, NEW t \in Thread, Retire(t)
  PROVE  RInv'
<1>1. op[t] = "retire" /\ peer[t] = None /\ victim[t] \in Maybe(Service)
  BY DEF Retire, workVars, mqVars, newVars, TakeFromStorage, RInv, TypeOK, Locals,
         WorkerLocals, CallLocals
<1>2. CASE Registered(victim[t])
  <2>1. /\ victim[t] \in Service
        /\ victim' = [victim EXCEPT ![t] = None]
        /\ slot' = slot \ {victim[t]}
        /\ peer' = [peer EXCEPT ![t] = victim[t]]
        /\ op' = [op EXCEPT ![t] = "unref"]
        /\ cont' = [cont EXCEPT ![t] = "none"]
        /\ UNCHANGED <<ref, init, life, reserved, total, mq, mqlife, in_global,
                        release, global, pc, q, ctx, nq, left, npc, born, dropq,
                        letter, del, calls>>
    BY <1>2, Names
       DEF Retire, workVars, mqVars, newVars, TakeFromStorage, Registered, RInv,
           TypeOK, Maybe, ctxVars, opVars
  <2>2. TypeOK'
    BY <2>1, <1>1 DEF RInv, TypeOK, Maybe, PCs, NPCs, Ops
  <2>3. Locals'
    <3>1. ASSUME NEW v \in Worker PROVE WorkerLocals(v)'
      BY <2>1, <1>1, Names DEF RInv, TypeOK, Locals, WorkerLocals
    <3>2. ASSUME NEW u \in Thread PROVE CallLocals(u)'
      BY <2>1, <1>1, Names DEF RInv, TypeOK, Locals, CallLocals
    <3> QED
      BY <3>1, <3>2 DEF Locals
  <2>4. Unmade'
    BY <2>1 DEF RInv, Unmade
  <2>5. RefCountExact'
    BY <1>2, <2>1, <1>1, SlotToPeer DEF RInv, Making, TypeOK, Registered
  <2> QED
    BY <2>2, <2>3, <2>4, <2>5 DEF RInv
<1>3. CASE ~ (Registered(victim[t]))
  <2>1. /\ victim' = [victim EXCEPT ![t] = None]
        /\ op' = [op EXCEPT ![t] = "none"]
        /\ UNCHANGED <<slot, ref, init, life, reserved, total, mq, mqlife,
                        in_global, release, global, pc, q, ctx, nq, left, npc,
                        born, dropq, cont, peer, letter, del, calls>>
    BY <1>3, Names
       DEF Retire, workVars, mqVars, newVars, TakeFromStorage, Registered, RInv,
           TypeOK, Maybe, ctxVars, opVars
  <2>2. TypeOK'
    BY <2>1, <1>1 DEF RInv, TypeOK, Maybe, PCs, NPCs, Ops
  <2>3. Locals'
    <3>1. ASSUME NEW v \in Worker PROVE WorkerLocals(v)'
      BY <2>1, <1>1, Names DEF RInv, TypeOK, Locals, WorkerLocals
    <3>2. ASSUME NEW u \in Thread PROVE CallLocals(u)'
      BY <2>1, <1>1, Names DEF RInv, TypeOK, Locals, CallLocals
    <3> QED
      BY <3>1, <3>2 DEF Locals
  <2>4. Unmade'
    BY <2>1 DEF RInv, Unmade
  <2>5. RefCountExact'
    BY <2>1, <1>1, NoReference DEF RInv, Making, TypeOK
  <2> QED
    BY <2>2, <2>3, <2>4, <2>5 DEF RInv
<1> QED
  BY <1>2, <1>3

\* Abort preserves the invariant.
LEMMA AbortStep ==
  ASSUME RInv, NEW t \in Thread, Abort(t)
  PROVE  RInv'
<1>1. TypeOK'
  BY Names
     DEF Abort, workVars, mqVars, ctxVars, newVars, Calling, Free, RInv, TypeOK,
         Maybe, PCs, NPCs, Ops
<1>2. Locals'
  BY Names
     DEF Abort, workVars, mqVars, ctxVars, newVars, Calling, Free, RInv, TypeOK,
         Locals, WorkerLocals, CallLocals, Maybe, PCs, NPCs, Ops
<1>3. Unmade'
  BY DEF Abort, workVars, mqVars, ctxVars, newVars, Calling, Free, RInv, Unmade
<1>4. RefCountExact'
  BY NoReference
     DEF Abort, workVars, mqVars, ctxVars, newVars, Calling, Free, RInv, Making
<1> QED
  BY <1>1, <1>2, <1>3, <1>4 DEF RInv

\* AbortRetire preserves the invariant.
LEMMA AbortRetireStep ==
  ASSUME RInv, NEW t \in Thread, NEW s \in Service, AbortRetire(t, s)
  PROVE  RInv'
<1>1. TypeOK'
  BY Names
     DEF AbortRetire, workVars, mqVars, newVars, Registered, TakeFromStorage, RInv,
         TypeOK, Maybe, PCs, NPCs, Ops
<1>2. Locals'
  BY Names
     DEF AbortRetire, workVars, mqVars, newVars, Registered, TakeFromStorage, RInv,
         TypeOK, Locals, WorkerLocals, CallLocals, Maybe, PCs, NPCs, Ops
<1>3. Unmade'
  BY DEF AbortRetire, workVars, mqVars, newVars, Registered, TakeFromStorage, RInv,
         Unmade
<1>4. RefCountExact'
  BY SlotToPeer
     DEF AbortRetire, workVars, mqVars, newVars, Registered, TakeFromStorage, RInv,
         Locals, WorkerLocals, CallLocals, Making
<1> QED
  BY <1>1, <1>2, <1>3, <1>4 DEF RInv

\* AbortPass preserves the invariant.
LEMMA AbortPassStep ==
  ASSUME RInv, NEW t \in Thread, AbortPass(t)
  PROVE  RInv'
<1>1. TypeOK'
  BY Names
     DEF AbortPass, workVars, mqVars, ctxVars, newVars, RInv, TypeOK, Maybe, PCs,
         NPCs, Ops
<1>2. Locals'
  BY Names
     DEF AbortPass, workVars, mqVars, ctxVars, newVars, RInv, TypeOK, Locals,
         WorkerLocals, CallLocals, Maybe, PCs, NPCs, Ops
<1>3. Unmade'
  BY DEF AbortPass, workVars, mqVars, ctxVars, newVars, RInv, Unmade
<1>4. RefCountExact'
  BY NoReference
     DEF AbortPass, workVars, mqVars, ctxVars, newVars, RInv, Making
<1> QED
  BY <1>1, <1>2, <1>3, <1>4 DEF RInv

\* AbortReturn preserves the invariant.
LEMMA AbortReturnStep ==
  ASSUME RInv, NEW t \in Thread, AbortReturn(t)
  PROVE  RInv'
<1>1. TypeOK'
  BY Names
     DEF AbortReturn, workVars, mqVars, ctxVars, newVars, RInv, TypeOK, Maybe, PCs,
         NPCs, Ops
<1>2. Locals'
  BY Names
     DEF AbortReturn, workVars, mqVars, ctxVars, newVars, RInv, TypeOK, Locals,
         WorkerLocals, CallLocals, Maybe, PCs, NPCs, Ops
<1>3. Unmade'
  BY DEF AbortReturn, workVars, mqVars, ctxVars, newVars, RInv, Unmade
<1>4. RefCountExact'
  BY NoReference
     DEF AbortReturn, workVars, mqVars, ctxVars, newVars, RInv, Making
<1> QED
  BY <1>1, <1>2, <1>3, <1>4 DEF RInv

\* SendRemote preserves the invariant.
LEMMA SendRemoteStep ==
  ASSUME RInv, NEW t \in Thread, NEW s \in Service, SendRemote(t, s)
  PROVE  RInv'
<1>a. Self(t) \in Maybe(Service)
  BY DEF Self, RInv, TypeOK, Maybe, Thread
<1>1. TypeOK'
  BY <1>a, Names
     DEF SendRemote, workVars, opVars, ctxVars, newVars, fengnet_mq_push, Calling,
         Free, RInv, TypeOK, Maybe, PCs, NPCs, Ops
<1>2. Locals'
  BY <1>a, Names
     DEF SendRemote, workVars, opVars, ctxVars, newVars, fengnet_mq_push, Calling,
         Free, Self, RInv, TypeOK, Locals, WorkerLocals, CallLocals, Maybe, PCs,
         NPCs, Ops
<1>3. Unmade'
  BY DEF SendRemote, workVars, opVars, ctxVars, newVars, fengnet_mq_push, Calling,
         Free, Self, RInv, Unmade
<1>4. RefCountExact'
  BY NoReference
     DEF SendRemote, workVars, opVars, ctxVars, newVars, fengnet_mq_push, Calling,
         Free, Self, RInv, Making
<1> QED
  BY <1>1, <1>2, <1>3, <1>4 DEF RInv

\* NewRegister preserves the invariant.
LEMMA NewRegisterStep ==
  ASSUME RInv, NEW w \in Worker, NEW s \in Service, NewRegister(w, s)
  PROVE  RInv'
<1>0. w \in Thread
  BY DEF Thread
<1>1. TypeOK'
  BY <1>0, Names
     DEF NewRegister, workVars, opVars, mqVars, Calling, Free, RInv, TypeOK, Maybe,
         PCs, NPCs, Ops
<1>2. Locals'
  BY <1>0, Names
     DEF NewRegister, workVars, opVars, mqVars, Calling, Free, RInv, TypeOK,
         Locals, WorkerLocals, CallLocals, Maybe, PCs, NPCs, Ops
<1>3. Unmade'
  BY ReferredIsMade, Names, <1>0
     DEF NewRegister, workVars, opVars, mqVars, Calling, Free, RInv, Unmade,
         TypeOK, Locals, WorkerLocals, CallLocals, Maybe
<1>4. RefCountExact'
  BY RefNew
     DEF NewRegister, workVars, opVars, mqVars, Calling, Free, RInv, Unmade
<1> QED
  BY <1>1, <1>2, <1>3, <1>4 DEF RInv

\* NewQueue preserves the invariant.
LEMMA NewQueueStep ==
  ASSUME RInv, NEW w \in Worker, NewQueue(w)
  PROVE  RInv'
<1>0. w \in Thread
  BY DEF Thread
<1>1. TypeOK'
  <2>1. life' \in [Service -> {"none", "live", "dying", "freed"}]
    BY <1>0, Names
       DEF NewQueue, workVars, opVars, RInv, TypeOK, Maybe, PCs, NPCs, Ops
  <2>2. total' \in Int
    BY <1>0, Names
       DEF NewQueue, workVars, opVars, RInv, TypeOK, Maybe, PCs, NPCs, Ops
  <2>3. mqlife' \in [Service -> {"none", "live", "freed"}]
    BY <1>0, Names
       DEF NewQueue, workVars, opVars, RInv, TypeOK, Maybe, PCs, NPCs, Ops
  <2>4. in_global' \in [Service -> {0, 1}]
    BY <1>0, Names
       DEF NewQueue, workVars, opVars, RInv, TypeOK, Maybe, PCs, NPCs, Ops
  <2>5. global' \in Seq(Service)
    BY <1>0, Names
       DEF NewQueue, workVars, opVars, RInv, TypeOK, Maybe, PCs, NPCs, Ops
  <2>6. pc' \in [Worker -> PCs]
    BY <1>0, Names
       DEF NewQueue, workVars, opVars, RInv, TypeOK, Maybe, PCs, NPCs, Ops
  <2>7. npc' \in [Worker -> NPCs]
    BY <1>0, Names
       DEF NewQueue, workVars, opVars, RInv, TypeOK, Maybe, PCs, NPCs, Ops
  <2> QED
    BY <2>1, <2>2, <2>3, <2>4, <2>5, <2>6, <2>7 DEF NewQueue, workVars, opVars, RInv, TypeOK
<1>2. Locals'
  BY <1>0, Names
     DEF NewQueue, workVars, opVars, RInv, TypeOK, Locals, WorkerLocals,
         CallLocals, Maybe, PCs, NPCs, Ops
<1>3. Unmade'
  BY DEF NewQueue, workVars, opVars, RInv, Unmade
<1>4. RefCountExact'
  BY NoReference
     DEF NewQueue, workVars, opVars, RInv, Making, TypeOK
<1> QED
  BY <1>1, <1>2, <1>3, <1>4 DEF RInv

\* Reserve preserves the invariant.
LEMMA ReserveStep ==
  ASSUME RInv, NEW w \in Worker, Reserve(w)
  PROVE  RInv'
<1>0. w \in Thread
  BY DEF Thread
<1>a. born[w] \in Service
  BY DEF Reserve, RInv, Locals, WorkerLocals, TypeOK, Maybe
<1>1. TypeOK'
  <2>1. ref' \in [Service -> Nat]
    BY <1>0, <1>a, Names
       DEF Reserve, workVars, opVars, mqVars, newVars, Free, RInv, TypeOK, Maybe,
           PCs, NPCs, Ops
  <2>2. reserved' \subseteq Service
    BY <1>0, <1>a, Names
       DEF Reserve, workVars, opVars, mqVars, newVars, Free, RInv, TypeOK, Maybe,
           PCs, NPCs, Ops
  <2>3. total' \in Int
    BY <1>0, <1>a, Names
       DEF Reserve, workVars, opVars, mqVars, newVars, Free, RInv, TypeOK, Maybe,
           PCs, NPCs, Ops
  <2> QED
    BY <2>1, <2>2, <2>3
       DEF Reserve, workVars, opVars, mqVars, newVars, Free, RInv, TypeOK
<1>2. Locals'
  BY <1>0, <1>a, Names
     DEF Reserve, workVars, opVars, mqVars, newVars, Free, RInv, TypeOK, Locals,
         WorkerLocals, CallLocals, Maybe, PCs, NPCs, Ops
<1>3. Unmade'
  BY ReferredIsMade, Names, <1>0, <1>a
     DEF Reserve, workVars, opVars, mqVars, newVars, Free, RInv, Unmade, TypeOK,
         Locals, WorkerLocals, CallLocals, Maybe
<1>4. RefCountExact'
  BY ZenonT(30), ReservedUp
     DEF Reserve, workVars, opVars, mqVars, newVars, Free, RInv, Locals,
         WorkerLocals, CallLocals, TypeOK, Maybe
<1> QED
  BY <1>1, <1>2, <1>3, <1>4 DEF RInv

\* InitDone preserves the invariant.
LEMMA InitDoneStep ==
  ASSUME RInv, NEW w \in Worker, InitDone(w)
  PROVE  RInv'
<1>0. w \in Thread
  BY DEF Thread
<1>a. born[w] \in Service /\ ref[born[w]] > 0
  BY <1>0, ReferredIsMade DEF InitDone, RInv, Locals, WorkerLocals, CallLocals, TypeOK, Maybe
<1>1. TypeOK'
  <2>1. ref' \in [Service -> Nat]
    BY <1>0, <1>a, Names, ReferredIsMade
       DEF InitDone, workVars, opVars, mqVars, Free, fengnet_context_release, RInv,
           TypeOK, Maybe, PCs, NPCs, Ops
  <2>2. pc' \in [Worker -> PCs]
    BY <1>0, <1>a, Names, ReferredIsMade
       DEF InitDone, workVars, opVars, mqVars, Free, fengnet_context_release, RInv,
           TypeOK, Maybe, PCs, NPCs, Ops
  <2>3. npc' \in [Worker -> NPCs]
    BY <1>0, <1>a, Names, ReferredIsMade
       DEF InitDone, workVars, opVars, mqVars, Free, fengnet_context_release, RInv,
           TypeOK, Maybe, PCs, NPCs, Ops
  <2>4. del' \in [Thread -> Maybe(Service)]
    BY <1>0, <1>a, Names, ReferredIsMade
       DEF InitDone, workVars, opVars, mqVars, Free, fengnet_context_release, RInv,
           TypeOK, Maybe, PCs, NPCs, Ops
  <2> QED
    BY <2>1, <2>2, <2>3, <2>4
       DEF InitDone, workVars, opVars, mqVars, Free, fengnet_context_release, RInv,
           TypeOK
<1>2. Locals'
  <2>1. CASE ref[born[w]] = 1
    BY <2>1, <1>0, <1>a, Names
       DEF InitDone, workVars, opVars, mqVars, Free, fengnet_context_release, RInv,
           TypeOK, Locals, WorkerLocals, CallLocals, Maybe, PCs, NPCs, Ops
  <2>2. CASE ~ (ref[born[w]] = 1)
    BY <2>2, <1>0, <1>a, Names
       DEF InitDone, workVars, opVars, mqVars, Free, fengnet_context_release, RInv,
           TypeOK, Locals, WorkerLocals, CallLocals, Maybe, PCs, NPCs, Ops
  <2> QED
    BY <2>1, <2>2
<1>3. Unmade'
  <2>1. CASE ref[born[w]] = 1
    BY <2>1, ReferredIsMade, Names, <1>0, <1>a
       DEF InitDone, workVars, opVars, mqVars, Free, fengnet_context_release, RInv,
           Unmade, TypeOK, Locals, WorkerLocals, CallLocals, Maybe
  <2>2. CASE ~ (ref[born[w]] = 1)
    BY <2>2, ReferredIsMade, Names, <1>0, <1>a
       DEF InitDone, workVars, opVars, mqVars, Free, fengnet_context_release, RInv,
           Unmade, TypeOK, Locals, WorkerLocals, CallLocals, Maybe
  <2> QED
    BY <2>1, <2>2
<1>4. RefCountExact'
  <2>1. born[w] \in Service /\ Making(w, born[w])
    BY DEF InitDone, workVars, opVars, mqVars, Free, fengnet_context_release, RInv,
           Locals, WorkerLocals, CallLocals, TypeOK, Maybe, Making
  <2> QED
    BY <2>1, BornDown DEF InitDone, workVars, opVars, mqVars, Free, fengnet_context_release, RInv
<1> QED
  BY <1>1, <1>2, <1>3, <1>4 DEF RInv

\* SetInit preserves the invariant.
LEMMA SetInitStep ==
  ASSUME RInv, NEW w \in Worker, SetInit(w)
  PROVE  RInv'
<1>0. w \in Thread
  BY DEF Thread
<1>1. TypeOK'
  BY <1>0, Names
     DEF SetInit, workVars, opVars, mqVars, RInv, TypeOK, Maybe, PCs, NPCs, Ops
<1>2. Locals'
  BY <1>0, Names
     DEF SetInit, workVars, opVars, mqVars, RInv, TypeOK, Locals, WorkerLocals,
         CallLocals, Maybe, PCs, NPCs, Ops
<1>3. Unmade'
  BY DEF SetInit, workVars, opVars, mqVars, RInv, Unmade
<1>4. RefCountExact'
  BY NoReference
     DEF SetInit, workVars, opVars, mqVars, RInv, Making, TypeOK
<1> QED
  BY <1>1, <1>2, <1>3, <1>4 DEF RInv

\* Publish preserves the invariant.
LEMMA PublishStep ==
  ASSUME RInv, NEW w \in Worker, Publish(w)
  PROVE  RInv'
<1>0. w \in Thread
  BY DEF Thread
<1>a. born[w] \in Service
  BY DEF Publish, RInv, Locals, WorkerLocals, CallLocals, TypeOK, Maybe, PCs
<1>b. Append(global, born[w]) \in Seq(Service)
  BY <1>a, AppendProperties DEF RInv, TypeOK
<1>1. TypeOK'
  <2>1. global' \in Seq(Service)
    BY <1>0, <1>a, <1>b, Names
       DEF Publish, workVars, opVars, ctxVars, RInv, TypeOK, Maybe, PCs, NPCs, Ops
  <2>2. pc' \in [Worker -> PCs]
    BY <1>0, <1>a, <1>b, Names
       DEF Publish, workVars, opVars, ctxVars, RInv, TypeOK, Maybe, PCs, NPCs, Ops
  <2>3. npc' \in [Worker -> NPCs]
    BY ZenonT(30), <1>0, <1>a, <1>b, Names
       DEF Publish, workVars, opVars, ctxVars, RInv, TypeOK, Maybe, PCs, NPCs, Ops
  <2>4. born' \in [Worker -> Maybe(Service)]
    BY <1>0, <1>a, <1>b, Names
       DEF Publish, workVars, opVars, ctxVars, RInv, TypeOK, Maybe, PCs, NPCs, Ops
  <2> QED
    BY <2>1, <2>2, <2>3, <2>4
       DEF Publish, workVars, opVars, ctxVars, RInv, TypeOK
<1>2. Locals'
  <2>1. ASSUME NEW v \in Worker PROVE WorkerLocals(v)'
    BY <1>0, <1>a, <1>b, Names, <2>1
       DEF Publish, workVars, opVars, ctxVars, RInv, TypeOK, Locals, WorkerLocals,
           CallLocals, Maybe, PCs, NPCs, Ops
  <2>2. ASSUME NEW u \in Thread PROVE CallLocals(u)'
    BY <1>0, <1>a, <1>b, Names, <2>2
       DEF Publish, workVars, opVars, ctxVars, RInv, TypeOK, Locals, WorkerLocals,
           CallLocals, Maybe, PCs, NPCs, Ops
  <2> QED
    BY <2>1, <2>2 DEF Locals
<1>3. Unmade'
  BY DEF Publish, workVars, opVars, ctxVars, RInv, Unmade
<1>4. RefCountExact'
  BY NoReference
     DEF Publish, workVars, opVars, ctxVars, RInv, Making, TypeOK
<1> QED
  BY <1>1, <1>2, <1>3, <1>4 DEF RInv

\* Report preserves the invariant.
LEMMA ReportStep ==
  ASSUME RInv, NEW w \in Worker, Report(w)
  PROVE  RInv'
<1>0. w \in Thread
  BY DEF Thread
<1>1. TypeOK'
  BY <1>0, Names
     DEF Report, workVars, opVars, mqVars, ctxVars, RInv, TypeOK, Maybe, PCs, NPCs,
         Ops
<1>2. Locals'
  BY <1>0, Names
     DEF Report, workVars, opVars, mqVars, ctxVars, RInv, TypeOK, Locals,
         WorkerLocals, CallLocals, Maybe, PCs, NPCs, Ops
<1>3. Unmade'
  BY DEF Report, workVars, opVars, mqVars, ctxVars, RInv, Unmade
<1>4. RefCountExact'
  BY NoReference
     DEF Report, workVars, opVars, mqVars, ctxVars, RInv, Making, TypeOK
<1> QED
  BY <1>1, <1>2, <1>3, <1>4 DEF RInv

\* InitFailed preserves the invariant.
LEMMA InitFailedStep ==
  ASSUME RInv, NEW w \in Worker, InitFailed(w)
  PROVE  RInv'
<1>0. w \in Thread
  BY DEF Thread
<1>a. born[w] \in Service /\ ref[born[w]] > 0
  BY <1>0, ReferredIsMade DEF InitFailed, RInv, Locals, WorkerLocals, TypeOK, Maybe
<1>1. TypeOK'
  <2>1. ref' \in [Service -> Nat]
    BY <1>0, <1>a, Names, ReferredIsMade
       DEF InitFailed, workVars, opVars, mqVars, Free, fengnet_context_release, RInv,
           TypeOK, Maybe, PCs, NPCs, Ops
  <2>2. pc' \in [Worker -> PCs]
    BY <1>0, <1>a, Names, ReferredIsMade
       DEF InitFailed, workVars, opVars, mqVars, Free, fengnet_context_release, RInv,
           TypeOK, Maybe, PCs, NPCs, Ops
  <2>3. npc' \in [Worker -> NPCs]
    BY <1>0, <1>a, Names, ReferredIsMade
       DEF InitFailed, workVars, opVars, mqVars, Free, fengnet_context_release, RInv,
           TypeOK, Maybe, PCs, NPCs, Ops
  <2>4. del' \in [Thread -> Maybe(Service)]
    BY <1>0, <1>a, Names, ReferredIsMade
       DEF InitFailed, workVars, opVars, mqVars, Free, fengnet_context_release, RInv,
           TypeOK, Maybe, PCs, NPCs, Ops
  <2> QED
    BY <2>1, <2>2, <2>3, <2>4
       DEF InitFailed, workVars, opVars, mqVars, Free, fengnet_context_release, RInv,
           TypeOK
<1>2. Locals'
  BY <1>0, <1>a, Names
     DEF InitFailed, workVars, opVars, mqVars, Free, fengnet_context_release, RInv,
         TypeOK, Locals, WorkerLocals, CallLocals, Maybe, PCs, NPCs, Ops
<1>3. Unmade'
  BY ReferredIsMade, Names, <1>0, <1>a
     DEF InitFailed, workVars, opVars, mqVars, Free, fengnet_context_release, RInv,
         Unmade, TypeOK, Locals, WorkerLocals, CallLocals, Maybe
<1>4. RefCountExact'
  <2>1. born[w] \in Service /\ Making(w, born[w])
    BY DEF InitFailed, workVars, opVars, mqVars, Free, fengnet_context_release, RInv,
           Locals, WorkerLocals, CallLocals, TypeOK, Maybe, Making
  <2> QED
    BY <2>1, BornDown DEF InitFailed, workVars, opVars, mqVars, Free, fengnet_context_release, RInv
<1> QED
  BY <1>1, <1>2, <1>3, <1>4 DEF RInv

\* FailedRetire preserves the invariant.
LEMMA FailedRetireStep ==
  ASSUME RInv, NEW w \in Worker, FailedRetire(w)
  PROVE  RInv'
<1>0. w \in Thread
  BY DEF Thread
<1>a. born[w] \in Service
  BY DEF FailedRetire, RInv, Locals, WorkerLocals, CallLocals, TypeOK, Maybe
<1>1. npc[w] = "failed" /\ op[w] = "none" /\ peer[w] = None
  BY <1>0, <1>a
     DEF FailedRetire, workVars, mqVars, TakeFromStorage, RInv, TypeOK, Locals,
         WorkerLocals, CallLocals
<1>2. CASE Registered(born[w])
  <2>1. /\ born[w] \in Service
        /\ npc' = [npc EXCEPT ![w] = "discard"]
        /\ slot' = slot \ {born[w]}
        /\ peer' = [peer EXCEPT ![w] = born[w]]
        /\ op' = [op EXCEPT ![w] = "unref"]
        /\ cont' = [cont EXCEPT ![w] = "none"]
        /\ UNCHANGED <<ref, init, life, reserved, total, mq, mqlife, in_global,
                        release, global, pc, q, ctx, nq, left, born, dropq, letter,
                        victim, del, calls>>
    BY <1>2, <1>0, <1>a, Names
       DEF FailedRetire, workVars, mqVars, TakeFromStorage, Registered, RInv, TypeOK,
           Maybe, newVars, ctxVars, opVars
  <2>2. TypeOK'
    BY <2>1, <1>1, <1>0, <1>a DEF RInv, TypeOK, Maybe, PCs, NPCs, Ops
  <2>3. Locals'
    <3>1. ASSUME NEW v \in Worker PROVE WorkerLocals(v)'
      BY <2>1, <1>1, <1>0, <1>a, Names DEF RInv, TypeOK, Locals, WorkerLocals
    <3>2. ASSUME NEW u \in Thread PROVE CallLocals(u)'
      BY <2>1, <1>1, <1>0, <1>a, Names DEF RInv, TypeOK, Locals, CallLocals
    <3> QED
      BY <3>1, <3>2 DEF Locals
  <2>4. Unmade'
    BY <2>1 DEF RInv, Unmade
  <2>5. RefCountExact'
    BY <1>2, <2>1, <1>1, <1>0, <1>a, SlotToPeer DEF RInv, Making, TypeOK, Registered
  <2> QED
    BY <2>2, <2>3, <2>4, <2>5 DEF RInv
<1>3. CASE ~ (Registered(born[w]))
  <2>1. /\ npc' = [npc EXCEPT ![w] = "discard"]
        /\ UNCHANGED <<slot, ref, init, life, reserved, total, mq, mqlife,
                        in_global, release, global, pc, q, ctx, nq, left, born,
                        dropq, op, cont, peer, letter, victim, del, calls>>
    BY <1>3, <1>0, <1>a, Names
       DEF FailedRetire, workVars, mqVars, TakeFromStorage, Registered, RInv, TypeOK,
           Maybe, newVars, ctxVars, opVars
  <2>2. TypeOK'
    BY <2>1, <1>1, <1>0, <1>a DEF RInv, TypeOK, Maybe, PCs, NPCs, Ops
  <2>3. Locals'
    <3>1. ASSUME NEW v \in Worker PROVE WorkerLocals(v)'
      BY <2>1, <1>1, <1>0, <1>a, Names DEF RInv, TypeOK, Locals, WorkerLocals
    <3>2. ASSUME NEW u \in Thread PROVE CallLocals(u)'
      BY <2>1, <1>1, <1>0, <1>a, Names DEF RInv, TypeOK, Locals, CallLocals
    <3> QED
      BY <3>1, <3>2 DEF Locals
  <2>4. Unmade'
    BY <2>1 DEF RInv, Unmade
  <2>5. RefCountExact'
    BY <2>1, <1>1, <1>0, <1>a, NoReference DEF RInv, Making, TypeOK
  <2> QED
    BY <2>2, <2>3, <2>4, <2>5 DEF RInv
<1> QED
  BY <1>2, <1>3

\* FailedDiscard preserves the invariant.
LEMMA FailedDiscardStep ==
  ASSUME RInv, NEW w \in Worker, FailedDiscard(w)
  PROVE  RInv'
<1>0. w \in Thread
  BY DEF Thread
<1>a. born[w] \in Service
  BY DEF FailedDiscard, RInv, Locals, WorkerLocals, CallLocals, TypeOK, Maybe, PCs
<1>b. Append(global, born[w]) \in Seq(Service)
  BY <1>a, AppendProperties DEF RInv, TypeOK
<1>1. TypeOK'
  <2>1. global' \in Seq(Service)
    BY <1>0, <1>a, <1>b, Names
       DEF FailedDiscard, workVars, opVars, ctxVars, Free, fengnet_mq_release, RInv,
           TypeOK, Maybe, PCs, NPCs, Ops
  <2>2. pc' \in [Worker -> PCs]
    BY <1>0, <1>a, <1>b, Names
       DEF FailedDiscard, workVars, opVars, ctxVars, Free, fengnet_mq_release, RInv,
           TypeOK, Maybe, PCs, NPCs, Ops
  <2>3. q' \in [Worker -> Maybe(Service)]
    BY <1>0, <1>a, <1>b, Names
       DEF FailedDiscard, workVars, opVars, ctxVars, Free, fengnet_mq_release, RInv,
           TypeOK, Maybe, PCs, NPCs, Ops
  <2>4. npc' \in [Worker -> NPCs]
    BY <1>0, <1>a, <1>b, Names
       DEF FailedDiscard, workVars, opVars, ctxVars, Free, fengnet_mq_release, RInv,
           TypeOK, Maybe, PCs, NPCs, Ops
  <2>5. born' \in [Worker -> Maybe(Service)]
    BY <1>0, <1>a, <1>b, Names
       DEF FailedDiscard, workVars, opVars, ctxVars, Free, fengnet_mq_release, RInv,
           TypeOK, Maybe, PCs, NPCs, Ops
  <2>6. dropq' \in [Worker -> Maybe(Service)]
    BY <1>0, <1>a, <1>b, Names
       DEF FailedDiscard, workVars, opVars, ctxVars, Free, fengnet_mq_release, RInv,
           TypeOK, Maybe, PCs, NPCs, Ops
  <2> QED
    BY <2>1, <2>2, <2>3, <2>4, <2>5, <2>6
       DEF FailedDiscard, workVars, opVars, ctxVars, Free, fengnet_mq_release, RInv,
           TypeOK
<1>2. Locals'
  <2>1. CASE release[born[w]]
    BY <2>1, <1>0, <1>a, <1>b, Names
       DEF FailedDiscard, workVars, opVars, ctxVars, Free, fengnet_mq_release, RInv,
           TypeOK, Locals, WorkerLocals, CallLocals, Maybe, PCs, NPCs, Ops
  <2>2. CASE ~ (release[born[w]])
    BY <2>2, <1>0, <1>a, <1>b, Names
       DEF FailedDiscard, workVars, opVars, ctxVars, Free, fengnet_mq_release, RInv,
           TypeOK, Locals, WorkerLocals, CallLocals, Maybe, PCs, NPCs, Ops
  <2> QED
    BY <2>1, <2>2
<1>3. Unmade'
  BY DEF FailedDiscard, workVars, opVars, ctxVars, Free, fengnet_mq_release, RInv,
         Unmade
<1>4. RefCountExact'
  BY NoReference
     DEF FailedDiscard, workVars, opVars, ctxVars, Free, fengnet_mq_release, RInv,
         Making, TypeOK
<1> QED
  BY <1>1, <1>2, <1>3, <1>4 DEF RInv

\* DropMessage preserves the invariant.
LEMMA DropMessageStep ==
  ASSUME RInv, NEW w \in Worker, DropMessage(w)
  PROVE  RInv'
<1>0. w \in Thread
  BY DEF Thread
<1>a. dropq[w] \in Service /\ mq[dropq[w]] \in Seq(Maybe(Service)) /\ mq[dropq[w]] # <<>>
  BY DEF DropMessage, RInv, TypeOK, Locals, WorkerLocals, CallLocals, Maybe
<1>b. Head(mq[dropq[w]]) \in Maybe(Service) /\ Tail(mq[dropq[w]]) \in Seq(Maybe(Service))
  BY <1>a, HeadTailProperties
<1>1. dropq[w] # None /\ op[w] = "none" /\ peer[w] = None
  BY <1>0, <1>a, <1>b
     DEF DropMessage, workVars, newVars, Free, RInv, TypeOK, Locals, WorkerLocals,
         CallLocals
<1>2. CASE Head(mq[dropq[w]]) # None /\ Registered(Head(mq[dropq[w]]))
  <2>1. /\ Head(mq[dropq[w]]) \in Service
        /\ mq' = [mq EXCEPT ![dropq[w]] = Tail(@)]
        /\ ref' = [ref EXCEPT ![Head(mq[dropq[w]])] = @ + 1]
        /\ op' = [op EXCEPT ![w] = "push"]
        /\ peer' = [peer EXCEPT ![w] = Head(mq[dropq[w]])]
        /\ letter' = [letter EXCEPT ![w] = dropq[w]]
        /\ UNCHANGED <<slot, init, life, reserved, total, mqlife, in_global,
                        release, global, pc, q, ctx, nq, left, npc, born, dropq,
                        cont, victim, del, calls>>
    BY <1>2, <1>0, <1>a, <1>b, Names
       DEF DropMessage, workVars, newVars, Free, Registered, RInv, TypeOK, Maybe,
           mqVars, ctxVars, opVars
  <2>2. TypeOK'
    BY SMTT(30), <2>1, <1>1, <1>0, <1>a, <1>b DEF RInv, TypeOK, Maybe, PCs, NPCs, Ops
  <2>3. Locals'
    <3>1. ASSUME NEW v \in Worker PROVE WorkerLocals(v)'
      BY <2>1, <1>1, <1>0, <1>a, <1>b, Names DEF RInv, TypeOK, Locals, WorkerLocals
    <3>2. ASSUME NEW u \in Thread PROVE CallLocals(u)'
      BY <2>1, <1>1, <1>0, <1>a, <1>b, Names DEF RInv, TypeOK, Locals, CallLocals
    <3> QED
      BY <3>1, <3>2 DEF Locals
  <2>4. Unmade'
    <3>1. life[Head(mq[dropq[w]])] # "none"
      BY <1>2, ReferredIsMade DEF Registered
    <3> QED
      BY <2>1, <3>1 DEF RInv, Unmade, TypeOK
  <2>5. RefCountExact'
    BY <2>1, <1>1, <1>0, <1>a, <1>b, PeerUp DEF RInv
  <2> QED
    BY <2>2, <2>3, <2>4, <2>5 DEF RInv
<1>3. CASE ~ (Head(mq[dropq[w]]) # None /\ Registered(Head(mq[dropq[w]])))
  <2>1. /\ mq' = [mq EXCEPT ![dropq[w]] = Tail(@)]
        /\ UNCHANGED <<slot, ref, init, life, reserved, total, mqlife, in_global,
                        release, global, pc, q, ctx, nq, left, npc, born, dropq,
                        op, cont, peer, letter, victim, del, calls>>
    BY <1>3, <1>0, <1>a, <1>b, Names
       DEF DropMessage, workVars, newVars, Free, Registered, RInv, TypeOK, Maybe,
           mqVars, ctxVars, opVars
  <2>2. TypeOK'
    BY <2>1, <1>1, <1>0, <1>a, <1>b DEF RInv, TypeOK, Maybe, PCs, NPCs, Ops
  <2>3. Locals'
    <3>1. ASSUME NEW v \in Worker PROVE WorkerLocals(v)'
      BY <2>1, <1>1, <1>0, <1>a, <1>b, Names DEF RInv, TypeOK, Locals, WorkerLocals
    <3>2. ASSUME NEW u \in Thread PROVE CallLocals(u)'
      BY <2>1, <1>1, <1>0, <1>a, <1>b, Names DEF RInv, TypeOK, Locals, CallLocals
    <3> QED
      BY <3>1, <3>2 DEF Locals
  <2>4. Unmade'
    BY <2>1 DEF RInv, Unmade
  <2>5. RefCountExact'
    BY <2>1, <1>1, <1>0, <1>a, <1>b, NoReference DEF RInv, Making, TypeOK
  <2> QED
    BY <2>2, <2>3, <2>4, <2>5 DEF RInv
<1> QED
  BY <1>2, <1>3

\* DropDone preserves the invariant.
LEMMA DropDoneStep ==
  ASSUME RInv, NEW w \in Worker, DropDone(w)
  PROVE  RInv'
<1>0. w \in Thread
  BY DEF Thread
<1>1. TypeOK'
  BY <1>0, Names
     DEF DropDone, workVars, opVars, ctxVars, Free, RInv, TypeOK, Maybe, PCs, NPCs,
         Ops
<1>2. Locals'
  BY <1>0, Names
     DEF DropDone, workVars, opVars, ctxVars, Free, RInv, TypeOK, Locals,
         WorkerLocals, CallLocals, Maybe, PCs, NPCs, Ops
<1>3. Unmade'
  BY DEF DropDone, workVars, opVars, ctxVars, Free, RInv, Unmade
<1>4. RefCountExact'
  BY NoReference
     DEF DropDone, workVars, opVars, ctxVars, Free, RInv, Making
<1> QED
  BY <1>1, <1>2, <1>3, <1>4 DEF RInv

\* TakeQueue preserves the invariant.
LEMMA TakeQueueStep ==
  ASSUME RInv, NEW w \in Worker, TakeQueue(w)
  PROVE  RInv'
<1>0. w \in Thread
  BY DEF Thread
<1>a. global # <<>> => Head(global) \in Service /\ Tail(global) \in Seq(Service)
  BY HeadTailProperties DEF RInv, TypeOK
<1>1. TypeOK'
  BY <1>0, <1>a, Names
     DEF TakeQueue, opVars, ctxVars, newVars, At, Free, RInv, TypeOK, Maybe, PCs,
         NPCs, Ops
<1>2. Locals'
  <2>1. ASSUME NEW v \in Worker PROVE WorkerLocals(v)'
    BY SMTT(30), <1>0, <1>a, Names, <2>1
       DEF TakeQueue, opVars, ctxVars, newVars, At, Free, RInv, TypeOK, Locals,
           WorkerLocals, CallLocals, Maybe, PCs, NPCs, Ops
  <2>2. ASSUME NEW u \in Thread PROVE CallLocals(u)'
    BY <1>0, <1>a, Names, <2>2
       DEF TakeQueue, opVars, ctxVars, newVars, At, Free, RInv, TypeOK, Locals,
           WorkerLocals, CallLocals, Maybe, PCs, NPCs, Ops
  <2> QED
    BY <2>1, <2>2 DEF Locals
<1>3. Unmade'
  BY DEF TakeQueue, opVars, ctxVars, newVars, At, Free, RInv, Unmade
<1>4. RefCountExact'
  BY NoReference
     DEF TakeQueue, opVars, ctxVars, newVars, At, Free, RInv, Making
<1> QED
  BY <1>1, <1>2, <1>3, <1>4 DEF RInv

\* Grab preserves the invariant.
LEMMA GrabStep ==
  ASSUME RInv, NEW w \in Worker, Grab(w)
  PROVE  RInv'
<1>0. w \in Thread
  BY DEF Thread
<1>a. q[w] \in Service
  BY DEF Grab, At, RInv, Locals, WorkerLocals, CallLocals, TypeOK, Maybe, PCs
<1>1. pc[w] = "grab" /\ ctx[w] = None
  BY <1>0, <1>a
     DEF Grab, opVars, mqVars, newVars, At, Free, RInv, TypeOK, Locals,
         WorkerLocals, CallLocals
<1>2. CASE Registered(q[w])
  <2>1. /\ q[w] \in Service
        /\ ref' = [ref EXCEPT ![q[w]] = @ + 1]
        /\ ctx' = [ctx EXCEPT ![w] = q[w]]
        /\ pc' = [pc EXCEPT ![w] = "first"]
        /\ UNCHANGED <<slot, init, life, reserved, total, mq, mqlife, in_global,
                        release, global, q, nq, left, npc, born, dropq, op, cont,
                        peer, letter, victim, del, calls>>
    BY <1>2, <1>0, <1>a, Names
       DEF Grab, opVars, mqVars, newVars, At, Free, Registered, RInv, TypeOK, Maybe,
           workVars, ctxVars
  <2>2. TypeOK'
    BY <2>1, <1>1, <1>0, <1>a DEF RInv, TypeOK, Maybe, PCs, NPCs, Ops
  <2>3. Locals'
    <3>1. ASSUME NEW v \in Worker PROVE WorkerLocals(v)'
      BY <2>1, <1>1, <1>0, <1>a, Names DEF RInv, TypeOK, Locals, WorkerLocals
    <3>2. ASSUME NEW u \in Thread PROVE CallLocals(u)'
      BY <2>1, <1>1, <1>0, <1>a, Names DEF RInv, TypeOK, Locals, CallLocals
    <3> QED
      BY <3>1, <3>2 DEF Locals
  <2>4. Unmade'
    <3>1. life[q[w]] # "none"
      BY <1>2, ReferredIsMade DEF Registered
    <3> QED
      BY <2>1, <3>1 DEF RInv, Unmade, TypeOK
  <2>5. RefCountExact'
    BY <2>1, <1>1, <1>0, <1>a, CtxUp DEF RInv
  <2> QED
    BY <2>2, <2>3, <2>4, <2>5 DEF RInv
<1>3. CASE ~ (Registered(q[w]))
  <2>1. /\ pc' = [pc EXCEPT ![w] = "orphan"]
        /\ UNCHANGED <<slot, ref, init, life, reserved, total, mq, mqlife,
                        in_global, release, global, q, ctx, nq, left, npc, born,
                        dropq, op, cont, peer, letter, victim, del, calls>>
    BY <1>3, <1>0, <1>a, Names
       DEF Grab, opVars, mqVars, newVars, At, Free, Registered, RInv, TypeOK, Maybe,
           workVars, ctxVars
  <2>2. TypeOK'
    BY <2>1, <1>1, <1>0, <1>a DEF RInv, TypeOK, Maybe, PCs, NPCs, Ops
  <2>3. Locals'
    <3>1. ASSUME NEW v \in Worker PROVE WorkerLocals(v)'
      BY <2>1, <1>1, <1>0, <1>a, Names DEF RInv, TypeOK, Locals, WorkerLocals
    <3>2. ASSUME NEW u \in Thread PROVE CallLocals(u)'
      BY <2>1, <1>1, <1>0, <1>a, Names DEF RInv, TypeOK, Locals, CallLocals
    <3> QED
      BY <3>1, <3>2 DEF Locals
  <2>4. Unmade'
    BY <2>1 DEF RInv, Unmade
  <2>5. RefCountExact'
    BY <2>1, <1>1, <1>0, <1>a, NoReference DEF RInv, Making, TypeOK
  <2> QED
    BY <2>2, <2>3, <2>4, <2>5 DEF RInv
<1> QED
  BY <1>2, <1>3

\* Orphan preserves the invariant.
LEMMA OrphanStep ==
  ASSUME RInv, NEW w \in Worker, Orphan(w)
  PROVE  RInv'
<1>0. w \in Thread
  BY DEF Thread
<1>a. q[w] \in Service
  BY DEF Orphan, At, RInv, Locals, WorkerLocals, CallLocals, TypeOK, Maybe, PCs
<1>b. Append(global, q[w]) \in Seq(Service)
  BY <1>a, AppendProperties DEF RInv, TypeOK
<1>1. TypeOK'
  <2>1. global' \in Seq(Service)
    BY <1>0, <1>a, <1>b, Names
       DEF Orphan, opVars, ctxVars, fengnet_mq_release, At, Free, RInv, TypeOK,
           Maybe, PCs, NPCs, Ops
  <2>2. pc' \in [Worker -> PCs]
    BY <1>0, <1>a, <1>b, Names
       DEF Orphan, opVars, ctxVars, fengnet_mq_release, At, Free, RInv, TypeOK,
           Maybe, PCs, NPCs, Ops
  <2>3. q' \in [Worker -> Maybe(Service)]
    BY <1>0, <1>a, <1>b, Names
       DEF Orphan, opVars, ctxVars, fengnet_mq_release, At, Free, RInv, TypeOK,
           Maybe, PCs, NPCs, Ops
  <2>4. dropq' \in [Worker -> Maybe(Service)]
    BY <1>0, <1>a, <1>b, Names
       DEF Orphan, opVars, ctxVars, fengnet_mq_release, At, Free, RInv, TypeOK,
           Maybe, PCs, NPCs, Ops
  <2> QED
    BY <2>1, <2>2, <2>3, <2>4
       DEF Orphan, opVars, ctxVars, fengnet_mq_release, At, Free, RInv, TypeOK
<1>2. Locals'
  <2>1. CASE release[q[w]]
    BY <2>1, <1>0, <1>a, <1>b, Names
       DEF Orphan, opVars, ctxVars, fengnet_mq_release, At, Free, RInv, TypeOK,
           Locals, WorkerLocals, CallLocals, Maybe, PCs, NPCs, Ops
  <2>2. CASE ~ (release[q[w]])
    BY <2>2, <1>0, <1>a, <1>b, Names
       DEF Orphan, opVars, ctxVars, fengnet_mq_release, At, Free, RInv, TypeOK,
           Locals, WorkerLocals, CallLocals, Maybe, PCs, NPCs, Ops
  <2> QED
    BY <2>1, <2>2
<1>3. Unmade'
  BY DEF Orphan, opVars, ctxVars, fengnet_mq_release, At, Free, RInv, Unmade
<1>4. RefCountExact'
  BY NoReference
     DEF Orphan, opVars, ctxVars, fengnet_mq_release, At, Free, RInv, Making
<1> QED
  BY <1>1, <1>2, <1>3, <1>4 DEF RInv

\* PopEmpty preserves the invariant.
LEMMA PopEmptyStep ==
  ASSUME RInv, NEW w \in Worker, PopEmpty(w)
  PROVE  RInv'
<1>0. w \in Thread
  BY DEF Thread
<1>1. TypeOK'
  BY <1>0, Names
     DEF PopEmpty, opVars, ctxVars, newVars, At, Free, RInv, TypeOK, Maybe, PCs,
         NPCs, Ops
<1>2. Locals'
  BY <1>0, Names
     DEF PopEmpty, opVars, ctxVars, newVars, At, Free, RInv, TypeOK, Locals,
         WorkerLocals, CallLocals, Maybe, PCs, NPCs, Ops
<1>3. Unmade'
  BY DEF PopEmpty, opVars, ctxVars, newVars, At, Free, RInv, Unmade
<1>4. RefCountExact'
  BY NoReference
     DEF PopEmpty, opVars, ctxVars, newVars, At, Free, RInv, Making
<1> QED
  BY <1>1, <1>2, <1>3, <1>4 DEF RInv

\* Pop preserves the invariant.
LEMMA PopStep ==
  ASSUME RInv, NEW w \in Worker, Pop(w)
  PROVE  RInv'
<1>0. w \in Thread
  BY DEF Thread
<1>a. q[w] \in Service /\ mq[q[w]] \in Seq(Maybe(Service)) /\ mq[q[w]] # <<>>
  BY DEF Pop, At, RInv, TypeOK, Locals, WorkerLocals, CallLocals, Maybe, PCs
<1>b. Tail(mq[q[w]]) \in Seq(Maybe(Service))
  BY <1>a, HeadTailProperties
<1>1. TypeOK'
  <2>1. mq' \in [Service -> Seq(Maybe(Service))]
    BY <1>0, <1>a, <1>b, Names
       DEF Pop, opVars, ctxVars, newVars, At, Free, RInv, TypeOK, Maybe, PCs, NPCs,
           Ops, Locals, WorkerLocals, CallLocals
  <2>2. pc' \in [Worker -> PCs]
    BY <1>0, <1>a, <1>b, Names
       DEF Pop, opVars, ctxVars, newVars, At, Free, RInv, TypeOK, Maybe, PCs, NPCs,
           Ops, Locals, WorkerLocals, CallLocals
  <2>3. q' \in [Worker -> Maybe(Service)]
    BY <1>0, <1>a, <1>b, Names
       DEF Pop, opVars, ctxVars, newVars, At, Free, RInv, TypeOK, Maybe, PCs, NPCs,
           Ops, Locals, WorkerLocals, CallLocals
  <2>4. left' \in [Worker -> Nat]
    BY <1>0, <1>a, <1>b, Names
       DEF Pop, opVars, ctxVars, newVars, At, Free, RInv, TypeOK, Maybe, PCs, NPCs,
           Ops, Locals, WorkerLocals, CallLocals
  <2> QED
    BY <2>1, <2>2, <2>3, <2>4
       DEF Pop, opVars, ctxVars, newVars, At, Free, RInv, TypeOK
<1>2. Locals'
  <2>1. CASE pc[w] = "first"
    BY <2>1, <1>0, <1>a, <1>b, Names
       DEF Pop, opVars, ctxVars, newVars, At, Free, RInv, TypeOK, Locals,
           WorkerLocals, CallLocals, Maybe, PCs, NPCs, Ops
  <2>2. CASE ~ (pc[w] = "first")
    BY <2>2, <1>0, <1>a, <1>b, Names
       DEF Pop, opVars, ctxVars, newVars, At, Free, RInv, TypeOK, Locals,
           WorkerLocals, CallLocals, Maybe, PCs, NPCs, Ops
  <2> QED
    BY <2>1, <2>2
<1>3. Unmade'
  BY DEF Pop, opVars, ctxVars, newVars, At, Free, RInv, Unmade
<1>4. RefCountExact'
  BY NoReference
     DEF Pop, opVars, ctxVars, newVars, At, Free, RInv, Making
<1> QED
  BY <1>1, <1>2, <1>3, <1>4 DEF RInv

\* Length preserves the invariant.
LEMMA LengthStep ==
  ASSUME RInv, NEW w \in Worker, Length(w)
  PROVE  RInv'
<1>0. w \in Thread
  BY DEF Thread
<1>a. \A n \in 0 .. Len(mq[q[w]]) : Iterations(n) \in Nat
  BY DEF Iterations
<1>1. TypeOK'
  BY <1>0, <1>a, Names
     DEF Length, opVars, mqVars, ctxVars, newVars, At, Free, RInv, TypeOK, Maybe,
         PCs, NPCs, Ops
<1>2. Locals'
  BY <1>0, <1>a, Names
     DEF Length, opVars, mqVars, ctxVars, newVars, At, Free, Iterations, RInv,
         TypeOK, Locals, WorkerLocals, CallLocals, Maybe, PCs, NPCs, Ops
<1>3. Unmade'
  BY DEF Length, opVars, mqVars, ctxVars, newVars, At, Free, Iterations, RInv,
         Unmade
<1>4. RefCountExact'
  BY NoReference
     DEF Length, opVars, mqVars, ctxVars, newVars, At, Free, Iterations, RInv,
         Making
<1> QED
  BY <1>1, <1>2, <1>3, <1>4 DEF RInv

\* Return preserves the invariant.
LEMMA ReturnStep ==
  ASSUME RInv, NEW w \in Worker, Return(w)
  PROVE  RInv'
<1>0. w \in Thread
  BY DEF Thread
<1>1. TypeOK'
  BY <1>0, Names
     DEF Return, opVars, mqVars, ctxVars, newVars, At, Free, RInv, TypeOK, Maybe,
         PCs, NPCs, Ops
<1>2. Locals'
  BY <1>0, Names
     DEF Return, opVars, mqVars, ctxVars, newVars, At, Free, RInv, TypeOK, Locals,
         WorkerLocals, CallLocals, Maybe, PCs, NPCs, Ops
<1>3. Unmade'
  BY DEF Return, opVars, mqVars, ctxVars, newVars, At, Free, RInv, Unmade
<1>4. RefCountExact'
  BY NoReference
     DEF Return, opVars, mqVars, ctxVars, newVars, At, Free, RInv, Making
<1> QED
  BY <1>1, <1>2, <1>3, <1>4 DEF RInv

\* NextQueue preserves the invariant.
LEMMA NextQueueStep ==
  ASSUME RInv, NEW w \in Worker, NextQueue(w)
  PROVE  RInv'
<1>0. w \in Thread
  BY DEF Thread
<1>a. global # <<>> => Head(global) \in Service /\ Tail(global) \in Seq(Service)
  BY HeadTailProperties DEF RInv, TypeOK
<1>1. pc[w] = "next"
  BY <1>0, <1>a
     DEF NextQueue, opVars, ctxVars, newVars, At, Free, RInv, TypeOK, Locals,
         WorkerLocals, CallLocals
<1>2. CASE global # <<>>
  <2>1. /\ Head(global) \in Service /\ Tail(global) \in Seq(Service)
        /\ nq' = [nq EXCEPT ![w] = Head(global)]
        /\ global' = Tail(global)
        /\ pc' = [pc EXCEPT ![w] = "requeue"]
        /\ UNCHANGED <<slot, ref, init, life, reserved, total, mq, mqlife,
                        in_global, release, q, ctx, left, npc, born, dropq, op,
                        cont, peer, letter, victim, del, calls>>
    BY <1>2, <1>0, <1>a, Names
       DEF NextQueue, opVars, ctxVars, newVars, At, Free, RInv, TypeOK, Maybe,
           mqVars, workVars
  <2>2. TypeOK'
    BY <2>1, <1>1, <1>0, <1>a DEF RInv, TypeOK, Maybe, PCs, NPCs, Ops
  <2>3. Locals'
    <3>1. ASSUME NEW v \in Worker PROVE WorkerLocals(v)'
      BY <2>1, <1>1, <1>0, <1>a, Names DEF RInv, TypeOK, Locals, WorkerLocals
    <3>2. ASSUME NEW u \in Thread PROVE CallLocals(u)'
      BY <2>1, <1>1, <1>0, <1>a, Names DEF RInv, TypeOK, Locals, CallLocals
    <3> QED
      BY <3>1, <3>2 DEF Locals
  <2>4. Unmade'
    BY <2>1 DEF RInv, Unmade
  <2>5. RefCountExact'
    BY <2>1, <1>1, <1>0, <1>a, NoReference DEF RInv, Making, TypeOK
  <2> QED
    BY <2>2, <2>3, <2>4, <2>5 DEF RInv
<1>3. CASE ~ (global # <<>>)
  <2>1. /\ pc' = [pc EXCEPT ![w] = "finish"]
        /\ UNCHANGED <<slot, ref, init, life, reserved, total, mq, mqlife,
                        in_global, release, global, q, ctx, nq, left, npc, born,
                        dropq, op, cont, peer, letter, victim, del, calls>>
    BY <1>3, <1>0, <1>a, Names
       DEF NextQueue, opVars, ctxVars, newVars, At, Free, RInv, TypeOK, Maybe,
           mqVars, workVars
  <2>2. TypeOK'
    BY <2>1, <1>1, <1>0, <1>a DEF RInv, TypeOK, Maybe, PCs, NPCs, Ops
  <2>3. Locals'
    <3>1. ASSUME NEW v \in Worker PROVE WorkerLocals(v)'
      BY <2>1, <1>1, <1>0, <1>a, Names DEF RInv, TypeOK, Locals, WorkerLocals
    <3>2. ASSUME NEW u \in Thread PROVE CallLocals(u)'
      BY <2>1, <1>1, <1>0, <1>a, Names DEF RInv, TypeOK, Locals, CallLocals
    <3> QED
      BY <3>1, <3>2 DEF Locals
  <2>4. Unmade'
    BY <2>1 DEF RInv, Unmade
  <2>5. RefCountExact'
    BY <2>1, <1>1, <1>0, <1>a, NoReference DEF RInv, Making, TypeOK
  <2> QED
    BY <2>2, <2>3, <2>4, <2>5 DEF RInv
<1> QED
  BY <1>2, <1>3

\* Requeue preserves the invariant.
LEMMA RequeueStep ==
  ASSUME RInv, NEW w \in Worker, Requeue(w)
  PROVE  RInv'
<1>0. w \in Thread
  BY DEF Thread
<1>a. q[w] \in Service
  BY DEF Requeue, At, RInv, Locals, WorkerLocals, CallLocals, TypeOK, Maybe, PCs
<1>b. Append(global, q[w]) \in Seq(Service)
  BY <1>a, AppendProperties DEF RInv, TypeOK
<1>1. TypeOK'
  <2>1. global' \in Seq(Service)
    BY <1>0, <1>a, <1>b, Names
       DEF Requeue, opVars, ctxVars, newVars, At, Free, RInv, TypeOK, Maybe, PCs,
           NPCs, Ops
  <2>2. pc' \in [Worker -> PCs]
    BY <1>0, <1>a, <1>b, Names
       DEF Requeue, opVars, ctxVars, newVars, At, Free, RInv, TypeOK, Maybe, PCs,
           NPCs, Ops
  <2>3. q' \in [Worker -> Maybe(Service)]
    BY <1>0, <1>a, <1>b, Names
       DEF Requeue, opVars, ctxVars, newVars, At, Free, RInv, TypeOK, Maybe, PCs,
           NPCs, Ops
  <2>4. nq' \in [Worker -> Maybe(Service)]
    BY <1>0, <1>a, <1>b, Names
       DEF Requeue, opVars, ctxVars, newVars, At, Free, RInv, TypeOK, Maybe, PCs,
           NPCs, Ops
  <2> QED
    BY <2>1, <2>2, <2>3, <2>4
       DEF Requeue, opVars, ctxVars, newVars, At, Free, RInv, TypeOK
<1>2. Locals'
  BY <1>0, <1>a, <1>b, Names
     DEF Requeue, opVars, ctxVars, newVars, At, Free, RInv, TypeOK, Locals,
         WorkerLocals, CallLocals, Maybe, PCs, NPCs, Ops
<1>3. Unmade'
  BY DEF Requeue, opVars, ctxVars, newVars, At, Free, RInv, Unmade
<1>4. RefCountExact'
  BY NoReference
     DEF Requeue, opVars, ctxVars, newVars, At, Free, RInv, Making
<1> QED
  BY <1>1, <1>2, <1>3, <1>4 DEF RInv

\* Finish preserves the invariant.
LEMMA FinishStep ==
  ASSUME RInv, NEW w \in Worker, Finish(w)
  PROVE  RInv'
<1>0. w \in Thread
  BY DEF Thread
<1>a. ctx[w] \in Service /\ ref[ctx[w]] > 0
  BY <1>0, ReferredIsMade DEF Finish, At, RInv, Locals, WorkerLocals, CallLocals, TypeOK, Maybe
<1>1. TypeOK'
  <2>1. ref' \in [Service -> Nat]
    BY <1>0, <1>a, Names, ReferredIsMade
       DEF Finish, opVars, mqVars, newVars, fengnet_context_release, At, Free, RInv,
           TypeOK, Maybe, PCs, NPCs, Ops
  <2>2. pc' \in [Worker -> PCs]
    BY <1>0, <1>a, Names, ReferredIsMade
       DEF Finish, opVars, mqVars, newVars, fengnet_context_release, At, Free, RInv,
           TypeOK, Maybe, PCs, NPCs, Ops
  <2>3. ctx' \in [Worker -> Maybe(Service)]
    BY <1>0, <1>a, Names, ReferredIsMade
       DEF Finish, opVars, mqVars, newVars, fengnet_context_release, At, Free, RInv,
           TypeOK, Maybe, PCs, NPCs, Ops
  <2>4. del' \in [Thread -> Maybe(Service)]
    BY <1>0, <1>a, Names, ReferredIsMade
       DEF Finish, opVars, mqVars, newVars, fengnet_context_release, At, Free, RInv,
           TypeOK, Maybe, PCs, NPCs, Ops
  <2> QED
    BY <2>1, <2>2, <2>3, <2>4
       DEF Finish, opVars, mqVars, newVars, fengnet_context_release, At, Free, RInv,
           TypeOK
<1>2. Locals'
  <2>1. CASE q[w] = None
    BY <2>1, <1>0, <1>a, Names
       DEF Finish, opVars, mqVars, newVars, fengnet_context_release, At, Free, RInv,
           TypeOK, Locals, WorkerLocals, CallLocals, Maybe, PCs, NPCs, Ops
  <2>2. CASE ~ (q[w] = None)
    BY <2>2, <1>0, <1>a, Names
       DEF Finish, opVars, mqVars, newVars, fengnet_context_release, At, Free, RInv,
           TypeOK, Locals, WorkerLocals, CallLocals, Maybe, PCs, NPCs, Ops
  <2> QED
    BY <2>1, <2>2
<1>3. Unmade'
  <2>1. CASE q[w] = None
    BY <2>1, ReferredIsMade, Names, <1>0, <1>a
       DEF Finish, opVars, mqVars, newVars, fengnet_context_release, At, Free, RInv,
           Unmade, TypeOK, Locals, WorkerLocals, CallLocals, Maybe
  <2>2. CASE ~ (q[w] = None)
    BY <2>2, ReferredIsMade, Names, <1>0, <1>a
       DEF Finish, opVars, mqVars, newVars, fengnet_context_release, At, Free, RInv,
           Unmade, TypeOK, Locals, WorkerLocals, CallLocals, Maybe
  <2> QED
    BY <2>1, <2>2
<1>4. RefCountExact'
  <2>1. ctx[w] \in Service
    BY DEF Finish, At, RInv, Locals, WorkerLocals, CallLocals, TypeOK, Maybe
  <2> QED
    BY <2>1, CtxDown DEF Finish, opVars, mqVars, newVars, fengnet_context_release, At, Free, RInv
<1> QED
  BY <1>1, <1>2, <1>3, <1>4 DEF RInv

-----------------------------------------------------------------------------
(* The invariant *)

\* The workers start in a state that satisfies the invariant: the handle storage
\* holds the one reference to each boot service.
LEMMA RInvInit == Init => RInv
<1> SUFFICES ASSUME Init PROVE RInv
  OBVIOUS
<1>1. BootSet \subseteq Service /\ Len(Boot) \in Nat
  BY SchedulerAssumption DEF BootSet
<1>2. TypeOK
  BY <1>1, SchedulerAssumption, EmptySeq DEF Init, TypeOK, Maybe, PCs, NPCs, Ops
<1>3. Locals
  BY DEF Init, Locals, WorkerLocals, CallLocals, Thread
<1>4. Unmade
  BY DEF Init, Unmade
<1>5. RefCountExact
  <2> SUFFICES ASSUME NEW s \in Service PROVE ref[s] = Cardinality(Holders(s))
    BY DEF RefCountExact
  <2>1. \A k \in Token : Holds(k, s) <=> (k = <<"slot", None>> /\ s \in BootSet)
    BY SchedulerAssumption DEF Init, Holds, Making
  <2>2. <<"slot", None>> \in Token
    BY DEF Token, Maybe
  <2>3. CASE s \in BootSet
    <3>1. Holders(s) = {<<"slot", None>>}
      BY <2>1, <2>2, <2>3 DEF Holders
    <3> QED
      BY <2>3, <3>1, FS_Singleton DEF Init
  <2>4. CASE s \notin BootSet
    <3>1. Holders(s) = {}
      BY <2>1, <2>4 DEF Holders
    <3> QED
      BY <2>4, <3>1, FS_EmptySet DEF Init
  <2> QED
    BY <2>3, <2>4
<1> QED
  BY <1>2, <1>3, <1>4, <1>5 DEF RInv

\* Every step preserves it.
LEMMA RInvNext == RInv /\ [Next]_vars => RInv'
<1> SUFFICES ASSUME RInv, [Next]_vars PROVE RInv'
  OBVIOUS
<1>1. CASE Call
  <2>1. ASSUME NEW t \in Thread, NEW s \in Service,
               Send(t, s) \/ Borrow(t, s) \/ Kill(t, s) \/ SendRemote(t, s)
        PROVE  RInv'
    BY <2>1, SendStep, BorrowStep, KillStep, SendRemoteStep
  <2>2. ASSUME NEW t \in Thread, Abort(t) PROVE RInv'
    BY <2>2, AbortStep
  <2>3. ASSUME NEW w \in Worker, NEW s \in Service, NewRegister(w, s) PROVE RInv'
    BY <2>3, NewRegisterStep
  <2> QED
    BY <1>1, <2>1, <2>2, <2>3 DEF Call
<1>2. ASSUME NEW t \in Thread, Continue(t) PROVE RInv'
  BY <1>2, PushMessageStep, ReleasePeerStep, MarkReleaseStep, DeleteContextStep,
     RetireStep, AbortPassStep, AbortReturnStep, AbortRetireStep DEF Continue
<1>3. ASSUME NEW w \in Worker, Launching(w) PROVE RInv'
  BY <1>3, NewQueueStep, ReserveStep, InitDoneStep, SetInitStep, PublishStep, ReportStep,
     InitFailedStep, FailedRetireStep, FailedDiscardStep DEF Launching
<1>4. ASSUME NEW w \in Worker, Dispatching(w) PROVE RInv'
  BY <1>4, DropMessageStep, DropDoneStep, TakeQueueStep, GrabStep, OrphanStep,
     PopEmptyStep, PopStep, LengthStep, ReturnStep, NextQueueStep, RequeueStep, FinishStep
     DEF Dispatching
<1>5. CASE UNCHANGED vars
  <2>1. TypeOK'
    BY <1>5 DEF vars, ctxVars, mqVars, workVars, newVars, opVars, RInv, TypeOK
  <2>2. Locals'
    BY <1>5 DEF vars, workVars, newVars, opVars, RInv, Locals, WorkerLocals, CallLocals
  <2>3. Unmade'
    BY <1>5 DEF vars, ctxVars, RInv, Unmade
  <2>4. RefCountExact'
    BY <1>5, NoReference DEF vars, ctxVars, workVars, newVars, opVars, RInv, Making
  <2> QED
    BY <2>1, <2>2, <2>3, <2>4 DEF RInv
<1> QED
  BY <1>1, <1>2, <1>3, <1>4, <1>5 DEF Next

\* The invariant holds in every reachable state.
LEMMA RInvAlways == Spec => []RInv
  BY RInvInit, RInvNext, PTL DEF Spec

\* SchedulerTypeCorrect: in every reachable state, for any number of services,
\* workers and calls, every field and local has its type; in particular no
\* reference count is ever decremented below 0.
THEOREM SchedulerTypeCorrect == Spec => []TypeOK
<1>1. RInv => TypeOK
  BY DEF RInv
<1> QED
  BY <1>1, RInvAlways, PTL

\* ReferenceCountsExact: fengnet_context.ref always equals the number of places
\* that hold a reference: no interleaving of grab, release, retire, launch and
\* reserve leaks one or drops one twice.
THEOREM ReferenceCountsExact == Spec => []RefCountExact
<1>1. RInv => RefCountExact
  BY DEF RInv
<1> QED
  BY <1>1, RInvAlways, PTL

-----------------------------------------------------------------------------
(* Ownership.  The inductive invariant SInv adds to RInv what the life of  *)
(* a context says about its queue (Lives), where queues are (Places), when *)
(* a service is initialised (Inits) and the counted contexts (Totals).     *)

\* A context that is referred to lives; the thread that dropped the last reference,
\* and no other, destroys it.
Referred ==
  /\ \A s \in Service : ref[s] > 0 => life[s] = "live"
  /\ \A t \in Thread : del[t] # None =>
       ref[del[t]] = 0 /\ life[del[t]] \in {"live", "dying"} /\ mqlife[del[t]] # "none"
  /\ \A t, u \in Thread : del[t] # None /\ del[t] = del[u] => t = u

\* The life of a context and of its queue: the queue is made after the context,
\* marked when the context dies, and freed only then.
Lifetimes ==
  \A s \in Service :
    /\ release[s] <=> life[s] \in {"dying", "freed"}
    /\ life[s] = "live" => mqlife[s] # "freed"
    /\ life[s] = "none" => mqlife[s] = "none"

\* Only the handle storage and the creator know a context that has no queue yet.
Queued ==
  /\ \A t \in Thread : peer[t] # None => mqlife[peer[t]] # "none"
  /\ \A w \in Worker : ctx[w] # None => mqlife[ctx[w]] # "none"
  /\ \A s \in reserved : mqlife[s] # "none"

\* A launch: its context exists, has a queue after the first step, and no other
\* worker launches it; a queue that is being emptied is marked.
Launches ==
  /\ \A w \in Worker :
       /\ npc[w] # "none" => life[born[w]] # "none"
       /\ npc[w] \notin {"none", "register"} => mqlife[born[w]] # "none"
       /\ npc[w] = "register" => mqlife[born[w]] = "none"
       /\ dropq[w] # None => release[dropq[w]]
  /\ \A v, w \in Worker : npc[v] # "none" /\ npc[w] # "none" /\ born[v] = born[w] => v = w

Lives == Referred /\ Lifetimes /\ Queued /\ Launches

\* The queue of the service w launches is in w's hands until it is published.
Unpublished(w) == npc[w] \notin {"none", "register", "report"}

\* A worker serves the queue of the context it has grabbed, and keeps its next queue
\* only until it has put the other one back.
Turns ==
  \A w \in Worker :
    /\ pc[w] \in {"first", "pop", "length", "run", "next", "requeue"} => q[w] = ctx[w]
    /\ nq[w] # None <=> pc[w] = "requeue"
    /\ pc[w] = "idle" => q[w] = None

\* The global queue links a queue once.
Linked == \A i, j \in 1 .. Len(global) : global[i] = global[j] => i = j

\* What a worker has in its hands is not in the global queue ...
Unlinked ==
  \A w \in Worker :
    /\ ~ InGlobal(q[w]) /\ ~ InGlobal(nq[w]) /\ ~ InGlobal(dropq[w])
    /\ Unpublished(w) => ~ InGlobal(born[w])

\* ... and in nobody else's, nor twice in its own.
Unshared ==
  \A v, w \in Worker :
    /\ q[v] # None /\ q[v] = q[w] => v = w
    /\ nq[v] # None /\ nq[v] = nq[w] => v = w
    /\ dropq[v] # None /\ dropq[v] = dropq[w] => v = w
    /\ Unpublished(v) /\ Unpublished(w) /\ born[v] = born[w] => v = w
    /\ q[v] # None => q[v] # nq[w] /\ q[v] # dropq[w]
    /\ nq[v] # None => nq[v] # dropq[w]
    /\ Unpublished(v) => born[v] # q[w] /\ born[v] # nq[w] /\ born[v] # dropq[w]

\* Some worker has the queue of s in its hands.
Handled(s) ==
  \E w \in Worker : q[w] = s \/ nq[w] = s \/ dropq[w] = s \/ (Unpublished(w) /\ born[w] = s)

\* Queues that are somewhere exist, and those that must be somewhere are.
Scheduled ==
  \A s \in Service :
    /\ InGlobal(s) \/ Handled(s) => mqlife[s] = "live"
    /\ InGlobal(s) \/ Handled(s) => in_global[s] = 1 \/ release[s]
    /\ mqlife[s] = "live" /\ (in_global[s] = 1 \/ release[s]) => InGlobal(s) \/ Handled(s)
    /\ mqlife[s] = "live" /\ mq[s] # <<>> => in_global[s] = 1 \/ release[s]

Places == Turns /\ Linked /\ Unlinked /\ Unshared /\ Scheduled

\* A service whose queue a worker can find is initialised, or no longer in the handle
\* storage, so that the worker does not dispatch to it.
Ready(s) == init[s] \/ s \notin slot

Inits ==
  /\ \A s \in Service : InGlobal(s) => Ready(s)
  /\ \A s \in Service : mqlife[s] = "live" /\ in_global[s] = 0 => init[s]
  /\ \A w \in Worker :
       /\ q[w] # None => Ready(q[w])
       /\ nq[w] # None => Ready(nq[w])
       /\ ctx[w] # None => init[ctx[w]]
       /\ npc[w] \in {"publish", "gone", "discard"} => Ready(born[w])

\* The contexts that count.
Counted ==
  {s \in Service : life[s] \in {"live", "dying"} /\ mqlife[s] # "none" /\ s \notin reserved}

Totals == IsFiniteSet(Counted) /\ total = Cardinality(Counted)

SInv == RInv /\ Lives /\ Places /\ Inits /\ Totals

-----------------------------------------------------------------------------
(* What the invariant says of the pointers to a context *)

\* A context that is referred to lives, so its queue is not marked.
LEMMA ReferredLives ==
  ASSUME SInv
  PROVE  /\ \A s \in slot \cup reserved : s \in Service /\ ref[s] > 0 /\ life[s] = "live"
         /\ \A w \in Worker : ctx[w] # None =>
              ctx[w] \in Service /\ ref[ctx[w]] > 0 /\ life[ctx[w]] = "live" /\ ~ release[ctx[w]]
         /\ \A t \in Thread : peer[t] # None =>
              peer[t] \in Service /\ ref[peer[t]] > 0 /\ life[peer[t]] = "live" /\ ~ release[peer[t]]
         /\ \A w \in Worker : npc[w] \in {"register", "init"} =>
              born[w] \in Service /\ ref[born[w]] > 0 /\ life[born[w]] = "live"
<1>1. RInv /\ Referred /\ Lifetimes
  BY DEF SInv, Lives
<1>2. /\ slot \subseteq Service /\ reserved \subseteq Service
      /\ \A w \in Worker : ctx[w] # None => ctx[w] \in Service
      /\ \A t \in Thread : peer[t] # None => peer[t] \in Service
      /\ \A w \in Worker : npc[w] \in {"register", "init"} => born[w] \in Service
  BY <1>1 DEF RInv, TypeOK, Maybe, Locals, WorkerLocals
<1> QED
  BY <1>1, <1>2, ReferredIsMade DEF Referred, Lifetimes

\* A context out of references is not in the handle storage.
LEMMA SlotIsCounted == RInv => \A s \in slot : ref[s] > 0
  BY ReferredIsMade

\* What a worker serves, empties or launches is a service.
LEMMA HandsHoldServices ==
  ASSUME RInv
  PROVE  \A w \in Worker :
           /\ q[w] # None => q[w] \in Service
           /\ nq[w] # None => nq[w] \in Service
           /\ dropq[w] # None => dropq[w] \in Service
           /\ npc[w] # "none" => born[w] \in Service
           /\ ctx[w] # None => ctx[w] \in Service
  BY DEF RInv, TypeOK, Maybe, Locals, WorkerLocals
-----------------------------------------------------------------------------
(* Steps that leave a part of the invariant alone *)

LEMMA LivesSame ==
  ASSUME Lives,
         UNCHANGED <<ref, life, del, mqlife, release, peer, ctx, reserved, npc, born, dropq>>
  PROVE  Lives'
  BY DEF Lives, Referred, Lifetimes, Queued, Launches

LEMMA TurnsSame ==
  ASSUME Turns, UNCHANGED <<pc, q, nq, ctx>>
  PROVE  Turns'
  BY DEF Turns

\* Queues stay where they are, and get no messages.
LEMMA PlacesSame ==
  ASSUME Places, Turns', UNCHANGED <<q, nq, dropq, global, in_global, mqlife, release>>,
         \A w \in Worker : Unpublished(w)' <=> Unpublished(w),
         \A w \in Worker : Unpublished(w) => born'[w] = born[w],
         \A s \in Service : mq'[s] # <<>> => mq[s] # <<>>
  PROVE  Places'
<1>1. \A s : InGlobal(s)' <=> InGlobal(s)
  BY DEF InGlobal
<1>2. \A s : Handled(s)' <=> Handled(s)
  BY DEF Handled
<1>3. Linked' /\ Unlinked' /\ Unshared'
  BY <1>1 DEF Places, Linked, Unlinked, Unshared
<1>4. Scheduled'
  BY <1>1, <1>2 DEF Places, Scheduled
<1> QED
  BY <1>3, <1>4 DEF Places

\* Services leave the handle storage, at most.
LEMMA InitsSame ==
  ASSUME Inits, slot' \subseteq slot,
         UNCHANGED <<init, global, mqlife, in_global, q, nq, ctx>>,
         \A w \in Worker : npc'[w] \in {"publish", "gone", "discard"} =>
           /\ born'[w] = born[w]
           /\ npc[w] \in {"publish", "gone", "discard"} \/ Ready(born[w])'
  PROVE  Inits'
<1>1. \A s : (InGlobal(s)' <=> InGlobal(s)) /\ (Ready(s) => Ready(s)')
  BY DEF InGlobal, Ready
<1> QED
  BY <1>1 DEF Inits

LEMMA TotalsSame ==
  ASSUME Totals, UNCHANGED <<total, life, mqlife, reserved>>
  PROVE  Totals'
  BY DEF Totals, Counted
-----------------------------------------------------------------------------
(* The global queue *)

\* fengnet_globalmq_push.
LEMMA GlobalPush ==
  ASSUME global \in Seq(Service), NEW s \in Service, global' = Append(global, s)
  PROVE  /\ \A r : InGlobal(r)' <=> (InGlobal(r) \/ r = s)
         /\ Linked /\ ~ InGlobal(s) => Linked'
<1>1. /\ Len(global') = Len(global) + 1 /\ Len(global) \in Nat
      /\ \A i \in 1 .. Len(global) : global'[i] = global[i]
      /\ global'[Len(global) + 1] = s
  BY AppendProperties
<1>2. ASSUME NEW r PROVE InGlobal(r)' <=> (InGlobal(r) \/ r = s)
  <2>1. ASSUME InGlobal(r)' PROVE InGlobal(r) \/ r = s
    BY <2>1, <1>1 DEF InGlobal
  <2>2. ASSUME InGlobal(r) PROVE InGlobal(r)'
    BY <2>2, <1>1 DEF InGlobal
  <2>3. InGlobal(s)'
    BY <1>1 DEF InGlobal
  <2> QED
    BY <2>1, <2>2, <2>3
<1>3. ASSUME Linked, ~ InGlobal(s) PROVE Linked'
  BY <1>3, <1>1 DEF Linked, InGlobal
<1> QED
  BY <1>2, <1>3

\* fengnet_globalmq_pop.
LEMMA GlobalPop ==
  ASSUME global \in Seq(Service), Linked, global # <<>>, global' = Tail(global)
  PROVE  /\ InGlobal(Head(global)) /\ Head(global) \in Service
         /\ \A r : InGlobal(r)' <=> (InGlobal(r) /\ r # Head(global))
         /\ Linked'
<1>1. /\ Len(global) \in Nat \ {0} /\ Head(global) = global[1] /\ Head(global) \in Service
      /\ Len(global') = Len(global) - 1
      /\ \A i \in 1 .. Len(global) - 1 : global'[i] = global[i + 1]
  BY HeadTailProperties, EmptySeq
<1>2. InGlobal(Head(global))
  BY <1>1 DEF InGlobal
<1>3. ASSUME NEW r PROVE InGlobal(r)' <=> (InGlobal(r) /\ r # Head(global))
  <2>1. ASSUME InGlobal(r)' PROVE InGlobal(r) /\ r # Head(global)
    <3>1. PICK i \in 1 .. Len(global) - 1 : global'[i] = r
      BY <2>1, <1>1 DEF InGlobal
    <3>2. i + 1 \in 1 .. Len(global) /\ global[i + 1] = r /\ i + 1 # 1
      BY <3>1, <1>1
    <3> QED
      BY <3>2, <1>1 DEF InGlobal, Linked
  <2>2. ASSUME InGlobal(r), r # Head(global) PROVE InGlobal(r)'
    <3>1. PICK i \in 1 .. Len(global) : global[i] = r
      BY <2>2 DEF InGlobal
    <3>2. i - 1 \in 1 .. Len(global) - 1 /\ global'[i - 1] = r
      BY <3>1, <2>2, <1>1
    <3> QED
      BY <3>2, <1>1 DEF InGlobal
  <2> QED
    BY <2>1, <2>2
<1>4. Linked'
  BY <1>1 DEF Linked
<1> QED
  BY <1>1, <1>2, <1>3, <1>4

\* The global queue is not touched.
LEMMA GlobalSame == global' = global => Linked' = Linked /\ \A r : InGlobal(r)' <=> InGlobal(r)
  BY DEF Linked, InGlobal

\* The null pointer is in no queue.
LEMMA NoneUnlinked == RInv => ~ InGlobal(None)
  BY Names DEF RInv, TypeOK, InGlobal
-----------------------------------------------------------------------------
(* Calls: one lemma per action, and one for what several actions share *)

\* A step that changes no context, and nothing of a queue but that it may take messages
\* from it.
LEMMA NothingMoves ==
  ASSUME SInv, RInv', Turns',
         \A r \in Service : mq'[r] # <<>> => mq[r] # <<>>,
         UNCHANGED <<ctxVars, mqlife, in_global, release, global, q, ctx, nq, newVars, peer, del>>
  PROVE  SInv'
<1> USE DEF ctxVars, newVars
<1>1. Lives'
  BY LivesSame DEF SInv
<1>2. Places'
  BY PlacesSame DEF SInv, Unpublished
<1>3. Inits'
  BY InitsSame DEF SInv
<1>4. Totals'
  BY TotalsSame DEF SInv
<1> QED
  BY <1>1, <1>2, <1>3, <1>4 DEF SInv

\* A step that changes neither a context nor a queue nor what anybody holds.
LEMMA Elsewhere ==
  ASSUME SInv, RInv', UNCHANGED <<ctxVars, mqVars, workVars, newVars, peer, del>>
  PROVE  SInv'
  BY TurnsSame, NothingMoves DEF SInv, Places, mqVars, workVars

\* fengnet_handle_grab: a thread takes a reference to a registered service.
LEMMA PeerGrabbed ==
  ASSUME SInv, RInv', NEW t \in Thread, NEW s \in Service, Registered(s),
         ref' = [ref EXCEPT ![s] = @ + 1],
         peer' = [peer EXCEPT ![t] = s],
         \A r \in Service : mq'[r] # <<>> => mq[r] # <<>>,
         UNCHANGED <<slot, init, life, reserved, total, mqlife, in_global, release,
                     global, workVars, newVars, del>>
  PROVE  SInv'
<1> USE DEF workVars, newVars
<1>1. Lives'
  <2>1. s \in slot /\ ref[s] > 0 /\ life[s] = "live" /\ mqlife[s] # "none"
    BY ReferredLives DEF Registered
  <2>2. Referred'
    BY <2>1 DEF SInv, Lives, Referred, RInv, TypeOK, Maybe
  <2>3. Queued'
    BY <2>1 DEF SInv, Lives, Queued, RInv, TypeOK
  <2>4. Lifetimes' /\ Launches'
    BY DEF SInv, Lives, Lifetimes, Launches
  <2> QED
    BY <2>2, <2>3, <2>4 DEF Lives
<1>2. Places'
  BY TurnsSame, PlacesSame DEF SInv, Places, Unpublished
<1>3. Inits'
  BY InitsSame DEF SInv
<1>4. Totals'
  BY TotalsSame DEF SInv
<1> QED
  BY <1>1, <1>2, <1>3, <1>4 DEF SInv

\* fengnet_handle_retire: the storage's reference passes to the caller.
LEMMA StorageTaken ==
  ASSUME SInv, RInv', NEW t \in Thread, NEW s \in Service, mqlife[s] # "none",
         slot' = slot \ {s},
         peer' = [peer EXCEPT ![t] = s] \/ UNCHANGED peer,
         \A w \in Worker : npc'[w] = npc[w] \/
           (npc[w] = "failed" /\ npc'[w] = "discard" /\ born[w] \notin slot'),
         UNCHANGED <<ref, init, life, reserved, total, mqVars, workVars, born, dropq, del>>
  PROVE  SInv'
<1> USE DEF mqVars, workVars
<1>1. Lives'
  <2>1. Referred' /\ Lifetimes'
    BY DEF SInv, Lives, Referred, Lifetimes
  <2>2. Queued'
    <3>1. Queued /\ peer \in [Thread -> Maybe(Service)]
      BY DEF SInv, Lives, RInv, TypeOK
    <3>2. \A u \in Thread : peer'[u] = peer[u] \/ peer'[u] = s
      BY <3>1
    <3> QED
      BY <3>1, <3>2 DEF Queued
  <2>3. Launches'
    BY DEF SInv, Lives, Launches
  <2> QED
    BY <2>1, <2>2, <2>3 DEF Lives
<1>2. Places'
  BY TurnsSame, PlacesSame DEF SInv, Places, Unpublished
<1>3. Inits'
  BY InitsSame DEF SInv, Ready
<1>4. Totals'
  BY TotalsSame DEF SInv
<1> QED
  BY <1>1, <1>2, <1>3, <1>4 DEF SInv

\* fengnet_mq_push: the queue of a live context is scheduled if it was not.
LEMMA MessagePushed ==
  ASSUME SInv, RInv', NEW s \in Service, NEW m, life[s] = "live", mqlife[s] # "none",
         fengnet_mq_push(s, m),
         UNCHANGED <<ctxVars, workVars, newVars, peer, del>>
  PROVE  SInv'
<1> USE DEF ctxVars, workVars, newVars, fengnet_mq_push
<1>a. mqlife[s] = "live" /\ ~ release[s]
  BY DEF SInv, Lives, Lifetimes, RInv, TypeOK
<1>b. global \in Seq(Service) /\ in_global \in [Service -> {0, 1}]
      /\ mq \in [Service -> Seq(Maybe(Service))]
  BY DEF SInv, RInv, TypeOK
<1>c. in_global[s] = 0 => ~ InGlobal(s) /\ ~ Handled(s) /\ init[s]
  BY <1>a DEF SInv, Places, Scheduled, Inits
<1>d. /\ \A r : InGlobal(r)' <=> (InGlobal(r) \/ (in_global[s] = 0 /\ r = s))
      /\ Linked'
  BY <1>b, <1>c, GlobalPush, GlobalSame DEF SInv, Places
<1>e. \A r : Handled(r)' <=> Handled(r)
  BY DEF Handled, Unpublished
<1>1. Lives'
  BY LivesSame DEF SInv
<1>2. Places'
  <2>1. Unlinked'
    BY <1>c, <1>d DEF SInv, Places, Unlinked, Unpublished, Handled
  <2>2. Unshared'
    BY DEF SInv, Places, Unshared, Unpublished
  <2>3. Scheduled'
    <3> SUFFICES ASSUME NEW r \in Service
                 PROVE  /\ InGlobal(r)' \/ Handled(r)' => mqlife'[r] = "live"
                        /\ InGlobal(r)' \/ Handled(r)' => in_global'[r] = 1 \/ release'[r]
                        /\ mqlife'[r] = "live" /\ (in_global'[r] = 1 \/ release'[r])
                             => InGlobal(r)' \/ Handled(r)'
                        /\ mqlife'[r] = "live" /\ mq'[r] # <<>>
                             => in_global'[r] = 1 \/ release'[r]
      BY DEF Scheduled
    <3>1. CASE r = s
      BY <3>1, <1>a, <1>b, <1>c, <1>d, <1>e DEF SInv, Places, Scheduled
    <3>2. CASE r # s
      BY <3>2, <1>b, <1>d, <1>e DEF SInv, Places, Scheduled
    <3> QED
      BY <3>1, <3>2
  <2> QED
    BY <2>1, <2>2, <2>3, <1>d, TurnsSame DEF SInv, Places
<1>3. Inits'
  BY <1>b, <1>c, <1>d DEF SInv, Inits, Ready
<1>4. Totals'
  BY TotalsSame DEF SInv
<1> QED
  BY <1>1, <1>2, <1>3, <1>4 DEF SInv

\* fengnet_context_release: the count falls, and whoever brings it to 0 destroys.
LEMMA ReferenceDropped ==
  ASSUME SInv, NEW t \in Thread, NEW s \in Service, ref[s] > 0, mqlife[s] # "none",
         del[t] = None, fengnet_context_release(t, s), UNCHANGED <<life, mqlife>>
  PROVE  Referred'
<1>1. /\ ref \in [Service -> Nat] /\ del \in [Thread -> Maybe(Service)]
      /\ life[s] = "live"
      /\ Referred /\ None \notin Service
  BY Names DEF SInv, Lives, Referred, RInv, TypeOK
<1>2. \A u \in Thread : del[u] # s
  BY <1>1 DEF Referred
<1>3. \A r \in Service : ref'[r] > 0 => life'[r] = "live"
  BY <1>1 DEF Referred, fengnet_context_release
<1>4. CASE ref[s] = 1
  BY <1>1, <1>2, <1>3, <1>4 DEF Referred, fengnet_context_release, Maybe
<1>5. CASE ref[s] # 1
  BY <1>1, <1>2, <1>3, <1>5 DEF Referred, fengnet_context_release, Maybe
<1> QED
  BY <1>4, <1>5

\* Send preserves the invariant.
LEMMA SendKeeps ==
  ASSUME SInv, NEW t \in Thread, NEW s \in Service, Send(t, s)
  PROVE  SInv'
  BY SendStep, PeerGrabbed DEF SInv, Send, mqVars

\* PushMessage preserves the invariant: the reference it holds keeps the context alive.
LEMMA PushMessageKeeps ==
  ASSUME SInv, NEW t \in Thread, PushMessage(t)
  PROVE  SInv'
<1>1. peer[t] \in Service /\ life[peer[t]] = "live" /\ mqlife[peer[t]] # "none"
  BY ReferredLives DEF SInv, PushMessage, RInv, Locals, CallLocals, Lives, Queued
<1>2. RInv'
  BY PushMessageStep DEF SInv
<1> QED
  BY <1>1, <1>2, MessagePushed DEF PushMessage

\* Borrow preserves the invariant.
LEMMA BorrowKeeps ==
  ASSUME SInv, NEW t \in Thread, NEW s \in Service, Borrow(t, s)
  PROVE  SInv'
  BY BorrowStep, PeerGrabbed DEF SInv, Borrow, mqVars

\* ReleasePeer preserves the invariant.
LEMMA ReleasePeerKeeps ==
  ASSUME SInv, NEW t \in Thread, ReleasePeer(t)
  PROVE  SInv'
<1> USE DEF ReleasePeer, mqVars, workVars, newVars
<1>1. RInv'
  BY ReleasePeerStep DEF SInv
<1>2. Lives'
  <2>1. peer[t] \in Service /\ ref[peer[t]] > 0 /\ mqlife[peer[t]] # "none"
    BY ReferredLives DEF SInv, RInv, Locals, CallLocals, Lives, Queued
  <2>2. Referred'
    BY <2>1, ReferenceDropped
  <2>3. Queued'
    BY DEF SInv, Lives, Queued, RInv, TypeOK
  <2>4. Lifetimes' /\ Launches'
    BY DEF SInv, Lives, Lifetimes, Launches
  <2> QED
    BY <2>2, <2>3, <2>4 DEF Lives
<1>3. Places'
  BY TurnsSame, PlacesSame DEF SInv, Places, Unpublished
<1>4. Inits'
  BY InitsSame DEF SInv
<1>5. Totals'
  BY TotalsSame DEF SInv
<1> QED
  BY <1>1, <1>2, <1>3, <1>4, <1>5 DEF SInv

\* MarkRelease preserves the invariant: nobody refers to the context any more, and its
\* queue, unless it is somewhere already, enters the global queue.
LEMMA MarkReleaseKeeps ==
  ASSUME SInv, NEW t \in Thread, MarkRelease(t)
  PROVE  SInv'
<1> USE DEF MarkRelease, workVars, newVars, opVars
<1> DEFINE s == del[t]
<1>a. /\ s \in Service /\ ref[s] = 0 /\ mqlife[s] # "none" /\ s \notin slot
      /\ life[s] = "live" /\ ~ release[s] /\ mqlife[s] = "live"
  <2>1. s \in Service /\ ref[s] = 0 /\ mqlife[s] # "none"
    BY DEF SInv, RInv, TypeOK, Maybe, Lives, Referred
  <2>2. s \notin slot
    BY <2>1, SlotIsCounted DEF SInv
  <2> QED
    BY <2>1, <2>2 DEF SInv, RInv, TypeOK, Lives, Lifetimes
<1>b. /\ global \in Seq(Service) /\ in_global \in [Service -> {0, 1}]
      /\ life \in [Service -> {"none", "live", "dying", "freed"}]
      /\ release \in [Service -> BOOLEAN]
  BY DEF SInv, RInv, TypeOK
<1> HIDE DEF s
<1>c. in_global[s] = 0 => ~ InGlobal(s) /\ ~ Handled(s)
  BY <1>a DEF SInv, Places, Scheduled
<1>d. /\ \A r : InGlobal(r)' <=> (InGlobal(r) \/ (in_global[s] = 0 /\ r = s))
      /\ Linked'
  BY <1>a, <1>b, <1>c, GlobalPush, GlobalSame DEF SInv, Places, s
<1>e. \A r : Handled(r)' <=> Handled(r)
  BY DEF Handled, Unpublished
<1>1. RInv'
  BY MarkReleaseStep DEF SInv
<1>2. Lives'
  <2>1. Referred'
    BY <1>a, <1>b DEF SInv, Lives, Referred, s
  <2>2. Lifetimes'
    BY <1>a, <1>b DEF SInv, Lives, Lifetimes, s
  <2>3. Queued'
    BY DEF SInv, Lives, Queued
  <2>4. Launches'
    BY <1>a, <1>b, HandsHoldServices DEF SInv, Lives, Launches, s
  <2> QED
    BY <2>1, <2>2, <2>3, <2>4 DEF Lives
<1>3. Places'
  <2>1. Unlinked'
    BY <1>c, <1>d DEF SInv, Places, Unlinked, Unpublished, Handled
  <2>2. Unshared'
    BY DEF SInv, Places, Unshared, Unpublished
  <2>3. Scheduled'
    <3> SUFFICES ASSUME NEW r \in Service
                 PROVE  /\ InGlobal(r)' \/ Handled(r)' => mqlife'[r] = "live"
                        /\ InGlobal(r)' \/ Handled(r)' => in_global'[r] = 1 \/ release'[r]
                        /\ mqlife'[r] = "live" /\ (in_global'[r] = 1 \/ release'[r])
                             => InGlobal(r)' \/ Handled(r)'
                        /\ mqlife'[r] = "live" /\ mq'[r] # <<>>
                             => in_global'[r] = 1 \/ release'[r]
      BY DEF Scheduled
    <3>1. CASE r = s
      BY <3>1, <1>a, <1>b, <1>c, <1>d, <1>e DEF SInv, Places, Scheduled, s
    <3>2. CASE r # s
      BY <3>2, <1>b, <1>d, <1>e DEF SInv, Places, Scheduled, s
    <3> QED
      BY <3>1, <3>2
  <2> QED
    BY <2>1, <2>2, <2>3, <1>d, TurnsSame DEF SInv, Places
<1>4. Inits'
  BY <1>a, <1>b, <1>d DEF SInv, Inits, Ready
<1>5. Totals'
  <2>1. Counted' = Counted
    BY <1>a, <1>b DEF Counted, s
  <2> QED
    BY <2>1 DEF SInv, Totals
<1> QED
  BY <1>1, <1>2, <1>3, <1>4, <1>5 DEF SInv

\* DeleteContext preserves the invariant: the context no longer counts.
LEMMA DeleteContextKeeps ==
  ASSUME SInv, NEW t \in Thread, DeleteContext(t)
  PROVE  SInv'
<1> USE DEF DeleteContext, mqVars, workVars, newVars, opVars
<1> DEFINE s == del[t]
<1>a. /\ s \in Service /\ ref[s] = 0 /\ mqlife[s] # "none" /\ life[s] = "dying"
      /\ s \notin reserved
  <2>1. s \in Service /\ ref[s] = 0 /\ mqlife[s] # "none"
    BY DEF SInv, RInv, TypeOK, Maybe, Lives, Referred
  <2>2. s \notin reserved
    BY <2>1, ReferredLives
  <2> QED
    BY <2>1, <2>2
<1>b. /\ life \in [Service -> {"none", "live", "dying", "freed"}]
      /\ del \in [Thread -> Maybe(Service)] /\ total \in Int
  BY DEF SInv, RInv, TypeOK
<1> HIDE DEF s
<1>1. RInv'
  BY DeleteContextStep DEF SInv
<1>2. Lives'
  <2>1. Referred'
    BY <1>a, <1>b DEF SInv, Lives, Referred, s
  <2>2. Lifetimes'
    BY <1>a, <1>b DEF SInv, Lives, Lifetimes, s
  <2>3. Queued'
    BY DEF SInv, Lives, Queued
  <2>4. Launches'
    BY <1>a, <1>b, HandsHoldServices DEF SInv, Lives, Launches, s
  <2> QED
    BY <2>1, <2>2, <2>3, <2>4 DEF Lives
<1>3. Places'
  BY TurnsSame, PlacesSame DEF SInv, Places, Unpublished
<1>4. Inits'
  BY InitsSame DEF SInv
<1>5. Totals'
  <2>1. s \in Counted /\ Counted' = Counted \ {s}
    BY <1>a, <1>b DEF Counted, s
  <2>2. IsFiniteSet(Counted) /\ total = Cardinality(Counted)
    BY DEF SInv, Totals
  <2>3. IsFiniteSet(Counted \ {s}) /\ Cardinality(Counted \ {s}) = Cardinality(Counted) - 1
    BY <2>1, <2>2, FS_RemoveElement
  <2> QED
    BY <2>1, <2>2, <2>3 DEF Totals
<1> QED
  BY <1>1, <1>2, <1>3, <1>4, <1>5 DEF SInv

\* Kill preserves the invariant.
LEMMA KillKeeps ==
  ASSUME SInv, NEW t \in Thread, NEW s \in Service, Kill(t, s)
  PROVE  SInv'
<1> USE DEF Kill, mqVars
<1>1. RInv'
  BY KillStep DEF SInv
<1>2. CASE Monitor # None /\ Registered(Monitor)
  <2>1. Monitor \in Service
    BY <1>2, Names DEF Maybe
  <2> QED
    BY <1>1, <1>2, <2>1, PeerGrabbed
<1>3. CASE ~ (Monitor # None /\ Registered(Monitor))
  BY <1>1, <1>3, Elsewhere DEF ctxVars
<1> QED
  BY <1>2, <1>3

\* Retire preserves the invariant.
LEMMA RetireKeeps ==
  ASSUME SInv, NEW t \in Thread, Retire(t)
  PROVE  SInv'
<1> USE DEF Retire
<1>1. RInv'
  BY RetireStep DEF SInv
<1>2. CASE Registered(victim[t])
  <2>1. victim[t] \in Service /\ mqlife[victim[t]] # "none"
    BY <1>2 DEF Registered, SInv, RInv, TypeOK
  <2> QED
    BY <1>1, <1>2, <2>1, StorageTaken DEF TakeFromStorage, newVars
<1>3. CASE ~ Registered(victim[t])
  BY <1>1, <1>3, Elsewhere DEF ctxVars
<1> QED
  BY <1>2, <1>3

\* Abort preserves the invariant.
LEMMA AbortKeeps ==
  ASSUME SInv, NEW t \in Thread, Abort(t)
  PROVE  SInv'
  BY AbortStep, Elsewhere DEF SInv, Abort

\* AbortRetire preserves the invariant.
LEMMA AbortRetireKeeps ==
  ASSUME SInv, NEW t \in Thread, NEW s \in Service, AbortRetire(t, s)
  PROVE  SInv'
<1>1. RInv'
  BY AbortRetireStep DEF SInv
<1> QED
  BY <1>1, StorageTaken DEF AbortRetire, Registered, TakeFromStorage, newVars

\* AbortPass preserves the invariant.
LEMMA AbortPassKeeps ==
  ASSUME SInv, NEW t \in Thread, AbortPass(t)
  PROVE  SInv'
  BY AbortPassStep, Elsewhere DEF SInv, AbortPass

\* AbortReturn preserves the invariant.
LEMMA AbortReturnKeeps ==
  ASSUME SInv, NEW t \in Thread, AbortReturn(t)
  PROVE  SInv'
  BY AbortReturnStep, Elsewhere DEF SInv, AbortReturn

\* SendRemote preserves the invariant: the harbor's reference keeps the context alive.
LEMMA SendRemoteKeeps ==
  ASSUME SInv, NEW t \in Thread, NEW s \in Service, SendRemote(t, s)
  PROVE  SInv'
<1>1. life[s] = "live" /\ mqlife[s] # "none"
  BY ReferredLives DEF SInv, SendRemote, Lives, Queued
<1>2. RInv'
  BY SendRemoteStep DEF SInv
<1> QED
  BY <1>1, <1>2, MessagePushed DEF SendRemote, opVars
-----------------------------------------------------------------------------
(* Launching *)

\* NewRegister preserves the invariant: the context is new, so nobody refers to it
\* and it has no queue.
LEMMA NewRegisterKeeps ==
  ASSUME SInv, NEW w \in Worker, NEW s \in Service, NewRegister(w, s)
  PROVE  SInv'
<1> USE DEF NewRegister, mqVars, workVars, opVars
<1>a. npc[w] = "none" /\ life[s] = "none" /\ mqlife[s] = "none"
  BY DEF SInv, Lives, Lifetimes
<1>b. /\ life \in [Service -> {"none", "live", "dying", "freed"}]
      /\ ref \in [Service -> Nat]
      /\ npc \in [Worker -> NPCs] /\ born \in [Worker -> Maybe(Service)]
      /\ del \in [Thread -> Maybe(Service)]
  BY DEF SInv, RInv, TypeOK
<1>1. RInv'
  BY NewRegisterStep DEF SInv
<1>2. Lives'
  <2>1. Referred'
    BY <1>a, <1>b DEF SInv, Lives, Referred, Maybe
  <2>2. Lifetimes'
    BY <1>a, <1>b DEF SInv, Lives, Lifetimes
  <2>3. Queued'
    BY DEF SInv, Lives, Queued
  <2>4. Launches'
    BY <1>a, <1>b, HandsHoldServices DEF SInv, Lives, Launches
  <2> QED
    BY <2>1, <2>2, <2>3, <2>4 DEF Lives
<1>c. \A v \in Worker : /\ Unpublished(v)' <=> Unpublished(v)
                        /\ Unpublished(v) => born'[v] = born[v]
  BY <1>a, <1>b DEF Unpublished
<1>3. Places'
  BY <1>c, TurnsSame, PlacesSame DEF SInv, Places
<1>4. Inits'
  <2>1. \A r : InGlobal(r)' <=> InGlobal(r)
    BY GlobalSame
  <2>2. \A r : Ready(r) /\ r # s => Ready(r)'
    BY DEF Ready
  <2>3. /\ ~ InGlobal(s) /\ \A v \in Worker : q[v] # s /\ nq[v] # s
        /\ \A v \in Worker : Unpublished(v) => born[v] # s
    BY <1>a DEF SInv, Places, Scheduled, Handled
  <2> QED
    BY <1>a, <1>b, <1>c, <2>1, <2>2, <2>3 DEF SInv, Inits, Unpublished
<1>5. Totals'
  <2>1. Counted' = Counted
    BY <1>a, <1>b DEF Counted
  <2> QED
    BY <2>1 DEF SInv, Totals
<1> QED
  BY <1>1, <1>2, <1>3, <1>4, <1>5 DEF SInv

\* NewQueue preserves the invariant: the new queue is in the creator's hands alone,
\* its flag set so that no push schedules it, and the context counts.
LEMMA NewQueueKeeps ==
  ASSUME SInv, NEW w \in Worker, NewQueue(w)
  PROVE  SInv'
<1> USE DEF NewQueue, workVars, opVars
<1> DEFINE s == born[w]
<1>a. /\ npc[w] = "register" /\ s \in Service /\ life[s] = "live" /\ mqlife[s] = "none"
      /\ ~ release[s]
  BY ReferredLives DEF SInv, Lives, Launches, Lifetimes
<1>b. /\ mqlife \in [Service -> {"none", "live", "freed"}]
      /\ in_global \in [Service -> {0, 1}] /\ mq \in [Service -> Seq(Maybe(Service))]
      /\ npc \in [Worker -> NPCs] /\ total \in Int
  BY DEF SInv, RInv, TypeOK
<1>c. s \notin reserved /\ ~ InGlobal(s) /\ ~ Handled(s)
  BY <1>a DEF SInv, Lives, Queued, Places, Scheduled
<1> HIDE DEF s
<1>d. \A r : InGlobal(r)' <=> InGlobal(r)
  BY GlobalSame
<1>e. \A v \in Worker : Unpublished(v)' <=> (Unpublished(v) \/ v = w)
  BY <1>a, <1>b DEF Unpublished
<1>f. \A r : Handled(r)' <=> (Handled(r) \/ r = s)
  BY <1>e DEF Handled, s
<1>1. RInv'
  BY NewQueueStep DEF SInv
<1>2. Lives'
  <2>1. Referred'
    BY <1>a, <1>b DEF SInv, Lives, Referred, s
  <2>2. Lifetimes'
    BY <1>a, <1>b DEF SInv, Lives, Lifetimes, s
  <2>3. Queued'
    BY <1>a, <1>b DEF SInv, Lives, Queued, s
  <2>4. Launches'
    BY <1>a, <1>b DEF SInv, Lives, Launches, s
  <2> QED
    BY <2>1, <2>2, <2>3, <2>4 DEF Lives
<1>3. Places'
  <2>1. Linked' /\ Unlinked'
    BY <1>c, <1>d, <1>e, GlobalSame DEF SInv, Places, Unlinked, s
  <2>2. Unshared'
    BY <1>c, <1>e DEF SInv, Places, Unshared, Handled, s
  <2>3. Scheduled'
    BY <1>a, <1>b, <1>c, <1>d, <1>f DEF SInv, Places, Scheduled, s
  <2> QED
    BY <2>1, <2>2, <2>3, TurnsSame DEF SInv, Places
<1>4. Inits'
  BY <1>a, <1>b, <1>d DEF SInv, Inits, Ready, s
<1>5. Totals'
  <2>1. s \notin Counted /\ Counted' = Counted \cup {s}
    BY <1>a, <1>b, <1>c DEF Counted, s
  <2>2. IsFiniteSet(Counted) /\ total = Cardinality(Counted)
    BY DEF SInv, Totals
  <2>3. IsFiniteSet(Counted \cup {s}) /\ Cardinality(Counted \cup {s}) = Cardinality(Counted) + 1
    BY <2>1, <2>2, FS_AddElement
  <2> QED
    BY <2>1, <2>2, <2>3 DEF Totals
<1> QED
  BY <1>1, <1>2, <1>3, <1>4, <1>5 DEF SInv

\* Reserve preserves the invariant: the reserved context no longer counts.
LEMMA ReserveKeeps ==
  ASSUME SInv, NEW w \in Worker, Reserve(w)
  PROVE  SInv'
<1> USE DEF Reserve, mqVars, workVars, newVars, opVars
<1> DEFINE s == born[w]
<1>a. s \in Service /\ life[s] = "live" /\ mqlife[s] # "none" /\ s \notin reserved /\ ref[s] > 0
  BY ReferredLives DEF SInv, Lives, Launches
<1>b. ref \in [Service -> Nat] /\ total \in Int /\ del \in [Thread -> Maybe(Service)]
  BY DEF SInv, RInv, TypeOK
<1> HIDE DEF s
<1>1. RInv'
  BY ReserveStep DEF SInv
<1>2. Lives'
  <2>1. Referred'
    BY <1>a, <1>b DEF SInv, Lives, Referred, Maybe, s
  <2>2. Queued'
    BY <1>a DEF SInv, Lives, Queued, s
  <2>3. Lifetimes' /\ Launches'
    BY DEF SInv, Lives, Lifetimes, Launches
  <2> QED
    BY <2>1, <2>2, <2>3 DEF Lives
<1>3. Places'
  BY TurnsSame, PlacesSame DEF SInv, Places, Unpublished
<1>4. Inits'
  BY InitsSame DEF SInv
<1>5. Totals'
  <2>1. s \in Counted /\ Counted' = Counted \ {s}
    BY <1>a DEF Counted, s
  <2>2. IsFiniteSet(Counted) /\ total = Cardinality(Counted)
    BY DEF SInv, Totals
  <2>3. IsFiniteSet(Counted \ {s}) /\ Cardinality(Counted \ {s}) = Cardinality(Counted) - 1
    BY <2>1, <2>2, FS_RemoveElement
  <2> QED
    BY <2>1, <2>2, <2>3 DEF Totals
<1> QED
  BY <1>1, <1>2, <1>3, <1>4, <1>5 DEF SInv

\* The creator's release, in both outcomes of the init function.
LEMMA CreatorReleased ==
  ASSUME SInv, RInv', NEW w \in Worker, npc[w] = "init", Free(w),
         fengnet_context_release(w, born[w]),
         NEW p \in {"gone", "ready", "failed"}, npc' = [npc EXCEPT ![w] = p],
         p = "gone" => ref[born[w]] = 1,
         UNCHANGED <<slot, init, life, reserved, total, mqVars, workVars, born, dropq, opVars>>
  PROVE  SInv'
<1> USE DEF mqVars, workVars, opVars
<1>a. /\ born[w] \in Service /\ ref[born[w]] > 0 /\ mqlife[born[w]] # "none"
      /\ npc \in [Worker -> NPCs] /\ ref \in [Service -> Nat] /\ w \in Thread
  BY ReferredLives DEF SInv, Lives, Launches, RInv, TypeOK, Thread
<1>1. Lives'
  <2>1. Referred'
    BY <1>a, ReferenceDropped DEF Free
  <2>2. Lifetimes' /\ Queued'
    BY DEF SInv, Lives, Lifetimes, Queued
  <2>3. Launches'
    BY <1>a DEF SInv, Lives, Launches
  <2> QED
    BY <2>1, <2>2, <2>3 DEF Lives
<1>2. Places'
  <2>1. \A v \in Worker : Unpublished(v)' <=> Unpublished(v)
    BY <1>a DEF Unpublished
  <2> QED
    BY <2>1, TurnsSame, PlacesSame DEF SInv, Places
<1>3. Inits'
  <2>1. p = "gone" => Ready(born[w])'
    <3>1. SUFFICES ASSUME p = "gone" PROVE born[w] \notin slot'
      BY DEF Ready
    <3>2. ref'[born[w]] = 0
      BY <3>1, <1>a DEF fengnet_context_release
    <3>3. (\A s \in slot : ref[s] > 0)'
      BY SlotIsCounted, PTL
    <3> QED
      BY <3>2, <3>3
  <2>2. \A v \in Worker : npc'[v] \in {"publish", "gone", "discard"} =>
          npc[v] \in {"publish", "gone", "discard"} \/ Ready(born[v])'
    BY <2>1, <1>a
  <2> QED
    BY <2>2, InitsSame DEF SInv
<1>4. Totals'
  BY TotalsSame DEF SInv
<1> QED
  BY <1>1, <1>2, <1>3, <1>4 DEF SInv

\* InitDone preserves the invariant.
LEMMA InitDoneKeeps ==
  ASSUME SInv, NEW w \in Worker, InitDone(w)
  PROVE  SInv'
<1>1. RInv'
  BY InitDoneStep DEF SInv
<1>2. CASE ref[born[w]] = 1
  <2>1. npc' = [npc EXCEPT ![w] = "gone"]
    BY <1>2 DEF InitDone
  <2> QED
    BY <1>1, <1>2, <2>1, CreatorReleased DEF InitDone
<1>3. CASE ref[born[w]] # 1
  <2>1. npc' = [npc EXCEPT ![w] = "ready"]
    BY <1>3 DEF InitDone
  <2> QED
    BY <1>1, <2>1, CreatorReleased DEF InitDone
<1> QED
  BY <1>2, <1>3

\* InitFailed preserves the invariant.
LEMMA InitFailedKeeps ==
  ASSUME SInv, NEW w \in Worker, InitFailed(w)
  PROVE  SInv'
<1>1. RInv'
  BY InitFailedStep DEF SInv
<1> QED
  BY <1>1, CreatorReleased DEF InitFailed

\* SetInit preserves the invariant: a context freed meanwhile is out of the storage.
LEMMA SetInitKeeps ==
  ASSUME SInv, NEW w \in Worker, SetInit(w)
  PROVE  SInv'
<1> USE DEF SetInit, mqVars, workVars, opVars
<1>a. /\ npc[w] = "ready" /\ born[w] \in Service /\ mqlife[born[w]] # "none"
      /\ life[born[w]] = "freed" => born[w] \notin slot
      /\ npc \in [Worker -> NPCs] /\ init \in [Service -> BOOLEAN]
  BY HandsHoldServices, ReferredLives DEF SInv, Lives, Launches, RInv, TypeOK
<1>b. /\ \A r \in Service : (init[r] => init'[r]) /\ (Ready(r) => Ready(r)')
      /\ Ready(born[w])'
  BY <1>a DEF Ready
<1>1. RInv'
  BY SetInitStep DEF SInv
<1>2. Lives'
  <2>1. Referred' /\ Lifetimes' /\ Queued'
    BY DEF SInv, Lives, Referred, Lifetimes, Queued
  <2>2. Launches'
    BY <1>a DEF SInv, Lives, Launches
  <2> QED
    BY <2>1, <2>2 DEF Lives
<1>3. Places'
  <2>1. \A v \in Worker : Unpublished(v)' <=> Unpublished(v)
    BY <1>a DEF Unpublished
  <2> QED
    BY <2>1, TurnsSame, PlacesSame DEF SInv, Places
<1>4. Inits'
  <2>1. \A r : InGlobal(r)' <=> InGlobal(r)
    BY GlobalSame
  <2>2. \A v \in Worker : npc'[v] = npc[v] \/ v = w
    BY <1>a
  <2>3. \A v \in Worker : npc'[v] \in {"publish", "gone", "discard"} => Ready(born[v])'
    BY <1>a, <1>b, <2>2, HandsHoldServices DEF SInv, Inits
  <2> QED
    BY <1>b, <2>1, <2>3, HandsHoldServices DEF SInv, Inits
<1>5. Totals'
  BY TotalsSame DEF SInv
<1> QED
  BY <1>1, <1>2, <1>3, <1>4, <1>5 DEF SInv

\* A queue that leaves the hands of w for the global queue is still in one place.
LEMMA LaunchLinked ==
  ASSUME SInv, RInv', NEW w \in Worker, Unpublished(w), ~ Unpublished(w)',
         npc[w] \in {"publish", "gone", "discard"},
         global' = Append(global, born[w]),
         \A v \in Worker \ {w} : npc'[v] = npc[v] /\ born'[v] = born[v],
         UNCHANGED <<slot, init, mq, mqlife, in_global, release, workVars, dropq>>
  PROVE  Places' /\ Inits'
<1> USE DEF workVars
<1> DEFINE s == born[w]
<1>a. s \in Service /\ global \in Seq(Service) /\ Ready(s)
  BY HandsHoldServices DEF SInv, RInv, TypeOK, Inits
<1>b. ~ InGlobal(s) /\ Handled(s)
  BY DEF SInv, Places, Unlinked, Handled
<1>c. \A v \in Worker :
        /\ q[v] # s /\ nq[v] # s /\ dropq[v] # s
        /\ v # w /\ Unpublished(v) => born[v] # s
  BY DEF SInv, Places, Unshared
<1>d. \A v \in Worker \ {w} : Unpublished(v)' <=> Unpublished(v)
  BY DEF Unpublished
<1> HIDE DEF s
<1>e. (\A r : InGlobal(r)' <=> (InGlobal(r) \/ r = s)) /\ Linked'
  BY <1>a, <1>b, GlobalPush DEF SInv, Places, s
<1>f. \A r : Handled(r)' <=> (Handled(r) /\ r # s)
  BY <1>c, <1>d DEF Handled, s
<1>1. Places'
  <2>1. Unlinked'
    BY <1>c, <1>d, <1>e DEF SInv, Places, Unlinked
  <2>2. Unshared'
    BY <1>d DEF SInv, Places, Unshared
  <2>3. Scheduled'
    BY <1>b, <1>e, <1>f DEF SInv, Places, Scheduled
  <2> QED
    BY <2>1, <2>2, <2>3, <1>e, TurnsSame DEF SInv, Places
<1>2. Inits'
  <2>1. \A v \in Worker : npc'[v] \in {"publish", "gone", "discard"} => v # w
    BY DEF Unpublished
  <2> QED
    BY <1>a, <1>e, <2>1 DEF SInv, Inits, Ready
<1> QED
  BY <1>1, <1>2

\* Publish preserves the invariant.
LEMMA PublishKeeps ==
  ASSUME SInv, NEW w \in Worker, Publish(w)
  PROVE  SInv'
<1> USE DEF Publish, ctxVars, workVars, opVars
<1>a. npc \in [Worker -> NPCs] /\ born \in [Worker -> Maybe(Service)]
  BY DEF SInv, RInv, TypeOK
<1>b. /\ npc'[w] \in {"report", "none"} /\ (npc'[w] # "none" => born'[w] = born[w])
      /\ \A v \in Worker \ {w} : npc'[v] = npc[v] /\ born'[v] = born[v]
  BY <1>a
<1>1. RInv'
  BY PublishStep DEF SInv
<1>2. Lives'
  <2>1. Referred' /\ Lifetimes' /\ Queued'
    BY DEF SInv, Lives, Referred, Lifetimes, Queued
  <2>2. Launches'
    BY <1>b DEF SInv, Lives, Launches
  <2> QED
    BY <2>1, <2>2 DEF Lives
<1>3. Places' /\ Inits'
  <2>1. Unpublished(w) /\ ~ Unpublished(w)'
    BY <1>b DEF Unpublished
  <2> QED
    BY <1>1, <1>b, <2>1, LaunchLinked
<1>4. Totals'
  BY TotalsSame DEF SInv
<1> QED
  BY <1>1, <1>2, <1>3, <1>4 DEF SInv

\* Report preserves the invariant.
LEMMA ReportKeeps ==
  ASSUME SInv, NEW w \in Worker, Report(w)
  PROVE  SInv'
<1> USE DEF Report, ctxVars, mqVars, workVars, opVars
<1>a. npc \in [Worker -> NPCs] /\ born \in [Worker -> Maybe(Service)]
  BY DEF SInv, RInv, TypeOK
<1>b. /\ npc[w] = "report" /\ npc'[w] = "none"
      /\ \A v \in Worker \ {w} : npc'[v] = npc[v] /\ born'[v] = born[v]
  BY <1>a
<1>1. RInv'
  BY ReportStep DEF SInv
<1>2. Lives'
  <2>1. Referred' /\ Lifetimes' /\ Queued'
    BY DEF SInv, Lives, Referred, Lifetimes, Queued
  <2>2. Launches'
    BY <1>b DEF SInv, Lives, Launches
  <2> QED
    BY <2>1, <2>2 DEF Lives
<1>3. Places'
  <2>1. \A v \in Worker : /\ Unpublished(v)' <=> Unpublished(v)
                          /\ Unpublished(v) => born'[v] = born[v]
    BY <1>b DEF Unpublished
  <2> QED
    BY <2>1, TurnsSame, PlacesSame DEF SInv, Places
<1>4. Inits'
  BY <1>b, InitsSame DEF SInv
<1>5. Totals'
  BY TotalsSame DEF SInv
<1> QED
  BY <1>1, <1>2, <1>3, <1>4, <1>5 DEF SInv

\* FailedRetire preserves the invariant: whether it finds the service or somebody has
\* retired it before, the service is out of the storage.
LEMMA FailedRetireKeeps ==
  ASSUME SInv, NEW w \in Worker, FailedRetire(w)
  PROVE  SInv'
<1> USE DEF FailedRetire
<1>a. /\ born[w] \in Service /\ mqlife[born[w]] # "none" /\ w \in Thread
      /\ npc \in [Worker -> NPCs] /\ slot \subseteq Service
  BY HandsHoldServices DEF SInv, Lives, Launches, RInv, TypeOK, Thread
<1>b. slot' = slot \ {born[w]} /\ (peer' = [peer EXCEPT ![w] = born[w]] \/ UNCHANGED peer)
  BY <1>a DEF Registered, TakeFromStorage
<1>c. \A v \in Worker : npc'[v] = npc[v] \/
        (npc[v] = "failed" /\ npc'[v] = "discard" /\ born[v] \notin slot')
  BY <1>a, <1>b
<1>1. RInv'
  BY FailedRetireStep DEF SInv
<1> QED
  BY <1>a, <1>b, <1>c, <1>1, StorageTaken

\* FailedDiscard preserves the invariant: a marked queue passes to the drop, any other
\* to the global queue.
LEMMA FailedDiscardKeeps ==
  ASSUME SInv, NEW w \in Worker, FailedDiscard(w)
  PROVE  SInv'
<1> USE DEF FailedDiscard, ctxVars, workVars, opVars
<1> DEFINE s == born[w]
<1>a. /\ npc \in [Worker -> NPCs] /\ born \in [Worker -> Maybe(Service)]
      /\ dropq \in [Worker -> Maybe(Service)]
      /\ npc[w] = "discard" /\ s \in Service /\ s # None
  BY HandsHoldServices, Names DEF SInv, RInv, TypeOK
<1>b. /\ npc'[w] = "none" /\ born'[w] = None
      /\ \A v \in Worker \ {w} : npc'[v] = npc[v] /\ born'[v] = born[v]
  BY <1>a
<1>c. Unpublished(w) /\ ~ Unpublished(w)' /\ dropq[w] = None
  BY <1>a, <1>b DEF Unpublished, SInv, RInv, Locals, WorkerLocals
<1>1. RInv'
  BY FailedDiscardStep DEF SInv
<1>2. Lives'
  <2>1. Referred' /\ Lifetimes' /\ Queued'
    BY DEF SInv, Lives, Referred, Lifetimes, Queued
  <2>2. \A v \in Worker : dropq'[v] # None => release'[dropq'[v]]
    BY <1>a DEF SInv, Lives, Launches, fengnet_mq_release
  <2>3. Launches'
    BY <1>b, <2>2 DEF SInv, Lives, Launches
  <2> QED
    BY <2>1, <2>3 DEF Lives
<1>3. Places' /\ Inits'
  <2>1. CASE ~ release[s]
    BY <2>1, <1>1, <1>a, <1>b, <1>c, LaunchLinked DEF fengnet_mq_release
  <2>2. CASE release[s]
    <3>1. dropq' = [dropq EXCEPT ![w] = s] /\ global' = global
      BY <2>2 DEF fengnet_mq_release
    <3>2. \A r : InGlobal(r)' <=> InGlobal(r)
      BY <3>1, GlobalSame
    <3>3. \A v \in Worker :
            /\ q[v] # s /\ nq[v] # s /\ dropq[v] # s
            /\ v # w /\ Unpublished(v) => born[v] # s
      BY <1>c DEF SInv, Places, Unshared
    <3>4. ~ InGlobal(s)
      BY <1>c DEF SInv, Places, Unlinked
    <3>5. \A v \in Worker \ {w} : Unpublished(v)' <=> Unpublished(v)
      BY <1>b DEF Unpublished
    <3>6. dropq'[w] = s /\ \A v \in Worker \ {w} : dropq'[v] = dropq[v]
      BY <3>1, <1>a
    <3> HIDE DEF s
    <3>7. \A r \in Service : Handled(r)' <=> Handled(r)
      <4> SUFFICES ASSUME NEW r \in Service PROVE Handled(r)' <=> Handled(r)
        OBVIOUS
      <4>1. r # None
        BY Names
      <4>2. CASE r = s
        BY <4>2, <3>6, <1>c DEF Handled, s
      <4>3. CASE r # s
        BY <4>1, <4>3, <1>c, <1>b, <3>5, <3>6 DEF Handled, s
      <4> QED
        BY <4>2, <4>3
    <3>8. Unlinked'
      BY <1>c, <3>2, <3>4, <3>5, <3>6, <1>b DEF SInv, Places, Unlinked
    <3>9. Unshared'
      BY <1>c, <3>3, <3>5, <3>6, <1>b DEF SInv, Places, Unshared
    <3>10. Scheduled'
      BY <3>2, <3>7 DEF SInv, Places, Scheduled
    <3>11. Inits'
      BY <1>b, <3>1, InitsSame DEF SInv
    <3> QED
      BY <3>1, <3>8, <3>9, <3>10, <3>11, GlobalSame, TurnsSame DEF SInv, Places
  <2> QED
    BY <2>1, <2>2
<1>4. Totals'
  BY TotalsSame DEF SInv
<1> QED
  BY <1>1, <1>2, <1>3, <1>4 DEF SInv
-----------------------------------------------------------------------------
(* Dispatching *)

\* DropMessage preserves the invariant.
LEMMA DropMessageKeeps ==
  ASSUME SInv, NEW w \in Worker, DropMessage(w)
  PROVE  SInv'
<1> USE DEF DropMessage
<1>a. /\ dropq[w] \in Service /\ mq \in [Service -> Seq(Maybe(Service))]
      /\ mq[dropq[w]] # <<>> /\ w \in Thread
  BY HandsHoldServices DEF SInv, RInv, TypeOK, Thread
<1>b. \A r \in Service : mq'[r] # <<>> => mq[r] # <<>>
  BY <1>a
<1>c. Head(mq[dropq[w]]) \in Maybe(Service)
  BY <1>a, HeadTailProperties
<1> DEFINE source == Head(mq[dropq[w]])
<1>1. RInv'
  BY DropMessageStep DEF SInv
<1>2. CASE source # None /\ Registered(source)
  BY <1>1, <1>2, <1>a, <1>b, <1>c, PeerGrabbed DEF Maybe
<1>3. CASE ~ (source # None /\ Registered(source))
  BY <1>1, <1>3, <1>b, TurnsSame, NothingMoves DEF SInv, Places, ctxVars, workVars
<1> QED
  BY <1>2, <1>3

\* DropDone preserves the invariant: the queue freed was in the hands of w alone.
LEMMA DropDoneKeeps ==
  ASSUME SInv, NEW w \in Worker, DropDone(w)
  PROVE  SInv'
<1> USE DEF DropDone, ctxVars, workVars, opVars
<1> DEFINE s == dropq[w]
<1>a. /\ s \in Service /\ s # None /\ release[s]
      /\ mqlife \in [Service -> {"none", "live", "freed"}]
      /\ in_global \in [Service -> {0, 1}] /\ dropq \in [Worker -> Maybe(Service)]
  BY HandsHoldServices DEF SInv, Lives, Launches, RInv, TypeOK
<1>b. ~ InGlobal(s) /\ Handled(s) /\ mqlife[s] = "live"
  BY <1>a DEF SInv, Places, Unlinked, Handled, Scheduled
<1>c. \A v \in Worker : /\ q[v] # s /\ nq[v] # s /\ (Unpublished(v) => born[v] # s)
                        /\ dropq[v] = s => v = w
  BY <1>a DEF SInv, Places, Unshared
<1>d. \A v \in Worker : dropq'[v] = dropq[v] \/ (dropq'[v] = None /\ dropq[v] = s)
  BY <1>a
<1>e. \A v \in Worker : Unpublished(v)' <=> Unpublished(v)
  BY DEF Unpublished
<1>f. \A r : InGlobal(r)' <=> InGlobal(r)
  BY GlobalSame
<1>g. dropq'[w] = None
  BY <1>a
<1> HIDE DEF s
<1>h. \A r \in Service : Handled(r)' => Handled(r) /\ r # s
  <2> SUFFICES ASSUME NEW r \in Service, NEW v \in Worker,
                      \/ q'[v] = r \/ nq'[v] = r \/ dropq'[v] = r
                      \/ (Unpublished(v)' /\ born'[v] = r)
               PROVE  Handled(r) /\ r # s
    BY DEF Handled
  <2>1. dropq'[v] = r => dropq[v] = r /\ r # s
    BY <1>a, <1>c, <1>d, <1>g, Names DEF s
  <2> QED
    BY <2>1, <1>c, <1>e DEF Handled
<1>i. \A r \in Service \ {s} : Handled(r) => Handled(r)'
  BY <1>d, <1>e DEF Handled
<1>1. RInv'
  BY DropDoneStep DEF SInv
<1>2. Lives'
  <2>1. Referred' /\ Lifetimes' /\ Queued'
    BY <1>a, <1>b DEF SInv, Lives, Referred, Lifetimes, Queued, s
  <2>2. Launches'
    BY <1>a, <1>b, <1>d DEF SInv, Lives, Launches, s
  <2> QED
    BY <2>1, <2>2 DEF Lives
<1>3. Places'
  <2>1. Unlinked'
    BY <1>d, <1>e, <1>f, NoneUnlinked DEF SInv, Places, Unlinked
  <2>2. Unshared'
    BY <1>d, <1>e, HandsHoldServices, Names DEF SInv, Places, Unshared, Unpublished
  <2>3. Scheduled'
    <3> SUFFICES ASSUME NEW r \in Service
                 PROVE  /\ InGlobal(r)' \/ Handled(r)' => mqlife'[r] = "live"
                        /\ InGlobal(r)' \/ Handled(r)' => in_global'[r] = 1 \/ release'[r]
                        /\ mqlife'[r] = "live" /\ (in_global'[r] = 1 \/ release'[r])
                             => InGlobal(r)' \/ Handled(r)'
                        /\ mqlife'[r] = "live" /\ mq'[r] # <<>>
                             => in_global'[r] = 1 \/ release'[r]
      BY DEF Scheduled
    <3>1. CASE r = s
      BY <3>1, <1>a, <1>b, <1>f, <1>h DEF s
    <3>2. CASE r # s
      BY <3>2, <1>a, <1>f, <1>h, <1>i DEF SInv, Places, Scheduled, s
    <3> QED
      BY <3>1, <3>2
  <2> QED
    BY <2>1, <2>2, <2>3, TurnsSame, GlobalSame DEF SInv, Places
<1>4. Inits'
  BY <1>a, <1>f DEF SInv, Inits, Ready, s
<1>5. Totals'
  <2>1. Counted' = Counted
    BY <1>a, <1>b DEF Counted, s
  <2> QED
    BY <2>1 DEF SInv, Totals
<1> QED
  BY <1>1, <1>2, <1>3, <1>4, <1>5 DEF SInv

\* fengnet_globalmq_pop: the first queue passes from the global queue into the hands of w.
LEMMA QueueTaken ==
  ASSUME SInv, RInv', Turns', NEW w \in Worker, global # <<>>, global' = Tail(global),
         \/ q[w] = None /\ q' = [q EXCEPT ![w] = Head(global)] /\ UNCHANGED nq
         \/ nq[w] = None /\ nq' = [nq EXCEPT ![w] = Head(global)] /\ UNCHANGED q,
         UNCHANGED <<ctxVars, mq, mqlife, in_global, release, ctx, newVars, peer, del>>
  PROVE  SInv'
<1> USE DEF ctxVars, newVars
<1> DEFINE s == Head(global)
<1>a. /\ InGlobal(s) /\ s \in Service /\ s # None
      /\ \A r : InGlobal(r)' <=> (InGlobal(r) /\ r # s)
      /\ Linked'
  BY GlobalPop, Names DEF SInv, Places, RInv, TypeOK
<1>b. /\ \A v \in Worker : q[v] # s /\ nq[v] # s /\ dropq[v] # s
      /\ \A v \in Worker : Unpublished(v) => born[v] # s
  BY <1>a DEF SInv, Places, Unlinked
<1>c. \A v \in Worker : Unpublished(v)' <=> Unpublished(v)
  BY DEF Unpublished
<1>d. q \in [Worker -> Maybe(Service)] /\ nq \in [Worker -> Maybe(Service)]
  BY DEF SInv, RInv, TypeOK
<1>e. /\ \A v \in Worker \ {w} : q'[v] = q[v] /\ nq'[v] = nq[v]
      /\ \/ q[w] = None /\ q'[w] = s /\ nq'[w] = nq[w]
         \/ nq[w] = None /\ nq'[w] = s /\ q'[w] = q[w]
  BY <1>d
<1> HIDE DEF s
<1>f. \A r \in Service : Handled(r)' <=> (Handled(r) \/ r = s)
  <2> SUFFICES ASSUME NEW r \in Service PROVE Handled(r)' <=> (Handled(r) \/ r = s)
    OBVIOUS
  <2>1. r # None
    BY Names
  <2>2. ASSUME Handled(r)' PROVE Handled(r) \/ r = s
    BY <2>2, <1>c, <1>e DEF Handled
  <2>3. ASSUME Handled(r) PROVE Handled(r)'
    BY <2>1, <2>3, <1>c, <1>e DEF Handled
  <2>4. ASSUME r = s PROVE Handled(r)'
    BY <2>4, <1>e DEF Handled
  <2> QED
    BY <2>2, <2>3, <2>4
<1>1. Lives'
  BY LivesSame DEF SInv
<1>2. Places'
  <2>1. Unlinked'
    BY <1>a, <1>c, <1>e DEF SInv, Places, Unlinked
  <2>2. Unshared'
    BY <1>a, <1>b, <1>c, <1>e DEF SInv, Places, Unshared
  <2>3. Scheduled'
    BY <1>a, <1>f DEF SInv, Places, Scheduled
  <2> QED
    BY <1>a, <2>1, <2>2, <2>3 DEF Places
<1>3. Inits'
  BY <1>a, <1>e DEF SInv, Inits, Ready
<1>4. Totals'
  BY TotalsSame DEF SInv
<1> QED
  BY <1>1, <1>2, <1>3, <1>4 DEF SInv

\* TakeQueue preserves the invariant.
LEMMA TakeQueueKeeps ==
  ASSUME SInv, NEW w \in Worker, TakeQueue(w)
  PROVE  SInv'
<1> USE DEF TakeQueue, At
<1>1. RInv'
  BY TakeQueueStep DEF SInv
<1>2. q[w] = None
  BY DEF SInv, Places, Turns
<1>3. Turns'
  BY DEF SInv, Places, Turns, RInv, TypeOK
<1> QED
  BY <1>1, <1>2, <1>3, QueueTaken DEF opVars

\* NextQueue preserves the invariant.
LEMMA NextQueueKeeps ==
  ASSUME SInv, NEW w \in Worker, NextQueue(w)
  PROVE  SInv'
<1> USE DEF NextQueue, At
<1>1. RInv'
  BY NextQueueStep DEF SInv
<1>2. nq[w] = None
  BY DEF SInv, Places, Turns
<1>3. CASE global # <<>>
  <2>1. Turns'
    BY <1>3, GlobalPop, Names DEF SInv, Places, Turns, RInv, TypeOK
  <2> QED
    BY <1>1, <1>2, <1>3, <2>1, QueueTaken DEF opVars
<1>4. CASE global = <<>>
  <2>1. Turns'
    BY <1>4 DEF SInv, Places, Turns, RInv, TypeOK
  <2> QED
    BY <1>1, <1>4, <2>1, NothingMoves DEF opVars
<1> QED
  BY <1>3, <1>4

\* Grab preserves the invariant: a queue that a worker has, of a service that is still
\* in the storage, belongs to an initialised service.
LEMMA GrabKeeps ==
  ASSUME SInv, NEW w \in Worker, Grab(w)
  PROVE  SInv'
<1> USE DEF Grab, At
<1>1. RInv'
  BY GrabStep DEF SInv
<1>a. /\ q[w] \in Service /\ q[w] # None
      /\ ctx \in [Worker -> Maybe(Service)] /\ pc \in [Worker -> PCs]
      /\ ref \in [Service -> Nat]
  BY Names DEF SInv, RInv, TypeOK, Maybe, Locals, WorkerLocals
<1>2. CASE Registered(q[w])
  <2>a. /\ q[w] \in slot /\ ref[q[w]] > 0 /\ life[q[w]] = "live" /\ mqlife[q[w]] # "none"
        /\ init[q[w]]
    BY <1>2, <1>a, ReferredLives DEF SInv, Registered, Inits, Ready
  <2>b. /\ ctx' = [ctx EXCEPT ![w] = q[w]] /\ pc' = [pc EXCEPT ![w] = "first"]
        /\ ref' = [ref EXCEPT ![q[w]] = @ + 1]
    BY <1>2
  <2> USE DEF mqVars, newVars, opVars
  <2>1. Lives'
    <3>1. Referred'
      BY <1>a, <2>a, <2>b DEF SInv, Lives, Referred, RInv, TypeOK, Maybe
    <3>2. Queued'
      BY <1>a, <2>a, <2>b DEF SInv, Lives, Queued
    <3>3. Lifetimes' /\ Launches'
      BY DEF SInv, Lives, Lifetimes, Launches
    <3> QED
      BY <3>1, <3>2, <3>3 DEF Lives
  <2>2. Turns'
    BY <1>a, <2>b DEF SInv, Places, Turns
  <2>3. Places'
    BY <2>2, PlacesSame DEF SInv, Unpublished
  <2>4. Inits'
    <3>1. \A r : InGlobal(r)' <=> InGlobal(r)
      BY GlobalSame
    <3> QED
      BY <1>a, <2>a, <2>b, <3>1 DEF SInv, Inits, Ready
  <2>5. Totals'
    BY TotalsSame DEF SInv
  <2> QED
    BY <1>1, <2>1, <2>3, <2>4, <2>5 DEF SInv
<1>3. CASE ~ Registered(q[w])
  <2>1. Turns'
    BY <1>a, <1>3 DEF SInv, Places, Turns
  <2> QED
    BY <1>1, <1>3, <2>1, NothingMoves DEF opVars, mqVars, ctxVars
<1> QED
  BY <1>2, <1>3

\* Orphan preserves the invariant: a marked queue passes from the worker to its drop,
\* any other back to the global queue.
LEMMA OrphanKeeps ==
  ASSUME SInv, NEW w \in Worker, Orphan(w)
  PROVE  SInv'
<1> USE DEF Orphan, At, ctxVars, opVars
<1>a. /\ q[w] \in Service /\ q[w] # None /\ dropq[w] = None /\ pc[w] = "orphan"
      /\ pc \in [Worker -> PCs] /\ q \in [Worker -> Maybe(Service)]
      /\ dropq \in [Worker -> Maybe(Service)] /\ global \in Seq(Service)
  BY Names DEF SInv, RInv, TypeOK, Maybe, Locals, WorkerLocals
<1>b. /\ ~ InGlobal(q[w]) /\ Ready(q[w])
      /\ \A v \in Worker : /\ v # w => q[v] # q[w]
                           /\ nq[v] # q[w] /\ dropq[v] # q[w]
                           /\ Unpublished(v) => born[v] # q[w]
  BY <1>a DEF SInv, Places, Unlinked, Unshared, Inits
<1>c. q'[w] = None /\ \A v \in Worker \ {w} : q'[v] = q[v]
  BY <1>a
<1>d. \A v \in Worker : Unpublished(v)' <=> Unpublished(v)
  BY DEF Unpublished
<1>1. RInv'
  BY OrphanStep DEF SInv
<1>2. Turns'
  BY <1>a, <1>c DEF SInv, Places, Turns
<1>3. CASE release[q[w]]
  <2>a. dropq' = [dropq EXCEPT ![w] = q[w]] /\ global' = global
    BY <1>3 DEF fengnet_mq_release
  <2>b. dropq'[w] = q[w] /\ \A v \in Worker \ {w} : dropq'[v] = dropq[v]
    BY <2>a, <1>a
  <2>c. \A r : InGlobal(r)' <=> InGlobal(r)
    BY <2>a, GlobalSame
  <2>d. \A r \in Service : Handled(r)' <=> Handled(r)
    <3> SUFFICES ASSUME NEW r \in Service PROVE Handled(r)' <=> Handled(r)
      OBVIOUS
    <3>1. r # None
      BY Names
    <3>2. ASSUME Handled(r)' PROVE Handled(r)
      BY <3>1, <3>2, <1>c, <1>d, <2>b DEF Handled
    <3>3. ASSUME Handled(r) PROVE Handled(r)'
      BY <3>1, <3>3, <1>a, <1>c, <1>d, <2>b DEF Handled
    <3> QED
      BY <3>2, <3>3
  <2>1. Lives'
    <3>1. Referred' /\ Lifetimes' /\ Queued'
      BY DEF SInv, Lives, Referred, Lifetimes, Queued
    <3>2. Launches'
      BY <1>3, <2>b DEF SInv, Lives, Launches
    <3> QED
      BY <3>1, <3>2 DEF Lives
  <2>2. Places'
    <3>1. Linked'
      BY <2>a, GlobalSame DEF SInv, Places
    <3>2. Unlinked'
      BY <1>b, <1>c, <1>d, <2>b, <2>c, NoneUnlinked DEF SInv, Places, Unlinked
    <3>3. Unshared'
      BY <1>a, <1>b, <1>c, <1>d, <2>b, HandsHoldServices, Names
         DEF SInv, Places, Unshared, Unpublished
    <3>4. Scheduled'
      BY <2>c, <2>d DEF SInv, Places, Scheduled
    <3> QED
      BY <1>2, <3>1, <3>2, <3>3, <3>4 DEF Places
  <2>3. Inits'
    BY <1>c, <2>c DEF SInv, Inits, Ready
  <2> QED
    BY <1>1, <2>1, <2>2, <2>3, TotalsSame DEF SInv
<1>4. CASE ~ release[q[w]]
  <2>a. global' = Append(global, q[w]) /\ dropq' = dropq
    BY <1>4 DEF fengnet_mq_release
  <2>c. (\A r : InGlobal(r)' <=> (InGlobal(r) \/ r = q[w])) /\ Linked'
    BY <2>a, <1>a, <1>b, GlobalPush DEF SInv, Places
  <2>d. \A r \in Service : Handled(r)' <=> (Handled(r) /\ r # q[w])
    <3> SUFFICES ASSUME NEW r \in Service PROVE Handled(r)' <=> (Handled(r) /\ r # q[w])
      OBVIOUS
    <3>1. r # None
      BY Names
    <3>2. ASSUME Handled(r)' PROVE Handled(r) /\ r # q[w]
      BY <3>1, <3>2, <1>b, <1>c, <1>d, <2>a DEF Handled
    <3>3. ASSUME Handled(r), r # q[w] PROVE Handled(r)'
      BY <3>1, <3>3, <1>c, <1>d, <2>a DEF Handled
    <3> QED
      BY <3>2, <3>3
  <2>1. Lives'
    BY <2>a, LivesSame DEF SInv
  <2>2. Places'
    <3>2. Unlinked'
      BY <1>a, <1>b, <1>c, <1>d, <2>a, <2>c, NoneUnlinked DEF SInv, Places, Unlinked
    <3>3. Unshared'
      BY <1>a, <1>b, <1>c, <1>d, <2>a, HandsHoldServices, Names
         DEF SInv, Places, Unshared, Unpublished
    <3>4. Scheduled'
      <4>1. Handled(q[w])
        BY DEF Handled
      <4> QED
        BY <1>a, <4>1, <2>c, <2>d DEF SInv, Places, Scheduled
    <3> QED
      BY <1>2, <2>c, <3>2, <3>3, <3>4 DEF Places
  <2>3. Inits'
    BY <1>b, <1>c, <2>c DEF SInv, Inits, Ready
  <2> QED
    BY <1>1, <2>1, <2>2, <2>3, TotalsSame DEF SInv
<1> QED
  BY <1>3, <1>4

\* PopEmpty preserves the invariant: the queue was in the hands of w alone, and its
\* context lives, so no release mark is forgotten.
LEMMA PopEmptyKeeps ==
  ASSUME SInv, NEW w \in Worker, PopEmpty(w)
  PROVE  SInv'
<1> USE DEF PopEmpty, At, ctxVars, newVars, opVars
<1>a. /\ q[w] \in Service /\ q[w] # None /\ pc[w] \in {"first", "pop"} /\ mq[q[w]] = <<>>
      /\ pc \in [Worker -> PCs] /\ q \in [Worker -> Maybe(Service)]
      /\ in_global \in [Service -> {0, 1}]
  BY Names DEF SInv, RInv, TypeOK, Maybe, Locals, WorkerLocals
<1>b. q[w] = ctx[w] /\ init[q[w]] /\ ~ release[q[w]]
  BY <1>a, ReferredLives DEF SInv, Places, Turns, Inits
<1>c. /\ ~ InGlobal(q[w])
      /\ \A v \in Worker : /\ v # w => q[v] # q[w]
                           /\ nq[v] # q[w] /\ dropq[v] # q[w]
                           /\ Unpublished(v) => born[v] # q[w]
  BY <1>a DEF SInv, Places, Unlinked, Unshared
<1>d. q'[w] = None /\ \A v \in Worker \ {w} : q'[v] = q[v]
  BY <1>a
<1>e. \A v \in Worker : Unpublished(v)' <=> Unpublished(v)
  BY DEF Unpublished
<1>f. \A r : InGlobal(r)' <=> InGlobal(r)
  BY GlobalSame
<1>g. \A r \in Service : Handled(r)' <=> (Handled(r) /\ r # q[w])
  <2> SUFFICES ASSUME NEW r \in Service PROVE Handled(r)' <=> (Handled(r) /\ r # q[w])
    OBVIOUS
  <2>1. r # None
    BY Names
  <2>2. ASSUME Handled(r)' PROVE Handled(r) /\ r # q[w]
    BY <2>1, <2>2, <1>c, <1>d, <1>e DEF Handled
  <2>3. ASSUME Handled(r), r # q[w] PROVE Handled(r)'
    BY <2>1, <2>3, <1>d, <1>e DEF Handled
  <2> QED
    BY <2>2, <2>3
<1>1. RInv'
  BY PopEmptyStep DEF SInv
<1>2. Lives'
  BY LivesSame DEF SInv
<1>3. Places'
  <2>1. Turns'
    BY <1>a, <1>d DEF SInv, Places, Turns
  <2>2. Unlinked'
    BY <1>d, <1>e, <1>f, NoneUnlinked DEF SInv, Places, Unlinked
  <2>3. Unshared'
    BY <1>d, <1>e, HandsHoldServices, Names DEF SInv, Places, Unshared, Unpublished
  <2>4. Scheduled'
    <3> SUFFICES ASSUME NEW r \in Service
                 PROVE  /\ InGlobal(r)' \/ Handled(r)' => mqlife'[r] = "live"
                        /\ InGlobal(r)' \/ Handled(r)' => in_global'[r] = 1 \/ release'[r]
                        /\ mqlife'[r] = "live" /\ (in_global'[r] = 1 \/ release'[r])
                             => InGlobal(r)' \/ Handled(r)'
                        /\ mqlife'[r] = "live" /\ mq'[r] # <<>>
                             => in_global'[r] = 1 \/ release'[r]
      BY DEF Scheduled
    <3>1. CASE r = q[w]
      BY <3>1, <1>a, <1>b, <1>c, <1>f, <1>g
    <3>2. CASE r # q[w]
      BY <3>2, <1>a, <1>f, <1>g DEF SInv, Places, Scheduled
    <3> QED
      BY <3>1, <3>2
  <2> QED
    BY <2>1, <2>2, <2>3, <2>4, GlobalSame DEF SInv, Places
<1>4. Inits'
  BY <1>a, <1>b, <1>d, <1>f DEF SInv, Inits, Ready
<1> QED
  BY <1>1, <1>2, <1>3, <1>4, TotalsSame DEF SInv

\* Pop preserves the invariant.
LEMMA PopKeeps ==
  ASSUME SInv, NEW w \in Worker, Pop(w)
  PROVE  SInv'
<1> USE DEF Pop, At
<1>a. /\ q[w] \in Service /\ pc[w] \in {"first", "pop"} /\ mq[q[w]] # <<>>
      /\ mq \in [Service -> Seq(Maybe(Service))] /\ pc \in [Worker -> PCs]
  BY Names DEF SInv, RInv, TypeOK, Maybe, Locals, WorkerLocals
<1>b. \A r \in Service : mq'[r] # <<>> => mq[r] # <<>>
  BY <1>a
<1>c. pc'[w] \in {"length", "run"} /\ \A v \in Worker \ {w} : pc'[v] = pc[v]
  BY <1>a
<1>1. RInv'
  BY PopStep DEF SInv
<1>2. Turns'
  BY <1>a, <1>c DEF SInv, Places, Turns
<1> QED
  BY <1>b, <1>1, <1>2, NothingMoves DEF opVars

\* Length preserves the invariant.
LEMMA LengthKeeps ==
  ASSUME SInv, NEW w \in Worker, Length(w)
  PROVE  SInv'
<1> USE DEF Length, At
<1>1. RInv'
  BY LengthStep DEF SInv
<1>2. Turns'
  BY DEF SInv, Places, Turns, RInv, TypeOK
<1> QED
  BY <1>1, <1>2, NothingMoves DEF opVars, mqVars

\* Return preserves the invariant.
LEMMA ReturnKeeps ==
  ASSUME SInv, NEW w \in Worker, Return(w)
  PROVE  SInv'
<1> USE DEF Return, At
<1>1. RInv'
  BY ReturnStep DEF SInv
<1>2. Turns'
  BY DEF SInv, Places, Turns, RInv, TypeOK
<1> QED
  BY <1>1, <1>2, NothingMoves DEF opVars, mqVars

\* Requeue preserves the invariant: the two queues of w are not the same.
LEMMA RequeueKeeps ==
  ASSUME SInv, NEW w \in Worker, Requeue(w)
  PROVE  SInv'
<1> USE DEF Requeue, At, ctxVars, newVars, opVars
<1>a. /\ q[w] \in Service /\ q[w] # None /\ pc[w] = "requeue" /\ nq[w] # None
      /\ nq[w] \in Service
      /\ pc \in [Worker -> PCs] /\ q \in [Worker -> Maybe(Service)]
      /\ nq \in [Worker -> Maybe(Service)] /\ global \in Seq(Service)
  BY Names DEF SInv, RInv, TypeOK, Maybe, Locals, WorkerLocals, Places, Turns
<1>b. /\ ~ InGlobal(q[w]) /\ Ready(q[w]) /\ Ready(nq[w])
      /\ \A v \in Worker : /\ v # w => q[v] # q[w]
                           /\ nq[v] # q[w] /\ dropq[v] # q[w]
                           /\ Unpublished(v) => born[v] # q[w]
  BY <1>a DEF SInv, Places, Unlinked, Unshared, Inits
<1>c. /\ q'[w] = nq[w] /\ nq'[w] = None
      /\ \A v \in Worker \ {w} : q'[v] = q[v] /\ nq'[v] = nq[v]
  BY <1>a
<1>d. \A v \in Worker : Unpublished(v)' <=> Unpublished(v)
  BY DEF Unpublished
<1>e. (\A r : InGlobal(r)' <=> (InGlobal(r) \/ r = q[w])) /\ Linked'
  BY <1>a, <1>b, GlobalPush DEF SInv, Places
<1>f. \A r \in Service : Handled(r)' <=> (Handled(r) /\ r # q[w])
  <2> SUFFICES ASSUME NEW r \in Service PROVE Handled(r)' <=> (Handled(r) /\ r # q[w])
    OBVIOUS
  <2>1. r # None
    BY Names
  <2>2. ASSUME Handled(r)' PROVE Handled(r) /\ r # q[w]
    BY <2>1, <2>2, <1>b, <1>c, <1>d DEF Handled
  <2>3. ASSUME Handled(r), r # q[w] PROVE Handled(r)'
    BY <2>1, <2>3, <1>c, <1>d DEF Handled
  <2> QED
    BY <2>2, <2>3
<1>1. RInv'
  BY RequeueStep DEF SInv
<1>2. Lives'
  BY LivesSame DEF SInv
<1>3. Places'
  <2>1. Turns'
    BY <1>a, <1>c DEF SInv, Places, Turns
  <2>2. Unlinked'
    BY <1>a, <1>b, <1>c, <1>d, <1>e, NoneUnlinked DEF SInv, Places, Unlinked
  <2>3. Unshared'
    BY <1>a, <1>b, <1>c, <1>d, HandsHoldServices, Names
       DEF SInv, Places, Unshared, Unpublished
  <2>4. Scheduled'
    <3>1. Handled(q[w])
      BY DEF Handled
    <3> QED
      BY <1>a, <3>1, <1>e, <1>f DEF SInv, Places, Scheduled
  <2> QED
    BY <1>e, <2>1, <2>2, <2>3, <2>4 DEF Places
<1>4. Inits'
  BY <1>b, <1>c, <1>e DEF SInv, Inits, Ready
<1> QED
  BY <1>1, <1>2, <1>3, <1>4, TotalsSame DEF SInv

\* Finish preserves the invariant.
LEMMA FinishKeeps ==
  ASSUME SInv, NEW w \in Worker, Finish(w)
  PROVE  SInv'
<1> USE DEF Finish, At, mqVars, newVars, opVars
<1>a. /\ ctx[w] \in Service /\ ref[ctx[w]] > 0 /\ mqlife[ctx[w]] # "none" /\ w \in Thread
      /\ ctx \in [Worker -> Maybe(Service)] /\ pc \in [Worker -> PCs] /\ del[w] = None
  BY ReferredLives
     DEF SInv, RInv, Locals, WorkerLocals, Lives, Queued, TypeOK, Thread, Free
<1>1. RInv'
  BY FinishStep DEF SInv
<1>2. Lives'
  <2>1. Referred'
    BY <1>a, ReferenceDropped
  <2>2. Queued'
    BY <1>a DEF SInv, Lives, Queued
  <2>3. Lifetimes' /\ Launches'
    BY DEF SInv, Lives, Lifetimes, Launches
  <2> QED
    BY <2>1, <2>2, <2>3 DEF Lives
<1>3. Places'
  <2>1. pc'[w] = (IF q[w] = None THEN "idle" ELSE "grab")
        /\ \A v \in Worker \ {w} : pc'[v] = pc[v] /\ ctx'[v] = ctx[v]
    BY <1>a
  <2>2. Turns'
    BY <2>1 DEF SInv, Places, Turns
  <2> QED
    BY <2>2, PlacesSame DEF SInv, Unpublished
<1>4. Inits'
  <2>1. \A r : InGlobal(r)' <=> InGlobal(r)
    BY GlobalSame
  <2> QED
    BY <1>a, <2>1 DEF SInv, Inits, Ready
<1> QED
  BY <1>1, <1>2, <1>3, <1>4, TotalsSame DEF SInv
-----------------------------------------------------------------------------
(* The invariant *)

\* The boot services are launched once each.
LEMMA BootCounted == IsFiniteSet(BootSet) /\ Cardinality(BootSet) = Len(Boot)
<1> DEFINE D == 1 .. Len(Boot)
<1>1. Len(Boot) \in Nat /\ Boot \in [D -> BootSet]
  BY SchedulerAssumption DEF BootSet
<1>2. Boot \in Surjection(D, BootSet)
  BY <1>1 DEF Surjection, BootSet
<1>3. Boot \in Injection(D, BootSet)
  BY <1>1, SchedulerAssumption DEF Injection, IsInjective
<1>4. IsFiniteSet(D) /\ Cardinality(D) = Len(Boot)
  BY SMTT(30), <1>1, FS_Interval
<1> QED
  BY <1>2, <1>3, <1>4, FS_Surjection

\* The workers start with every boot service in the global queue, once.
LEMMA SInvInit == Init => SInv
<1> SUFFICES ASSUME Init PROVE SInv
  OBVIOUS
<1> USE DEF Init
<1>1. RInv
  BY RInvInit
<1>2. \A s : InGlobal(s) <=> s \in BootSet
  BY DEF InGlobal, BootSet
<1>3. BootSet \subseteq Service /\ None \notin Service
  BY SchedulerAssumption DEF BootSet
<1>4. Lives
  <2>1. Referred /\ Lifetimes
    BY DEF Referred, Lifetimes
  <2>2. Queued /\ Launches
    BY DEF Queued, Launches
  <2> QED
    BY <2>1, <2>2 DEF Lives
<1>5. Places
  <2>1. \A s \in Service : ~ Handled(s)
    BY <1>3 DEF Handled, Unpublished
  <2>2. Turns /\ Unlinked /\ Unshared
    BY <1>2, <1>3 DEF Turns, Unlinked, Unshared, Unpublished
  <2>3. Linked
    BY SchedulerAssumption DEF Linked
  <2>4. Scheduled
    BY <1>2, <2>1 DEF Scheduled
  <2> QED
    BY <2>2, <2>3, <2>4 DEF Places
<1>6. Inits
  BY <1>2, <1>3 DEF Inits, Ready
<1>7. Totals
  <2>1. Counted = BootSet
    BY <1>3 DEF Counted
  <2> QED
    BY <2>1, BootCounted DEF Totals
<1> QED
  BY <1>1, <1>4, <1>5, <1>6, <1>7 DEF SInv

\* Every step preserves it.
LEMMA SInvNext == SInv /\ [Next]_vars => SInv'
<1> SUFFICES ASSUME SInv, [Next]_vars PROVE SInv'
  OBVIOUS
<1>1. CASE Call
  <2>1. ASSUME NEW t \in Thread, NEW s \in Service,
               Send(t, s) \/ Borrow(t, s) \/ Kill(t, s) \/ SendRemote(t, s)
        PROVE  SInv'
    BY <2>1, SendKeeps, BorrowKeeps, KillKeeps, SendRemoteKeeps
  <2>2. ASSUME NEW t \in Thread, Abort(t) PROVE SInv'
    BY <2>2, AbortKeeps
  <2>3. ASSUME NEW w \in Worker, NEW s \in Service, NewRegister(w, s) PROVE SInv'
    BY <2>3, NewRegisterKeeps
  <2> QED
    BY <1>1, <2>1, <2>2, <2>3 DEF Call
<1>2. ASSUME NEW t \in Thread, Continue(t) PROVE SInv'
  BY <1>2, PushMessageKeeps, ReleasePeerKeeps, MarkReleaseKeeps, DeleteContextKeeps,
     RetireKeeps, AbortPassKeeps, AbortReturnKeeps, AbortRetireKeeps DEF Continue
<1>3. ASSUME NEW w \in Worker, Launching(w) PROVE SInv'
  BY <1>3, NewQueueKeeps, ReserveKeeps, InitDoneKeeps, SetInitKeeps, PublishKeeps,
     ReportKeeps, InitFailedKeeps, FailedRetireKeeps, FailedDiscardKeeps DEF Launching
<1>4. ASSUME NEW w \in Worker, Dispatching(w) PROVE SInv'
  BY <1>4, DropMessageKeeps, DropDoneKeeps, TakeQueueKeeps, GrabKeeps, OrphanKeeps,
     PopEmptyKeeps, PopKeeps, LengthKeeps, ReturnKeeps, NextQueueKeeps, RequeueKeeps,
     FinishKeeps DEF Dispatching
<1>5. CASE UNCHANGED vars
  BY <1>5, RInvNext, Elsewhere DEF SInv, vars, opVars
<1> QED
  BY <1>1, <1>2, <1>3, <1>4, <1>5 DEF Next

\* The invariant holds in every reachable state.
LEMMA SInvAlways == Spec => []SInv
  BY SInvInit, SInvNext, PTL DEF Spec
-----------------------------------------------------------------------------
(* What follows *)

\* A queue is in a place exactly when a worker has it in its hands.
LEMMA HeldIsHandled ==
  ASSUME RInv, NEW s \in Service
  PROVE  Held(s) <=> Handled(s)
<1>1. \A w \in Worker : Unpublished(w) <=> npc[w] \in NPCs \ {"none", "register", "report"}
  BY DEF RInv, TypeOK, Unpublished, NPCs
<1>2. ASSUME Held(s) PROVE Handled(s)
  <2>1. PICK k \in Place : PlacedAt(k, s)
    BY <1>2 DEF Held
  <2>2. k[2] \in Worker
    BY DEF Place
  <2> QED
    BY <1>1, <2>1, <2>2 DEF PlacedAt, Handled
<1>3. ASSUME Handled(s) PROVE Held(s)
  <2>1. PICK w \in Worker :
          q[w] = s \/ nq[w] = s \/ dropq[w] = s \/ (Unpublished(w) /\ born[w] = s)
    BY <1>3 DEF Handled
  <2>2. /\ <<"q", w>> \in Place /\ <<"nq", w>> \in Place
        /\ <<"drop", w>> \in Place /\ <<"born", w>> \in Place
    BY DEF Place
  <2>3. \/ PlacedAt(<<"q", w>>, s) \/ PlacedAt(<<"nq", w>>, s)
        \/ PlacedAt(<<"drop", w>>, s) \/ PlacedAt(<<"born", w>>, s)
    BY <1>1, <2>1 DEF PlacedAt
  <2> QED
    BY <2>2, <2>3 DEF Held
<1> QED
  BY <1>2, <1>3

\* QueuesInOnePlace: for any number of services, workers and calls, a message queue is
\* once in the global queue or in the hands of one worker, so that no two workers ever
\* serve it and fengnet_globalmq_push never links a queue twice.
THEOREM QueuesInOnePlace == Spec => []OneQueueOnePlace
<1>1. SInv => OneQueueOnePlace
  <2> SUFFICES ASSUME SInv PROVE OneQueueOnePlace
    OBVIOUS
  <2>1. \A w \in Worker : Unpublished(w) <=> npc[w] \in NPCs \ {"none", "register", "report"}
    BY DEF SInv, RInv, TypeOK, Unpublished, NPCs
  <2>2. None \notin Service
    BY Names
  <2>3. ASSUME NEW s \in Service, NEW k \in Place, PlacedAt(k, s) PROVE ~ InGlobal(s)
    <3>1. k[2] \in Worker
      BY DEF Place
    <3> QED
      BY <2>1, <2>3, <3>1 DEF PlacedAt, SInv, Places, Unlinked
  <2>4. ASSUME NEW s \in Service, NEW k \in Place, PlacedAt(k, s),
               NEW l \in Place, PlacedAt(l, s)
        PROVE  k = l
    <3> DEFINE v == k[2]
               w == l[2]
    <3>1. /\ v \in Worker /\ w \in Worker /\ k = <<k[1], v>> /\ l = <<l[1], w>>
          /\ k[1] \in {"q", "nq", "born", "drop"} /\ l[1] \in {"q", "nq", "born", "drop"}
      BY DEF Place
    <3>2. /\ k[1] = "q" => q[v] = s
          /\ k[1] = "nq" => nq[v] = s
          /\ k[1] = "drop" => dropq[v] = s
          /\ k[1] = "born" => born[v] = s /\ Unpublished(v)
      BY <2>1, <2>4, <3>1 DEF PlacedAt
    <3>3. /\ l[1] = "q" => q[w] = s
          /\ l[1] = "nq" => nq[w] = s
          /\ l[1] = "drop" => dropq[w] = s
          /\ l[1] = "born" => born[w] = s /\ Unpublished(w)
      BY <2>1, <2>4, <3>1 DEF PlacedAt
    <3> HIDE DEF v, w
    <3>4. k[1] = l[1] /\ v = w
      BY <2>2, <3>1, <3>2, <3>3 DEF SInv, Places, Unshared
    <3> QED
      BY <3>1, <3>4
  <2> QED
    BY <2>3, <2>4 DEF SInv, Places, Linked, OneQueueOnePlace
<1> QED
  BY <1>1, SInvAlways, PTL

\* NoMessageStranded: for any number of services, workers and calls, a queue is somewhere
\* exactly when its flag or its release mark is set, and always while it has messages.
THEOREM NoMessageStranded == Spec => []NothingStranded
<1>1. SInv => NothingStranded
  BY HeldIsHandled DEF SInv, Places, Scheduled, NothingStranded
<1> QED
  BY <1>1, SInvAlways, PTL

\* PointersValid: for any number of services, workers and calls, no thread and not the
\* global queue keeps a pointer to a freed context or queue.
THEOREM PointersValid == Spec => []NoDanglingPointer
<1>1. SInv => NoDanglingPointer
  <2> SUFFICES ASSUME SInv PROVE NoDanglingPointer
    OBVIOUS
  <2>1. \A s \in Service : life[s] = "live" => mqlife[s] \in {"none", "live"}
    BY DEF SInv, Lives, Lifetimes, RInv, TypeOK
  <2>2. \A s \in Service : InGlobal(s) \/ Held(s) => mqlife[s] = "live"
    BY HeldIsHandled DEF SInv, Places, Scheduled
  <2> QED
    BY <2>1, <2>2, ReferredLives DEF NoDanglingPointer
<1> QED
  BY <1>1, SInvAlways, PTL

\* CallbacksAlone: for any number of services, workers and calls, the callback of a service
\* runs on one worker at a time, never beside its init function and never before it: the
\* CALLING_CHECK and assert(ctx->init) of dispatch_message hold.
THEOREM CallbacksAlone == Spec => []DispatchedAlone
<1>1. SInv => DispatchedAlone
  <2> SUFFICES ASSUME SInv PROVE DispatchedAlone
    OBVIOUS
  <2>1. \A w \in Worker : pc[w] = "run" => ctx[w] # None /\ q[w] = ctx[w]
    BY DEF SInv, RInv, Locals, WorkerLocals, Places, Turns
  <2>2. InitBeforeDispatch
    BY <2>1 DEF SInv, Inits, InitBeforeDispatch
  <2>3. \A v, w \in Worker :
          v # w /\ pc[v] = "run" /\ pc[w] = "run" => ctx[v] # ctx[w]
    BY <2>1 DEF SInv, Places, Unshared
  <2>4. ASSUME NEW v \in Worker, NEW w \in Worker, pc[v] = "run", npc[w] \in {"register", "init"}
        PROVE  ctx[v] # born[w]
    <3>1. CASE npc[w] = "register"
      BY <2>1, <2>4, <3>1 DEF SInv, Lives, Launches, Queued
    <3>2. CASE npc[w] = "init"
      BY <2>1, <2>4, <3>2 DEF SInv, Places, Unshared, Unpublished
    <3> QED
      BY <2>4, <3>1, <3>2
  <2> QED
    BY <2>2, <2>3, <2>4 DEF DispatchedAlone, OneDispatcher
<1> QED
  BY <1>1, SInvAlways, PTL

\* ContextTotalExact: for any number of services, workers and calls, G_NODE.total is the
\* number of contexts that exist and are not reserved, so the threads stop only when none
\* is left.
THEOREM ContextTotalExact == Spec => []TotalExact
<1>1. SInv => TotalExact
  BY DEF SInv, Totals, Counted, TotalExact
<1> QED
  BY <1>1, SInvAlways, PTL

=============================================================================
