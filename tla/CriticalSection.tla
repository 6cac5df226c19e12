-------------------------- MODULE CriticalSection --------------------------
(***************************************************************************)
(* fengnet.queue (queue.lua): a critical section for the coroutines of one *)
(* service.  A function run in it may yield, call the section again, or    *)
(* raise an error; others wait in thread_queue and are woken in order.  A  *)
(* coroutine may also be killed (fengnet.killthread) while it waits or     *)
(* yields.                                                                 *)
(***************************************************************************)
EXTENDS Naturals, Sequences, TLAPS

CONSTANTS
  Co,          \* coroutines
  MaxDepth,    \* bound: nested calls
  MaxEntries,  \* bound: calls of the section
  None

SectionAssumption == None \notin Co /\ {MaxDepth, MaxEntries} \subseteq Nat

VARIABLES
  current_thread, ref, thread_queue,
  at,          \* per coroutine: "out", "wait", "woken", "in" or "dead"
  depth,       \* per coroutine: functions it is in
  came,        \* history: the number of the call a coroutine waits with, or 0
  failed,      \* assert(ref == 0) failed
  entries

sectionVars == <<current_thread, ref, thread_queue, at, depth, came, failed, entries>>

Enter(t) ==
  /\ current_thread' = t
  /\ ref' = ref + 1
  /\ at' = [at EXCEPT ![t] = "in"]
  /\ depth' = [depth EXCEPT ![t] = @ + 1]

\* Mutant: a section that is being handed over is taken for free.
MutBusy(t) == current_thread # None /\ current_thread # t /\ ref > 0

\* The section is another's.
Busy(t) == current_thread # None /\ current_thread # t

\* The function queue returns, up to the call of f or to the wait
Call(t) ==
  /\ at[t] \in {"out", "in"} /\ depth[t] < MaxDepth /\ entries < MaxEntries
  /\ entries' = entries + 1
  /\ \/ /\ Busy(t)
        /\ thread_queue' = Append(thread_queue, t) /\ came' = [came EXCEPT ![t] = entries']
        /\ at' = [at EXCEPT ![t] = "wait"]
        /\ UNCHANGED <<current_thread, ref, depth>>
     \/ /\ ~ Busy(t)
        /\ Enter(t)
        /\ UNCHANGED <<thread_queue, came>>
  /\ UNCHANGED failed

\* After the wait.
Resume(t) ==
  /\ at[t] = "woken"
  /\ failed' = (failed \/ ref # 0)
  /\ came' = [came EXCEPT ![t] = 0]
  /\ Enter(t)
  /\ UNCHANGED <<thread_queue, entries>>

\* Mutant: the last to come is woken.
MutFollower(q) == q[Len(q)]

\* The coroutine that is woken.
Follower(q) == Head(q)

\* Mutant: an inner call that ends hands the section over.
MutLeft(r) == r <= 1

\* The outermost call has ended.
Left(r) == r = 0

\* xpcall_ret, also when f raised an error
xpcall_ret(t) ==
  /\ at[t] = "in"
  /\ ref' = ref - 1
  /\ depth' = [depth EXCEPT ![t] = @ - 1]
  /\ LET out == [at EXCEPT ![t] = IF depth[t] = 1 THEN "out" ELSE "in"]
     IN IF Left(ref - 1) /\ thread_queue # <<>>
        THEN LET u == Follower(thread_queue)
             IN /\ current_thread' = u
                /\ thread_queue' = Tail(thread_queue)
                /\ at' = [out EXCEPT ![u] = IF @ = "wait" THEN "woken" ELSE @]
        ELSE /\ current_thread' = IF Left(ref - 1) THEN None ELSE current_thread
             /\ at' = out
             /\ UNCHANGED thread_queue
  /\ UNCHANGED <<came, failed, entries>>

\* fengnet.killthread
killthread(t) ==
  /\ at[t] \in {"wait", "in"}
  /\ at' = [at EXCEPT ![t] = "dead"]
  /\ came' = [came EXCEPT ![t] = 0]
  /\ UNCHANGED <<current_thread, ref, thread_queue, depth, failed, entries>>

SectionInit ==
  /\ current_thread = None /\ ref = 0 /\ thread_queue = <<>>
  /\ at = [t \in Co |-> "out"] /\ depth = [t \in Co |-> 0]
  /\ came = [t \in Co |-> 0] /\ failed = FALSE /\ entries = 0

SectionNext == \E t \in Co : Call(t) \/ Resume(t) \/ xpcall_ret(t) \/ killthread(t)

SectionSpec == SectionInit /\ [][SectionNext]_sectionVars

-----------------------------------------------------------------------------
\* One coroutine at a time is in the section, whatever yields, nested calls,
\* errors and kills there are, and a coroutine that is woken finds it free
\* (assert(ref == 0)).
Exclusive ==
  /\ ~ failed
  /\ \A t, u \in Co : at[t] = "in" /\ at[u] = "in" => t = u
  /\ \A t \in Co : at[t] \in {"in", "woken"} => current_thread = t

\* Those that wait enter in the order they came, before anyone who comes later.
FirstCome ==
  [][\A t, u \in Co :
       at[t] # "in" /\ at'[t] = "in" /\ u # t /\ at[u] \in {"wait", "woken"}
         => at[t] = "woken" /\ came[t] < came[u]]_sectionVars

\* Unless a coroutine was killed, somebody who will leave the section holds it
\* while others wait.
HeldByLiving ==
  (\A t \in Co : at[t] # "dead") /\ thread_queue # <<>>
    => \E t \in Co : t = current_thread /\ at[t] \in {"in", "woken"}

-----------------------------------------------------------------------------
\* The section is exclusive, hands itself over in the order of arrival and is held by
\* somebody who will leave it, for any number of coroutines, nested calls and entries.

Places == {"out", "wait", "woken", "in", "dead"}

\* Every variable has its type.
SectionTyped ==
  /\ current_thread \in Co \cup {None}
  /\ ref \in Nat
  /\ thread_queue \in Seq(Co)
  /\ at \in [Co -> Places]
  /\ depth \in [Co -> Nat]
  /\ came \in [Co -> Nat]
  /\ failed = FALSE
  /\ entries \in Nat

\* The section belongs to the coroutine that runs in it or was woken for it, or to a
\* dead one; ref counts the calls of the one that runs in it.
Owned ==
  /\ \A t \in Co : at[t] \in {"in", "woken"} => current_thread = t
  /\ \A t \in Co : current_thread = t => at[t] \in {"in", "woken", "dead"}
  /\ \A t \in Co : at[t] = "in" => depth[t] > 0 /\ ref = depth[t]
  /\ \A t \in Co : at[t] \in {"out", "wait", "woken"} => depth[t] = 0
  /\ \A t \in Co : at[t] = "woken" => ref = 0
  /\ current_thread = None => ref = 0 /\ thread_queue = <<>>

\* Who waits is in the queue, where only the dead are besides.
Listed ==
  /\ \A t \in Co : at[t] = "wait" => \E k \in 1 .. Len(thread_queue) : thread_queue[k] = t
  /\ \A k \in 1 .. Len(thread_queue) : at[thread_queue[k]] \in {"wait", "dead"}

\* The queue is in the order of arrival, and who was woken came before all of it.
Ordered ==
  /\ \A t \in Co : came[t] <= entries
  /\ \A j, k \in 1 .. Len(thread_queue) :
       j < k /\ at[thread_queue[j]] = "wait" /\ at[thread_queue[k]] = "wait"
         => came[thread_queue[j]] < came[thread_queue[k]]
  /\ \A t, u \in Co : at[t] = "woken" /\ at[u] = "wait" => came[t] < came[u]

\* The inductive invariant.
QInv == SectionTyped /\ Owned /\ Listed /\ Ordered

-----------------------------------------------------------------------------
\* The queue holds coroutines.
LEMMA QueueElements ==
  ASSUME QInv
  PROVE  /\ Len(thread_queue) \in Nat
         /\ thread_queue # <<>> => Len(thread_queue) > 0
         /\ thread_queue = <<>> => Len(thread_queue) = 0
         /\ \A k \in 1 .. Len(thread_queue) : thread_queue[k] \in Co
  BY DEF QInv, SectionTyped

\* Nobody waits for a section that is free, and at most one coroutine is woken or in it.
LEMMA Alone ==
  ASSUME SectionAssumption, QInv, NEW t \in Co, ~ Busy(t), at[t] \in {"out", "in"},
         NEW u \in Co \ {t}
  PROVE  /\ at[u] \notin {"in", "woken"}
         /\ at[t] = "out" => at[u] # "wait"
<1> USE DEF SectionAssumption, QInv
<1>1. at[t] = "out" => current_thread = None
  BY DEF Busy, Owned
<1>2. at[t] = "out" => \A k \in 1 .. Len(thread_queue) : FALSE
  BY <1>1, QueueElements DEF Owned
<1> QED BY <1>1, <1>2 DEF Busy, SectionTyped, Owned, Listed

LEMMA SectionInitHolds == ASSUME SectionAssumption, SectionInit PROVE QInv
  BY DEF SectionAssumption, SectionInit, QInv, SectionTyped, Owned, Listed, Ordered, Places

\* The function queue returns: a coroutine enters, or goes to the end of the queue.
LEMMA CallKeeps ==
  ASSUME SectionAssumption, QInv, NEW t \in Co, Call(t)
  PROVE  QInv'
<1> USE DEF SectionAssumption, QInv
<1>1. CASE Busy(t)
  <2>1. /\ entries' = entries + 1
        /\ thread_queue' = Append(thread_queue, t)
        /\ came' = [came EXCEPT ![t] = entries']
        /\ at' = [at EXCEPT ![t] = "wait"]
        /\ UNCHANGED <<current_thread, ref, depth, failed>>
    BY <1>1 DEF Call
  <2>2. at[t] = "out"
    BY <1>1 DEF Call, Busy, Owned
  <2>a. \A k \in 1 .. Len(thread_queue) : thread_queue[k] \in Co \ {t}
    BY <2>2, QueueElements DEF Listed
  <2>b. /\ Len(thread_queue') = Len(thread_queue) + 1
        /\ thread_queue'[Len(thread_queue) + 1] = t
        /\ \A k \in 1 .. Len(thread_queue) : thread_queue'[k] = thread_queue[k]
    BY <2>1 DEF SectionTyped
  <2>3. /\ Len(thread_queue') = Len(thread_queue) + 1
        /\ thread_queue'[Len(thread_queue) + 1] = t
        /\ \A k \in 1 .. Len(thread_queue) :
             thread_queue'[k] = thread_queue[k] /\ thread_queue[k] \in Co \ {t}
        /\ Len(thread_queue) \in Nat
    BY <2>a, <2>b, QueueElements
  <2>4. SectionTyped'
    BY <2>1 DEF SectionTyped, Places
  <2>5. Owned'
    BY <1>1, <2>1, <2>2 DEF SectionTyped, Owned, Busy, Places
  <2>6. Listed'
    <3>1. ASSUME NEW u \in Co, at'[u] = "wait"
          PROVE  \E k \in 1 .. Len(thread_queue') : thread_queue'[k] = u
      <4>1. CASE u = t
        <5>1. Len(thread_queue) + 1 \in 1 .. Len(thread_queue')
          BY <2>3
        <5> QED BY <4>1, <5>1, <2>3
      <4>2. CASE u # t
        <5>1. PICK k \in 1 .. Len(thread_queue) : thread_queue[k] = u
          BY <4>2, <3>1, <2>1 DEF SectionTyped, Listed
        <5>2. k \in 1 .. Len(thread_queue')
          BY <2>3 DEF SectionTyped
        <5> QED BY <5>1, <5>2, <2>3
      <4> QED BY <4>1, <4>2
    <3>2. ASSUME NEW k \in 1 .. Len(thread_queue')
          PROVE  at'[thread_queue'[k]] \in {"wait", "dead"}
      BY <2>1, <2>3 DEF SectionTyped, Listed
    <3> QED BY <3>1, <3>2 DEF Listed
  <2>7. Ordered'
    <3>1. \A u \in Co : came'[u] <= entries'
      BY <2>1 DEF SectionTyped, Ordered
    <3>2. ASSUME NEW j \in 1 .. Len(thread_queue'), NEW k \in 1 .. Len(thread_queue'), j < k,
                 at'[thread_queue'[j]] = "wait", at'[thread_queue'[k]] = "wait"
          PROVE  came'[thread_queue'[j]] < came'[thread_queue'[k]]
      <4>1. j \in 1 .. Len(thread_queue)
        BY <2>3, <3>2 DEF SectionTyped
      <4>2. CASE k = Len(thread_queue) + 1
        <5>1. came'[thread_queue'[k]] = entries + 1
          BY <4>2, <2>1, <2>3 DEF SectionTyped
        <5>2. came'[thread_queue'[j]] = came[thread_queue[j]] /\ thread_queue[j] \in Co
          BY <4>1, <2>1, <2>3 DEF SectionTyped
        <5> QED BY <5>1, <5>2 DEF SectionTyped, Ordered
      <4>3. CASE k \in 1 .. Len(thread_queue)
        BY <4>1, <4>3, <3>2, <2>1, <2>3 DEF SectionTyped, Ordered
      <4> QED BY <4>2, <4>3, <2>3
    <3>3. ASSUME NEW v \in Co, NEW u \in Co, at'[v] = "woken", at'[u] = "wait"
          PROVE  came'[v] < came'[u]
      BY <3>3, <2>1 DEF SectionTyped, Ordered
    <3> QED BY <3>1, <3>2, <3>3 DEF Ordered
  <2> QED BY <2>4, <2>5, <2>6, <2>7
<1>2. CASE ~ Busy(t)
  <2>1. /\ current_thread' = t /\ ref' = ref + 1 /\ entries' = entries + 1
        /\ at' = [at EXCEPT ![t] = "in"]
        /\ depth' = [depth EXCEPT ![t] = @ + 1]
        /\ UNCHANGED <<thread_queue, came, failed>>
    BY <1>2 DEF Call, Enter
  <2>2. at[t] \in {"out", "in"}
    BY DEF Call
  <2>3. \A u \in Co \ {t} : at[u] \notin {"in", "woken"}
    BY <1>2, <2>2, Alone
  <2>4. ref = depth[t]
    BY <1>2, <2>2 DEF Busy, SectionTyped, Owned, Places
  <2>5. SectionTyped'
    BY <2>1 DEF SectionTyped, Places
  <2>6. Owned'
    BY <2>1, <2>2, <2>3, <2>4 DEF SectionTyped, Owned, Places
  <2>7. Listed' /\ Ordered'
    <3>1. \A u \in Co : at'[u] \in {"wait", "woken"} => at[u] = at'[u]
      BY <2>1 DEF SectionTyped
    <3>2. \A u \in Co : at[u] \in {"wait", "dead"} => at'[u] = at[u]
      BY <2>1, <2>2 DEF SectionTyped
    <3>3. Listed'
      BY <2>1, <3>1, <3>2, QueueElements DEF Listed
    <3>4. Ordered'
      <4>1. \A u \in Co : came'[u] <= entries'
        BY <2>1 DEF SectionTyped, Ordered
      <4> QED BY <2>1, <3>1, <4>1, QueueElements DEF Ordered
    <3> QED BY <3>3, <3>4
  <2> QED BY <2>5, <2>6, <2>7
<1> QED BY <1>1, <1>2

\* After the wait: the section is free, as assert(ref == 0) says.
LEMMA EnterKeeps ==
  ASSUME SectionAssumption, QInv, NEW t \in Co, Resume(t)
  PROVE  QInv'
<1> USE DEF SectionAssumption, QInv
<1>1. at[t] = "woken" /\ ref = 0 /\ current_thread = t /\ depth[t] = 0
  BY DEF Resume, Owned
<1>2. /\ current_thread' = t /\ ref' = 1
      /\ at' = [at EXCEPT ![t] = "in"]
      /\ depth' = [depth EXCEPT ![t] = 1]
      /\ came' = [came EXCEPT ![t] = 0]
      /\ UNCHANGED <<thread_queue, failed, entries>>
  <2>1. failed' = failed
    BY <1>1 DEF Resume, SectionTyped
  <2> QED BY <1>1, <2>1 DEF Resume, Enter, SectionTyped
<1>3. SectionTyped'
  BY <1>2 DEF SectionTyped, Places
<1>4. Owned'
  BY <1>1, <1>2 DEF SectionTyped, Owned, Places
<1>5. Listed'
  BY <1>1, <1>2 DEF SectionTyped, Listed
<1>6. Ordered'
  <2>1. \A u \in Co : at'[u] \in {"wait", "woken"} => at[u] = at'[u] /\ came'[u] = came[u]
    BY <1>1, <1>2 DEF SectionTyped
  <2>2. \A u \in Co : came'[u] <= entries'
    BY <1>2 DEF SectionTyped, Ordered
  <2> QED BY <1>2, <2>1, <2>2, QueueElements DEF Ordered
<1> QED BY <1>3, <1>4, <1>5, <1>6

\* killthread leaves the queue and the section as they are.
LEMMA KillKeeps ==
  ASSUME SectionAssumption, QInv, NEW t \in Co, killthread(t)
  PROVE  QInv'
<1> USE DEF SectionAssumption, QInv, killthread
<1>1. SectionTyped'
  BY DEF SectionTyped, Places
<1>2. Owned'
  BY DEF SectionTyped, Owned, Places
<1>3. Listed'
  <2>1. \A u \in Co : at'[u] \in {at[u], "dead"}
    BY DEF SectionTyped
  <2>2. \A u \in Co : at'[u] = "wait" => at[u] = "wait"
    BY <2>1
  <2> QED BY <2>1, <2>2, QueueElements DEF Listed
<1>4. Ordered'
  <2>1. \A u \in Co : at'[u] \in {"wait", "woken"} => at[u] = at'[u] /\ came'[u] = came[u]
    BY DEF SectionTyped
  <2>2. \A u \in Co : came'[u] <= entries'
    BY DEF SectionTyped, Ordered
  <2> QED BY <2>1, <2>2, QueueElements DEF Ordered
<1> QED BY <1>1, <1>2, <1>3, <1>4

\* xpcall_ret: the outermost call hands the section to the head of the queue.
LEMMA RetKeeps ==
  ASSUME SectionAssumption, QInv, NEW t \in Co, xpcall_ret(t)
  PROVE  QInv'
<1> USE DEF SectionAssumption, QInv
<1> DEFINE out == [at EXCEPT ![t] = IF depth[t] = 1 THEN "out" ELSE "in"]
           u == Head(thread_queue)
<1>1. /\ at[t] = "in" /\ current_thread = t /\ ref = depth[t] /\ depth[t] > 0
      /\ ref' = ref - 1
      /\ depth' = [depth EXCEPT ![t] = @ - 1]
      /\ UNCHANGED <<came, failed, entries>>
  BY DEF xpcall_ret, Owned
<1>2. \A v \in Co \ {t} : at[v] \in {"out", "wait", "dead"}
  BY <1>1 DEF SectionTyped, Owned, Places
<1>3. CASE ref = 1 /\ thread_queue # <<>>
  <2>1. /\ current_thread' = u
        /\ thread_queue' = Tail(thread_queue)
        /\ at' = [out EXCEPT ![u] = IF @ = "wait" THEN "woken" ELSE @]
    BY <1>3 DEF xpcall_ret, Left, Follower
  <2>2. /\ u \in Co \ {t} /\ at[u] \in {"wait", "dead"} /\ u = thread_queue[1]
        /\ Len(thread_queue') = Len(thread_queue) - 1
        /\ \A k \in 1 .. Len(thread_queue') : thread_queue'[k] = thread_queue[k + 1]
        /\ 1 \in 1 .. Len(thread_queue)
    BY <1>1, <1>3, <2>1 DEF SectionTyped, Listed
  <2>3. out = [at EXCEPT ![t] = "out"]
    BY <1>1, <1>3
  <2>4. /\ at'[t] = "out"
        /\ at'[u] = IF at[u] = "wait" THEN "woken" ELSE "dead"
        /\ \A v \in Co \ {t, u} : at'[v] = at[v]
        /\ at' \in [Co -> Places]
    BY <2>1, <2>2, <2>3 DEF SectionTyped, Places
  <2> HIDE DEF u, out
  <2>5. SectionTyped'
    BY SMTT(30), <1>1, <2>1, <2>2, <2>4 DEF SectionTyped
  <2>6. Owned'
    BY SMTT(30), <1>1, <1>2, <1>3, <2>1, <2>2, <2>4, <2>5 DEF SectionTyped, Owned, Places
  <2>7. \A k \in 1 .. Len(thread_queue') : k + 1 \in 1 .. Len(thread_queue)
    BY <2>2 DEF SectionTyped
  <2>8. ASSUME NEW k \in 2 .. Len(thread_queue), at[u] = "wait"
        PROVE  thread_queue[k] # u
    BY SMTT(30), <2>8, <2>2 DEF SectionTyped, Ordered
  <2>9. Listed'
    <3>1. ASSUME NEW v \in Co, at'[v] = "wait"
          PROVE  \E k \in 1 .. Len(thread_queue') : thread_queue'[k] = v
      <4>1. v \notin {t, u} /\ at[v] = "wait"
        BY <3>1, <2>4
      <4>2. PICK k \in 1 .. Len(thread_queue) : thread_queue[k] = v
        BY <4>1 DEF Listed
      <4>3. k # 1
        BY <4>1, <4>2, <2>2
      <4>4. k - 1 \in 1 .. Len(thread_queue') /\ (k - 1) + 1 = k
        BY <4>3, <2>2 DEF SectionTyped
      <4> QED BY <4>2, <4>4, <2>2
    <3>2. ASSUME NEW k \in 1 .. Len(thread_queue')
          PROVE  at'[thread_queue'[k]] \in {"wait", "dead"}
      <4>1. /\ k + 1 \in 2 .. Len(thread_queue) /\ k + 1 \in 1 .. Len(thread_queue)
            /\ thread_queue'[k] = thread_queue[k + 1]
            /\ thread_queue[k + 1] \in Co
            /\ at[thread_queue[k + 1]] \in {"wait", "dead"}
        BY SMTT(30), <2>2, <2>7 DEF SectionTyped, Listed
      <4>2. at[u] = "wait" => thread_queue[k + 1] # u
        BY <4>1, <2>8
      <4>3. thread_queue[k + 1] # t
        BY <4>1, <1>1
      <4> QED BY <4>1, <4>2, <4>3, <2>2, <2>4
    <3> QED BY <3>1, <3>2 DEF Listed
  <2>10. Ordered'
    <3>1. \A v \in Co : came'[v] <= entries'
      BY <1>1 DEF Ordered
    <3>2. \A v \in Co : at'[v] = "wait" => at[v] = "wait" /\ v # u
      BY <2>4
    <3>3. ASSUME NEW j \in 1 .. Len(thread_queue'), NEW k \in 1 .. Len(thread_queue'), j < k,
                 at'[thread_queue'[j]] = "wait", at'[thread_queue'[k]] = "wait"
          PROVE  came'[thread_queue'[j]] < came'[thread_queue'[k]]
      <4>1. /\ j + 1 \in 1 .. Len(thread_queue) /\ k + 1 \in 1 .. Len(thread_queue)
            /\ j + 1 < k + 1
            /\ thread_queue[j + 1] \in Co /\ thread_queue[k + 1] \in Co
            /\ thread_queue'[j] = thread_queue[j + 1]
            /\ thread_queue'[k] = thread_queue[k + 1]
        BY <3>3, <2>2, <2>7, QueueElements
      <4>2. at[thread_queue[j + 1]] = "wait" /\ at[thread_queue[k + 1]] = "wait"
        BY <4>1, <3>2, <3>3
      <4> QED BY <4>1, <4>2, <1>1 DEF Ordered
    <3>4. ASSUME NEW v \in Co, NEW w \in Co, at'[v] = "woken", at'[w] = "wait"
          PROVE  came'[v] < came'[w]
      <4>1. v = u /\ at[u] = "wait"
        BY <3>4, <1>2, <2>4, <2>2
      <4>2. at[w] = "wait" /\ w # u
        BY <3>2, <3>4
      <4>3. PICK k \in 1 .. Len(thread_queue) : thread_queue[k] = w
        BY <4>2 DEF Listed
      <4>4. 1 < k
        BY <4>2, <4>3, <2>2
      <4> QED BY <4>1, <4>2, <4>3, <4>4, <2>2, <1>1 DEF Ordered
    <3> QED BY <3>1, <3>3, <3>4 DEF Ordered
  <2> QED BY <2>5, <2>6, <2>9, <2>10
<1>4. CASE ref # 1 \/ thread_queue = <<>>
  <2>1. /\ current_thread' = IF ref = 1 THEN None ELSE current_thread
        /\ at' = [at EXCEPT ![t] = IF depth[t] = 1 THEN "out" ELSE "in"]
        /\ UNCHANGED thread_queue
    BY <1>1, <1>4 DEF xpcall_ret, Left, SectionTyped
  <2>2. SectionTyped'
    BY <1>1, <2>1 DEF SectionTyped, Places
  <2>3. Owned'
    BY <1>1, <1>2, <1>4, <2>1 DEF SectionTyped, Owned, Places
  <2>4. Listed' /\ Ordered'
    <3>1. \A v \in Co : at'[v] \in {"wait", "woken"} => at[v] = at'[v]
      BY <2>1 DEF SectionTyped
    <3>2. \A v \in Co : at[v] \in {"wait", "dead"} => at'[v] = at[v]
      BY <1>1, <2>1 DEF SectionTyped
    <3>3. Listed'
      BY <2>1, <3>1, <3>2, QueueElements DEF Listed
    <3>4. Ordered'
      BY <1>1, <2>1, <3>1, QueueElements DEF Ordered
    <3> QED BY <3>3, <3>4
  <2> QED BY <2>2, <2>3, <2>4
<1> QED BY <1>3, <1>4

LEMMA QInvNext == ASSUME SectionAssumption, QInv, [SectionNext]_sectionVars PROVE QInv'
<1>1. CASE SectionNext
  BY <1>1, CallKeeps, EnterKeeps, RetKeeps, KillKeeps DEF SectionNext
<1>2. CASE UNCHANGED sectionVars
  BY <1>2 DEF sectionVars, QInv, SectionTyped, Owned, Listed, Ordered
<1> QED BY <1>1, <1>2

LEMMA QInvAlways == ASSUME SectionAssumption PROVE SectionSpec => []QInv
  BY SectionInitHolds, QInvNext, PTL DEF SectionSpec

-----------------------------------------------------------------------------
\* One coroutine at a time is in the section of queue.lua, through yields, nested
\* calls, errors and kills, and assert(ref == 0) never fails.
THEOREM SectionExclusive == ASSUME SectionAssumption PROVE SectionSpec => []Exclusive
<1>1. QInv => Exclusive
  BY DEF QInv, SectionTyped, Owned, Exclusive
<1> QED BY <1>1, QInvAlways, PTL

\* Coroutines enter the section in the order in which they called it, and none before
\* those that wait.
THEOREM EnteredInOrder == ASSUME SectionAssumption PROVE SectionSpec => FirstCome
<1> DEFINE Step == \A t, u \in Co :
             at[t] # "in" /\ at'[t] = "in" /\ u # t /\ at[u] \in {"wait", "woken"}
               => at[t] = "woken" /\ came[t] < came[u]
<1>1. ASSUME QInv, [SectionNext]_sectionVars PROVE [Step]_sectionVars
  <2> SUFFICES ASSUME SectionNext, NEW t \in Co, NEW u \in Co,
                      at[t] # "in", at'[t] = "in", u # t, at[u] \in {"wait", "woken"}
               PROVE  at[t] = "woken" /\ came[t] < came[u]
    BY <1>1
  <2> USE <1>1 DEF QInv
  <2>1. PICK v \in Co : Call(v) \/ Resume(v) \/ xpcall_ret(v) \/ killthread(v)
    BY DEF SectionNext
  <2>2. ~ killthread(v)
    BY DEF killthread, SectionTyped, Places
  <2>3. ~ xpcall_ret(v)
    BY DEF xpcall_ret, SectionTyped, Places, Follower
  <2>4. ~ Call(v)
    <3> SUFFICES ASSUME Call(v) PROVE FALSE
      OBVIOUS
    <3>1. v = t
      BY DEF Call, Enter, SectionTyped, Places
    <3>2. ~ Busy(t) /\ at[t] = "out"
      BY <3>1 DEF Call, SectionTyped, Places
    <3> QED BY <3>2, Alone DEF QInv
  <2>5. Resume(v) /\ v = t
    BY <2>1, <2>2, <2>3, <2>4 DEF Resume, Enter, SectionTyped, Places
  <2> QED BY <2>5 DEF Resume, SectionTyped, Owned, Ordered
<1> QED BY <1>1, QInvAlways, PTL DEF SectionSpec, FirstCome

\* While coroutines wait for the section and none was killed, one that is in it or was
\* woken for it holds it.
THEOREM SectionHeld == ASSUME SectionAssumption PROVE SectionSpec => []HeldByLiving
<1>1. QInv => HeldByLiving
  BY DEF QInv, SectionTyped, Owned, HeldByLiving
<1> QED BY <1>1, QInvAlways, PTL

=============================================================================
