--------------------------- MODULE ServicesProof ---------------------------
(***************************************************************************)
(* The services and libraries of a node that the C core is not made of,    *)
(* each for every value of its constants: multicast, the launcher and      *)
(* unique services, services made from a function, the data center, and    *)
(* the C module loader.  They share nothing but this module; each part     *)
(* gives its inductive invariant first, then a lemma per operation.        *)
(***************************************************************************)
EXTENDS Multicast, UniqueService, ServiceProvider, DataCenter, ModuleLoader,
        FiniteSetTheorems, TLAPS

-----------------------------------------------------------------------------
(* Multicast.  A channel's groups count and list their subscribers, and    *)
(* packages outlive their receivers.  None of this is inductive alone.     *)
(* That an answered service is listed needs to know what is still in its   *)
(* mail (Posted) and that an answer of the owner is the only one to a      *)
(* service that waits (Asked); that a package is alive needs the counts it *)
(* was bound with.                                                         *)

\* The messages of a node to the owner and back, and of a service to multicastd.
Up == {"SUBR", "USUBR"} \X Service
Down == {"YES", "NO", "PUB", "DELR"} \X Service
Command == {"SUB", "USUB", "PUB", "DEL"}

\* Every variable has its type.
MTyped ==
  /\ channel \in [Node -> (SUBSET Service) \cup {Dead}]
  /\ channel_n \in [Node -> Int]
  /\ mail \in [Service -> Seq(Command)]
  /\ link \in [Others -> [up : Seq(Up), down : Seq(Down)]]
  /\ chan \in [Service -> {"out", "calling", "in"}]
  /\ deleted \in BOOLEAN

\* A question of a node, and the answers to it
Asks(m) == m[1] = "SUBR"
Answers(m) == m[1] \in {"YES", "NO"}

\* What node n and the owner say to each other about a service is about one at that
\* node, is said once, and while the service waits.
Talk(n, up, down, asking) ==
  /\ \A i \in 1 .. Len(up) :
       NodeOf(up[i][2]) = n /\ (Asks(up[i]) => up[i][2] \in asking)
  /\ \A i \in 1 .. Len(down) :
       Answers(down[i]) => NodeOf(down[i][2]) = n /\ down[i][2] \in asking
  /\ \A i, j \in 1 .. Len(up) :
       Asks(up[i]) /\ Asks(up[j]) /\ i # j => up[i][2] # up[j][2]
  /\ \A i, j \in 1 .. Len(down) :
       Answers(down[i]) /\ Answers(down[j]) /\ i # j => down[i][2] # down[j][2]
  /\ \A i \in 1 .. Len(up), j \in 1 .. Len(down) :
       Asks(up[i]) /\ Answers(down[j]) => up[i][2] # down[j][2]

Asked == \A n \in Others : Talk(n, link[n].up, link[n].down, waiting)

\* A subscription of s that is not answered is in its mail or waits, and an earlier
\* USUB is handled before it.
Orderly(s, letters, place, asking) ==
  /\ s \in asking => place = "calling"
  /\ \A i \in 1 .. Len(letters) :
       /\ letters[i] = "SUB" => place = "calling" /\ s \notin asking
       /\ letters[i] = "USUB" => place # "in" /\ s \notin asking
  /\ \A i, j \in 1 .. Len(letters) :
       i < j /\ letters[i] = "SUB" => letters[j] \notin {"SUB", "USUB"}

Posted == \A s \in Service : Orderly(s, mail[s], chan[s], waiting)

\* Before the channel is deleted it is there, and nobody says anything else.
Undeleted ==
  ~ deleted =>
    /\ channel[Owner] # Dead
    /\ \A s \in Service : \A i \in 1 .. Len(mail[s]) : mail[s][i] # "DEL"
    /\ \A n \in Others : \A i \in 1 .. Len(link[n].down) :
         link[n].down[i][1] \notin {"NO", "DELR"}

\* No package is twice in an inbox.
Distinct(q) == \A i, j \in 1 .. Len(q) : i # j => q[i] # q[j]

\* Who has package p in its inbox
Receivers(p) == {s \in Service : \E i \in 1 .. Len(inbox[s]) : inbox[s][i] = p}

\* A package is counted for the inboxes it is in, and none was freed.
Packages ==
  /\ inbox \in [Service -> Seq(1 .. Len(mc_reference))]
  /\ mc_reference \in Seq(Int)
  /\ mc_freed = {}
  /\ \A s \in Service : Distinct(inbox[s])
  /\ \A p \in 1 .. Len(mc_reference) : mc_reference[p] = Cardinality(Receivers(p))

\* The inductive invariant.
MInv ==
  MTyped /\ Asked /\ Posted /\ Undeleted /\ CountExact /\ SubscriberListed /\ Packages

-----------------------------------------------------------------------------
\* A sequence without its head, and with one element more.
LEMMA Taken ==
  ASSUME NEW S, NEW q \in Seq(S), q # <<>>
  PROVE  /\ Tail(q) \in Seq(S) /\ Len(Tail(q)) = Len(q) - 1
         /\ Len(q) \in Nat /\ Len(q) > 0 /\ Head(q) = q[1] /\ q[1] \in S
         /\ \A i \in 1 .. Len(Tail(q)) : i + 1 \in 1 .. Len(q) /\ Tail(q)[i] = q[i + 1]
  OBVIOUS

LEMMA Added ==
  ASSUME NEW S, NEW q \in Seq(S), NEW e \in S
  PROVE  /\ Append(q, e) \in Seq(S) /\ Len(Append(q, e)) = Len(q) + 1 /\ Len(q) \in Nat
         /\ Append(q, e)[Len(q) + 1] = e
         /\ \A i \in 1 .. Len(q) : Append(q, e)[i] = q[i]
         /\ \A i \in 1 .. Len(q) + 1 : i = Len(q) + 1 \/ i \in 1 .. Len(q)
  OBVIOUS

LEMMA DistinctTaken ==
  ASSUME NEW S, NEW q \in Seq(S), q # <<>>, Distinct(q)
  PROVE  Distinct(Tail(q)) /\ \A i \in 1 .. Len(Tail(q)) : Tail(q)[i] # q[1]
<1> SUFFICES ASSUME NEW i \in 1 .. Len(Tail(q))
             PROVE  /\ Tail(q)[i] # q[1]
                    /\ \A j \in 1 .. Len(Tail(q)) : i # j => Tail(q)[i] # Tail(q)[j]
  BY DEF Distinct
<1>1. Tail(q)[i] = q[i + 1] /\ i + 1 \in 1 .. Len(q) /\ 1 \in 1 .. Len(q) /\ i + 1 # 1
  BY Taken
<1>2. ASSUME NEW j \in 1 .. Len(Tail(q)), i # j PROVE Tail(q)[i] # Tail(q)[j]
  <2>1. Tail(q)[j] = q[j + 1] /\ j + 1 \in 1 .. Len(q) /\ i + 1 # j + 1
    BY <1>2, Taken
  <2> QED BY <1>1, <2>1 DEF Distinct
<1> QED BY <1>1, <1>2 DEF Distinct

LEMMA OrderlyAdded ==
  ASSUME NEW s, NEW q \in Seq(Command), NEW e \in Command, NEW place, NEW place2, NEW asking,
         Orderly(s, q, place, asking),
         e = "SUB" => place = "out" /\ place2 = "calling",
         e = "USUB" => place = "in" /\ place2 = "out",
         e \notin {"SUB", "USUB"} => place2 = place
  PROVE  Orderly(s, Append(q, e), place2, asking)
<1> DEFINE a == Append(q, e)
<1>1. /\ Len(a) = Len(q) + 1 /\ Len(q) \in Nat /\ a[Len(q) + 1] = e
      /\ \A i \in 1 .. Len(q) : a[i] = q[i]
      /\ \A i \in 1 .. Len(a) : i = Len(q) + 1 \/ i \in 1 .. Len(q)
  BY Added
<1> HIDE DEF a
<1>2. s \in asking => place2 = "calling"
  BY DEF Orderly
<1>3. \A i \in 1 .. Len(a) :
       /\ a[i] = "SUB" => place2 = "calling" /\ s \notin asking
       /\ a[i] = "USUB" => place2 # "in" /\ s \notin asking
  BY <1>1 DEF Orderly
<1>4. \A i, j \in 1 .. Len(a) : i < j /\ a[i] = "SUB" => a[j] \notin {"SUB", "USUB"}
  BY <1>1 DEF Orderly
<1>5. Orderly(s, a, place2, asking)
  BY <1>2, <1>3, <1>4 DEF Orderly
<1> QED BY <1>5 DEF a

LEMMA OrderlyTaken ==
  ASSUME NEW s, NEW q \in Seq(Command), q # <<>>, NEW place, NEW asking,
         Orderly(s, q, place, asking)
  PROVE  /\ Orderly(s, Tail(q), place, asking)
         /\ q[1] = "SUB" => \A i \in 1 .. Len(Tail(q)) : Tail(q)[i] \notin {"SUB", "USUB"}
<1> DEFINE a == Tail(q)
<1>1. /\ Len(a) = Len(q) - 1 /\ Len(q) \in Nat /\ Len(q) > 0
      /\ \A i \in 1 .. Len(a) : i + 1 \in 1 .. Len(q) /\ a[i] = q[i + 1]
  BY Taken
<1> HIDE DEF a
<1>2. \A i \in 1 .. Len(a) :
       /\ a[i] = "SUB" => place = "calling" /\ s \notin asking
       /\ a[i] = "USUB" => place # "in" /\ s \notin asking
  BY <1>1 DEF Orderly
<1>3. ASSUME NEW i \in 1 .. Len(a), NEW j \in 1 .. Len(a), i < j, a[i] = "SUB"
      PROVE  a[j] \notin {"SUB", "USUB"}
  <2>1. i + 1 \in 1 .. Len(q) /\ j + 1 \in 1 .. Len(q) /\ i + 1 < j + 1 /\ q[i + 1] = "SUB"
    BY <1>1, <1>3
  <2>2. q[j + 1] \notin {"SUB", "USUB"}
    BY <2>1 DEF Orderly
  <2> QED BY <1>1, <2>2
<1>4. Orderly(s, a, place, asking)
  BY <1>2, <1>3 DEF Orderly
<1>5. ASSUME q[1] = "SUB", NEW i \in 1 .. Len(a) PROVE a[i] \notin {"SUB", "USUB"}
  <2>1. 1 \in 1 .. Len(q) /\ i + 1 \in 1 .. Len(q) /\ 1 < i + 1
    BY <1>1
  <2>2. q[i + 1] \notin {"SUB", "USUB"}
    BY <1>5, <2>1 DEF Orderly
  <2> QED BY <1>1, <2>2
<1> QED BY <1>4, <1>5 DEF a

\* The owner takes a message, or answers it.
LEMMA TalkUpTaken ==
  ASSUME NEW n, NEW up \in Seq(Up), up # <<>>, NEW down \in Seq(Down), NEW asking,
         Talk(n, up, down, asking)
  PROVE  /\ Talk(n, Tail(up), down, asking)
         /\ Asks(up[1]) => \A i \in 1 .. Len(Tail(up)) :
              Asks(Tail(up)[i]) => Tail(up)[i][2] # up[1][2]
<1> DEFINE a == Tail(up)
<1>1. /\ Len(a) = Len(up) - 1 /\ Len(up) \in Nat /\ Len(up) > 0
      /\ \A i \in 1 .. Len(a) : i + 1 \in 1 .. Len(up) /\ a[i] = up[i + 1]
  BY Taken
<1> HIDE DEF a
<1>2. ASSUME NEW i \in 1 .. Len(a)
      PROVE  NodeOf(a[i][2]) = n /\ (Asks(a[i]) => a[i][2] \in asking)
  <2>1. i + 1 \in 1 .. Len(up) /\ a[i] = up[i + 1]
    BY <1>1
  <2> QED BY <2>1 DEF Talk
<1>3. ASSUME NEW i \in 1 .. Len(a), NEW j \in 1 .. Len(a), Asks(a[i]), Asks(a[j]), i # j
      PROVE  a[i][2] # a[j][2]
  <2>1. i + 1 \in 1 .. Len(up) /\ j + 1 \in 1 .. Len(up) /\ i + 1 # j + 1
    BY <1>1, <1>3
  <2> QED BY <1>1, <1>3, <2>1 DEF Talk
<1>4. ASSUME NEW i \in 1 .. Len(a), NEW j \in 1 .. Len(down), Asks(a[i]), Answers(down[j])
      PROVE  a[i][2] # down[j][2]
  <2>1. i + 1 \in 1 .. Len(up) /\ a[i] = up[i + 1]
    BY <1>1
  <2> QED BY <1>4, <2>1 DEF Talk
<1>5. Talk(n, a, down, asking)
  <2>1. \A i, j \in 1 .. Len(a) : Asks(a[i]) /\ Asks(a[j]) /\ i # j => a[i][2] # a[j][2]
    BY <1>3
  <2> QED BY <1>2, <1>4, <2>1 DEF Talk
<1>6. ASSUME Asks(up[1]), NEW i \in 1 .. Len(a), Asks(a[i]) PROVE a[i][2] # up[1][2]
  <2>1. 1 \in 1 .. Len(up) /\ i + 1 \in 1 .. Len(up) /\ 1 # i + 1
    BY <1>1
  <2> QED BY <1>1, <1>6, <2>1 DEF Talk
<1> QED BY <1>5, <1>6 DEF a

LEMMA TalkAnswered ==
  ASSUME NEW n, NEW up \in Seq(Up), up # <<>>, NEW down \in Seq(Down), NEW asking,
         Talk(n, up, down, asking), Asks(up[1]), NEW m \in Down, m[2] = up[1][2]
  PROVE  Talk(n, Tail(up), Append(down, m), asking)
<1> DEFINE a == Tail(up)
           b == Append(down, m)
<1>1. Talk(n, a, down, asking) /\ \A i \in 1 .. Len(a) : Asks(a[i]) => a[i][2] # m[2]
  BY TalkUpTaken
<1>2. /\ Len(b) = Len(down) + 1 /\ Len(down) \in Nat /\ b[Len(down) + 1] = m
      /\ \A i \in 1 .. Len(down) : b[i] = down[i]
      /\ \A i \in 1 .. Len(b) : i = Len(down) + 1 \/ i \in 1 .. Len(down)
  BY Added
<1>3. NodeOf(m[2]) = n /\ m[2] \in asking
        /\ \A j \in 1 .. Len(down) : Answers(down[j]) => down[j][2] # m[2]
  <2>1. 1 \in 1 .. Len(up)
    BY Taken
  <2> QED BY <2>1 DEF Talk
<1> HIDE DEF a, b
<1>4. \A i \in 1 .. Len(b) : Answers(b[i]) => NodeOf(b[i][2]) = n /\ b[i][2] \in asking
  BY <1>1, <1>2, <1>3 DEF Talk
<1>5. \A i, j \in 1 .. Len(b) : Answers(b[i]) /\ Answers(b[j]) /\ i # j => b[i][2] # b[j][2]
  BY <1>1, <1>2, <1>3 DEF Talk
<1>6. \A i \in 1 .. Len(a), j \in 1 .. Len(b) :
         Asks(a[i]) /\ Answers(b[j]) => a[i][2] # b[j][2]
  BY <1>1, <1>2 DEF Talk
<1>7. Talk(n, a, b, asking)
  BY <1>1, <1>4, <1>5, <1>6 DEF Talk
<1> QED BY <1>7 DEF a, b

\* A node takes a message; an answer ends the wait it is for.
LEMMA TalkDownTaken ==
  ASSUME NEW n, NEW up \in Seq(Up), NEW down \in Seq(Down), down # <<>>, NEW asking,
         Talk(n, up, down, asking)
  PROVE  /\ Talk(n, up, Tail(down), asking)
         /\ Answers(down[1]) => Talk(n, up, Tail(down), asking \ {down[1][2]})
<1> DEFINE b == Tail(down)
<1>1. /\ Len(b) = Len(down) - 1 /\ Len(down) \in Nat /\ Len(down) > 0
      /\ \A i \in 1 .. Len(b) : i + 1 \in 1 .. Len(down) /\ b[i] = down[i + 1]
  BY Taken
<1> HIDE DEF b
<1>2. ASSUME NEW i \in 1 .. Len(b), Answers(b[i]) PROVE NodeOf(b[i][2]) = n /\ b[i][2] \in asking
  <2>1. i + 1 \in 1 .. Len(down) /\ b[i] = down[i + 1]
    BY <1>1
  <2> QED BY <1>2, <2>1 DEF Talk
<1>3. ASSUME NEW i \in 1 .. Len(b), NEW j \in 1 .. Len(b), Answers(b[i]), Answers(b[j]), i # j
      PROVE  b[i][2] # b[j][2]
  <2>1. i + 1 \in 1 .. Len(down) /\ j + 1 \in 1 .. Len(down) /\ i + 1 # j + 1
    BY <1>1, <1>3
  <2> QED BY <1>1, <1>3, <2>1 DEF Talk
<1>4. ASSUME NEW i \in 1 .. Len(up), NEW j \in 1 .. Len(b), Asks(up[i]), Answers(b[j])
      PROVE  up[i][2] # b[j][2]
  <2>1. j + 1 \in 1 .. Len(down) /\ b[j] = down[j + 1]
    BY <1>1
  <2> QED BY <1>4, <2>1 DEF Talk
<1>5. \A i, j \in 1 .. Len(b) : Answers(b[i]) /\ Answers(b[j]) /\ i # j => b[i][2] # b[j][2]
  BY <1>3
<1>6. Talk(n, up, b, asking)
  BY <1>2, <1>4, <1>5 DEF Talk
<1>7. ASSUME Answers(down[1]) PROVE Talk(n, up, b, asking \ {down[1][2]})
  <2>1. 1 \in 1 .. Len(down)
    BY <1>1
  <2>2. \A i \in 1 .. Len(up) : Asks(up[i]) => up[i][2] # down[1][2]
    BY <1>7, <2>1 DEF Talk
  <2>3. ASSUME NEW i \in 1 .. Len(b), Answers(b[i]) PROVE b[i][2] # down[1][2]
    <3>1. i + 1 \in 1 .. Len(down) /\ 1 # i + 1
      BY <1>1
    <3> QED BY <1>1, <1>7, <2>1, <2>3, <3>1 DEF Talk
  <2> QED BY <1>6, <2>2, <2>3 DEF Talk
<1> QED BY <1>6, <1>7 DEF b

\* A service asks the owner through its node, or gives the group up.
LEMMA TalkUpAdded ==
  ASSUME NEW n, NEW up \in Seq(Up), NEW down \in Seq(Down), NEW asking,
         Talk(n, up, down, asking), NEW m \in Up, NodeOf(m[2]) = n,
         Asks(m) => m[2] \notin asking
  PROVE  Talk(n, Append(up, m), down, IF Asks(m) THEN asking \cup {m[2]} ELSE asking)
<1> DEFINE a == Append(up, m)
           now == IF Asks(m) THEN asking \cup {m[2]} ELSE asking
<1>1. /\ Len(a) = Len(up) + 1 /\ Len(up) \in Nat /\ a[Len(up) + 1] = m
      /\ \A i \in 1 .. Len(up) : a[i] = up[i]
      /\ \A i \in 1 .. Len(a) : i = Len(up) + 1 \/ i \in 1 .. Len(up)
  BY Added
<1>2. asking \subseteq now /\ (Asks(m) => m[2] \in now)
  OBVIOUS
<1> HIDE DEF a, now
<1>3. \A i \in 1 .. Len(a) : NodeOf(a[i][2]) = n /\ (Asks(a[i]) => a[i][2] \in now)
  BY <1>1, <1>2 DEF Talk
<1>4. \A i \in 1 .. Len(down) : Answers(down[i]) => NodeOf(down[i][2]) = n /\ down[i][2] \in now
  BY <1>2 DEF Talk
<1>5. \A i, j \in 1 .. Len(a) : Asks(a[i]) /\ Asks(a[j]) /\ i # j => a[i][2] # a[j][2]
  BY <1>1 DEF Talk
<1>6. \A i \in 1 .. Len(a), j \in 1 .. Len(down) :
         Asks(a[i]) /\ Answers(down[j]) => a[i][2] # down[j][2]
  BY <1>1 DEF Talk
<1>7. Talk(n, a, down, now)
  BY <1>3, <1>4, <1>5, <1>6 DEF Talk
<1> QED BY <1>7 DEF a, now

LEMMA TalkDownAdded ==
  ASSUME NEW n, NEW up \in Seq(Up), NEW down \in Seq(Down), NEW asking,
         Talk(n, up, down, asking), NEW m \in Down, ~ Answers(m)
  PROVE  Talk(n, up, Append(down, m), asking)
<1> DEFINE b == Append(down, m)
<1>1. /\ Len(b) = Len(down) + 1 /\ Len(down) \in Nat /\ b[Len(down) + 1] = m
      /\ \A i \in 1 .. Len(down) : b[i] = down[i]
      /\ \A i \in 1 .. Len(b) : i = Len(down) + 1 \/ i \in 1 .. Len(down)
  BY Added
<1> HIDE DEF b
<1>2. \A i \in 1 .. Len(b) : Answers(b[i]) => i \in 1 .. Len(down) /\ b[i] = down[i]
  BY <1>1
<1>3. \A i \in 1 .. Len(b) : Answers(b[i]) => NodeOf(b[i][2]) = n /\ b[i][2] \in asking
  BY <1>2 DEF Talk
<1>4. \A i, j \in 1 .. Len(b) : Answers(b[i]) /\ Answers(b[j]) /\ i # j => b[i][2] # b[j][2]
  BY <1>2 DEF Talk
<1>5. \A i \in 1 .. Len(up), j \in 1 .. Len(b) :
         Asks(up[i]) /\ Answers(b[j]) => up[i][2] # b[j][2]
  BY <1>2 DEF Talk
<1>6. Talk(n, up, b, asking)
  BY <1>3, <1>4, <1>5 DEF Talk
<1> QED BY <1>6 DEF b

\* Who waits at another node makes no difference.
LEMMA TalkOthers ==
  ASSUME NEW n, NEW up, NEW down, NEW asking, Talk(n, up, down, asking), NEW s, NodeOf(s) # n
  PROVE  Talk(n, up, down, asking \ {s}) /\ Talk(n, up, down, asking \cup {s})
  BY DEF Talk

\* What a group's count is, once the empty and the dead one are told apart.
LEMMA Groups ==
  ASSUME MulticastAssumption, MTyped, NEW n \in Node, channel[n] # Dead
  PROVE  /\ channel[n] \subseteq Service /\ 0 \notin channel[n]
         /\ IsFiniteSet(channel[n]) /\ Cardinality(channel[n]) \in Nat
<1>1. channel[n] \subseteq Service /\ 0 \notin channel[n]
  BY DEF MTyped, MulticastAssumption
<1>2. IsFiniteSet(channel[n])
  BY <1>1, FS_Subset DEF MulticastAssumption
<1> QED BY <1>1, <1>2, FS_CardinalityType

LEMMA MInit == ASSUME MulticastAssumption, MulticastInit PROVE MInv
<1> USE DEF MulticastAssumption, MulticastInit
<1>1. MTyped
  <2>1. \A n \in Node : (IF n = Owner THEN {} ELSE Dead) \in (SUBSET Service) \cup {Dead}
    OBVIOUS
  <2>2. channel \in [Node -> (SUBSET Service) \cup {Dead}]
    BY <2>1
  <2>3. link \in [Others -> [up : Seq(Up), down : Seq(Down)]]
    OBVIOUS
  <2>4. mail \in [Service -> Seq(Command)]
    OBVIOUS
  <2>5. channel_n \in [Node -> Int] /\ chan \in [Service -> {"out", "calling", "in"}]
    OBVIOUS
  <2>6. deleted \in BOOLEAN
    OBVIOUS
  <2> QED BY <2>2, <2>3, <2>4, <2>5, <2>6 DEF MTyped
<1>2. Asked /\ Posted /\ Undeleted
  BY DEF Asked, Talk, Posted, Orderly, Undeleted, Dead
<1>3. CountExact /\ SubscriberListed
  BY FS_EmptySet DEF CountExact, SubscriberListed, Dead
<1>4. Packages
  <2>1. mc_reference \in Seq(Int) /\ Len(mc_reference) = 0 /\ mc_freed = {}
    OBVIOUS
  <2>2. inbox \in [Service -> Seq(1 .. Len(mc_reference))]
    OBVIOUS
  <2>3. \A s \in Service : Distinct(inbox[s])
    BY DEF Distinct
  <2> QED BY <2>1, <2>2, <2>3 DEF Packages
<1> QED BY <1>1, <1>2, <1>3, <1>4 DEF MInv

\* The parts that a step leaves alone
LEMMA SameLink == ASSUME Asked, UNCHANGED <<link, waiting>> PROVE Asked'
  BY DEF Asked

LEMMA SameGroups == ASSUME CountExact, UNCHANGED <<channel, channel_n>> PROVE CountExact'
  BY DEF CountExact

LEMMA SameMemory == ASSUME Packages, UNCHANGED memory PROVE Packages'
  BY DEF Packages, Receivers, memory

-----------------------------------------------------------------------------
\* The services send: subscribe, unsubscribe, publish and delete.
LEMMA PostKeeps ==
  ASSUME MulticastAssumption, MInv, NEW s \in Service, NEW what \in {"PUB", "DEL"},
         subscribe(s) \/ unsubscribe(s) \/ publish(s, what)
  PROVE  MInv'
<1> USE DEF MInv
<1>1. PICK e \in Command : Post(s, e) /\
         \/ e = "SUB" /\ chan[s] = "out" /\ chan' = [chan EXCEPT ![s] = "calling"]
            /\ UNCHANGED deleted
         \/ e = "USUB" /\ chan[s] = "in" /\ chan' = [chan EXCEPT ![s] = "out"]
            /\ UNCHANGED deleted
         \/ e \in {"PUB", "DEL"} /\ UNCHANGED chan /\ (deleted' <=> deleted \/ e = "DEL")
  <2>1. CASE subscribe(s)
    BY <2>1 DEF subscribe, Command
  <2>2. CASE unsubscribe(s)
    BY <2>2 DEF unsubscribe, Command
  <2>3. CASE publish(s, what)
    <3>1. what \in Command /\ Post(s, what) /\ UNCHANGED chan
      BY <2>3 DEF publish, Command
    <3>2. deleted' <=> deleted \/ what = "DEL"
      BY <2>3 DEF publish
    <3> QED BY <3>1, <3>2
  <2> QED BY <2>1, <2>2, <2>3
<1>2. UNCHANGED <<channel, channel_n, channel_remote, waiting, link, memory>>
  BY DEF subscribe, unsubscribe, publish
<1>3. /\ mail' \in [Service -> Seq(Command)]
      /\ Len(mail[s]) \in Nat /\ Len(mail'[s]) = Len(mail[s]) + 1
      /\ mail'[s][Len(mail[s]) + 1] = e
      /\ \A i \in 1 .. Len(mail[s]) : mail'[s][i] = mail[s][i]
      /\ \A i \in 1 .. Len(mail'[s]) : i = Len(mail[s]) + 1 \/ i \in 1 .. Len(mail[s])
      /\ \A r \in Service \ {s} : mail'[r] = mail[r]
  BY <1>1, Added DEF Post, MTyped
<1>4. MTyped'
  <2>1. chan' \in [Service -> {"out", "calling", "in"}]
    BY <1>1 DEF MTyped
  <2>2. deleted' \in BOOLEAN
    BY DEF subscribe, unsubscribe, publish, MTyped
  <2> QED BY <1>2, <1>3, <2>1, <2>2 DEF MTyped
<1>5. Asked' /\ CountExact' /\ Packages'
  BY <1>2, SameLink, SameGroups, SameMemory
<1>6. Posted'
  <2>1. \A r \in Service \ {s} : chan'[r] = chan[r]
    BY <1>1 DEF MTyped
  <2>2. e = "SUB" => chan[s] = "out" /\ chan'[s] = "calling"
    BY <1>1 DEF MTyped
  <2>3. e = "USUB" => chan[s] = "in" /\ chan'[s] = "out"
    BY <1>1 DEF MTyped
  <2>4. e \notin {"SUB", "USUB"} => chan'[s] = chan[s]
    BY <1>1
  <2>5. ASSUME NEW r \in Service \ {s} PROVE Orderly(r, mail'[r], chan'[r], waiting')
    BY <1>2, <1>3, <2>1 DEF Posted
  <2>6. Orderly(s, mail'[s], chan'[s], waiting')
    <3>1. /\ Orderly(s, mail[s], chan[s], waiting) /\ waiting' = waiting
          /\ mail[s] \in Seq(Command) /\ mail'[s] = Append(mail[s], e)
      BY <1>1, <1>2 DEF Posted, Post, MTyped
    <3> QED BY <2>2, <2>3, <2>4, <3>1, OrderlyAdded
  <2> QED BY <2>5, <2>6 DEF Posted
<1>7. Undeleted'
  <2> SUFFICES ASSUME ~ deleted' PROVE Undeleted'
    BY DEF Undeleted
  <2>1. ~ deleted /\ e # "DEL"
    BY <1>1 DEF MTyped
  <2>2. \A r \in Service : \A i \in 1 .. Len(mail'[r]) : mail'[r][i] # "DEL"
    BY <1>3, <2>1 DEF Undeleted
  <2> QED BY <1>2, <2>1, <2>2 DEF Undeleted
<1>8. SubscriberListed'
  BY <1>1, <1>2 DEF SubscriberListed, MTyped
<1> QED BY <1>4, <1>5, <1>6, <1>7, <1>8

\* A receiver closes a package, and is one fewer of those it is counted for.
LEMMA DispatchKeeps ==
  ASSUME MulticastAssumption, MInv, NEW s \in Service, dispatch_subscribe(s)
  PROVE  MInv'
<1> USE DEF MInv
<1>0. PICK p : p = Head(inbox[s])
  OBVIOUS
<1>1. UNCHANGED <<channel, channel_n, channel_remote, waiting, mail, link, chan, deleted>>
  BY DEF dispatch_subscribe
<1>2. MTyped' /\ Asked' /\ Posted' /\ Undeleted' /\ CountExact' /\ SubscriberListed'
  BY <1>1 DEF MTyped, Asked, Posted, Undeleted, CountExact, SubscriberListed
<1>3. /\ inbox' = [inbox EXCEPT ![s] = Tail(@)]
      /\ mc_reference' = [mc_reference EXCEPT ![p] = @ - 1]
      /\ mc_freed' = IF mc_reference[p] <= 0 THEN mc_freed \cup {p} ELSE mc_freed
  BY <1>0 DEF dispatch_subscribe, mc_closelocal, Closed
<1>4. /\ inbox[s] \in Seq(1 .. Len(mc_reference)) /\ inbox[s] # <<>>
      /\ \A r \in Service \ {s} : inbox'[r] = inbox[r]
      /\ inbox'[s] = Tail(inbox[s])
  BY <1>3 DEF dispatch_subscribe, Packages
<1>5. /\ p = inbox[s][1] /\ p \in 1 .. Len(mc_reference)
      /\ Len(inbox'[s]) = Len(inbox[s]) - 1 /\ Len(inbox[s]) \in Nat /\ Len(inbox[s]) > 0
      /\ inbox'[s] \in Seq(1 .. Len(mc_reference))
      /\ \A i \in 1 .. Len(inbox'[s]) :
            i + 1 \in 1 .. Len(inbox[s]) /\ inbox'[s][i] = inbox[s][i + 1]
  <2>1. PICK t : t = inbox'[s]
    OBVIOUS
  <2>2. t = Tail(inbox[s])
    BY <1>4, <2>1
  <2>3. /\ t \in Seq(1 .. Len(mc_reference)) /\ Len(t) = Len(inbox[s]) - 1
        /\ Len(inbox[s]) \in Nat /\ Len(inbox[s]) > 0
        /\ Head(inbox[s]) = inbox[s][1] /\ inbox[s][1] \in 1 .. Len(mc_reference)
        /\ \A i \in 1 .. Len(t) : i + 1 \in 1 .. Len(inbox[s]) /\ t[i] = inbox[s][i + 1]
    BY <1>4, <2>2, Taken
  <2> QED BY <1>0, <2>1, <2>3, Zenon
<1>6. s \in Receivers(p)
  BY <1>5 DEF Receivers
<1>7. Receivers(p)' = Receivers(p) \ {s}
  <2>1. \A i \in 1 .. Len(inbox'[s]) : inbox'[s][i] # p
    <3>1. Distinct(inbox[s])
      BY DEF Packages
    <3> QED BY <1>4, <1>5, <3>1, DistinctTaken
  <2> QED BY <1>4, <2>1 DEF Receivers
<1>8. ASSUME NEW r \in 1 .. Len(mc_reference), r # p PROVE Receivers(r)' = Receivers(r)
  <2>1. (\E i \in 1 .. Len(inbox'[s]) : inbox'[s][i] = r)
          <=> \E i \in 1 .. Len(inbox[s]) : inbox[s][i] = r
    <3>1. ASSUME NEW i \in 1 .. Len(inbox[s]), inbox[s][i] = r
          PROVE  i - 1 \in 1 .. Len(inbox'[s]) /\ inbox'[s][i - 1] = r
      BY <1>5, <1>8, <3>1
    <3> QED BY <1>5, <3>1
  <2> QED BY <1>4, <2>1 DEF Receivers
<1>9. \A r \in 1 .. Len(mc_reference) :
        IsFiniteSet(Receivers(r)) /\ Cardinality(Receivers(r)) \in Nat
  BY FS_Subset, FS_CardinalityType DEF Receivers, MulticastAssumption
<1>10. /\ Cardinality(Receivers(p)') = Cardinality(Receivers(p)) - 1
       /\ Cardinality(Receivers(p)) # 0
  <2>1. IsFiniteSet(Receivers(p))
    BY <1>5, <1>9
  <2>2. Cardinality(Receivers(p) \ {s}) = Cardinality(Receivers(p)) - 1
    BY <1>6, <2>1, FS_RemoveElement
  <2>3. Cardinality(Receivers(p)) # 0
    BY <1>6, <2>1, FS_EmptySet
  <2> QED BY <1>7, <2>2, <2>3
<1>11. mc_freed' = {}
  BY <1>3, <1>5, <1>9, <1>10 DEF Packages
<1>12. Packages'
  <2>1. mc_reference' \in Seq(Int) /\ Len(mc_reference') = Len(mc_reference)
    BY <1>3, <1>5 DEF Packages
  <2>2. \A r \in 1 .. Len(mc_reference) :
           mc_reference'[r] = IF r = p THEN mc_reference[r] - 1 ELSE mc_reference[r]
    BY <1>3, <1>5 DEF Packages
  <2>3. \A r \in 1 .. Len(mc_reference) : mc_reference'[r] = Cardinality(Receivers(r)')
    BY <1>8, <1>10, <2>2, <1>9 DEF Packages
  <2>4. inbox' \in [Service -> Seq(1 .. Len(mc_reference'))]
    BY <1>3, <1>5, <2>1 DEF Packages
  <2>5. Distinct(inbox'[s])
    <3>1. Distinct(inbox[s])
      BY DEF Packages
    <3> QED BY <1>4, <3>1, DistinctTaken
  <2>6. \A r \in Service : Distinct(inbox'[r])
    BY <1>4, <2>5 DEF Packages
  <2> QED BY <1>11, <2>1, <2>3, <2>4, <2>6 DEF Packages
<1> QED BY <1>2, <1>12

-----------------------------------------------------------------------------
\* multicastd takes a command from the mail of s.
LEMMA GetKeeps ==
  ASSUME MInv, NEW s \in Service, NEW what, Get(s, what)
  PROVE  /\ mail' \in [Service -> Seq(Command)]
         /\ mail[s][1] = what /\ 1 \in 1 .. Len(mail[s]) /\ s \notin waiting
         /\ Orderly(s, mail'[s], chan[s], waiting)
         /\ what = "SUB" =>
              \A i \in 1 .. Len(mail'[s]) : mail'[s][i] \notin {"SUB", "USUB"}
         /\ \A q \in Service \ {s} : mail'[q] = mail[q]
         /\ ~ deleted => \A q \in Service : \A i \in 1 .. Len(mail'[q]) : mail'[q][i] # "DEL"
<1> USE DEF MInv
<1>1. /\ mail[s] \in Seq(Command) /\ mail[s] # <<>> /\ what = Head(mail[s]) /\ s \notin waiting
      /\ mail' = [mail EXCEPT ![s] = Tail(@)] /\ mail'[s] = Tail(mail[s])
      /\ \A q \in Service \ {s} : mail'[q] = mail[q]
  BY DEF Get, MTyped
<1>2. /\ Len(mail[s]) \in Nat /\ Len(mail[s]) > 0 /\ what = mail[s][1]
      /\ Tail(mail[s]) \in Seq(Command)
      /\ \A i \in 1 .. Len(mail'[s]) : i + 1 \in 1 .. Len(mail[s]) /\ mail'[s][i] = mail[s][i + 1]
  <2>1. PICK q \in Seq(Command) : q = mail[s] /\ q # <<>> /\ mail'[s] = Tail(q) /\ what = Head(q)
    BY <1>1
  <2> QED BY <2>1, Taken
<1>3. mail' \in [Service -> Seq(Command)]
  BY <1>1, <1>2 DEF MTyped
<1>4. Orderly(s, mail[s], chan[s], waiting)
  BY DEF Posted
<1>5. /\ Orderly(s, mail'[s], chan[s], waiting)
      /\ what = "SUB" => \A i \in 1 .. Len(mail'[s]) : mail'[s][i] \notin {"SUB", "USUB"}
  <2>1. PICK q \in Seq(Command) : q = mail[s] /\ q # <<>> /\ mail'[s] = Tail(q) /\ what = q[1]
    BY <1>1, <1>2
  <2> QED BY <1>4, <2>1, OrderlyTaken
<1>6. ASSUME ~ deleted, NEW q \in Service, NEW i \in 1 .. Len(mail'[q])
      PROVE  mail'[q][i] # "DEL"
  BY <1>1, <1>2, <1>6 DEF Undeleted
<1> QED BY <1>1, <1>2, <1>3, <1>5, <1>6

\* A command that leaves the caller's subscription as it is keeps the mail orderly.
LEMMA GetOnly ==
  ASSUME MInv, NEW s \in Service, NEW what, Get(s, what), UNCHANGED <<chan, waiting>>
  PROVE  Posted'
<1>1. ASSUME NEW q \in Service PROVE Orderly(q, mail'[q], chan'[q], waiting')
  <2>1. CASE q = s
    BY <2>1, GetKeeps
  <2>2. CASE q # s
    BY <2>2, GetKeeps DEF Posted, MInv
  <2> QED BY <2>1, <2>2
<1> QED BY <1>1 DEF Posted

\* A publication is counted for each member of the group, and for each put in the inbox.
LEMMA PublishKeeps ==
  ASSUME MulticastAssumption, MInv, NEW n \in Node, PublishLocal(n)
  PROVE  Packages'
<1> USE DEF MInv
<1>1. PICK pack : pack = Len(mc_reference) + 1
  OBVIOUS
<1>2. Len(mc_reference) \in Nat /\ mc_reference \in Seq(Int) /\ mc_freed = {}
  BY DEF Packages
<1>3. PICK k \in Int, group \in SUBSET Service :
        /\ mc_reference' = Append(mc_reference, k)
        /\ k = Cardinality(group)
        /\ inbox' = [s \in Service |-> IF s \in group THEN Append(inbox[s], pack) ELSE inbox[s]]
        /\ mc_freed' = {}
  <2>1. CASE channel[n] \in {Dead, {}}
    <3>1. mc_reference' = Append(mc_reference, 0) /\ mc_freed' = {} /\ inbox' = inbox
      BY <1>2, <2>1 DEF PublishLocal, Closed
    <3>2. inbox = [s \in Service |-> IF s \in {} THEN Append(inbox[s], pack) ELSE inbox[s]]
      BY DEF Packages
    <3> QED BY <3>1, <3>2, FS_EmptySet
  <2>2. CASE channel[n] \notin {Dead, {}}
    <3>1. /\ channel[n] \in SUBSET Service
          /\ channel_n[n] = Cardinality(channel[n]) /\ channel_n[n] \in Int
      BY <2>2, Groups DEF CountExact, MTyped
    <3>2. /\ mc_reference' = Append(mc_reference, channel_n[n]) /\ mc_freed' = {}
          /\ inbox' = [s \in Service |-> IF s \in channel[n] THEN Append(inbox[s], pack)
                                          ELSE inbox[s]]
      BY <1>1, <1>2, <2>2 DEF PublishLocal
    <3> QED BY <3>1, <3>2
  <2> QED BY <2>1, <2>2
<1>4. /\ mc_reference' \in Seq(Int) /\ Len(mc_reference') = pack
      /\ mc_reference'[pack] = k
      /\ \A p \in 1 .. Len(mc_reference) : mc_reference'[p] = mc_reference[p]
  BY <1>1, <1>2, <1>3
<1>5. ASSUME NEW s \in Service
      PROVE  /\ inbox'[s] \in Seq(1 .. pack) /\ Distinct(inbox'[s])
             /\ \A p \in 1 .. Len(mc_reference) :
                  (\E i \in 1 .. Len(inbox'[s]) : inbox'[s][i] = p)
                    <=> \E i \in 1 .. Len(inbox[s]) : inbox[s][i] = p
             /\ (\E i \in 1 .. Len(inbox'[s]) : inbox'[s][i] = pack) <=> s \in group
  <2>1. /\ inbox[s] \in Seq(1 .. pack) /\ Len(inbox[s]) \in Nat /\ Distinct(inbox[s])
        /\ \A i \in 1 .. Len(inbox[s]) : inbox[s][i] \in 1 .. Len(mc_reference)
    BY <1>1, <1>2 DEF Packages
  <2>2. pack \in 1 .. pack /\ pack \notin 1 .. Len(mc_reference)
    BY <1>1, <1>2
  <2>3. CASE s \notin group
    BY <1>3, <2>1, <2>2, <2>3
  <2>4. CASE s \in group
    <3>1. inbox'[s] = Append(inbox[s], pack)
      BY <1>3, <2>4
    <3>2. /\ inbox'[s] \in Seq(1 .. pack) /\ Len(inbox'[s]) = Len(inbox[s]) + 1
          /\ inbox'[s][Len(inbox[s]) + 1] = pack
          /\ \A i \in 1 .. Len(inbox[s]) : inbox'[s][i] = inbox[s][i]
          /\ \A i \in 1 .. Len(inbox'[s]) : i = Len(inbox[s]) + 1 \/ i \in 1 .. Len(inbox[s])
      BY <2>1, <2>2, <3>1, Added
    <3>3. Distinct(inbox'[s])
      BY <2>1, <2>2, <3>2 DEF Distinct
    <3>4. /\ Len(inbox[s]) + 1 \in 1 .. Len(inbox'[s])
          /\ 1 .. Len(inbox[s]) \subseteq 1 .. Len(inbox'[s])
      BY <2>1, <3>2
    <3>5. \E i \in 1 .. Len(inbox'[s]) : inbox'[s][i] = pack
      BY <3>2, <3>4
    <3>6. ASSUME NEW p \in 1 .. Len(mc_reference)
          PROVE  (\E i \in 1 .. Len(inbox'[s]) : inbox'[s][i] = p)
                    <=> \E i \in 1 .. Len(inbox[s]) : inbox[s][i] = p
      BY <2>2, <3>2, <3>4
    <3> QED BY <2>4, <3>2, <3>3, <3>5, <3>6
  <2> QED BY <2>3, <2>4
<1>6. inbox' \in [Service -> Seq(1 .. Len(mc_reference'))]
  BY <1>3, <1>4, <1>5
<1>7. \A p \in 1 .. Len(mc_reference) : Receivers(p)' = Receivers(p)
  BY <1>5 DEF Receivers
<1>8. Receivers(pack)' = group
  BY <1>5 DEF Receivers
<1>9. ASSUME NEW p \in 1 .. Len(mc_reference') PROVE mc_reference'[p] = Cardinality(Receivers(p)')
  <2>1. CASE p = pack
    BY <1>3, <1>4, <1>8, <2>1
  <2>2. CASE p # pack
    <3>1. p \in 1 .. Len(mc_reference)
      BY <1>1, <1>2, <1>4, <2>2
    <3> QED BY <1>4, <1>7, <3>1 DEF Packages
  <2> QED BY <2>1, <2>2
<1> QED BY <1>3, <1>4, <1>5, <1>6, <1>9 DEF Packages

\* The owner sends m to the nodes that subscribe.
LEMMA SentKeeps ==
  ASSUME MInv, NEW m \in Down, m[1] \in {"PUB", "DELR"}, UNCHANGED waiting,
         link' = [n \in Others |-> IF n \in channel_remote
                                     THEN [link[n] EXCEPT !.down = Append(@, m)] ELSE link[n]]
  PROVE  /\ link' \in [Others -> [up : Seq(Up), down : Seq(Down)]]
         /\ Asked'
         /\ ~ deleted /\ m[1] = "PUB" => \A n \in Others : \A i \in 1 .. Len(link'[n].down) :
              link'[n].down[i][1] \notin {"NO", "DELR"}
<1> USE DEF MInv
<1>1. ASSUME NEW n \in Others
      PROVE  /\ link'[n] \in [up : Seq(Up), down : Seq(Down)]
             /\ Talk(n, link'[n].up, link'[n].down, waiting)
             /\ ~ deleted /\ m[1] = "PUB" => \A i \in 1 .. Len(link'[n].down) :
                  link'[n].down[i][1] \notin {"NO", "DELR"}
  <2>1. /\ link[n] \in [up : Seq(Up), down : Seq(Down)]
        /\ Talk(n, link[n].up, link[n].down, waiting)
        /\ ~ deleted => \A i \in 1 .. Len(link[n].down) : link[n].down[i][1] \notin {"NO", "DELR"}
    BY DEF MTyped, Asked, Undeleted
  <2>2. CASE n \notin channel_remote
    BY <2>1, <2>2
  <2>3. CASE n \in channel_remote
    <3>1. PICK up \in Seq(Up), down \in Seq(Down) : up = link[n].up /\ down = link[n].down
      BY <2>1
    <3>2. link'[n] = [up |-> up, down |-> Append(down, m)]
      BY <2>1, <2>3, <3>1
    <3>3. link'[n].up = up /\ link'[n].down = Append(down, m)
      BY <3>2
    <3>4. Talk(n, up, Append(down, m), waiting)
      BY <2>1, <3>1, TalkDownAdded DEF Answers
    <3>5. ASSUME ~ deleted, m[1] = "PUB", NEW i \in 1 .. Len(Append(down, m))
          PROVE  Append(down, m)[i][1] \notin {"NO", "DELR"}
      BY <2>1, <3>1, <3>5
    <3>6. Append(down, m) \in Seq(Down)
      BY <3>1
    <3> QED BY <3>2, <3>3, <3>4, <3>5, <3>6
  <2> QED BY <2>2, <2>3
<1> QED BY <1>1 DEF Asked

\* The multicastd of node n takes a message of the owner.
LEMMA TakenKeeps ==
  ASSUME MInv, NEW n \in Others, link[n].down # <<>>,
         link' = [link EXCEPT ![n].down = Tail(@)]
  PROVE  /\ link' \in [Others -> [up : Seq(Up), down : Seq(Down)]]
         /\ Head(link[n].down) = link[n].down[1] /\ link[n].down[1] \in Down
         /\ 1 \in 1 .. Len(link[n].down)
         /\ waiting' = waiting => Asked'
         /\ Answers(link[n].down[1]) /\ waiting' = waiting \ {link[n].down[1][2]} => Asked'
         /\ ~ deleted => \A k \in Others : \A i \in 1 .. Len(link'[k].down) :
              link'[k].down[i][1] \notin {"NO", "DELR"}
<1> USE DEF MInv
<1>1. PICK up \in Seq(Up), down \in Seq(Down) : up = link[n].up /\ down = link[n].down
  BY DEF MTyped
<1>2. /\ down # <<>> /\ Head(down) = down[1] /\ down[1] \in Down /\ 1 \in 1 .. Len(down)
      /\ Tail(down) \in Seq(Down)
      /\ \A i \in 1 .. Len(Tail(down)) : i + 1 \in 1 .. Len(down) /\ Tail(down)[i] = down[i + 1]
  BY <1>1, Taken
<1>3. link'[n] = [up |-> up, down |-> Tail(down)] /\ \A k \in Others \ {n} : link'[k] = link[k]
  BY <1>1 DEF MTyped
<1>4. link'[n].up = up /\ link'[n].down = Tail(down)
  BY <1>3, SMTT(30)
<1>5. link' \in [Others -> [up : Seq(Up), down : Seq(Down)]]
  <2>1. [up |-> up, down |-> Tail(down)] \in [up : Seq(Up), down : Seq(Down)]
    BY <1>2
  <2>2. link'[n] \in [up : Seq(Up), down : Seq(Down)]
    BY <1>3, <2>1, Zenon
  <2> QED BY <2>2, <1>3 DEF MTyped
<1>6. Talk(n, up, down, waiting)
  BY <1>1 DEF Asked
<1>7. /\ Talk(n, link'[n].up, link'[n].down, waiting)
      /\ Answers(down[1]) => Talk(n, link'[n].up, link'[n].down, waiting \ {down[1][2]})
  <2>1. /\ Talk(n, up, Tail(down), waiting)
        /\ Answers(down[1]) => Talk(n, up, Tail(down), waiting \ {down[1][2]})
    BY <1>2, <1>6, TalkDownTaken
  <2> QED BY <1>4, <2>1, Zenon
<1>8. \A k \in Others \ {n} : Talk(k, link'[k].up, link'[k].down, waiting)
  BY <1>3 DEF Asked
<1>9. Answers(down[1]) => NodeOf(down[1][2]) = n
  BY <1>2, <1>6 DEF Talk
<1>10. ASSUME Answers(down[1])
       PROVE  \A k \in Others \ {n} : Talk(k, link'[k].up, link'[k].down, waiting \ {down[1][2]})
  BY <1>8, <1>9, <1>10, TalkOthers
<1>11. waiting' = waiting => Asked'
  BY <1>7, <1>8 DEF Asked
<1>12. Answers(down[1]) /\ waiting' = waiting \ {down[1][2]} => Asked'
  <2> SUFFICES ASSUME Answers(down[1]), waiting' = waiting \ {down[1][2]}, NEW k \in Others
               PROVE  Talk(k, link'[k].up, link'[k].down, waiting')
    BY DEF Asked
  <2>1. CASE k = n
    BY <1>7, <2>1
  <2>2. CASE k # n
    BY <1>10, <2>2
  <2> QED BY <2>1, <2>2
<1>13. ASSUME ~ deleted, NEW k \in Others, NEW i \in 1 .. Len(link'[k].down)
       PROVE  link'[k].down[i][1] \notin {"NO", "DELR"}
  <2>1. CASE k = n
    <3>1. i \in 1 .. Len(Tail(down)) /\ link'[k].down[i] = down[i + 1]
      BY <1>2, <1>4, <2>1
    <3>2. i + 1 \in 1 .. Len(link[n].down) /\ link[n].down[i + 1] = down[i + 1]
      BY <1>1, <1>2, <3>1
    <3> QED BY <1>13, <3>1, <3>2 DEF Undeleted
  <2>2. CASE k # n
    BY <1>3, <1>13, <2>2 DEF Undeleted
  <2> QED BY <2>1, <2>2
<1> QED BY <1>1, <1>2, <1>5, <1>11, <1>12, <1>13

\* A service joins the group of its node, which is made if there is none.
LEMMA JoinKeeps ==
  ASSUME MulticastAssumption, MInv, NEW s \in Service, Join(s, Made(NodeOf(s)))
  PROVE  /\ channel' \in [Node -> (SUBSET Service) \cup {Dead}]
         /\ channel_n' \in [Node -> Int]
         /\ chan' = [chan EXCEPT ![s] = "in"] /\ chan' \in [Service -> {"out", "calling", "in"}]
         /\ CountExact'
         /\ channel[Owner] # Dead => channel'[Owner] # Dead
         /\ s \in channel'[NodeOf(s)]
         /\ \A r \in Service : r \in channel[NodeOf(r)] => r \in channel'[NodeOf(r)]
<1> USE DEF MInv
<1>0. PICK n \in Node : n = NodeOf(s)
  BY DEF MulticastAssumption
<1>1. PICK group : n = NodeOf(s) /\ group = Made(n)
  BY <1>0
<1>2. /\ group \subseteq Service /\ IsFiniteSet(group) /\ Cardinality(group) \in Nat
      /\ channel_n[n] = Cardinality(group) /\ 0 \notin Service
      /\ channel[n] # Dead => group = channel[n]
  BY <1>1, Groups, FS_EmptySet DEF Made, CountExact, MulticastAssumption
<1>3. /\ channel' = [channel EXCEPT ![n] = group \cup {s}]
      /\ channel_n' = [channel_n EXCEPT ![n] = IF s \in group THEN @ ELSE @ + 1]
      /\ chan' = [chan EXCEPT ![s] = "in"]
  BY <1>1 DEF Join
<1>4. group \cup {s} \subseteq Service /\ group \cup {s} # Dead
  BY <1>2 DEF Dead
<1>5. /\ channel'[n] = group \cup {s} /\ \A k \in Node \ {n} : channel'[k] = channel[k]
      /\ channel_n'[n] = (IF s \in group THEN channel_n[n] ELSE channel_n[n] + 1)
      /\ \A k \in Node \ {n} : channel_n'[k] = channel_n[k]
  BY <1>3 DEF MTyped
<1>6. channel' \in [Node -> (SUBSET Service) \cup {Dead}] /\ channel_n' \in [Node -> Int]
  BY <1>3, <1>4 DEF MTyped
<1>7. channel_n'[n] = Cardinality(group \cup {s})
  <2>1. s \in group => group \cup {s} = group
    OBVIOUS
  <2> QED BY <1>2, <1>5, <2>1, FS_AddElement
<1>8. CountExact'
  BY <1>4, <1>5, <1>7 DEF CountExact
<1>9. channel[Owner] # Dead => channel'[Owner] # Dead
  BY <1>4, <1>5 DEF MulticastAssumption
<1>10. ASSUME NEW r \in Service, r \in channel[NodeOf(r)] PROVE r \in channel'[NodeOf(r)]
  <2>1. CASE NodeOf(r) = n
    <3>1. channel[n] # Dead
      BY <1>2, <1>10, <2>1 DEF Dead
    <3> QED BY <1>2, <1>5, <1>10, <2>1, <3>1
  <2>2. CASE NodeOf(r) # n
    BY <1>5, <1>10, <2>2 DEF MulticastAssumption
  <2> QED BY <2>1, <2>2
<1>11. chan' \in [Service -> {"out", "calling", "in"}]
  BY <1>3 DEF MTyped
<1> QED BY <1>1, <1>3, <1>5, <1>6, <1>8, <1>9, <1>10, <1>11

-----------------------------------------------------------------------------
\* The commands of multicastd
LEMMA PUBKeeps ==
  ASSUME MulticastAssumption, MInv, NEW s \in Service, PUB(s) PROVE MInv'
<1> USE DEF MInv
<1>1. /\ Get(s, "PUB") /\ PublishLocal(Owner)
      /\ UNCHANGED <<channel, channel_n, channel_remote, waiting, chan, deleted>>
  BY DEF PUB
<1>2. PICK m \in Down : m = <<"PUB", s>>
  BY DEF Down
<1>3. link' = [n \in Others |-> IF n \in channel_remote
                                 THEN [link[n] EXCEPT !.down = Append(@, m)] ELSE link[n]]
  BY <1>2 DEF PUB
<1>4. /\ link' \in [Others -> [up : Seq(Up), down : Seq(Down)]] /\ Asked'
      /\ ~ deleted => \A n \in Others : \A i \in 1 .. Len(link'[n].down) :
           link'[n].down[i][1] \notin {"NO", "DELR"}
  <2>1. m[1] = "PUB"
    BY <1>2
  <2> QED BY <1>1, <1>3, <2>1, SentKeeps
<1>5. MTyped' /\ CountExact' /\ SubscriberListed'
  <2>1. mail' \in [Service -> Seq(Command)]
    BY <1>1, GetKeeps
  <2> QED BY <1>1, <1>4, <2>1 DEF MTyped, CountExact, SubscriberListed
<1>6. Posted'
  BY <1>1, GetOnly
<1>7. Undeleted'
  BY <1>1, <1>4, GetKeeps DEF Undeleted
<1>8. Packages'
  BY <1>1, PublishKeeps DEF MulticastAssumption
<1> QED BY <1>4, <1>5, <1>6, <1>7, <1>8

LEMMA RemotePublishKeeps ==
  ASSUME MulticastAssumption, MInv, NEW n \in Others, RemotePublish(n) PROVE MInv'
<1> USE DEF MInv
<1>1. /\ link[n].down # <<>> /\ link' = [link EXCEPT ![n].down = Tail(@)] /\ PublishLocal(n)
      /\ UNCHANGED <<channel, channel_n, channel_remote, waiting, mail, chan, deleted>>
  BY DEF RemotePublish
<1>2. /\ link' \in [Others -> [up : Seq(Up), down : Seq(Down)]] /\ Asked'
      /\ ~ deleted => \A k \in Others : \A i \in 1 .. Len(link'[k].down) :
           link'[k].down[i][1] \notin {"NO", "DELR"}
  BY <1>1, TakenKeeps
<1>3. MTyped' /\ CountExact' /\ SubscriberListed' /\ Posted'
  BY <1>1, <1>2 DEF MTyped, CountExact, SubscriberListed, Posted
<1>4. Undeleted'
  BY <1>1, <1>2 DEF Undeleted
<1>5. Packages'
  BY <1>1, PublishKeeps DEF Others
<1> QED BY <1>2, <1>3, <1>4, <1>5

\* The group of s's node is there, or will be asked for; s is in it when s is answered.
LEMMA SUBKeeps ==
  ASSUME MulticastAssumption, MInv, NEW s \in Service, SUB(s) PROVE MInv'
<1> USE DEF MInv
<1>1. /\ Get(s, "SUB") /\ UNCHANGED <<channel_remote, memory, deleted>>
  BY DEF SUB
<1>2. /\ mail' \in [Service -> Seq(Command)] /\ s \notin waiting
      /\ \A q \in Service \ {s} : mail'[q] = mail[q]
      /\ \A i \in 1 .. Len(mail'[s]) : mail'[s][i] \notin {"SUB", "USUB"}
      /\ ~ deleted => \A q \in Service : \A i \in 1 .. Len(mail'[q]) : mail'[q][i] # "DEL"
  BY <1>1, GetKeeps
<1>3. chan[s] = "calling"
  <2>1. mail[s][1] = "SUB" /\ 1 \in 1 .. Len(mail[s])
    BY <1>1, GetKeeps
  <2> QED BY <2>1 DEF Posted, Orderly
<1>4. Packages'
  BY <1>1, SameMemory
<1>5. PICK n \in Node : n = NodeOf(s)
  BY DEF MulticastAssumption
<1>6. CASE /\ n # Owner /\ channel[n] = Dead
           /\ ToOwner(n, <<"SUBR", s>>)
           /\ waiting' = waiting \cup {s}
           /\ UNCHANGED <<channel, channel_n, chan>>
  <2>1. PICK m \in Up : m = <<"SUBR", s>>
    BY DEF Up
  <2>2. m[1] = "SUBR" /\ m[2] = s /\ Asks(m)
    BY <2>1 DEF Asks
  <2>3. n \in Others
    BY <1>6 DEF Others
  <2>4. PICK up \in Seq(Up), down \in Seq(Down) : up = link[n].up /\ down = link[n].down
    BY <2>3 DEF MTyped
  <2>5. /\ link'[n] = [up |-> Append(up, m), down |-> down]
        /\ \A k \in Others \ {n} : link'[k] = link[k]
        /\ link' = [link EXCEPT ![n] = link'[n]]
    BY <1>6, <2>1, <2>3, <2>4 DEF ToOwner, MTyped
  <2>6. Append(up, m) \in Seq(Up)
    OBVIOUS
  <2>7. link'[n].up = Append(up, m) /\ link'[n].down = down
    BY <2>5
  <2>8. link' \in [Others -> [up : Seq(Up), down : Seq(Down)]]
    <3>1. link'[n] \in [up : Seq(Up), down : Seq(Down)]
      BY <2>5, <2>6
    <3> QED BY <2>5, <3>1 DEF MTyped
  <2>9. Asked'
    <3>1. Talk(n, up, down, waiting)
      BY <2>3, <2>4 DEF Asked
    <3>2. Talk(n, Append(up, m), down, waiting \cup {s})
      BY <1>2, <1>5, <2>2, <3>1, TalkUpAdded
    <3>3. Talk(n, link'[n].up, link'[n].down, waiting')
      BY <1>6, <2>7, <3>2, Zenon
    <3>4. ASSUME NEW k \in Others, k # n PROVE Talk(k, link'[k].up, link'[k].down, waiting')
      <4>1. Talk(k, link[k].up, link[k].down, waiting)
        BY DEF Asked
      <4>2. Talk(k, link[k].up, link[k].down, waiting \cup {s})
        BY <1>5, <3>4, <4>1, TalkOthers
      <4> QED BY <1>6, <2>5, <3>4, <4>2
    <3> QED BY <3>3, <3>4 DEF Asked
  <2>10. Posted'
    <3>1. Orderly(s, mail'[s], chan'[s], waiting')
      BY <1>2, <1>3, <1>6 DEF Orderly
    <3>2. ASSUME NEW r \in Service, r # s PROVE Orderly(r, mail'[r], chan'[r], waiting')
      <4>1. Orderly(r, mail[r], chan[r], waiting)
        BY DEF Posted
      <4>2. mail'[r] = mail[r] /\ chan'[r] = chan[r] /\ (r \in waiting' <=> r \in waiting)
        BY <1>2, <1>6, <3>2
      <4> QED BY <4>1, <4>2 DEF Orderly
    <3> QED BY <3>1, <3>2 DEF Posted
  <2>11. Undeleted'
    <3>1. \A k \in Others : link'[k].down = link[k].down
      BY <2>4, <2>5, <2>7
    <3> QED BY <1>1, <1>2, <1>6, <3>1 DEF Undeleted
  <2>12. MTyped' /\ CountExact' /\ SubscriberListed'
    BY <1>1, <1>2, <1>6, <2>8 DEF MTyped, CountExact, SubscriberListed
  <2> QED BY <1>4, <2>9, <2>10, <2>11, <2>12
<1>7. CASE /\ channel[n] # Dead
           /\ Join(s, channel[n])
           /\ UNCHANGED <<link, waiting>>
  <2>1. Join(s, Made(NodeOf(s)))
    BY <1>5, <1>7 DEF Made
  <2>2. /\ channel' \in [Node -> (SUBSET Service) \cup {Dead}] /\ channel_n' \in [Node -> Int]
        /\ chan' = [chan EXCEPT ![s] = "in"] /\ chan' \in [Service -> {"out", "calling", "in"}]
        /\ CountExact' /\ (channel[Owner] # Dead => channel'[Owner] # Dead)
        /\ s \in channel'[NodeOf(s)]
        /\ \A r \in Service : r \in channel[NodeOf(r)] => r \in channel'[NodeOf(r)]
    BY <2>1, JoinKeeps
  <2>3. MTyped' /\ Asked'
    BY <1>1, <1>2, <1>7, <2>2, SameLink DEF MTyped
  <2>4. Posted'
    <3>1. Orderly(s, mail'[s], chan'[s], waiting')
      BY <1>2, <1>7 DEF Orderly
    <3>2. ASSUME NEW r \in Service, r # s PROVE Orderly(r, mail'[r], chan'[r], waiting')
      <4>1. Orderly(r, mail[r], chan[r], waiting)
        BY DEF Posted
      <4>2. mail'[r] = mail[r] /\ chan'[r] = chan[r] /\ waiting' = waiting
        BY <1>2, <1>7, <2>2, <3>2 DEF MTyped
      <4> QED BY <4>1, <4>2
    <3> QED BY <3>1, <3>2 DEF Posted
  <2>5. Undeleted'
    BY <1>1, <1>2, <1>7, <2>2 DEF Undeleted
  <2>6. SubscriberListed'
    <3> SUFFICES ASSUME NEW r \in Service, chan'[r] = "in", ~ deleted'
                 PROVE  r \in channel'[NodeOf(r)]
      BY DEF SubscriberListed
    <3>1. CASE r = s
      BY <2>2, <3>1
    <3>2. CASE r # s
      BY <1>1, <2>2, <3>2 DEF SubscriberListed, MTyped
    <3> QED BY <3>1, <3>2
  <2> QED BY <1>4, <2>2, <2>3, <2>4, <2>5, <2>6
<1>8. CASE /\ n = Owner /\ channel[n] = Dead
           /\ chan' = [chan EXCEPT ![s] = "in"]
           /\ UNCHANGED <<channel, channel_n, link, waiting>>
  <2>1. deleted
    BY <1>8 DEF Undeleted
  <2>2. MTyped' /\ Asked' /\ CountExact' /\ Undeleted' /\ SubscriberListed'
    <3>1. MTyped'
      BY <1>1, <1>2, <1>8 DEF MTyped
    <3>2. Undeleted' /\ SubscriberListed'
      BY <1>1, <2>1 DEF Undeleted, SubscriberListed
    <3> QED BY <1>8, <3>1, <3>2, SameLink, SameGroups
  <2>3. Posted'
    <3>1. Orderly(s, mail'[s], chan'[s], waiting')
      BY <1>2, <1>8 DEF Orderly
    <3>2. ASSUME NEW r \in Service, r # s PROVE Orderly(r, mail'[r], chan'[r], waiting')
      <4>1. Orderly(r, mail[r], chan[r], waiting)
        BY DEF Posted
      <4>2. mail'[r] = mail[r] /\ chan'[r] = chan[r] /\ waiting' = waiting
        BY <1>2, <1>8, <3>2 DEF MTyped
      <4> QED BY <4>1, <4>2
    <3> QED BY <3>1, <3>2 DEF Posted
  <2> QED BY <1>4, <2>2, <2>3
<1> QED BY <1>5, <1>6, <1>7, <1>8 DEF SUB

LEMMA SUBAnswerKeeps ==
  ASSUME MulticastAssumption, MInv, NEW n \in Others, SUBAnswer(n) PROVE MInv'
<1> USE DEF MInv
<1>1. /\ link[n].down # <<>> /\ link' = [link EXCEPT ![n].down = Tail(@)]
      /\ UNCHANGED <<channel_remote, mail, memory, deleted>>
  BY DEF SUBAnswer
<1>2. PICK m \in Down : m = Head(link[n].down) /\ m = link[n].down[1]
  BY <1>1, TakenKeeps
<1>3. PICK s \in Service : s = m[2]
  BY <1>2 DEF Down
<1>4. /\ Answers(m) /\ waiting' = waiting \ {s}
      /\ m[1] = "YES" => Join(s, Made(n))
      /\ m[1] = "NO" => chan' = [chan EXCEPT ![s] = "in"] /\ UNCHANGED <<channel, channel_n>>
  BY <1>2, <1>3 DEF SUBAnswer, Answers
<1>5. /\ link' \in [Others -> [up : Seq(Up), down : Seq(Down)]] /\ Asked'
      /\ ~ deleted => \A k \in Others : \A i \in 1 .. Len(link'[k].down) :
           link'[k].down[i][1] \notin {"NO", "DELR"}
      /\ 1 \in 1 .. Len(link[n].down)
  BY <1>1, <1>2, <1>3, <1>4, TakenKeeps
<1>6. n \in Node /\ NodeOf(s) = n /\ s \in waiting
  BY <1>2, <1>3, <1>4, <1>5 DEF Asked, Talk, Others
<1>7. /\ channel' \in [Node -> (SUBSET Service) \cup {Dead}] /\ channel_n' \in [Node -> Int]
      /\ chan' = [chan EXCEPT ![s] = "in"] /\ chan' \in [Service -> {"out", "calling", "in"}]
      /\ CountExact' /\ (channel[Owner] # Dead => channel'[Owner] # Dead)
      /\ ~ deleted => s \in channel'[NodeOf(s)]
      /\ \A r \in Service : r \in channel[NodeOf(r)] => r \in channel'[NodeOf(r)]
  <2>1. CASE m[1] = "YES"
    BY <1>4, <1>6, <2>1, JoinKeeps
  <2>2. CASE m[1] = "NO"
    <3>1. deleted
      BY <1>2, <1>5, <2>2 DEF Undeleted
    <3>2. chan' = [chan EXCEPT ![s] = "in"] /\ UNCHANGED <<channel, channel_n>>
      BY <1>4, <2>2
    <3> QED BY <3>1, <3>2, SameGroups DEF MTyped
  <2> QED BY <1>4, <2>1, <2>2 DEF Answers
<1>8. MTyped'
  BY <1>1, <1>5, <1>7 DEF MTyped
<1>9. Posted'
  <2>1. Orderly(s, mail'[s], chan'[s], waiting')
    <3>1. Orderly(s, mail[s], chan[s], waiting)
      BY DEF Posted
    <3>2. mail'[s] = mail[s] /\ s \notin waiting'
      BY <1>1, <1>4
    <3> QED BY <1>6, <3>1, <3>2 DEF Orderly
  <2>2. ASSUME NEW r \in Service, r # s PROVE Orderly(r, mail'[r], chan'[r], waiting')
    <3>1. Orderly(r, mail[r], chan[r], waiting)
      BY DEF Posted
    <3>2. mail'[r] = mail[r] /\ chan'[r] = chan[r] /\ (r \in waiting' <=> r \in waiting)
      BY <1>1, <1>4, <1>7, <2>2 DEF MTyped
    <3> QED BY <3>1, <3>2 DEF Orderly
  <2> QED BY <2>1, <2>2 DEF Posted
<1>10. Undeleted'
  BY <1>1, <1>5, <1>7 DEF Undeleted
<1>11. SubscriberListed'
  <2> SUFFICES ASSUME NEW r \in Service, chan'[r] = "in", ~ deleted'
               PROVE  r \in channel'[NodeOf(r)]
    BY DEF SubscriberListed
  <2>1. CASE r = s
    BY <1>1, <1>7, <2>1
  <2>2. CASE r # s
    BY <1>1, <1>7, <2>2 DEF SubscriberListed, MTyped
  <2> QED BY <2>1, <2>2
<1> QED BY <1>1, <1>5, <1>7, <1>8, <1>9, <1>10, <1>11, SameMemory

\* Only the last member's USUB gives a group up, and only at a node that is not the owner's.
LEMMA USUBKeeps ==
  ASSUME MulticastAssumption, MInv, NEW s \in Service, USUB(s) PROVE MInv'
<1> USE DEF MInv
<1>1. Get(s, "USUB") /\ UNCHANGED <<channel_remote, waiting, chan, memory, deleted>>
  BY DEF USUB
<1>2. /\ mail' \in [Service -> Seq(Command)]
      /\ ~ deleted => \A q \in Service : \A i \in 1 .. Len(mail'[q]) : mail'[q][i] # "DEL"
  BY <1>1, GetKeeps
<1>3. chan[s] # "in"
  <2>1. mail[s][1] = "USUB" /\ 1 \in 1 .. Len(mail[s])
    BY <1>1, GetKeeps
  <2> QED BY <2>1 DEF Posted, Orderly
<1>4. Posted' /\ Packages'
  BY <1>1, GetOnly, SameMemory
<1>0. PICK n \in Node : n = NodeOf(s)
  BY DEF MulticastAssumption
<1> DEFINE last == n # Owner /\ channel_n[n] = 1
<1>5. n = NodeOf(s) /\ (last => n # Owner /\ channel_n[n] = 1)
        /\ (~ last => n = Owner \/ channel_n[n] # 1)
  BY <1>0
<1>8. \/ UNCHANGED <<channel, channel_n, link>>
      \/ /\ channel[n] # Dead /\ s \in channel[n]
         /\ channel' = [channel EXCEPT ![n] = IF last THEN Dead ELSE @ \ {s}]
         /\ channel_n' = [channel_n EXCEPT ![n] = Remaining(n)]
         /\ IF last THEN ToOwner(n, <<"USUBR", s>>) ELSE UNCHANGED link
  BY <1>0 DEF USUB
<1> HIDE DEF last
<1>6. CASE UNCHANGED <<channel, channel_n, link>>
  <2>1. MTyped' /\ Asked' /\ CountExact'
    BY <1>1, <1>2, <1>6, SameLink, SameGroups DEF MTyped
  <2>2. Undeleted' /\ SubscriberListed'
    BY <1>1, <1>2, <1>6 DEF Undeleted, SubscriberListed
  <2> QED BY <1>4, <2>1, <2>2
<1>7. CASE /\ channel[n] # Dead /\ s \in channel[n]
           /\ channel' = [channel EXCEPT ![n] = IF last THEN Dead ELSE @ \ {s}]
           /\ channel_n' = [channel_n EXCEPT ![n] = Remaining(n)]
           /\ IF last THEN ToOwner(n, <<"USUBR", s>>) ELSE UNCHANGED link
  <2>1. /\ channel[n] \subseteq Service /\ IsFiniteSet(channel[n])
        /\ Cardinality(channel[n]) \in Nat /\ channel_n[n] = Cardinality(channel[n])
    BY <1>7, Groups DEF CountExact
  <2>2. /\ channel'[n] = (IF last THEN Dead ELSE channel[n] \ {s})
        /\ channel_n'[n] = channel_n[n] - 1
        /\ \A k \in Node \ {n} : channel'[k] = channel[k] /\ channel_n'[k] = channel_n[k]
    BY <1>7 DEF MTyped, Remaining
  <2>3. channel[n] \ {s} # Dead
    BY <2>1 DEF Dead, MulticastAssumption
  <2>4. /\ channel' \in [Node -> (SUBSET Service) \cup {Dead}] /\ channel_n' \in [Node -> Int]
    BY <1>7, <2>1 DEF MTyped, Remaining
  <2>5. CountExact'
    <3>1. Cardinality(channel[n] \ {s}) = Cardinality(channel[n]) - 1
      BY <1>7, <2>1, FS_RemoveElement
    <3> QED BY <1>5, <2>1, <2>2, <2>3, <3>1 DEF CountExact
  <2>6. last => channel[n] = {s}
    <3>1. Cardinality(channel[n] \ {s}) = Cardinality(channel[n]) - 1
      BY <1>7, <2>1, FS_RemoveElement
    <3>2. IsFiniteSet(channel[n] \ {s})
      BY <2>1, FS_Subset
    <3>3. last => channel[n] \ {s} = {}
      BY <1>5, <2>1, <3>1, <3>2, FS_EmptySet
    <3> QED BY <1>7, <3>3
  <2>7. SubscriberListed'
    <3> SUFFICES ASSUME NEW r \in Service, chan'[r] = "in", ~ deleted'
                 PROVE  r \in channel'[NodeOf(r)]
      BY DEF SubscriberListed
    <3>1. r # s /\ r \in channel[NodeOf(r)]
      BY <1>1, <1>3 DEF SubscriberListed
    <3>2. CASE NodeOf(r) = n
      BY <2>2, <2>6, <3>1, <3>2
    <3>3. CASE NodeOf(r) # n
      BY <2>2, <3>1, <3>3 DEF MulticastAssumption
    <3> QED BY <3>2, <3>3
  <2>8. channel[Owner] # Dead => channel'[Owner] # Dead
    BY <1>5, <2>2, <2>3 DEF MulticastAssumption
  <2>9. CASE ~ last
    <3>1. MTyped' /\ Asked' /\ Undeleted'
      BY <1>1, <1>2, <1>7, <2>4, <2>8, <2>9, SameLink DEF MTyped, Undeleted
    <3> QED BY <1>4, <2>5, <2>7, <3>1
  <2>10. CASE last
    <3>1. PICK m \in Up : m = <<"USUBR", s>>
      BY DEF Up
    <3>2. m[1] = "USUBR" /\ m[2] = s /\ ~ Asks(m)
      BY <3>1 DEF Asks
    <3>3. n \in Others
      BY <1>5, <2>10 DEF Others
    <3>4. PICK up \in Seq(Up), down \in Seq(Down) : up = link[n].up /\ down = link[n].down
      BY <3>3 DEF MTyped
    <3>5. /\ link'[n] = [up |-> Append(up, m), down |-> down]
          /\ \A k \in Others \ {n} : link'[k] = link[k]
          /\ link' = [link EXCEPT ![n] = link'[n]]
      BY <1>7, <2>10, <3>1, <3>3, <3>4 DEF ToOwner, MTyped
    <3>6. Append(up, m) \in Seq(Up)
      OBVIOUS
    <3>7. link'[n].up = Append(up, m) /\ link'[n].down = down
      BY <3>5
    <3>8. link' \in [Others -> [up : Seq(Up), down : Seq(Down)]]
      <4>1. link'[n] \in [up : Seq(Up), down : Seq(Down)]
        BY <3>5, <3>6
      <4> QED BY <3>5, <4>1 DEF MTyped
    <3>9. Asked'
      <4>1. Talk(n, up, down, waiting)
        BY <3>3, <3>4 DEF Asked
      <4>2. Talk(n, Append(up, m), down, waiting)
        BY <1>5, <3>2, <4>1, TalkUpAdded
      <4>3. Talk(n, link'[n].up, link'[n].down, waiting')
        BY <1>1, <3>7, <4>2
      <4> QED BY <1>1, <3>5, <4>3 DEF Asked
    <3>10. MTyped' /\ Undeleted'
      <4>1. \A k \in Others : link'[k].down = link[k].down
        BY <3>4, <3>5, <3>7
      <4> QED BY <1>1, <1>2, <2>4, <2>8, <3>8, <4>1 DEF MTyped, Undeleted
    <3> QED BY <1>4, <2>5, <2>7, <3>9, <3>10
  <2> QED BY <2>9, <2>10
<1> QED BY <1>6, <1>7, <1>8

\* SUBR is answered, by NO only if the channel was deleted.
LEMMA FromNodeKeeps ==
  ASSUME MulticastAssumption, MInv, NEW n \in Others, FromNode(n) PROVE MInv'
<1> USE DEF MInv
<1>1. /\ link[n].up # <<>>
      /\ UNCHANGED <<channel, channel_n, waiting, mail, chan, memory, deleted>>
  BY DEF FromNode
<1>2. PICK up \in Seq(Up), down \in Seq(Down) : up = link[n].up /\ down = link[n].down
  BY DEF MTyped
<1>3. /\ up # <<>> /\ Head(up) = up[1] /\ up[1] \in Up /\ Tail(up) \in Seq(Up)
  BY <1>1, <1>2, Taken
<1>4. PICK s \in Service : s = up[1][2]
  BY <1>3 DEF Up
<1>5. Talk(n, up, down, waiting)
  BY <1>2 DEF Asked
<1>6. PICK new \in Seq(Down) :
        /\ link' = [link EXCEPT ![n] = [up |-> Tail(up), down |-> new]]
        /\ Talk(n, Tail(up), new, waiting)
        /\ ~ deleted => \A i \in 1 .. Len(new) : new[i][1] \notin {"NO", "DELR"}
  <2>0. ~ deleted => \A i \in 1 .. Len(down) : down[i][1] \notin {"NO", "DELR"}
    BY <1>2 DEF Undeleted
  <2>1. CASE up[1][1] = "SUBR"
    <3>0. PICK word \in {"YES", "NO"} : word = IF channel[Owner] # Dead THEN "YES" ELSE "NO"
      OBVIOUS
    <3>1. PICK m \in Down : m = <<word, s>>
      BY DEF Down
    <3>2. m[2] = s /\ m[1] \in {"YES", "NO"} /\ (~ deleted => m[1] = "YES")
      BY <3>0, <3>1 DEF Undeleted
    <3>3. link' = [link EXCEPT ![n] = [up |-> Tail(up), down |-> Append(down, m)]]
      <4>1. link' = [link EXCEPT ![n] = [up |-> Tail(link[n].up),
                      down |-> Append(link[n].down,
                                 <<IF channel[Owner] # Dead THEN "YES" ELSE "NO", s>>)]]
        BY <1>2, <1>3, <1>4, <2>1 DEF FromNode, MTyped
      <4> QED BY <1>2, <3>0, <3>1, <4>1
    <3>4. Talk(n, Tail(up), Append(down, m), waiting)
      BY <1>3, <1>4, <1>5, <2>1, <3>2, TalkAnswered DEF Asks
    <3>5. ASSUME ~ deleted, NEW i \in 1 .. Len(Append(down, m))
          PROVE  Append(down, m)[i][1] \notin {"NO", "DELR"}
      BY <2>0, <3>2, <3>5
    <3>6. Append(down, m) \in Seq(Down)
      OBVIOUS
    <3> QED BY <3>3, <3>4, <3>5, <3>6
  <2>2. CASE up[1][1] = "USUBR"
    <3>1. link' = [link EXCEPT ![n] = [up |-> Tail(up), down |-> down]]
      BY <1>2, <1>3, <2>2 DEF FromNode, MTyped
    <3>2. Talk(n, Tail(up), down, waiting)
      BY <1>3, <1>5, TalkUpTaken
    <3> QED BY <2>0, <3>1, <3>2
  <2> QED BY <1>3, <2>1, <2>2 DEF Up
<1>7. /\ link'[n].up = Tail(up) /\ link'[n].down = new
      /\ \A k \in Others \ {n} : link'[k] = link[k]
  BY <1>6 DEF MTyped
<1>8. link' \in [Others -> [up : Seq(Up), down : Seq(Down)]]
  BY <1>3, <1>6 DEF MTyped
<1>9. Asked'
  BY <1>1, <1>6, <1>7 DEF Asked
<1>10. Undeleted'
  BY <1>1, <1>6, <1>7 DEF Undeleted
<1>11. MTyped' /\ CountExact' /\ SubscriberListed' /\ Posted' /\ Packages'
  BY <1>1, <1>8, SameGroups, SameMemory DEF MTyped, SubscriberListed, Posted
<1> QED BY <1>9, <1>10, <1>11

\* The channel is deleted.
LEMMA DELKeeps ==
  ASSUME MulticastAssumption, MInv, NEW s \in Service, DEL(s) PROVE MInv'
<1> USE DEF MInv
<1>1. /\ Get(s, "DEL") /\ UNCHANGED <<waiting, chan, memory, deleted>>
      /\ channel' = [channel EXCEPT ![Owner] = Dead]
      /\ channel_n' = [channel_n EXCEPT ![Owner] = 0]
  BY DEF DEL
<1>2. deleted
  <2>1. mail[s][1] = "DEL" /\ 1 \in 1 .. Len(mail[s])
    BY <1>1, GetKeeps
  <2> QED BY <2>1 DEF Undeleted
<1>3. PICK m \in Down : m = <<"DELR", s>>
  BY DEF Down
<1>4. link' = [n \in Others |-> IF n \in channel_remote
                                 THEN [link[n] EXCEPT !.down = Append(@, m)] ELSE link[n]]
  BY <1>3 DEF DEL
<1>5. link' \in [Others -> [up : Seq(Up), down : Seq(Down)]] /\ Asked'
  <2>1. m[1] = "DELR"
    BY <1>3
  <2> QED BY <1>1, <1>4, <2>1, SentKeeps
<1>6. mail' \in [Service -> Seq(Command)]
  BY <1>1, GetKeeps
<1>7. MTyped' /\ CountExact'
  <2>1. /\ channel' \in [Node -> (SUBSET Service) \cup {Dead}] /\ channel_n' \in [Node -> Int]
        /\ channel'[Owner] = Dead /\ channel_n'[Owner] = 0
        /\ \A k \in Node \ {Owner} : channel'[k] = channel[k] /\ channel_n'[k] = channel_n[k]
    BY <1>1 DEF MTyped, MulticastAssumption
  <2> QED BY <1>1, <1>5, <1>6, <2>1 DEF MTyped, CountExact
<1>8. Undeleted' /\ SubscriberListed'
  BY <1>1, <1>2 DEF Undeleted, SubscriberListed
<1> QED BY <1>1, <1>5, <1>7, <1>8, GetOnly, SameMemory

LEMMA DELRKeeps ==
  ASSUME MulticastAssumption, MInv, NEW n \in Others, DELR(n) PROVE MInv'
<1> USE DEF MInv
<1>1. /\ link[n].down # <<>> /\ link' = [link EXCEPT ![n].down = Tail(@)]
      /\ Head(link[n].down)[1] = "DELR"
      /\ channel' = [channel EXCEPT ![n] = Dead]
      /\ channel_n' = [channel_n EXCEPT ![n] = 0]
      /\ UNCHANGED <<channel_remote, waiting, mail, chan, memory, deleted>>
  BY DEF DELR
<1>2. /\ link' \in [Others -> [up : Seq(Up), down : Seq(Down)]] /\ Asked'
      /\ link[n].down[1][1] = "DELR" /\ 1 \in 1 .. Len(link[n].down)
  BY <1>1, TakenKeeps
<1>3. deleted
  BY <1>2 DEF Undeleted
<1>4. MTyped' /\ CountExact'
  <2>1. /\ channel' \in [Node -> (SUBSET Service) \cup {Dead}] /\ channel_n' \in [Node -> Int]
        /\ channel'[n] = Dead /\ channel_n'[n] = 0
        /\ \A k \in Node \ {n} : channel'[k] = channel[k] /\ channel_n'[k] = channel_n[k]
    BY <1>1 DEF MTyped, Others
  <2> QED BY <1>1, <1>2, <2>1 DEF MTyped, CountExact
<1>5. Undeleted' /\ SubscriberListed' /\ Posted'
  BY <1>1, <1>3 DEF Undeleted, SubscriberListed, Posted
<1> QED BY <1>1, <1>2, <1>4, <1>5, SameMemory

LEMMA MInvNext == ASSUME MulticastAssumption, MInv, [MulticastNext]_multicastVars PROVE MInv'
<1>1. CASE MulticastNext
  BY <1>1, PostKeeps, DispatchKeeps, PUBKeeps, RemotePublishKeeps, SUBKeeps, SUBAnswerKeeps,
     USUBKeeps, FromNodeKeeps, DELKeeps, DELRKeeps DEF MulticastNext
<1>2. CASE UNCHANGED multicastVars
  BY <1>2, SameLink, SameGroups, SameMemory
     DEF multicastVars, memory, MInv, MTyped, Posted, Undeleted, SubscriberListed
<1> QED BY <1>1, <1>2

-----------------------------------------------------------------------------
\* For any nodes, services and numbers of calls and publications: a group's count is
\* the number of its subscribers, a service whose subscription was answered is in its
\* node's group until it unsubscribes or the channel is deleted, and no package is
\* freed while a receiver on the node has yet to dispatch it.
THEOREM MulticastCorrect ==
  ASSUME MulticastAssumption PROVE MulticastSpec => []MulticastExact
<1>1. MInv => MulticastExact
  BY DEF MInv, MulticastExact, Packages, PackageAlive
<1> QED BY <1>1, MInit, MInvNext, PTL DEF MulticastSpec

-----------------------------------------------------------------------------
(* The launcher and the unique services.  That a launch is answered once   *)
(* needs to know that what is owed is one message or one service (Alone),  *)
(* and which reports a service may still have under way (Reporting,        *)
(* Answering); that a name has one live service, that the last one is the  *)
(* one the manager knows (Lasting).                                        *)

Reports == {"LAUNCHOK", "ERROR", "REMOVE", "KILLED"}
Message == [cmd : {"LAUNCH"}, name : UniqueName] \cup [cmd : Reports, handle : Handle]
Used == {h \in Handle : stage[h] # "none"}

UTyped ==
  /\ services \subseteq Used /\ instance \subseteq Used
  /\ mailbox \in Seq(Message)
  /\ stage \in [Handle -> {"none", "init", "run", "dead"}]
  /\ DOMAIN nameOf = Handle /\ \A h \in Used : nameOf[h] \in UniqueName
  /\ answer \in [UniqueName -> {"none", "ok", "nil", "error"}]
  /\ DOMAIN answer_handle = UniqueName
  /\ service \in [UniqueName -> {"nil", "table", "number", "string"}]
  /\ launching \in [UniqueName -> BOOLEAN]
  /\ waiters \in [UniqueName -> Seq(Requester)]
  /\ client \in [Requester -> {"idle", "launch", "wait", "woken", "ok", "nil", "error"}]
  /\ DOMAIN wants = Requester /\ (UniqueName # {} => \A c \in Requester : wants[c] \in UniqueName)
  /\ DOMAIN answers = UniqueName

\* Handles are given in order.
Numbered == \E k \in 0..MaxHandle : Used = 1..k

\* Messages: a launch of n, and a report about h
Launches(m, n) == m.cmd = "LAUNCH" /\ m.name = n
Tells(m, h) == m.cmd \in Reports /\ m.handle = h

\* A launch of n is to be answered while it waits, or its service is to report.
Owing(n) == launching[n] /\ answer[n] = "none"
Pending(n) ==
  \/ \E x \in 1..Len(mailbox) : Launches(mailbox[x], n)
  \/ \E h \in instance : nameOf[h] = n

Owed ==
  \A n \in UniqueName :
    /\ Owing(n) <=> Pending(n)
    /\ answers[n] = IF Owing(n) THEN 1 ELSE 0
    /\ answer[n] # "none" => launching[n]
    /\ launching[n] => service[n] = "table"

\* There is only one of them.
Alone ==
  /\ \A x, y \in 1..Len(mailbox) :
       mailbox[x].cmd = "LAUNCH" /\ mailbox[y].cmd = "LAUNCH" /\ mailbox[x].name = mailbox[y].name
         => x = y
  /\ \A x \in 1..Len(mailbox), h \in instance : ~ Launches(mailbox[x], nameOf[h])
  /\ \A h, g \in instance : nameOf[h] = nameOf[g] => h = g

\* What a service said of itself is on its way: first that it runs, then that it ended.
Reporting ==
  /\ \A x \in 1..Len(mailbox), h \in Handle :
       Tells(mailbox[x], h) => stage[h] = "dead" \/ (stage[h] = "run" /\ mailbox[x].cmd = "LAUNCHOK")
  /\ \A x, y \in 1..Len(mailbox), h \in Handle :
       Tells(mailbox[x], h) /\ Tells(mailbox[y], h) /\ mailbox[y].cmd = "LAUNCHOK" => y <= x
  /\ \A x \in 1..Len(mailbox), h \in Handle :
       Tells(mailbox[x], h) /\ mailbox[x].cmd = "LAUNCHOK" => h \in instance

\* A service whose launch is not answered is starting, or has said what became of it.
Answering ==
  /\ \A h \in Handle : stage[h] = "init" => h \in instance
  /\ \A h \in instance : stage[h] = "dead" => \E x \in 1..Len(mailbox) : Tells(mailbox[x], h)
  /\ \A h \in instance : stage[h] = "run" =>
       \E x \in 1..Len(mailbox) : Tells(mailbox[x], h) /\ mailbox[x].cmd = "LAUNCHOK"

\* The last service of a name is the one the manager knows.
Settled(n) == service[n] = "number" \/ answer[n] = "ok"
Lasting ==
  /\ \A h \in instance, g \in Used : nameOf[g] = nameOf[h] => g <= h
  /\ \A h \in Handle :
       stage[h] = "run" /\ h \notin instance => Settled(nameOf[h]) /\ answer_handle[nameOf[h]] = h
  /\ \A n \in UniqueName : Settled(n) =>
       /\ answer_handle[n] \in Used /\ nameOf[answer_handle[n]] = n
       /\ \A g \in Used : nameOf[g] = n => g <= answer_handle[n]

\* A service that ended is in the list until one of its messages is read.
Listing ==
  /\ \A h \in Handle : stage[h] \in {"init", "run"} => h \in services
  /\ \A h \in services : stage[h] = "dead" =>
       \E x \in 1..Len(mailbox) : Tells(mailbox[x], h) /\ mailbox[x].cmd # "LAUNCHOK"

UInv ==
  /\ UTyped /\ Numbered /\ Owed /\ Alone /\ Reporting /\ Answering /\ Lasting /\ Listing
  /\ NoneForgotten

-----------------------------------------------------------------------------
(* The launcher's messages                                                 *)

LEMMA MessageFacts ==
  ASSUME NEW m \in Message
  PROVE  \/ m.cmd = "LAUNCH" /\ m.name \in UniqueName /\ m.cmd \notin Reports /\ m = LAUNCH(m.name)
         \/ m.cmd # "LAUNCH" /\ m.cmd \in Reports /\ m.handle \in Handle
<1>1. CASE m \in [cmd : {"LAUNCH"}, name : UniqueName]
  <2>1. m.cmd = "LAUNCH" /\ m.name \in UniqueName
    BY <1>1
  <2>2. m = [cmd |-> "LAUNCH", name |-> m.name]
    BY <1>1
  <2> QED BY <2>1, <2>2 DEF LAUNCH, Reports
<1>2. CASE m \in [cmd : Reports, handle : Handle]
  BY <1>2 DEF Reports
<1> QED BY <1>1, <1>2 DEF Message

LEMMA Read ==
  ASSUME UTyped, mailbox # <<>>, mailbox' = Tail(mailbox)
  PROVE  /\ mailbox' \in Seq(Message) /\ 1 \in 1..Len(mailbox) /\ Head(mailbox) = mailbox[1]
         /\ \A x \in 1..Len(mailbox) : mailbox[x] \in Message
         /\ \A x \in 1..Len(mailbox') :
              x + 1 \in 1..Len(mailbox) /\ mailbox'[x] = mailbox[x + 1]
         /\ \A x \in 1..Len(mailbox) :
              x = 1 \/ (x - 1 \in 1..Len(mailbox') /\ mailbox'[x - 1] = mailbox[x])
<1>1. mailbox \in Seq(Message) /\ Len(mailbox) \in Nat \ {0}
  BY DEF UTyped
<1>2. Len(mailbox') = Len(mailbox) - 1 /\ \A x \in 1..Len(mailbox') : mailbox'[x] = mailbox[x + 1]
  BY <1>1
<1> QED BY <1>1, <1>2

LEMMA Written ==
  ASSUME UTyped, NEW p \in Seq(Message), Tell(p)
  PROVE  /\ mailbox' \in Seq(Message)
         /\ Len(mailbox) \in Nat /\ Len(p) \in Nat /\ Len(mailbox') = Len(mailbox) + Len(p)
         /\ \A x \in 1..Len(mailbox) :
              mailbox[x] \in Message /\ x \in 1..Len(mailbox') /\ mailbox'[x] = mailbox[x]
         /\ \A x \in 1..Len(mailbox') :
              x \in 1..Len(mailbox) \/ (x - Len(mailbox) \in 1..Len(p) /\ mailbox'[x] = p[x - Len(mailbox)])
         /\ \A x \in 1..Len(p) :
              Len(mailbox) + x \in 1..Len(mailbox') /\ mailbox'[Len(mailbox) + x] = p[x]
<1>1. mailbox \in Seq(Message) /\ mailbox' = mailbox \o p
  BY DEF UTyped, Tell
<1>2. /\ mailbox' \in Seq(Message) /\ Len(mailbox) \in Nat /\ Len(p) \in Nat
      /\ Len(mailbox') = Len(mailbox) + Len(p)
  BY <1>1
<1>3. \A x \in 1..Len(mailbox') :
        mailbox'[x] = IF x <= Len(mailbox) THEN mailbox[x] ELSE p[x - Len(mailbox)]
  BY <1>1, <1>2
<1> QED BY <1>1, <1>2, <1>3

-----------------------------------------------------------------------------
(* The manager of unique services                                          *)

\* Only a request goes on, that does not wait.
LEMMA ClientKeeps ==
  ASSUME UInv, NEW c \in Requester,
         UNCHANGED <<launcher, world, answer, answer_handle, service, launching, waiters, mailbox, answers>>,
         client' \in [Requester -> {"idle", "launch", "wait", "woken", "ok", "nil", "error"}],
         client'[c] # "wait", \A d \in Requester \ {c} : client'[d] = client[d] /\ wants'[d] = wants[d],
         DOMAIN wants' = Requester, UniqueName # {} => wants'[c] \in UniqueName
  PROVE  UInv'
<1>1. UTyped'
  BY DEF UInv, UTyped, Used, launcher, world
<1>2. NoneForgotten'
  BY DEF UInv, NoneForgotten
<1>3. (Numbered /\ Owed /\ Alone /\ Reporting /\ Answering /\ Lasting /\ Listing)'
  BY DEF UInv, Numbered, Used, Owed, Owing, Pending, Alone, Reporting, Answering, Lasting, Settled,
         Listing, launcher, world
<1> QED BY <1>1, <1>2, <1>3 DEF UInv

LEMMA AsksLaunch ==
  ASSUME UTyped, NEW n \in UniqueName, Tell(<<LAUNCH(n)>>)
  PROVE  /\ mailbox' \in Seq(Message) /\ Len(mailbox) \in Nat
         /\ \A x \in 1..Len(mailbox) :
              mailbox[x] \in Message /\ x \in 1..Len(mailbox') /\ mailbox'[x] = mailbox[x]
         /\ Len(mailbox) + 1 \in 1..Len(mailbox') /\ mailbox'[Len(mailbox) + 1] = LAUNCH(n)
         /\ \A x \in 1..Len(mailbox') : x \in 1..Len(mailbox) \/ x = Len(mailbox) + 1
<1> DEFINE p == <<LAUNCH(n)>>
<1>1. LAUNCH(n) \in Message
  BY DEF LAUNCH, Message
<1>2. p \in Seq(Message) /\ Len(p) = 1 /\ p[1] = LAUNCH(n)
  BY <1>1
<1>3. Tell(p)
  OBVIOUS
<1> HIDE DEF p
<1>4. /\ mailbox' \in Seq(Message) /\ Len(mailbox) \in Nat /\ Len(mailbox') = Len(mailbox) + Len(p)
      /\ \A x \in 1..Len(mailbox) :
           mailbox[x] \in Message /\ x \in 1..Len(mailbox') /\ mailbox'[x] = mailbox[x]
      /\ \A x \in 1..Len(p) :
           Len(mailbox) + x \in 1..Len(mailbox') /\ mailbox'[Len(mailbox) + x] = p[x]
  BY <1>2, <1>3, Written
<1>5. 1 \in 1..Len(p)
  BY <1>2
<1>6. \A x \in 1..Len(mailbox') : x \in 1..Len(mailbox) \/ x = Len(mailbox) + 1
  BY <1>2, <1>4
<1> QED BY <1>2, <1>4, <1>5, <1>6

LEMMA StillTells ==
  ASSUME \A x \in 1..Len(mailbox) : x \in 1..Len(mailbox') /\ mailbox'[x] = mailbox[x], NEW h
  PROVE  /\ (\E x \in 1..Len(mailbox) : Tells(mailbox[x], h)) =>
              \E x \in 1..Len(mailbox') : Tells(mailbox'[x], h)
         /\ (\E x \in 1..Len(mailbox) : Tells(mailbox[x], h) /\ mailbox[x].cmd = "LAUNCHOK") =>
              \E x \in 1..Len(mailbox') : Tells(mailbox'[x], h) /\ mailbox'[x].cmd = "LAUNCHOK"
         /\ (\E x \in 1..Len(mailbox) : Tells(mailbox[x], h) /\ mailbox[x].cmd # "LAUNCHOK") =>
              \E x \in 1..Len(mailbox') : Tells(mailbox'[x], h) /\ mailbox'[x].cmd # "LAUNCHOK"
  OBVIOUS

LEMMA LaunchKeeps ==
  ASSUME UInv, NEW n \in UniqueName, NEW c \in Requester, service[n] \in {"nil", "table"}, MayLaunch(n),
         service' = [service EXCEPT ![n] = "table"],
         launching' = [launching EXCEPT ![n] = TRUE],
         client[c] = "idle", client' = [client EXCEPT ![c] = "launch"],
         wants' = [wants EXCEPT ![c] = n], Tell(<<LAUNCH(n)>>),
         answers' = [answers EXCEPT ![n] = @ + 1],
         UNCHANGED <<waiters, launcher, world, answer, answer_handle>>
  PROVE  UInv'
<1>0. /\ UTyped /\ Numbered /\ Owed /\ Alone /\ Reporting /\ Answering /\ Lasting /\ Listing
      /\ NoneForgotten
  BY DEF UInv
<1>1. PICK k \in Nat : k = Len(mailbox)
  BY <1>0, AsksLaunch
<1>2. /\ mailbox' \in Seq(Message)
      /\ \A x \in 1..k :
           mailbox[x] \in Message /\ x \in 1..Len(mailbox') /\ mailbox'[x] = mailbox[x]
      /\ k + 1 \in 1..Len(mailbox') /\ mailbox'[k + 1] = LAUNCH(n)
      /\ \A x \in 1..Len(mailbox') : x \in 1..k \/ x = k + 1
  BY <1>0, <1>1, AsksLaunch
<1>3. LAUNCH(n).cmd = "LAUNCH" /\ LAUNCH(n).name = n /\ "LAUNCH" \notin Reports
  BY DEF LAUNCH, Reports
<1>4. ~ launching[n] /\ answer[n] = "none" /\ ~ Owing(n) /\ ~ Pending(n) /\ answers[n] = 0
  BY <1>0 DEF MayLaunch, Owed, Owing
<1>5. UNCHANGED <<services, instance, stage, nameOf>>
  BY DEF launcher, world
<1>6. UTyped'
  BY <1>0, <1>2, <1>5 DEF UTyped, Used
<1>7. Numbered'
  BY <1>0, <1>5 DEF Numbered, Used
<1>8. Owed'
  <2> SUFFICES ASSUME NEW o \in UniqueName
               PROVE  /\ Owing(o)' <=> Pending(o)'
                      /\ answers'[o] = IF Owing(o)' THEN 1 ELSE 0
                      /\ answer'[o] # "none" => launching'[o]
                      /\ launching'[o] => service'[o] = "table"
    BY DEF Owed
  <2>1. CASE o = n
    <3>1. Pending(n)'
      BY <1>2, <1>3 DEF Pending, Launches
    <3>2. Owing(n)' /\ answers'[n] = 1
      BY <1>0, <1>4 DEF Owing, UTyped
    <3> QED BY <2>1, <3>1, <3>2, <1>0 DEF UTyped
  <2>2. CASE o # n
    <3>1. Pending(o)' <=> Pending(o)
      BY <1>1, <1>2, <1>3, <1>5, <2>2 DEF Pending, Launches
    <3> QED BY <1>0, <2>2, <3>1 DEF Owed, Owing, UTyped
  <2> QED BY <2>1, <2>2
<1>9. Alone'
  <2>1. \A x \in 1..k : ~ Launches(mailbox[x], n)
    BY <1>1, <1>4 DEF Pending
  <2>2. \A h \in instance : nameOf[h] # n
    BY <1>4 DEF Pending
  <2>3. ASSUME NEW x \in 1..Len(mailbox'), NEW y \in 1..Len(mailbox'),
               mailbox'[x].cmd = "LAUNCH", mailbox'[y].cmd = "LAUNCH",
               mailbox'[x].name = mailbox'[y].name
        PROVE  x = y
    <3>1. CASE x \in 1..k /\ y \in 1..k
      BY <1>0, <1>1, <1>2, <2>3, <3>1 DEF Alone
    <3>2. CASE x = k + 1 \/ y = k + 1
      BY <1>2, <1>3, <2>1, <2>3, <3>2 DEF Launches
    <3> QED BY <1>2, <3>1, <3>2
  <2>4. \A x \in 1..Len(mailbox'), h \in instance : ~ Launches(mailbox'[x], nameOf[h])
    BY <1>0, <1>1, <1>2, <1>3, <2>2 DEF Alone, Launches
  <2> QED BY <1>0, <1>5, <2>3, <2>4 DEF Alone
<1>10. Reporting'
  <2>1. \A x \in 1..Len(mailbox'), h \in Handle :
          Tells(mailbox'[x], h) => x \in 1..Len(mailbox) /\ mailbox'[x] = mailbox[x]
    BY <1>1, <1>2, <1>3 DEF Tells
  <2> QED BY <1>0, <1>5, <2>1 DEF Reporting
<1>11. Answering'
  <2>1. \A x \in 1..Len(mailbox) : x \in 1..Len(mailbox') /\ mailbox'[x] = mailbox[x]
    BY <1>1, <1>2
  <2> QED BY <1>0, <1>5, <2>1, StillTells DEF Answering
<1>12. Lasting'
  BY <1>0, <1>4, <1>5 DEF Lasting, Settled, Used, UTyped
<1>13. Listing'
  <2>1. \A x \in 1..Len(mailbox) : x \in 1..Len(mailbox') /\ mailbox'[x] = mailbox[x]
    BY <1>1, <1>2
  <2> QED BY <1>0, <1>5, <2>1, StillTells DEF Listing
<1>14. NoneForgotten'
  BY <1>0 DEF NoneForgotten, UTyped
<1> QED BY <1>6, <1>7, <1>8, <1>9, <1>10, <1>11, <1>12, <1>13, <1>14 DEF UInv

LEMMA WaitKeeps ==
  ASSUME UInv, NEW n \in UniqueName, NEW c \in Requester, service[n] \in {"nil", "table"},
         service' = [service EXCEPT ![n] = "table"],
         waiters' = [waiters EXCEPT ![n] = Append(@, c)],
         client' = [client EXCEPT ![c] = "wait"], wants' = [wants EXCEPT ![c] = n],
         UNCHANGED <<launching, mailbox, answers, launcher, world, answer, answer_handle>>
  PROVE  UInv'
<1>0. /\ UTyped /\ Numbered /\ Owed /\ Alone /\ Reporting /\ Answering /\ Lasting /\ Listing
      /\ NoneForgotten
  BY DEF UInv
<1>1. UNCHANGED <<services, instance, stage, nameOf, mailbox, launching, answers, answer, answer_handle>>
  BY DEF launcher, world
<1>2. UTyped'
  <2>1. waiters' \in [UniqueName -> Seq(Requester)]
    BY <1>0 DEF UTyped
  <2> QED BY <1>0, <1>1, <2>1 DEF UTyped, Used
<1>3. (Numbered /\ Alone /\ Reporting /\ Answering /\ Listing)'
  BY <1>0, <1>1 DEF Numbered, Used, Alone, Reporting, Answering, Listing
<1>4. Owed'
  <2>1. \A o \in UniqueName : (Pending(o)' <=> Pending(o)) /\ (Owing(o)' <=> Owing(o))
    BY <1>1 DEF Pending, Owing
  <2>2. \A o \in UniqueName : service'[o] = IF o = n THEN "table" ELSE service[o]
    BY <1>0 DEF UTyped
  <2> QED BY <1>0, <1>1, <2>1, <2>2 DEF Owed
<1>5. Lasting'
  BY <1>0, <1>1 DEF Lasting, Settled, Used, UTyped
<1>6. NoneForgotten'
  <2> SUFFICES ASSUME NEW d \in Requester, client'[d] = "wait"
               PROVE  /\ service'[wants'[d]] = "table"
                      /\ \E i \in DOMAIN waiters'[wants'[d]] : waiters'[wants'[d]][i] = d
    BY DEF NoneForgotten
  <2>1. CASE d = c
    <3>1. waiters[n] \in Seq(Requester) /\ waiters'[n] = Append(waiters[n], c)
      BY <1>0 DEF UTyped
    <3>2. Len(waiters[n]) + 1 \in DOMAIN waiters'[n] /\ waiters'[n][Len(waiters[n]) + 1] = c
      BY <3>1
    <3>3. wants'[d] = n /\ service'[n] = "table"
      BY <1>0, <2>1 DEF UTyped
    <3> QED BY <2>1, <3>2, <3>3
  <2>2. CASE d # c
    <3>1. PICK o \in UniqueName : o = wants[d]
      BY <1>0, <2>2 DEF UTyped
    <3>2. wants'[d] = o /\ service[o] = "table" /\ client[d] = "wait"
      BY <1>0, <2>2, <3>1 DEF UTyped, NoneForgotten
    <3>3. PICK i \in DOMAIN waiters[o] : waiters[o][i] = d
      BY <1>0, <3>1, <3>2 DEF NoneForgotten
    <3>4. waiters[o] \in Seq(Requester)
      BY <1>0 DEF UTyped
    <3>5. i \in DOMAIN waiters'[o] /\ waiters'[o][i] = d
      BY <1>0, <3>3, <3>4 DEF UTyped
    <3>6. service'[o] = "table"
      BY <1>0, <3>2 DEF UTyped
    <3> QED BY <3>2, <3>5, <3>6
  <2> QED BY <2>1, <2>2
<1> QED BY <1>2, <1>3, <1>4, <1>5, <1>6 DEF UInv

LEMMA WaitforKeeps ==
  ASSUME UInv, NEW c \in Requester, NEW n \in UniqueName, NEW func \in BOOLEAN, waitfor(c, n, func)
  PROVE  UInv'
<1>0. UTyped
  BY DEF UInv
<1>1. ASSUME NEW s \in {"ok", "error"}, client' = [client EXCEPT ![c] = s],
             UNCHANGED <<service, launching, waiters, mailbox, answers>>
      PROVE  UInv'
  <2>1. /\ client' \in [Requester -> {"idle", "launch", "wait", "woken", "ok", "nil", "error"}]
        /\ client'[c] # "wait" /\ \A d \in Requester \ {c} : client'[d] = client[d]
    BY <1>0, <1>1 DEF UTyped
  <2>2. wants' = [wants EXCEPT ![c] = n]
    BY DEF waitfor
  <2>3. DOMAIN wants' = Requester /\ wants'[c] = n /\ \A d \in Requester \ {c} : wants'[d] = wants[d]
    BY <1>0, <2>2 DEF UTyped
  <2> QED BY <1>1, <2>1, <2>3, ClientKeeps DEF waitfor
<1> QED BY <1>1, LaunchKeeps, WaitKeeps DEF waitfor

LEMMA WokenKeeps ==
  ASSUME UInv, NEW c \in Requester, Woken(c) PROVE UInv'
<1>0. UTyped
  BY DEF UInv
<1>1. /\ client' \in [Requester -> {"idle", "launch", "wait", "woken", "ok", "nil", "error"}]
      /\ client'[c] # "wait" /\ \A d \in Requester \ {c} : client'[d] = client[d]
  BY <1>0 DEF UTyped, Woken
<1>2. wants' = wants /\ DOMAIN wants = Requester /\ (UniqueName # {} => wants[c] \in UniqueName)
  BY <1>0 DEF UTyped, Woken
<1> QED BY <1>1, <1>2, ClientKeeps DEF Woken

LEMMA RequestKeeps ==
  ASSUME UInv, NEW c \in Requester, NEW n \in UniqueName, request(c, n) PROVE UInv'
<1>0. /\ UTyped /\ Numbered /\ Owed /\ Alone /\ Reporting /\ Answering /\ Lasting /\ Listing
      /\ NoneForgotten
  BY DEF UInv
<1> DEFINE v == CASE answer[n] = "ok" -> "number" [] answer[n] = "nil" -> "nil" [] OTHER -> "string"
<1>1. /\ answer[n] # "none" /\ service' = [service EXCEPT ![n] = v]
      /\ launching' = [launching EXCEPT ![n] = FALSE]
      /\ waiters' = [waiters EXCEPT ![n] = <<>>]
      /\ answer' = [answer EXCEPT ![n] = "none"]
      /\ UNCHANGED <<services, instance, mailbox, stage, nameOf, answer_handle, wants, answers>>
      /\ client[c] = "launch" /\ wants[c] = n
  BY DEF request, launcher, world
<1>2. v \in {"nil", "number", "string"} /\ (v = "number" <=> answer[n] = "ok")
  OBVIOUS
<1> HIDE DEF v
<1>3. client' = [d \in Requester |->
        CASE d = c -> answer[n]
          [] d # c /\ d \in Awake(waiters[n]) -> "woken"
          [] OTHER -> client[d]]
  BY DEF request
<1>4. \A d \in Requester : client'[d] = IF d = c THEN answer[n] ELSE
                                     IF d \in Awake(waiters[n]) THEN "woken" ELSE client[d]
  BY <1>3
<1>5. launching[n] /\ service[n] = "table" /\ ~ Owing(n) /\ ~ Pending(n) /\ answers[n] = 0
  BY <1>0, <1>1 DEF Owed, Owing
<1>6. answer[n] \in {"ok", "nil", "error"}
  BY <1>0, <1>1 DEF UTyped
<1>7. UTyped'
  <2>1. client' \in [Requester -> {"idle", "launch", "wait", "woken", "ok", "nil", "error"}]
    <3>1. \A d \in Requester :
            client'[d] \in {"idle", "launch", "wait", "woken", "ok", "nil", "error"}
      BY <1>0, <1>4, <1>6 DEF UTyped
    <3> QED BY <1>3, <3>1
  <2>3. waiters' \in [UniqueName -> Seq(Requester)]
    <3>1. <<>> \in Seq(Requester)
      OBVIOUS
    <3> QED BY <1>0, <1>1, <3>1 DEF UTyped
  <2>4. service' \in [UniqueName -> {"nil", "table", "number", "string"}]
    BY <1>0, <1>1, <1>2 DEF UTyped
  <2> QED BY <1>0, <1>1, <2>1, <2>3, <2>4 DEF UTyped, Used
<1>8. (Numbered /\ Alone /\ Reporting /\ Answering /\ Listing)'
  BY <1>0, <1>1 DEF Numbered, Used, Alone, Reporting, Answering, Listing
<1>9. Owed'
  <2>1. \A o \in UniqueName : Pending(o)' <=> Pending(o)
    BY <1>1 DEF Pending
  <2>2. ~ Owing(n)' /\ ~ launching'[n] /\ answer'[n] = "none"
    BY <1>0, <1>1 DEF Owing, UTyped
  <2>3. \A o \in UniqueName \ {n} :
          /\ Owing(o)' <=> Owing(o)
          /\ launching'[o] = launching[o] /\ answer'[o] = answer[o] /\ service'[o] = service[o]
    BY <1>0, <1>1 DEF Owing, UTyped
  <2> QED BY <1>0, <1>1, <1>5, <2>1, <2>2, <2>3 DEF Owed
<1>10. Lasting'
  <2>1. \A o \in UniqueName : Settled(o)' <=> Settled(o)
    BY <1>0, <1>1, <1>2, <1>5 DEF Settled, UTyped
  <2> QED BY <1>0, <1>1, <2>1 DEF Lasting, Used, UTyped
<1>11. NoneForgotten'
  <2> SUFFICES ASSUME NEW d \in Requester, client'[d] = "wait"
               PROVE  /\ service'[wants'[d]] = "table"
                      /\ \E i \in DOMAIN waiters'[wants'[d]] : waiters'[wants'[d]][i] = d
    BY DEF NoneForgotten
  <2>1. client[d] = "wait" /\ d \notin Awake(waiters[n])
    BY <1>4, <1>6
  <2>2. PICK o \in UniqueName : o = wants[d]
    BY <1>0, <2>1 DEF UTyped
  <2>3. service[o] = "table" /\ d \in Awake(waiters[o])
    BY <1>0, <2>1, <2>2 DEF NoneForgotten, Awake
  <2>4. o # n
    BY <2>1, <2>3
  <2>5. service'[o] = "table" /\ waiters'[o] = waiters[o] /\ wants'[d] = o
    BY <1>0, <1>1, <2>2, <2>3, <2>4 DEF UTyped
  <2> QED BY <2>3, <2>5 DEF Awake
<1> QED BY <1>7, <1>8, <1>9, <1>10, <1>11 DEF UInv

-----------------------------------------------------------------------------
(* The launcher's own steps                                                *)

\* One launch is answered.
LEMMA AnswerOwed ==
  ASSUME UTyped, Owed, NEW n \in UniqueName, Owing(n), NEW how \in {"ok", "nil", "error"}, NEW h,
         Respond(n, how, h), ~ Pending(n)', \A o \in UniqueName \ {n} : Pending(o)' <=> Pending(o),
         UNCHANGED manager
  PROVE  Owed'
<1>1. answer' = [answer EXCEPT ![n] = how] /\ answers' = [answers EXCEPT ![n] = @ - 1]
  BY DEF Respond
<1>2. launching' = launching /\ service' = service /\ launching[n] /\ answers[n] = 1
  BY DEF manager, Owed, Owing
<1>3. ~ Owing(n)' /\ answers'[n] = 0
  BY <1>1, <1>2 DEF Owing, UTyped
<1>4. \A o \in UniqueName \ {n} : (Owing(o)' <=> Owing(o)) /\ answers'[o] = answers[o] /\ answer'[o] = answer[o]
  BY <1>1, <1>2 DEF Owing, UTyped
<1> QED BY <1>1, <1>2, <1>3, <1>4 DEF Owed

LEMMA ReadTells ==
  ASSUME UTyped, mailbox # <<>>, mailbox' = Tail(mailbox), NEW h
  PROVE  /\ (\E x \in 1..Len(mailbox) : Tells(mailbox[x], h)) /\ ~ Tells(Head(mailbox), h) =>
              \E x \in 1..Len(mailbox') : Tells(mailbox'[x], h)
         /\ (\E x \in 1..Len(mailbox) : Tells(mailbox[x], h) /\ mailbox[x].cmd = "LAUNCHOK")
              /\ ~ (Tells(Head(mailbox), h) /\ Head(mailbox).cmd = "LAUNCHOK") =>
              \E x \in 1..Len(mailbox') : Tells(mailbox'[x], h) /\ mailbox'[x].cmd = "LAUNCHOK"
         /\ (\E x \in 1..Len(mailbox) : Tells(mailbox[x], h) /\ mailbox[x].cmd # "LAUNCHOK")
              /\ ~ (Tells(Head(mailbox), h) /\ Head(mailbox).cmd # "LAUNCHOK") =>
              \E x \in 1..Len(mailbox') : Tells(mailbox'[x], h) /\ mailbox'[x].cmd # "LAUNCHOK"
<1>1. /\ Head(mailbox) = mailbox[1]
      /\ \A x \in 1..Len(mailbox) :
           x = 1 \/ (x - 1 \in 1..Len(mailbox') /\ mailbox'[x - 1] = mailbox[x])
  BY Read
<1> QED BY <1>1

LEMMA ReadReporting ==
  ASSUME UTyped, Reporting, mailbox # <<>>, mailbox' = Tail(mailbox),
         \A h \in Handle : stage[h] # "none" => stage'[h] = stage[h],
         \A x \in 1..Len(mailbox'), h \in Handle :
           Tells(mailbox'[x], h) /\ mailbox'[x].cmd = "LAUNCHOK" /\ h \in instance => h \in instance'
  PROVE  Reporting'
<1>1. \A x \in 1..Len(mailbox') : x + 1 \in 1..Len(mailbox) /\ mailbox'[x] = mailbox[x + 1]
  BY Read
<1>2. \A x \in 1..Len(mailbox'), h \in Handle :
        Tells(mailbox'[x], h) => \/ stage'[h] = "dead"
                                 \/ stage'[h] = "run" /\ mailbox'[x].cmd = "LAUNCHOK"
  BY <1>1 DEF Reporting
<1>3. ASSUME NEW x \in 1..Len(mailbox'), NEW y \in 1..Len(mailbox'), NEW h \in Handle,
             Tells(mailbox'[x], h), Tells(mailbox'[y], h), mailbox'[y].cmd = "LAUNCHOK"
      PROVE  y <= x
  <2>1. y + 1 <= x + 1
    BY <1>1, <1>3 DEF Reporting
  <2> QED BY <2>1
<1>4. \A x \in 1..Len(mailbox'), h \in Handle :
        Tells(mailbox'[x], h) /\ mailbox'[x].cmd = "LAUNCHOK" => h \in instance'
  BY <1>1 DEF Reporting
<1> QED BY <1>2, <1>3, <1>4 DEF Reporting

LEMMA LaunchServiceKeeps == ASSUME UniqueAssumption, UInv, launch_service PROVE UInv'
<1>0. /\ UTyped /\ Numbered /\ Owed /\ Alone /\ Reporting /\ Answering /\ Lasting /\ Listing
      /\ NoneForgotten /\ MaxHandle \in Nat
  BY DEF UInv, UniqueAssumption
<1>1. /\ mailbox # <<>> /\ mailbox' = Tail(mailbox) /\ Head(mailbox).cmd = "LAUNCH"
      /\ UNCHANGED manager
  BY DEF launch_service, Take
<1>2. /\ mailbox' \in Seq(Message) /\ 1 \in 1..Len(mailbox) /\ Head(mailbox) = mailbox[1]
      /\ \A x \in 1..Len(mailbox) : mailbox[x] \in Message
      /\ \A x \in 1..Len(mailbox') : x + 1 \in 1..Len(mailbox) /\ mailbox'[x] = mailbox[x + 1]
      /\ \A x \in 1..Len(mailbox) :
           x = 1 \/ (x - 1 \in 1..Len(mailbox') /\ mailbox'[x - 1] = mailbox[x])
  BY <1>0, <1>1, Read
<1>3. PICK n \in UniqueName : Launches(mailbox[1], n) /\ n = Head(mailbox).name
  BY <1>1, <1>2, MessageFacts DEF Launches
<1>4. \A h : ~ Tells(mailbox[1], h)
  BY <1>1, <1>2, MessageFacts DEF Tells
<1>5. Owing(n) /\ answer[n] = "none" /\ service[n] = "table"
  BY <1>0, <1>2, <1>3 DEF Owed, Pending, Owing
<1>6. \A x \in 1..Len(mailbox') : ~ Launches(mailbox'[x], n)
  <2>1. \A x \in 1..Len(mailbox) : Launches(mailbox[x], n) => x = 1
    BY <1>0, <1>2, <1>3 DEF Alone, Launches
  <2>2. \A x \in 1..Len(mailbox') : x + 1 # 1
    OBVIOUS
  <2> QED BY <1>2, <2>1, <2>2
<1>7. \A h \in instance : nameOf[h] # n
  BY <1>0, <1>2, <1>3 DEF Alone
<1>8. \A o \in UniqueName \ {n} :
        (\E x \in 1..Len(mailbox') : Launches(mailbox'[x], o)) <=>
          \E x \in 1..Len(mailbox) : Launches(mailbox[x], o)
  BY <1>2, <1>3 DEF Launches
<1>9. UNCHANGED <<service, launching, waiters, client, wants>>
  BY <1>1 DEF manager
<1>10. NoneForgotten'
  BY <1>0, <1>9 DEF NoneForgotten
<1>11. \A x, y \in 1..Len(mailbox') :
         mailbox'[x].cmd = "LAUNCH" /\ mailbox'[y].cmd = "LAUNCH" /\ mailbox'[x].name = mailbox'[y].name
           => x = y
  <2>1. ASSUME NEW x \in 1..Len(mailbox'), NEW y \in 1..Len(mailbox'),
               mailbox'[x].cmd = "LAUNCH", mailbox'[y].cmd = "LAUNCH",
               mailbox'[x].name = mailbox'[y].name
        PROVE  x = y
    <3>1. /\ x + 1 \in 1..Len(mailbox) /\ mailbox'[x] = mailbox[x + 1]
          /\ y + 1 \in 1..Len(mailbox) /\ mailbox'[y] = mailbox[y + 1]
      BY <1>2
    <3>2. x + 1 = y + 1
      BY <1>0, <2>1, <3>1 DEF Alone
    <3> QED BY <3>2
  <2> QED BY <2>1
<1>12. \A x \in 1..Len(mailbox'), h \in instance : ~ Launches(mailbox'[x], nameOf[h])
  BY <1>0, <1>2 DEF Alone
\* fengnet.launch fails
<1>13. CASE Respond(n, "error", 0) /\ UNCHANGED <<launcher, world>>
  <2>1. UNCHANGED <<services, instance, stage, nameOf, answer_handle>>
    BY <1>13 DEF launcher, world, Respond
  <2>2. UTyped'
    BY <1>0, <1>2, <1>9, <1>13, <2>1 DEF UTyped, Used, Respond
  <2>3. Owed'
    <3>1. ~ Pending(n)'
      BY <1>6, <1>7, <2>1 DEF Pending
    <3>2. \A o \in UniqueName \ {n} : Pending(o)' <=> Pending(o)
      BY <1>8, <2>1 DEF Pending
    <3> QED BY <1>0, <1>1, <1>5, <1>13, <3>1, <3>2, AnswerOwed
  <2>4. Alone'
    BY <1>0, <1>11, <1>12, <2>1 DEF Alone
  <2>5. Reporting'
    BY <1>0, <1>1, <2>1, ReadReporting
  <2>6. (Answering /\ Listing)'
    BY <1>0, <1>1, <1>2, <1>4, <2>1, ReadTells DEF Answering, Listing
  <2>7. Numbered'
    BY <1>0, <2>1 DEF Numbered, Used
  <2>8. Lasting'
    <3>1. \A o \in UniqueName : Settled(o)' <=> Settled(o)
      BY <1>0, <1>5, <1>9, <1>13 DEF Settled, UTyped, Respond
    <3> QED BY <1>0, <2>1, <3>1 DEF Lasting, Used, UTyped
  <2> QED BY <1>10, <2>2, <2>3, <2>4, <2>5, <2>6, <2>7, <2>8 DEF UInv
\* It is launched.
<1>14. ASSUME NEW h \in Handle, h = Cardinality(Used) + 1,
              services' = services \cup {h}, instance' = instance \cup {h},
              stage' = [stage EXCEPT ![h] = "init"], nameOf' = [nameOf EXCEPT ![h] = n],
              UNCHANGED <<answer, answer_handle, answers>>
       PROVE  UInv'
  <2>1. Used = 1..h - 1 /\ h \in Nat \ {0} /\ \A g \in Used : g < h
    <3>1. PICK k \in 0..MaxHandle : Used = 1..k
      BY <1>0 DEF Numbered
    <3>2. Cardinality(Used) = k
      BY <1>0, <3>1, FS_Interval
    <3> QED BY <1>0, <1>14, <3>1, <3>2
  <2>2. h \notin Used /\ stage[h] = "none"
    BY <2>1 DEF Used
  <2>3. Used' = Used \cup {h} /\ Used' = 1..h
    <3>1. Used' = Used \cup {h}
      BY <1>0, <1>14 DEF Used, UTyped
    <3> QED BY <2>1, <3>1
  <2>4. /\ stage'[h] = "init" /\ nameOf'[h] = n
        /\ \A g \in Handle \ {h} : stage'[g] = stage[g] /\ nameOf'[g] = nameOf[g]
        /\ \A g \in Used : nameOf'[g] = nameOf[g] /\ g \in Handle /\ g # h
        /\ instance \subseteq Used /\ services \subseteq Used
    BY <1>0, <1>14, <2>2 DEF UTyped, Used
  <2>5. UTyped'
    <3>1. \A g \in Used' : nameOf'[g] \in UniqueName
      BY <1>0, <2>3, <2>4 DEF UTyped
    <3> QED BY <1>0, <1>2, <1>9, <1>14, <2>3, <3>1 DEF UTyped
  <2>6. Numbered'
    BY <1>0, <2>1, <2>3 DEF Numbered, Handle
  <2>7. Owed'
    <3>1. Pending(n)'
      BY <1>14, <2>4 DEF Pending
    <3>2. \A o \in UniqueName \ {n} : Pending(o)' <=> Pending(o)
      BY <1>8, <1>14, <2>4 DEF Pending
    <3>3. \A o \in UniqueName : Owing(o)' <=> Owing(o)
      BY <1>9, <1>14 DEF Owing
    <3> QED BY <1>0, <1>5, <1>9, <1>14, <3>1, <3>2, <3>3 DEF Owed
  <2>8. Alone'
    <3>1. \A x \in 1..Len(mailbox'), g \in instance' : ~ Launches(mailbox'[x], nameOf'[g])
      BY <1>6, <1>12, <1>14, <2>4
    <3>2. \A f, g \in instance' : nameOf'[f] = nameOf'[g] => f = g
      BY <1>0, <1>7, <1>14, <2>4 DEF Alone
    <3> QED BY <1>11, <3>1, <3>2 DEF Alone
  <2>9. Reporting'
    <3>1. \A g \in Handle : stage[g] # "none" => stage'[g] = stage[g]
      BY <2>2, <2>4
    <3> QED BY <1>0, <1>1, <1>14, <3>1, ReadReporting
  <2>10. Answering'
    <3>1. \A g \in Handle : stage'[g] = "init" => g \in instance'
      BY <1>0, <1>14, <2>4 DEF Answering
    <3>2. ASSUME NEW g \in instance', stage'[g] = "dead"
          PROVE  \E x \in 1..Len(mailbox') : Tells(mailbox'[x], g)
      <4>1. g \in instance /\ stage[g] = "dead"
        BY <1>14, <2>4, <3>2
      <4> QED BY <1>0, <1>1, <1>2, <1>4, <4>1, ReadTells DEF Answering
    <3>3. ASSUME NEW g \in instance', stage'[g] = "run"
          PROVE  \E x \in 1..Len(mailbox') : Tells(mailbox'[x], g) /\ mailbox'[x].cmd = "LAUNCHOK"
      <4>1. g \in instance /\ stage[g] = "run"
        BY <1>14, <2>4, <3>3
      <4> QED BY <1>0, <1>1, <1>2, <1>4, <4>1, ReadTells DEF Answering
    <3> QED BY <3>1, <3>2, <3>3 DEF Answering
  <2>11. Lasting'
    <3>1. \A f \in instance', g \in Used' : nameOf'[g] = nameOf'[f] => g <= f
      <4>1. \A g \in Used : g <= h
        BY <2>1
      <4>2. \A f \in instance : nameOf'[h] # nameOf'[f]
        BY <1>7, <2>4
      <4> QED BY <1>0, <1>14, <2>1, <2>3, <2>4, <4>1, <4>2 DEF Lasting
    <3>2. \A o \in UniqueName : Settled(o)' <=> Settled(o)
      BY <1>9, <1>14 DEF Settled
    <3>3. ~ Settled(n)
      BY <1>5 DEF Settled
    <3>4. ASSUME NEW g \in Handle, stage'[g] = "run", g \notin instance'
          PROVE  /\ service'[nameOf'[g]] = "number" \/ answer'[nameOf'[g]] = "ok"
                 /\ answer_handle'[nameOf'[g]] = g
      <4>1. g \in Used /\ stage[g] = "run" /\ g \notin instance /\ nameOf'[g] = nameOf[g]
        BY <1>14, <2>4, <3>4 DEF Used
      <4>2. nameOf[g] \in UniqueName
        BY <1>0, <4>1 DEF UTyped
      <4>3. Settled(nameOf[g]) /\ answer_handle[nameOf[g]] = g
        BY <1>0, <4>1 DEF Lasting, Used
      <4> QED BY <1>9, <1>14, <4>1, <4>3 DEF Settled
    <3>5. ASSUME NEW o \in UniqueName, Settled(o)
          PROVE  /\ answer_handle'[o] \in Used' /\ nameOf'[answer_handle'[o]] = o
                 /\ \A g \in Used' : nameOf'[g] = o => g <= answer_handle'[o]
      <4>1. answer_handle[o] \in Used /\ nameOf[answer_handle[o]] = o /\ o # n
        BY <1>0, <3>3, <3>5 DEF Lasting
      <4>2. \A g \in Used : nameOf[g] = o => g <= answer_handle[o]
        BY <1>0, <3>5 DEF Lasting
      <4> QED BY <1>14, <2>3, <2>4, <4>1, <4>2
    <3>6. \A g \in Handle : stage'[g] = "run" /\ g \notin instance' =>
            /\ service'[nameOf'[g]] = "number" \/ answer'[nameOf'[g]] = "ok"
            /\ answer_handle'[nameOf'[g]] = g
      BY <3>4
    <3>7. \A o \in UniqueName : Settled(o)' =>
            /\ answer_handle'[o] \in Used' /\ nameOf'[answer_handle'[o]] = o
            /\ \A g \in Used' : nameOf'[g] = o => g <= answer_handle'[o]
      BY <3>2, <3>5
    <3> QED BY <3>1, <3>6, <3>7 DEF Lasting, Settled
  <2>12. Listing'
    <3>1. \A g \in Handle : stage'[g] \in {"init", "run"} => g \in services'
      BY <1>0, <1>14, <2>4 DEF Listing
    <3>2. ASSUME NEW g \in services', stage'[g] = "dead"
          PROVE  \E x \in 1..Len(mailbox') : Tells(mailbox'[x], g) /\ mailbox'[x].cmd # "LAUNCHOK"
      <4>1. g \in services /\ stage[g] = "dead"
        BY <1>14, <2>4, <3>2
      <4> QED BY <1>0, <1>1, <1>2, <1>4, <4>1, ReadTells DEF Listing
    <3> QED BY <3>1, <3>2 DEF Listing
  <2> QED BY <1>10, <2>5, <2>6, <2>7, <2>8, <2>9, <2>10, <2>11, <2>12 DEF UInv
<1> QED BY <1>3, <1>13, <1>14 DEF launch_service, Used

\* A report is read, whichever it is and whether its service is still to be answered.
LEMMA ReportKeeps ==
  ASSUME UInv, NEW cmd \in Reports, NEW how \in {"ok", "nil", "error"}, Take(cmd),
         Settle(Head(mailbox).handle, how), how = "ok" <=> cmd = "LAUNCHOK",
         services' = IF cmd = "LAUNCHOK" THEN services ELSE services \ {Head(mailbox).handle},
         UNCHANGED <<world, manager>>
  PROVE  UInv'
<1>0. /\ UTyped /\ Numbered /\ Owed /\ Alone /\ Reporting /\ Answering /\ Lasting /\ Listing
      /\ NoneForgotten
  BY DEF UInv
<1>1. mailbox # <<>> /\ mailbox' = Tail(mailbox) /\ Head(mailbox).cmd = cmd
  BY DEF Take
<1>2. /\ mailbox' \in Seq(Message) /\ 1 \in 1..Len(mailbox) /\ Head(mailbox) = mailbox[1]
      /\ \A x \in 1..Len(mailbox) : mailbox[x] \in Message
      /\ \A x \in 1..Len(mailbox') : x + 1 \in 1..Len(mailbox) /\ mailbox'[x] = mailbox[x + 1]
      /\ \A x \in 1..Len(mailbox) :
           x = 1 \/ (x - 1 \in 1..Len(mailbox') /\ mailbox'[x - 1] = mailbox[x])
  BY <1>0, <1>1, Read
<1>3. PICK h \in Handle : h = Head(mailbox).handle
  BY <1>1, <1>2, MessageFacts DEF Reports
<1>4. Tells(mailbox[1], h) /\ (\A g : Tells(mailbox[1], g) => g = h) /\ \A n : ~ Launches(mailbox[1], n)
  BY <1>1, <1>2, <1>3, MessageFacts DEF Tells, Launches
<1>5. UNCHANGED <<stage, nameOf, service, launching, waiters, client, wants>> /\ Used' = Used
  BY DEF world, manager, Used
<1>6. stage[h] = "dead" \/ (stage[h] = "run" /\ cmd = "LAUNCHOK")
  BY <1>0, <1>1, <1>2, <1>4 DEF Reporting
<1>7. (Numbered /\ NoneForgotten)'
  BY <1>0, <1>5 DEF Numbered, NoneForgotten
<1>8. Listing'
  <2>1. \A g \in Handle : stage[g] \in {"init", "run"} => g \in services'
    BY <1>0, <1>3, <1>6 DEF Listing
  <2>2. ASSUME NEW g \in services', stage[g] = "dead"
        PROVE  \E x \in 1..Len(mailbox') : Tells(mailbox'[x], g) /\ mailbox'[x].cmd # "LAUNCHOK"
    <3>1. g \in services /\ ~ (Tells(Head(mailbox), g) /\ Head(mailbox).cmd # "LAUNCHOK")
      BY <1>1, <1>2, <1>3, <1>4, <2>2
    <3> QED BY <1>0, <1>1, <2>2, <3>1, ReadTells DEF Listing
  <2> QED BY <1>5, <2>1, <2>2 DEF Listing
<1>9. \A o \in UniqueName : (\E x \in 1..Len(mailbox') : Launches(mailbox'[x], o)) <=>
                        \E x \in 1..Len(mailbox) : Launches(mailbox[x], o)
  BY <1>2, <1>4
<1>10. \A x, y \in 1..Len(mailbox') :
         mailbox'[x].cmd = "LAUNCH" /\ mailbox'[y].cmd = "LAUNCH" /\ mailbox'[x].name = mailbox'[y].name
           => x = y
  <2>1. ASSUME NEW x \in 1..Len(mailbox'), NEW y \in 1..Len(mailbox'),
               mailbox'[x].cmd = "LAUNCH", mailbox'[y].cmd = "LAUNCH",
               mailbox'[x].name = mailbox'[y].name
        PROVE  x = y
    <3>1. /\ x + 1 \in 1..Len(mailbox) /\ mailbox'[x] = mailbox[x + 1]
          /\ y + 1 \in 1..Len(mailbox) /\ mailbox'[y] = mailbox[y + 1]
      BY <1>2
    <3>2. x + 1 = y + 1
      BY <1>0, <2>1, <3>1 DEF Alone
    <3> QED BY <3>2
  <2> QED BY <2>1
<1>11. instance' \subseteq instance /\ \A g \in instance : g = h \/ g \in instance'
  BY <1>3 DEF Settle, Forget
<1>12. h \notin instance'
  BY <1>3 DEF Settle, Forget
<1>13. services' \subseteq services
  OBVIOUS
<1>14. Alone'
  BY <1>0, <1>2, <1>5, <1>10, <1>11 DEF Alone
<1>15. Reporting'
  <2>1. ASSUME NEW x \in 1..Len(mailbox'), NEW g \in Handle, Tells(mailbox'[x], g),
               mailbox'[x].cmd = "LAUNCHOK", g \in instance
        PROVE  g \in instance'
    <3>1. g # h
      <4>1. x + 1 \in 1..Len(mailbox) /\ mailbox'[x] = mailbox[x + 1] /\ ~ (x + 1 <= 1)
        BY <1>2
      <4> QED BY <1>0, <1>2, <1>4, <2>1, <4>1 DEF Reporting
    <3> QED BY <1>11, <2>1, <3>1
  <2> QED BY <1>0, <1>1, <1>5, <2>1, ReadReporting
<1>16. Answering'
  <2>1. \A g \in Handle : stage[g] = "init" => g \in instance'
    BY <1>0, <1>6, <1>11 DEF Answering
  <2>2. \A g \in instance' : ~ Tells(Head(mailbox), g)
    BY <1>2, <1>4, <1>12
  <2>3. \A g \in instance' : stage[g] = "dead" => \E x \in 1..Len(mailbox') : Tells(mailbox'[x], g)
    BY <1>0, <1>1, <1>11, <2>2, ReadTells DEF Answering
  <2>4. \A g \in instance' : stage[g] = "run" =>
          \E x \in 1..Len(mailbox') : Tells(mailbox'[x], g) /\ mailbox'[x].cmd = "LAUNCHOK"
    BY <1>0, <1>1, <1>11, <2>2, ReadTells DEF Answering
  <2> QED BY <1>5, <2>1, <2>3, <2>4 DEF Answering
<1>17. CASE h \in instance
  <2>1. PICK n \in UniqueName : n = nameOf[h]
    BY <1>0, <1>17 DEF UTyped
  <2>2. Respond(n, how, h) /\ instance' = instance \ {h}
    BY <1>3, <1>17, <2>1 DEF Settle, Forget
  <2>3. Owing(n) /\ answer[n] = "none" /\ service[n] = "table"
    BY <1>0, <1>17, <2>1 DEF Owed, Pending, Owing
  <2>4. /\ answer' = [answer EXCEPT ![n] = how] /\ answers' = [answers EXCEPT ![n] = @ - 1]
        /\ answer_handle' = IF how = "ok" THEN [answer_handle EXCEPT ![n] = h] ELSE answer_handle
    BY <2>2 DEF Respond
  <2>5. UTyped'
    BY <1>0, <1>2, <1>5, <1>11, <1>13, <2>4 DEF UTyped
  <2>6. Owed'
    <3>1. ~ Pending(n)'
      <4>1. \A x \in 1..Len(mailbox') : ~ Launches(mailbox'[x], n)
        BY <1>0, <1>2, <1>17, <2>1 DEF Alone
      <4>2. \A g \in instance' : nameOf[g] # n
        BY <1>0, <1>11, <1>12, <1>17, <2>1 DEF Alone
      <4> QED BY <1>5, <4>1, <4>2 DEF Pending
    <3>2. \A o \in UniqueName \ {n} : Pending(o)' <=> Pending(o)
      BY <1>5, <1>9, <1>11, <2>1 DEF Pending
    <3> QED BY <1>0, <2>2, <2>3, <3>1, <3>2, AnswerOwed
  <2>7. Lasting'
    <3>1. \A f \in instance', g \in Used : nameOf[g] = nameOf[f] => g <= f
      BY <1>0, <1>11 DEF Lasting
    <3>2. \A o \in UniqueName \ {n} : (Settled(o)' <=> Settled(o)) /\ answer_handle'[o] = answer_handle[o]
      BY <1>0, <1>5, <2>4 DEF Settled, UTyped
    <3>3. ~ Settled(n) /\ (Settled(n)' <=> how = "ok") /\ (how = "ok" => answer_handle'[n] = h)
      BY <1>0, <1>5, <2>3, <2>4 DEF Settled, UTyped
    <3>4. ASSUME NEW g \in Handle, NEW o, o = nameOf[g], stage[g] = "run", g \notin instance'
          PROVE  Settled(o)' /\ answer_handle'[o] = g
      <4>1. o \in UniqueName
        BY <1>0, <3>4 DEF UTyped, Used
      <4>2. CASE g = h
        BY <1>6, <2>1, <3>3, <3>4, <4>2
      <4>3. CASE g # h
        <5>1. Settled(o) /\ answer_handle[o] = g
          BY <1>0, <1>11, <3>4, <4>3 DEF Lasting
        <5>2. o # n
          BY <3>3, <5>1
        <5> QED BY <3>2, <4>1, <5>1, <5>2
      <4> QED BY <4>2, <4>3
    <3>5. ASSUME NEW o \in UniqueName, Settled(o)'
          PROVE  /\ answer_handle'[o] \in Used /\ nameOf[answer_handle'[o]] = o
                 /\ \A g \in Used : nameOf[g] = o => g <= answer_handle'[o]
      <4>1. CASE o = n
        BY <1>0, <1>17, <2>1, <3>3, <3>5, <4>1 DEF Lasting, UTyped
      <4>2. CASE o # n
        BY <1>0, <3>2, <3>5, <4>2 DEF Lasting
      <4> QED BY <4>1, <4>2
    <3> QED BY <1>5, <3>1, <3>4, <3>5 DEF Lasting, Settled
  <2> QED BY <1>7, <1>8, <1>14, <1>15, <1>16, <2>5, <2>6, <2>7 DEF UInv
<1>18. CASE h \notin instance
  <2>1. UNCHANGED <<answer, answer_handle, answers, instance>>
    BY <1>3, <1>18 DEF Settle
  <2>2. UTyped'
    BY <1>0, <1>2, <1>5, <1>13, <2>1 DEF UTyped
  <2>3. Owed'
    BY <1>0, <1>5, <1>9, <2>1 DEF Owed, Owing, Pending
  <2>4. Lasting'
    BY <1>0, <1>5, <2>1 DEF Lasting, Settled
  <2> QED BY <1>7, <1>8, <1>14, <1>15, <1>16, <2>2, <2>3, <2>4 DEF UInv
<1> QED BY <1>17, <1>18

-----------------------------------------------------------------------------
(* The services that are launched                                          *)

\* A service that starts, runs or ends tells the launcher so.
LEMMA TellKeeps ==
  ASSUME UInv, NEW h \in Handle, NEW to \in {"run", "dead"}, stage[h] \in {"init", "run"},
         stage' = [stage EXCEPT ![h] = to],
         NEW p \in Seq(Message), Tell(p), 1 \in 1..Len(p), \A x \in 1..Len(p) : Tells(p[x], h),
         \/ to = "run" /\ stage[h] = "init" /\ Len(p) = 1 /\ p[1].cmd = "LAUNCHOK"
         \/ to = "dead" /\ \A x \in 1..Len(p) : p[x].cmd # "LAUNCHOK",
         services' = services \/ (to = "dead" /\ services' = services \ {h}),
         UNCHANGED <<instance, nameOf, answer, answer_handle, manager, answers>>
  PROVE  UInv'
<1>0. /\ UTyped /\ Numbered /\ Owed /\ Alone /\ Reporting /\ Answering /\ Lasting /\ Listing
      /\ NoneForgotten
  BY DEF UInv
<1>1. PICK k \in Nat : k = Len(mailbox)
  BY <1>0, Written
<1>2. /\ mailbox' \in Seq(Message)
      /\ \A x \in 1..k : mailbox[x] \in Message /\ x \in 1..Len(mailbox') /\ mailbox'[x] = mailbox[x]
      /\ \A x \in 1..Len(mailbox') : x \in 1..k \/ (x - k \in 1..Len(p) /\ mailbox'[x] = p[x - k])
      /\ k + 1 \in 1..Len(mailbox') /\ mailbox'[k + 1] = p[1]
  BY <1>0, <1>1, Written
<1>3. UNCHANGED <<service, launching, waiters, client, wants>>
  BY DEF manager
<1>4. /\ stage'[h] = to /\ \A g \in Handle \ {h} : stage'[g] = stage[g]
      /\ \A g \in Handle : stage[g] = "none" <=> stage'[g] = "none"
  BY <1>0 DEF UTyped
<1>5. Used' = Used
  BY <1>4 DEF Used
<1>6. \A x \in 1..Len(mailbox') : \A n : Launches(mailbox'[x], n) => x \in 1..k /\ mailbox'[x] = mailbox[x]
  BY <1>2 DEF Launches, Tells, Reports
<1>7. \A x \in 1..Len(mailbox') : x \notin 1..k =>
        /\ Tells(mailbox'[x], h) /\ (\A g : Tells(mailbox'[x], g) => g = h)
        /\ \/ to = "run" /\ stage[h] = "init" /\ x = k + 1
           \/ to = "dead" /\ mailbox'[x].cmd # "LAUNCHOK"
  <2>1. ASSUME NEW x \in 1..Len(mailbox'), x \notin 1..k
        PROVE  /\ Tells(mailbox'[x], h) /\ (\A g : Tells(mailbox'[x], g) => g = h)
               /\ \/ to = "run" /\ stage[h] = "init" /\ x = k + 1
                  \/ to = "dead" /\ mailbox'[x].cmd # "LAUNCHOK"
    <3>1. x - k \in 1..Len(p) /\ mailbox'[x] = p[x - k] /\ x \in Nat
      BY <1>2, <2>1
    <3>2. Tells(mailbox'[x], h) /\ (\A g : Tells(mailbox'[x], g) => g = h)
      BY <3>1 DEF Tells
    <3>3. Len(p) = 1 => x = k + 1
      BY <3>1
    <3> QED BY <3>1, <3>2, <3>3
  <2> QED BY <2>1
<1>8. UTyped'
  BY <1>0, <1>2, <1>3, <1>5 DEF UTyped
<1>9. (Numbered /\ NoneForgotten)'
  BY <1>0, <1>3, <1>5 DEF Numbered, NoneForgotten
<1>10. Owed'
  <2>1. \A n \in UniqueName : Pending(n)' <=> Pending(n)
    BY <1>1, <1>2, <1>6 DEF Pending
  <2> QED BY <1>0, <1>3, <2>1 DEF Owed, Owing
<1>11. Alone'
  <2>1. ASSUME NEW x \in 1..Len(mailbox'), NEW y \in 1..Len(mailbox'),
               mailbox'[x].cmd = "LAUNCH", mailbox'[y].cmd = "LAUNCH",
               mailbox'[x].name = mailbox'[y].name
        PROVE  x = y
    <3>1. x \in 1..k /\ mailbox'[x] = mailbox[x] /\ y \in 1..k /\ mailbox'[y] = mailbox[y]
      BY <1>6, <2>1 DEF Launches
    <3> QED BY <1>0, <1>1, <2>1, <3>1 DEF Alone
  <2>2. \A x \in 1..Len(mailbox'), g \in instance : ~ Launches(mailbox'[x], nameOf[g])
    BY <1>0, <1>1, <1>6 DEF Alone
  <2> QED BY <1>0, <2>1, <2>2 DEF Alone
<1>12. Reporting'
  <2>1. \A x \in 1..k : Tells(mailbox[x], h) =>
          stage[h] = "run" /\ mailbox[x].cmd = "LAUNCHOK" /\ to = "dead"
    BY <1>0, <1>1 DEF Reporting
  <2>2. ASSUME NEW x \in 1..Len(mailbox'), NEW g \in Handle, Tells(mailbox'[x], g)
        PROVE  stage'[g] = "dead" \/ (stage'[g] = "run" /\ mailbox'[x].cmd = "LAUNCHOK")
    <3>1. CASE x \in 1..k
      <4>1. CASE g = h
        BY <1>2, <1>4, <2>1, <2>2, <3>1, <4>1
      <4>2. CASE g # h
        BY <1>0, <1>1, <1>2, <1>4, <2>2, <3>1, <4>2 DEF Reporting
      <4> QED BY <4>1, <4>2
    <3>2. CASE x \notin 1..k
      <4>1. CASE to = "dead"
        BY <1>4, <1>7, <2>2, <3>2, <4>1
      <4>2. CASE to = "run"
        BY <1>2, <1>4, <1>7, <2>2, <3>2, <4>2
      <4> QED BY <4>1, <4>2
    <3> QED BY <3>1, <3>2
  <2>3. ASSUME NEW x \in 1..Len(mailbox'), NEW y \in 1..Len(mailbox'), NEW g \in Handle,
               Tells(mailbox'[x], g), Tells(mailbox'[y], g), mailbox'[y].cmd = "LAUNCHOK"
        PROVE  y <= x
    <3>1. CASE x \in 1..k /\ y \in 1..k
      BY <1>0, <1>1, <1>2, <2>3, <3>1 DEF Reporting
    <3>2. CASE y \in 1..k /\ x \notin 1..k
      BY <3>2
    <3>3. CASE y \notin 1..k
      <4>1. g = h /\ stage[h] = "init" /\ y = k + 1
        BY <1>7, <2>3, <3>3
      <4>2. x \notin 1..k
        BY <1>2, <2>1, <2>3, <4>1
      <4> QED BY <1>7, <4>1, <4>2
    <3> QED BY <3>1, <3>2, <3>3
  <2>4. ASSUME NEW x \in 1..Len(mailbox'), NEW g \in Handle, Tells(mailbox'[x], g),
               mailbox'[x].cmd = "LAUNCHOK"
        PROVE  g \in instance
    <3>1. CASE x \in 1..k
      BY <1>0, <1>1, <1>2, <2>4, <3>1 DEF Reporting
    <3>2. CASE x \notin 1..k
      BY <1>0, <1>7, <2>4, <3>2 DEF Answering
    <3> QED BY <3>1, <3>2
  <2> QED BY <2>2, <2>3, <2>4 DEF Reporting
<1>13. \A x \in 1..Len(mailbox) : x \in 1..Len(mailbox') /\ mailbox'[x] = mailbox[x]
  BY <1>1, <1>2
<1>14. /\ \E x \in 1..Len(mailbox') : Tells(mailbox'[x], h)
       /\ to = "run" => \E x \in 1..Len(mailbox') : Tells(mailbox'[x], h) /\ mailbox'[x].cmd = "LAUNCHOK"
       /\ to = "dead" => \E x \in 1..Len(mailbox') : Tells(mailbox'[x], h) /\ mailbox'[x].cmd # "LAUNCHOK"
  BY <1>2
<1>15. Answering'
  <2>1. \A g \in Handle : stage'[g] = "init" => g \in instance
    BY <1>0, <1>4 DEF Answering
  <2>2. instance \subseteq Handle
    BY <1>0 DEF UTyped, Used
  <2>3. \A g \in instance : stage'[g] = "dead" => \E x \in 1..Len(mailbox') : Tells(mailbox'[x], g)
    BY <1>0, <1>4, <1>13, <1>14, <2>2, StillTells DEF Answering
  <2>4. \A g \in instance : stage'[g] = "run" =>
          \E x \in 1..Len(mailbox') : Tells(mailbox'[x], g) /\ mailbox'[x].cmd = "LAUNCHOK"
    BY <1>0, <1>4, <1>13, <1>14, <2>2, StillTells DEF Answering
  <2> QED BY <2>1, <2>3, <2>4 DEF Answering
<1>16. Lasting'
  <2>1. \A g \in Handle : stage'[g] = "run" /\ g \notin instance => stage[g] = "run"
    BY <1>0, <1>4 DEF Answering
  <2> QED BY <1>0, <1>3, <1>5, <2>1 DEF Lasting, Settled
<1>17. Listing'
  <2>1. \A g \in Handle : stage'[g] \in {"init", "run"} => g \in services'
    BY <1>0, <1>4 DEF Listing
  <2>2. services' \subseteq services /\ services \subseteq Handle
    BY <1>0 DEF UTyped, Used
  <2>3. \A g \in services' : stage'[g] = "dead" =>
          \E x \in 1..Len(mailbox') : Tells(mailbox'[x], g) /\ mailbox'[x].cmd # "LAUNCHOK"
    BY <1>0, <1>4, <1>13, <1>14, <2>2, StillTells DEF Listing
  <2> QED BY <2>1, <2>3 DEF Listing
<1> QED BY <1>8, <1>9, <1>10, <1>11, <1>12, <1>15, <1>16, <1>17 DEF UInv

LEMMA Posts ==
  ASSUME NEW h \in Handle, NEW a \in Reports, NEW b \in Reports
  PROVE  /\ Tells(Report(a, h), h) /\ Report(a, h).cmd = a
         /\ <<Report(a, h)>> \in Seq(Message) /\ Len(<<Report(a, h)>>) = 1
         /\ <<Report(a, h)>>[1] = Report(a, h)
         /\ <<Report(a, h), Report(b, h)>> \in Seq(Message)
         /\ Len(<<Report(a, h), Report(b, h)>>) = 2
         /\ <<Report(a, h), Report(b, h)>>[1] = Report(a, h)
         /\ <<Report(a, h), Report(b, h)>>[2] = Report(b, h)
<1>1. Report(a, h) \in Message /\ Report(b, h) \in Message
  BY DEF Report, Message
<1> QED BY <1>1 DEF Report, Tells

LEMMA ServiceKeeps ==
  ASSUME UInv, NEW h \in Handle,
         InitOK(h) \/ LoadError(h) \/ InitError(h) \/ Exit(h) \/ Kill(h) \/ KILL(h)
  PROVE  UInv'
<1> DEFINE one(a) == <<Report(a, h)>>
           two(a, b) == <<Report(a, h), Report(b, h)>>
<1>1. \A a \in Reports, b \in Reports :
        /\ Report(a, h).cmd = a
        /\ one(a) \in Seq(Message) /\ Len(one(a)) = 1 /\ one(a)[1] = Report(a, h)
        /\ two(a, b) \in Seq(Message) /\ Len(two(a, b)) = 2
        /\ two(a, b)[1] = Report(a, h) /\ two(a, b)[2] = Report(b, h)
        /\ \A x \in 1..Len(one(a)) : one(a)[x] = Report(a, h)
        /\ \A x \in 1..Len(two(a, b)) : two(a, b)[x] = Report(a, h) \/ two(a, b)[x] = Report(b, h)
        /\ \A x \in 1..Len(one(a)) : Tells(one(a)[x], h)
        /\ \A x \in 1..Len(two(a, b)) : Tells(two(a, b)[x], h)
  <2>1. \A x \in 1..2 : x = 1 \/ x = 2
    OBVIOUS
  <2>2. \A x \in 1..1 : x = 1
    OBVIOUS
  <2> QED BY <2>1, <2>2, Posts
<1>2. {"LAUNCHOK", "ERROR", "REMOVE", "KILLED"} = Reports
  BY DEF Reports
<1> HIDE DEF one, two
<1>3. CASE InitOK(h)
  <2>1. /\ stage[h] = "init" /\ stage' = [stage EXCEPT ![h] = "run"] /\ Tell(one("LAUNCHOK"))
        /\ UNCHANGED <<services, instance, nameOf, answer, answer_handle, manager, answers>>
    BY <1>3 DEF InitOK, Ends, launcher, one
  <2>2. /\ one("LAUNCHOK") \in Seq(Message) /\ 1 \in 1..Len(one("LAUNCHOK"))
        /\ \A x \in 1..Len(one("LAUNCHOK")) : Tells(one("LAUNCHOK")[x], h)
        /\ Len(one("LAUNCHOK")) = 1 /\ one("LAUNCHOK")[1].cmd = "LAUNCHOK"
    BY <1>1, <1>2
  <2> QED BY <2>1, <2>2, TellKeeps
<1>4. ASSUME NEW p, NEW from \in {"init", "run"}, Ends(h, from, "dead", p),
             \/ \E a \in Reports \ {"LAUNCHOK"} : p = one(a)
             \/ \E a, b \in Reports \ {"LAUNCHOK"} : p = two(a, b)
      PROVE  UInv'
  <2>1. /\ stage[h] \in {"init", "run"} /\ stage' = [stage EXCEPT ![h] = "dead"] /\ Tell(p)
        /\ UNCHANGED <<services, instance, nameOf, answer, answer_handle, manager, answers>>
    BY <1>4 DEF Ends, launcher
  <2>2. /\ p \in Seq(Message) /\ 1 \in 1..Len(p)
        /\ \A x \in 1..Len(p) : Tells(p[x], h) /\ p[x].cmd # "LAUNCHOK"
    BY <1>1, <1>4
  <2> QED BY <2>1, <2>2, TellKeeps
<1>5. CASE LoadError(h)
  BY <1>2, <1>4, <1>5 DEF LoadError, InitFailed, one
<1>6. CASE InitError(h)
  BY <1>2, <1>4, <1>6 DEF InitError, two
<1>7. CASE Exit(h)
  BY <1>2, <1>4, <1>7 DEF Exit, one
<1>8. CASE Kill(h)
  BY <1>2, <1>4, <1>8 DEF Kill, one
<1>9. CASE KILL(h)
  <2>1. /\ stage[h] \in {"init", "run"} /\ stage' = [stage EXCEPT ![h] = "dead"] /\ Tell(one("KILLED"))
        /\ services' = services \ {h}
        /\ UNCHANGED <<instance, nameOf, answer, answer_handle, manager, answers>>
    BY <1>9 DEF KILL, one
  <2>2. /\ one("KILLED") \in Seq(Message) /\ 1 \in 1..Len(one("KILLED"))
        /\ \A x \in 1..Len(one("KILLED")) :
             Tells(one("KILLED")[x], h) /\ one("KILLED")[x].cmd # "LAUNCHOK"
    BY <1>1, <1>2
  <2> QED BY <2>1, <2>2, TellKeeps
<1> QED BY <1>3, <1>5, <1>6, <1>7, <1>8, <1>9

-----------------------------------------------------------------------------
(* The launcher's theorem                                                  *)

LEMMA InitUInv == ASSUME UniqueAssumption, UniqueInit PROVE UInv
<1>1. /\ services = {} /\ instance = {} /\ mailbox = <<>> /\ Len(mailbox) = 0
      /\ stage = [h \in Handle |-> "none"] /\ DOMAIN nameOf = Handle
      /\ answer = [n \in UniqueName |-> "none"] /\ DOMAIN answer_handle = UniqueName
      /\ service = [n \in UniqueName |-> "nil"] /\ launching = [n \in UniqueName |-> FALSE]
      /\ waiters = [n \in UniqueName |-> <<>>] /\ client = [c \in Requester |-> "idle"]
      /\ answers = [n \in UniqueName |-> 0]
  BY DEF UniqueInit
<1>2. Used = {} /\ 1..Len(mailbox) = {}
  BY <1>1 DEF Used
<1>3. DOMAIN wants = Requester /\ (UniqueName # {} => \A c \in Requester : wants[c] \in UniqueName)
  BY DEF UniqueInit
<1>4. UTyped
  <2>1. mailbox \in Seq(Message) /\ waiters \in [UniqueName -> Seq(Requester)]
    BY <1>1
  <2> QED BY <1>1, <1>2, <1>3, <2>1 DEF UTyped
<1>5. Numbered
  <2>1. 1..0 = {} /\ 0 \in 0..MaxHandle
    BY DEF UniqueAssumption
  <2> QED BY <1>2, <2>1 DEF Numbered
<1>6. Owed
  BY <1>1, <1>2 DEF Owed, Owing, Pending
<1>7. (Alone /\ Reporting /\ Answering /\ Listing)
  BY <1>1, <1>2 DEF Alone, Reporting, Answering, Listing
<1>8. Lasting
  BY <1>1, <1>2 DEF Lasting, Settled
<1>9. NoneForgotten
  BY <1>1 DEF NoneForgotten
<1> QED BY <1>4, <1>5, <1>6, <1>7, <1>8, <1>9 DEF UInv

LEMMA UInvNext == ASSUME UniqueAssumption, UInv, [UniqueNext]_uniqueVars PROVE UInv'
<1>1. ASSUME NEW cmd \in {"ERROR", "REMOVE", "KILLED"}, NEW how \in {"nil", "error"}, Take(cmd),
             Settle(Head(mailbox).handle, how),
             services' = services \ {Head(mailbox).handle}, UNCHANGED <<world, manager>>
      PROVE  UInv'
  <2>1. cmd \in Reports /\ cmd # "LAUNCHOK" /\ how \in {"ok", "nil", "error"} /\ how # "ok"
    BY DEF Reports
  <2> QED BY <1>1, <2>1, ReportKeeps
<1>2. CASE LAUNCHOK
  <2>1. "LAUNCHOK" \in Reports
    BY DEF Reports
  <2> QED BY <1>2, <2>1, ReportKeeps DEF LAUNCHOK
<1>3. CASE ERROR
  BY <1>1, <1>3 DEF ERROR
<1>4. CASE REMOVE("REMOVE")
  BY <1>1, <1>4 DEF REMOVE, ListWithout
<1>5. CASE REMOVE("KILLED")
  BY <1>1, <1>5 DEF REMOVE, ListWithout
<1>6. CASE UNCHANGED uniqueVars
  <2>1. /\ UNCHANGED <<services, instance, mailbox, stage, nameOf, answer, answer_handle, service, launching>>
        /\ UNCHANGED <<waiters, client, wants, answers>> /\ Used' = Used
    BY <1>6 DEF uniqueVars, launcher, world, Used
  <2>2. UTyped' /\ Numbered'
    BY <2>1 DEF UInv, UTyped, Numbered
  <2>3. Owed' /\ Alone' /\ NoneForgotten'
    BY <2>1 DEF UInv, Owed, Owing, Pending, Alone, NoneForgotten
  <2>4. Reporting' /\ Answering' /\ Listing'
    BY <2>1 DEF UInv, Reporting, Answering, Listing
  <2>5. Lasting'
    BY <2>1 DEF UInv, Lasting, Settled
  <2> QED BY <2>2, <2>3, <2>4, <2>5 DEF UInv
<1> QED BY <1>2, <1>3, <1>4, <1>5, <1>6, LaunchServiceKeeps, ServiceKeeps, WokenKeeps, RequestKeeps,
           WaitforKeeps DEF UniqueNext

LEMMA AtMostOne ==
  ASSUME NEW S, \A x, y \in S : x = y
  PROVE  Cardinality(S) = IF S = {} THEN 0 ELSE 1
<1>1. CASE S = {}
  BY <1>1, FS_EmptySet
<1>2. CASE S # {}
  <2>1. PICK x : x \in S
    BY <1>2
  <2>2. S = {x}
    BY <2>1
  <2> QED BY <1>2, <2>2, FS_Singleton
<1> QED BY <1>1, <1>2

LEMMA LauncherRight == ASSUME UInv PROVE LauncherExact
<1>0. /\ UTyped /\ Owed /\ Alone /\ Reporting /\ Answering /\ Lasting /\ Listing /\ NoneForgotten
  BY DEF UInv
<1>1. mailbox \in Seq(Message) /\ DOMAIN mailbox = 1..Len(mailbox)
      /\ \A x \in 1..Len(mailbox) : mailbox[x] \in Message
  BY <1>0 DEF UTyped
<1>2. \A x \in 1..Len(mailbox), n \in UniqueName : Launches(mailbox[x], n) <=> mailbox[x] = LAUNCH(n)
  BY <1>1, MessageFacts DEF Launches, LAUNCH
<1>3. ASSUME NEW n \in UniqueName
      PROVE  answers[n] = Cardinality({i \in DOMAIN mailbox : mailbox[i] = LAUNCH(n)})
                          + Cardinality({h \in instance : nameOf[h] = n})
  <2> DEFINE A == {i \in DOMAIN mailbox : mailbox[i] = LAUNCH(n)}
             B == {h \in instance : nameOf[h] = n}
  <2>1. A = {i \in 1..Len(mailbox) : Launches(mailbox[i], n)}
    BY <1>1, <1>2
  <2>2. \A i, j \in A : i = j
    BY <1>0, <2>1 DEF Alone, Launches
  <2>3. \A h, g \in B : h = g
    BY <1>0 DEF Alone
  <2>4. A = {} \/ B = {}
    BY <1>0, <2>1 DEF Alone
  <2>5. Pending(n) <=> A # {} \/ B # {}
    BY <2>1 DEF Pending
  <2>6. answers[n] = IF Pending(n) THEN 1 ELSE 0
    BY <1>0 DEF Owed
  <2> HIDE DEF A, B
  <2>7. /\ Cardinality(A) = IF A = {} THEN 0 ELSE 1
        /\ Cardinality(B) = IF B = {} THEN 0 ELSE 1
    BY <2>2, <2>3, AtMostOne
  <2>8. answers[n] = Cardinality(A) + Cardinality(B)
    BY <2>4, <2>5, <2>6, <2>7
  <2> QED BY <2>8 DEF A, B
<1>4. ASSUME NEW h \in instance
      PROVE  stage[h] = "init" \/ \E i \in DOMAIN mailbox : HandleOf(mailbox[i]) = h
  <2>1. stage[h] \in {"init", "run", "dead"}
    BY <1>0 DEF UTyped, Used
  <2>2. \A i \in 1..Len(mailbox) : Tells(mailbox[i], h) => HandleOf(mailbox[i]) = h
    BY <1>1, MessageFacts DEF Tells, HandleOf
  <2> QED BY <1>0, <1>1, <2>1, <2>2 DEF Answering
<1>5. AnsweredOnce
  BY <1>0, <1>3, <1>4 DEF AnsweredOnce, Owed, Owing
<1>6. OneInstance
  <2> SUFFICES ASSUME NEW n \in UniqueName
               PROVE  LET ours == {h \in Handle : stage[h] # "none" /\ nameOf[h] = n}
                      IN /\ Cardinality({h \in ours : stage[h] # "dead"}) <= 1
                         /\ service[n] = "number" => answer_handle[n] \in ours /\ \A h \in ours : h <= answer_handle[n]
    BY DEF OneInstance
  <2> DEFINE ours == {h \in Handle : stage[h] # "none" /\ nameOf[h] = n}
             living == {h \in ours : stage[h] # "dead"}
  <2>1. ours = {h \in Used : nameOf[h] = n}
    BY DEF Used
  <2>2. ASSUME NEW h \in living PROVE h \in instance \/ (Settled(n) /\ answer_handle[n] = h)
    <3>1. stage[h] = "init" \/ stage[h] = "run"
      BY <1>0 DEF UTyped
    <3> QED BY <1>0, <3>1 DEF Answering, Lasting
  <2>3. ASSUME NEW h \in living, h \in instance PROVE ~ Settled(n)
    <3>1. Pending(n)
      BY <2>3 DEF Pending
    <3> QED BY <1>0, <3>1 DEF Owed, Owing, Settled
  <2>4. \A h, g \in living : h = g
    BY <1>0, <2>2, <2>3 DEF Alone
  <2>5. service[n] = "number" => answer_handle[n] \in ours /\ \A h \in ours : h <= answer_handle[n]
    BY <1>0, <2>1 DEF Lasting, Settled
  <2> HIDE DEF living
  <2>6. Cardinality(living) <= 1
    BY <2>4, AtMostOne
  <2> QED BY <2>5, <2>6 DEF living
<1>7. ListExact
  <2> SUFFICES ASSUME mailbox = <<>> PROVE services = {h \in Handle : stage[h] \in {"init", "run"}}
    BY DEF ListExact
  <2>1. 1..Len(mailbox) = {}
    OBVIOUS
  <2>2. \A h \in services : h \in Handle /\ stage[h] \in {"init", "run"}
    BY <1>0, <2>1 DEF Listing, UTyped, Used
  <2> QED BY <1>0, <2>2 DEF Listing
<1> QED BY <1>0, <1>5, <1>6, <1>7 DEF LauncherExact

\* For any number of services, names and requests, whatever the order in which services
\* report, exit and are killed: the launcher answers each launch exactly once and lists
\* the living, and the manager starts a unique service once, gives out the handle of
\* the last one and wakes every request that waits.
THEOREM LauncherCorrect ==
  ASSUME UniqueAssumption
  PROVE  UniqueSpec => []LauncherExact
<1>1. UniqueInit => UInv
  BY InitUInv
<1>2. UInv /\ [UniqueNext]_uniqueVars => UInv'
  BY UInvNext
<1>3. UInv => LauncherExact
  BY LauncherRight
<1> QED BY <1>1, <1>2, <1>3, PTL DEF UniqueSpec

-----------------------------------------------------------------------------
(* Services made from a function.  Every instance is in one hand           *)
(* (OneHand), one client boots at a time (OneBoots), and the queue holds   *)
(* who waits.                                                              *)

Doing == {"idle", "test", "query", "launch", "close", "wait", "boot", "kill", "error"}

ProviderTyped ==
  /\ waitqueue \in Seq(User) \cup {NoQueue}
  /\ address \in Nat /\ booting \in BOOLEAN /\ err \in BOOLEAN
  /\ user \in [User -> Doing]
  /\ mine \in [User -> Nat] /\ instances \in Nat
  /\ address <= instances /\ \A c \in User : mine[c] <= instances

\* One client boots, and only while the name has no instance.
OneBoots ==
  /\ booting <=> \E c \in User : user[c] = "boot"
  /\ \A c, d \in User : user[c] = "boot" /\ user[d] = "boot" => c = d
  /\ booting => address = 0

\* An instance is in one hand, the name's or that of a client that boots or kills it.
OneHand ==
  \A c \in User : mine[c] # 0 =>
    /\ user[c] \in {"boot", "kill"} /\ mine[c] # address
    /\ \A d \in User : mine[d] = mine[c] => d = c

Running == live = ({address} \cup {mine[c] : c \in User}) \ {0}

\* The clients in the queue wait.
InLine ==
  waitqueue # NoQueue => \A x \in 1..Len(waitqueue) : user[waitqueue[x]] = "wait"

Kept ==
  \A c \in User : user[c] = "wait" =>
    c \in dropped \/ (waitqueue # NoQueue /\ \E x \in 1..Len(waitqueue) : waitqueue[x] = c)

Served == address # 0 \/ err => waitqueue = NoQueue

ProvInv ==
  ProviderTyped /\ OneBoots /\ OneHand /\ Running /\ InLine /\ Kept /\ Served

\* A client goes on without waiting, booting or killing, and nothing else changes.
LEMMA GoesOn ==
  ASSUME ProvInv, NEW c \in User, NEW s \in Doing, user[c] \notin {"wait", "boot", "kill"},
         Become(c, s), s \notin {"wait", "boot"},
         UNCHANGED <<waitqueue, address, booting, err, mine, live, instances, dropped>>
  PROVE  ProvInv'
<1>0. ProviderTyped /\ OneBoots /\ OneHand /\ Running /\ InLine /\ Kept /\ Served
  BY DEF ProvInv
<1>1. /\ user' \in [User -> Doing] /\ user'[c] = s
      /\ \A d \in User \ {c} : user'[d] = user[d]
  BY <1>0 DEF ProviderTyped, Become
<1>2. ProviderTyped'
  BY <1>0, <1>1 DEF ProviderTyped
<1>3. OneBoots'
  BY <1>0, <1>1 DEF OneBoots
<1>4. OneHand'
  BY <1>0, <1>1 DEF OneHand
<1>5. Running' /\ Served'
  BY <1>0 DEF Running, Served
<1>6. InLine'
  <2>1. \A x \in 1..Len(waitqueue) : waitqueue # NoQueue => waitqueue[x] \in User
    BY <1>0 DEF ProviderTyped
  <2> QED BY <1>0, <1>1, <2>1 DEF InLine
<1>7. Kept'
  BY <1>0, <1>1 DEF Kept
<1> QED BY <1>2, <1>3, <1>4, <1>5, <1>6, <1>7 DEF ProvInv

\* A client waits in the queue.
LEMMA Waits ==
  ASSUME ProviderAssumption, ProvInv, NEW c \in User, user[c] \notin {"wait", "boot", "kill"},
         waitqueue # NoQueue, waitqueue' = Append(waitqueue, c), Become(c, "wait"),
         UNCHANGED <<address, booting, err, mine, live, instances, dropped>>
  PROVE  ProvInv'
<1>0. ProviderTyped /\ OneBoots /\ OneHand /\ Running /\ InLine /\ Kept /\ Served
  BY DEF ProvInv
<1>1. /\ user' \in [User -> Doing] /\ user'[c] = "wait"
      /\ \A d \in User \ {c} : user'[d] = user[d]
  BY <1>0 DEF ProviderTyped, Become, Doing
<1>2. waitqueue \in Seq(User) /\ waitqueue' \in Seq(User) /\ waitqueue' # NoQueue
  <2>1. waitqueue \in Seq(User)
    BY <1>0 DEF ProviderTyped
  <2>2. waitqueue' \in Seq(User)
    BY <2>1
  <2> QED BY <2>1, <2>2 DEF ProviderAssumption
<1>3. /\ \A x \in 1..Len(waitqueue') :
           waitqueue'[x] = c \/ (x \in 1..Len(waitqueue) /\ waitqueue'[x] = waitqueue[x])
      /\ \A x \in 1..Len(waitqueue) : x \in 1..Len(waitqueue') /\ waitqueue'[x] = waitqueue[x]
      /\ \E x \in 1..Len(waitqueue') : waitqueue'[x] = c
  <2>1. Len(waitqueue') = Len(waitqueue) + 1 /\ Len(waitqueue) \in Nat
    BY <1>2
  <2>2. waitqueue'[Len(waitqueue) + 1] = c
    BY <1>2
  <2> QED BY <1>2, <2>1, <2>2
<1>4. ProviderTyped'
  BY <1>0, <1>1, <1>2 DEF ProviderTyped
<1>5. OneBoots'
  BY <1>0, <1>1 DEF OneBoots
<1>6. OneHand'
  BY <1>0, <1>1 DEF OneHand
<1>7. Running' /\ Served'
  BY <1>0 DEF Running, Served
<1>8. InLine'
  <2>1. \A x \in 1..Len(waitqueue) : waitqueue[x] \in User
    BY <1>2
  <2> QED BY <1>0, <1>1, <1>2, <1>3, <2>1 DEF InLine
<1>9. Kept'
  <2>1. ASSUME NEW d \in User, user'[d] = "wait"
        PROVE  d \in dropped \/ \E x \in 1..Len(waitqueue') : waitqueue'[x] = d
    <3>1. CASE d = c
      BY <1>3, <3>1
    <3>2. CASE d # c
      BY <1>0, <1>1, <1>3, <2>1, <3>2 DEF Kept
    <3> QED BY <3>1, <3>2
  <2> QED BY <1>2, <2>1 DEF Kept
<1> QED BY <1>4, <1>5, <1>6, <1>7, <1>8, <1>9 DEF ProvInv

LEMMA LaunchNext ==
  ASSUME ProviderAssumption, ProvInv, NEW c \in User, launch(c) PROVE ProvInv'
<1>0. ProviderTyped /\ OneBoots /\ OneHand /\ Running /\ InLine /\ Kept /\ Served
  BY DEF ProvInv
<1>1. user[c] = "launch" /\ UNCHANGED <<address, err, dropped>>
  BY DEF launch
<1>2. CASE address # 0 /\ Become(c, "idle") /\ UNCHANGED <<waitqueue, booting, mine, live, instances>>
  <2>1. "idle" \in Doing
    BY DEF Doing
  <2> QED BY <1>1, <1>2, <2>1, GoesOn
<1>3. CASE /\ waitqueue # NoQueue /\ waitqueue' = Append(waitqueue, c) /\ Become(c, "wait")
           /\ UNCHANGED <<booting, mine, live, instances>>
  BY <1>1, <1>3, Waits
<1>4. CASE Become(c, "error") /\ UNCHANGED <<waitqueue, booting, mine, live, instances>>
  <2>1. "error" \in Doing
    BY DEF Doing
  <2> QED BY <1>1, <1>4, <2>1, GoesOn
<1>5. ASSUME address = 0, ~ booting, booting' = TRUE, instances' = instances + 1,
             live' = live \cup {instances'}, mine' = [mine EXCEPT ![c] = instances'],
             Become(c, "boot"), UNCHANGED waitqueue
      PROVE  ProvInv'
  <2>1. /\ user' \in [User -> Doing] /\ user'[c] = "boot"
        /\ \A d \in User \ {c} : user'[d] = user[d] /\ mine'[d] = mine[d] /\ mine[d] < instances'
        /\ mine'[c] = instances' /\ mine' \in [User -> Nat] /\ instances' \in Nat \ {0}
        /\ address < instances' /\ mine[c] = 0
    <3>1. instances \in Nat /\ address \in Nat /\ mine \in [User -> Nat]
      BY <1>0 DEF ProviderTyped
    <3>2. user' \in [User -> Doing] /\ user'[c] = "boot" /\ \A d \in User \ {c} : user'[d] = user[d]
      BY <1>0, <1>5 DEF ProviderTyped, Become, Doing
    <3>3. address <= instances /\ \A d \in User : mine[d] <= instances /\ mine[d] \in Nat
      BY <1>0, <3>1 DEF ProviderTyped
    <3>4. mine[c] = 0
      BY <1>0, <1>1 DEF OneHand
    <3>5. \A d \in User : mine[d] < instances'
      BY <1>5, <3>1, <3>3
    <3> QED BY <1>5, <3>1, <3>2, <3>3, <3>4, <3>5
  <2>2. ProviderTyped'
    <3>1. \A d \in User : mine'[d] <= instances'
      <4>1. ASSUME NEW d \in User PROVE mine'[d] <= instances'
        <5>1. CASE d = c
          BY <2>1, <5>1
        <5>2. CASE d # c
          BY <2>1, <5>2
        <5> QED BY <5>1, <5>2
      <4> QED BY <4>1
    <3>2. address' <= instances'
      BY <1>1, <2>1, <1>5
    <3> QED BY <1>0, <1>1, <1>5, <2>1, <3>1, <3>2 DEF ProviderTyped
  <2>3. OneBoots'
    BY <1>0, <1>1, <1>5, <2>1 DEF OneBoots
  <2>4. OneHand'
    <3>1. \A d \in User \ {c} : mine'[d] # mine'[c]
      BY <2>1
    <3>2. mine'[c] # address
      BY <1>5, <2>1
    <3> QED BY <1>0, <1>1, <2>1, <3>1, <3>2 DEF OneHand
  <2>5. Running'
    <3>1. \A d \in User : mine'[d] = IF d = c THEN instances' ELSE mine[d]
      BY <2>1
    <3>2. {mine'[d] : d \in User} \ {0} = ({mine[d] : d \in User} \ {0}) \cup {instances'}
      BY <2>1, <3>1
    <3> QED BY <1>0, <1>1, <1>5, <3>2 DEF Running
  <2>6. Served'
    BY <1>0, <1>1, <1>5 DEF Served
  <2>7. InLine'
    <3>1. \A x \in 1..Len(waitqueue) : waitqueue # NoQueue => waitqueue[x] \in User
      BY <1>0 DEF ProviderTyped
    <3> QED BY <1>0, <1>1, <1>5, <2>1, <3>1 DEF InLine
  <2>8. Kept'
    BY <1>0, <1>1, <1>5, <2>1 DEF Kept
  <2> QED BY <2>2, <2>3, <2>4, <2>5, <2>6, <2>7, <2>8 DEF ProvInv
<1> QED BY <1>2, <1>3, <1>4, <1>5 DEF launch, Starting

LEMMA BootedNext ==
  ASSUME ProvInv, NEW c \in User, NEW ok \in BOOLEAN, Booted(c, ok) PROVE ProvInv'
<1>0. ProviderTyped /\ OneBoots /\ OneHand /\ Running /\ InLine /\ Kept /\ Served
  BY DEF ProvInv
<1> DEFINE s == IF ok THEN "idle" ELSE "error"
           waits == IF waitqueue = NoQueue THEN {} ELSE ToSet(waitqueue)
<1>1. /\ user[c] = "boot" /\ booting' = FALSE /\ waitqueue' = NoQueue
      /\ address' = (IF ok THEN mine[c] ELSE address) /\ err' = (err \/ ~ ok)
      /\ live' = (IF ok THEN live ELSE live \ {mine[c]})
      /\ mine' = [mine EXCEPT ![c] = 0] /\ UNCHANGED <<instances, dropped>>
      /\ user' = [k \in User |->
           CASE k = c -> IF waitqueue = NoQueue THEN "error" ELSE s
             [] k \in waits -> s
             [] OTHER -> user[k]]
  BY DEF Booted
<1>2. s \in {"idle", "error"} /\ s \in Doing
  BY DEF Doing
<1>3. \A d \in waits : user[d] = "wait" /\ d \in User
  <2>1. CASE waitqueue # NoQueue
    <3>1. waitqueue \in Seq(User)
      BY <1>0, <2>1 DEF ProviderTyped
    <3>2. waits = {waitqueue[x] : x \in 1..Len(waitqueue)}
      BY <2>1, <3>1 DEF ToSet
    <3> QED BY <1>0, <2>1, <3>1, <3>2 DEF InLine
  <2> QED BY <2>1
<1>4. \A d \in User : user[d] = "wait" => d \in dropped \/ d \in waits
  <2>1. CASE waitqueue # NoQueue
    <3>1. waitqueue \in Seq(User)
      BY <1>0, <2>1 DEF ProviderTyped
    <3>2. waits = {waitqueue[x] : x \in 1..Len(waitqueue)}
      BY <2>1, <3>1 DEF ToSet
    <3> QED BY <1>0, <2>1, <3>2 DEF Kept
  <2> QED BY <1>0, <2>1 DEF Kept
<1> HIDE DEF s, waits
<1>5. booting /\ address = 0 /\ \A d \in User \ {c} : user[d] # "boot"
  BY <1>0, <1>1 DEF OneBoots
<1>6. /\ user'[c] \in {"idle", "error"}
      /\ \A d \in User \ {c} : user'[d] = IF d \in waits THEN s ELSE user[d]
  BY <1>1, <1>2
<1>7. /\ mine'[c] = 0 /\ \A d \in User \ {c} : mine'[d] = mine[d]
      /\ mine' \in [User -> Nat] /\ mine[c] \in Nat /\ mine[c] <= instances
  BY <1>0, <1>1 DEF ProviderTyped
<1>8. ProviderTyped'
  <2>1. \A d \in User : user'[d] \in Doing
    BY <1>0, <1>2, <1>6 DEF ProviderTyped, Doing
  <2>2. user' \in [User -> Doing]
    BY <1>1, <2>1
  <2>3. \A d \in User : mine'[d] <= instances
    BY <1>0, <1>7 DEF ProviderTyped
  <2> QED BY <1>0, <1>1, <1>7, <2>2, <2>3 DEF ProviderTyped
<1>9. OneBoots'
  <2>1. \A d \in User : user'[d] # "boot"
    BY <1>2, <1>5, <1>6
  <2> QED BY <1>1, <2>1 DEF OneBoots
<1>10. OneHand'
  <2>1. ASSUME NEW d \in User, mine'[d] # 0
        PROVE  /\ user'[d] \in {"boot", "kill"} /\ mine'[d] # address'
               /\ \A e \in User : mine'[e] = mine'[d] => e = d
    <3>1. d # c /\ mine[d] # 0 /\ mine'[d] = mine[d]
      BY <1>7, <2>1
    <3>2. user[d] \in {"boot", "kill"} /\ mine[d] # mine[c] /\ mine[d] # address
          /\ \A e \in User : mine[e] = mine[d] => e = d
      BY <1>0, <3>1 DEF OneHand
    <3>3. user'[d] = user[d]
      BY <1>3, <1>6, <3>1, <3>2
    <3> QED BY <1>1, <1>7, <3>1, <3>2, <3>3
  <2> QED BY <2>1 DEF OneHand
<1>11. Running'
  <2>1. mine[c] # 0 => \A d \in User \ {c} : mine[d] # mine[c]
    BY <1>0 DEF OneHand
  <2>2. live = {mine[d] : d \in User} \ {0}
    BY <1>0, <1>5 DEF Running
  <2>3. {mine'[d] : d \in User} \ {0} = {mine[d] : d \in User \ {c}} \ {0}
    BY <1>7
  <2>4. {mine[d] : d \in User} = {mine[d] : d \in User \ {c}} \cup {mine[c]}
    OBVIOUS
  <2>5. CASE ok
    <3>1. live' = live /\ address' = mine[c]
      BY <1>1, <2>5
    <3> QED BY <2>2, <2>3, <2>4, <3>1 DEF Running
  <2>6. CASE ~ ok
    <3>1. live' = live \ {mine[c]} /\ address' = 0
      BY <1>1, <1>5, <2>6
    <3>2. live' = {mine[d] : d \in User \ {c}} \ {0}
      BY <2>1, <2>2, <2>4, <3>1
    <3> QED BY <2>3, <3>1, <3>2 DEF Running
  <2> QED BY <2>5, <2>6
<1>12. InLine' /\ Served'
  BY <1>1 DEF InLine, Served
<1>13. Kept'
  <2>1. ASSUME NEW d \in User, user'[d] = "wait" PROVE d \in dropped'
    <3>1. d # c /\ d \notin waits /\ user[d] = "wait"
      BY <1>2, <1>6, <2>1
    <3> QED BY <1>1, <1>4, <3>1
  <2> QED BY <2>1 DEF Kept
<1> QED BY <1>8, <1>9, <1>10, <1>11, <1>12, <1>13 DEF ProvInv

LEMMA CloseNext ==
  ASSUME ProviderAssumption, ProvInv, NEW c \in User, close(c) PROVE ProvInv'
<1>0. ProviderTyped /\ OneBoots /\ OneHand /\ Running /\ InLine /\ Kept /\ Served
  BY DEF ProvInv
<1>1. CASE booting
  <2>1. "idle" \in Doing
    BY DEF Doing
  <2>2. UNCHANGED <<waitqueue, address, booting, err, mine, live, instances, dropped>>
    BY <1>1 DEF close, svr
  <2> QED BY <1>1, <2>1, <2>2, GoesOn DEF close
<1>2. CASE ~ booting
  <2> DEFINE s == IF address # 0 THEN "kill" ELSE "idle"
             gone == IF waitqueue = NoQueue THEN {} ELSE ToSet(waitqueue)
  <2>1. /\ user[c] = "close" /\ Become(c, s)
        /\ mine' = [mine EXCEPT ![c] = address] /\ dropped' = dropped \cup gone
        /\ waitqueue' = <<>> /\ address' = 0 /\ err' = FALSE
        /\ UNCHANGED <<booting, live, instances>>
    BY <1>2 DEF close
  <2>2. \A d \in User : user[d] = "wait" => d \in dropped'
    <3>1. CASE waitqueue # NoQueue
      <4>1. waitqueue \in Seq(User)
        BY <1>0, <3>1 DEF ProviderTyped
      <4>2. gone = {waitqueue[x] : x \in 1..Len(waitqueue)}
        BY <3>1, <4>1 DEF ToSet
      <4> QED BY <1>0, <2>1, <4>2 DEF Kept
    <3> QED BY <1>0, <2>1, <3>1 DEF Kept
  <2>3. s \in {"kill", "idle"} /\ s \in Doing /\ (address # 0 => s = "kill")
    BY DEF Doing
  <2> HIDE DEF s, gone
  <2>4. /\ user' \in [User -> Doing] /\ user'[c] = s
        /\ \A d \in User \ {c} : user'[d] = user[d]
    BY <1>0, <2>1, <2>3 DEF ProviderTyped, Become
  <2>5. /\ mine'[c] = address /\ \A d \in User \ {c} : mine'[d] = mine[d]
        /\ mine' \in [User -> Nat] /\ mine[c] = 0
    <3>1. mine[c] = 0
      BY <1>0, <2>1 DEF OneHand
    <3> QED BY <1>0, <2>1, <3>1 DEF ProviderTyped
  <2>6. ProviderTyped'
    <3>1. <<>> \in Seq(User)
      OBVIOUS
    <3>2. \A d \in User : mine'[d] <= instances
      BY <1>0, <2>5 DEF ProviderTyped
    <3>3. address' <= instances'
      BY <1>0, <2>1 DEF ProviderTyped
    <3> QED BY <1>0, <2>1, <2>4, <2>5, <3>1, <3>2, <3>3 DEF ProviderTyped
  <2>7. OneBoots'
    BY <1>0, <1>2, <2>1, <2>3, <2>4 DEF OneBoots
  <2>8. OneHand'
    <3>1. ASSUME NEW d \in User, mine'[d] # 0
          PROVE  /\ user'[d] \in {"boot", "kill"} /\ mine'[d] # address'
                 /\ \A e \in User : mine'[e] = mine'[d] => e = d
      <4>1. CASE d = c
        <5>1. address # 0 /\ user'[c] = "kill"
          BY <2>3, <2>4, <2>5, <3>1, <4>1
        <5>2. \A e \in User \ {c} : mine[e] # address
          BY <1>0, <5>1 DEF OneHand
        <5> QED BY <2>1, <2>5, <3>1, <4>1, <5>1, <5>2
      <4>2. CASE d # c
        <5>1. /\ mine'[d] = mine[d] /\ user[d] \in {"boot", "kill"} /\ mine[d] # address
              /\ \A e \in User : mine[e] = mine[d] => e = d
          BY <1>0, <2>5, <3>1, <4>2 DEF OneHand
        <5> QED BY <2>1, <2>4, <2>5, <3>1, <4>2, <5>1
      <4> QED BY <4>1, <4>2
    <3> QED BY <3>1 DEF OneHand
  <2>9. Running'
    <3>1. {mine[d] : d \in User} \ {0} = {mine[d] : d \in User \ {c}} \ {0}
      BY <2>5
    <3>2. {mine'[d] : d \in User} = {mine[d] : d \in User \ {c}} \cup {address}
      BY <2>5
    <3> QED BY <1>0, <2>1, <3>1, <3>2 DEF Running
  <2>10. InLine' /\ Served'
    <3>1. 1..Len(<<>>) = {}
      OBVIOUS
    <3> QED BY <2>1, <3>1 DEF InLine, Served
  <2>11. Kept'
    BY <2>1, <2>2, <2>3, <2>4 DEF Kept
  <2> QED BY <2>6, <2>7, <2>8, <2>9, <2>10, <2>11 DEF ProvInv
<1> QED BY <1>1, <1>2

LEMMA KillNext ==
  ASSUME ProvInv, NEW c \in User, kill(c) PROVE ProvInv'
<1>0. ProviderTyped /\ OneBoots /\ OneHand /\ Running /\ InLine /\ Kept /\ Served
  BY DEF ProvInv
<1>1. /\ user[c] = "kill" /\ Become(c, "idle") /\ live' = live \ {mine[c]}
      /\ mine' = [mine EXCEPT ![c] = 0]
      /\ UNCHANGED <<waitqueue, address, booting, err, instances, dropped>>
  BY DEF kill, svr
<1>2. /\ user' \in [User -> Doing] /\ user'[c] = "idle"
      /\ \A d \in User \ {c} : user'[d] = user[d]
  BY <1>0, <1>1 DEF ProviderTyped, Become, Doing
<1>3. /\ mine'[c] = 0 /\ \A d \in User \ {c} : mine'[d] = mine[d]
      /\ mine' \in [User -> Nat]
  BY <1>0, <1>1 DEF ProviderTyped
<1>4. ProviderTyped'
  <2>1. \A d \in User : mine'[d] <= instances
    <3>1. instances \in Nat /\ \A d \in User : mine[d] <= instances
      BY <1>0 DEF ProviderTyped
    <3>2. \A d \in User : mine'[d] = 0 \/ mine'[d] = mine[d]
      BY <1>3
    <3> QED BY <3>1, <3>2
  <2> QED BY <1>0, <1>1, <1>2, <1>3, <2>1 DEF ProviderTyped
<1>5. OneBoots'
  BY <1>0, <1>1, <1>2 DEF OneBoots
<1>6. OneHand'
  BY <1>0, <1>1, <1>2, <1>3 DEF OneHand
<1>7. Running'
  <2>1. mine[c] # 0 => mine[c] # address /\ \A d \in User \ {c} : mine[d] # mine[c]
    BY <1>0 DEF OneHand
  <2>2. {mine'[d] : d \in User} \ {0} = {mine[d] : d \in User \ {c}} \ {0}
    BY <1>3
  <2>3. {mine[d] : d \in User} = {mine[d] : d \in User \ {c}} \cup {mine[c]}
    OBVIOUS
  <2>4. live = ({address} \cup {mine[d] : d \in User \ {c}} \cup {mine[c]}) \ {0}
    BY <1>0, <2>3 DEF Running
  <2>5. live' = ({address} \cup {mine[d] : d \in User \ {c}}) \ {0}
    BY <1>1, <2>1, <2>4
  <2> QED BY <1>1, <2>2, <2>5 DEF Running
<1>8. InLine'
  <2>1. \A x \in 1..Len(waitqueue) : waitqueue # NoQueue => waitqueue[x] \in User
    BY <1>0 DEF ProviderTyped
  <2> QED BY <1>0, <1>1, <1>2, <2>1 DEF InLine
<1>9. Kept' /\ Served'
  BY <1>0, <1>1, <1>2 DEF Kept, Served
<1> QED BY <1>4, <1>5, <1>6, <1>7, <1>8, <1>9 DEF ProvInv

LEMMA InitProvInv == ASSUME ProviderInit PROVE ProvInv
<1>1. <<>> \in Seq(User) /\ 1..Len(<<>>) = {}
  OBVIOUS
<1>2. ProviderTyped
  <2>1. /\ waitqueue = <<>> /\ address = 0 /\ booting = FALSE /\ err = FALSE /\ instances = 0
        /\ user = [c \in User |-> "idle"] /\ mine = [c \in User |-> 0] /\ "idle" \in Doing
    BY DEF ProviderInit, Doing
  <2>2. user \in [User -> Doing] /\ mine \in [User -> Nat] /\ \A c \in User : mine[c] <= instances
    BY <2>1
  <2>3. booting \in BOOLEAN /\ err \in BOOLEAN
    BY <2>1
  <2>4. waitqueue \in Seq(User) \cup {NoQueue}
    BY <1>1, <2>1
  <2>5. address \in Nat /\ instances \in Nat /\ address <= instances
    BY <2>1
  <2> QED BY <2>2, <2>3, <2>4, <2>5 DEF ProviderTyped
<1>3. OneBoots /\ OneHand /\ Running
  BY DEF ProviderInit, OneBoots, OneHand, Running
<1>4. InLine /\ Kept /\ Served
  BY <1>1 DEF ProviderInit, InLine, Kept, Served
<1> QED BY <1>2, <1>3, <1>4 DEF ProvInv

LEMMA ProvInvNext ==
  ASSUME ProviderAssumption, ProvInv, [ProviderNext]_providerVars PROVE ProvInv'
<1>1. ASSUME NEW c \in User, NEW op \in {"test", "query", "close"}, Ask(c, op) PROVE ProvInv'
  BY <1>1, GoesOn DEF Ask, Doing, svr
<1>2. ASSUME NEW c \in User, test(c) PROVE ProvInv'
  <2>1. PICK s \in {"query", "idle", "error", "launch"} : Become(c, s)
    BY <1>2 DEF test
  <2> QED BY <1>2, <2>1, GoesOn DEF test, Doing, svr
<1>3. ASSUME NEW c \in User, query(c) PROVE ProvInv'
  <2>1. CASE waitqueue # NoQueue
    BY <1>3, <2>1, Waits DEF query
  <2>2. CASE waitqueue = NoQueue
    <3>1. PICK s \in {"idle", "error"} : Become(c, s)
      BY <1>3, <2>2 DEF query
    <3>2. UNCHANGED waitqueue
      BY <1>3, <2>2 DEF query
    <3> QED BY <1>3, <3>1, <3>2, GoesOn DEF query, Doing
  <2> QED BY <2>1, <2>2
<1>4. CASE UNCHANGED providerVars
  BY <1>4 DEF providerVars, svr, ProvInv, ProviderTyped, OneBoots, OneHand, Running, InLine, Kept, Served
<1> QED BY <1>1, <1>2, <1>3, <1>4, LaunchNext, BootedNext, CloseNext, KillNext DEF ProviderNext

\* For any number of clients and instances, with launches that fail and names that are
\* closed: every instance that runs is the name's or in the hands of one client, and
\* who waits for the name is in the queue that the launch will answer.
THEOREM ProviderCorrect == ASSUME ProviderAssumption PROVE ProviderSpec => []ProviderExact
<1>1. ProvInv => ProviderExact
  <2>1. ASSUME ProvInv PROVE WaitersKept
    <3>1. CASE waitqueue = NoQueue
      BY <2>1, <3>1 DEF ProvInv, WaitersKept, Kept, Served
    <3>2. CASE waitqueue # NoQueue
      <4>1. waitqueue \in Seq(User)
        BY <2>1, <3>2 DEF ProvInv, ProviderTyped
      <4>2. DOMAIN waitqueue = 1..Len(waitqueue)
        BY <4>1
      <4> QED BY <2>1, <4>2 DEF ProvInv, WaitersKept, Kept, Served
    <3> QED BY <3>1, <3>2
  <2>2. ASSUME ProvInv PROVE NoStrayInstance
    BY <2>2 DEF ProvInv, NoStrayInstance, OneBoots, Running
  <2> QED BY <2>1, <2>2 DEF ProviderExact
<1> QED BY <1>1, InitProvInv, ProvInvNext, PTL DEF ProviderSpec

-----------------------------------------------------------------------------
(* The data center.  Who waits is in the queue of its path exactly once,   *)
(* and a path has a value only below a table (Tree), so that an update     *)
(* meets every queue it has to.                                            *)

DataTyped ==
  /\ database \in [Path -> Value \cup {NoValue, Table}]
  /\ wait_queue \in [Path -> Seq(Waiter)]
  /\ queue_mode \in [Key -> {NoValue, "queue", "branch"}]
  /\ waiter \in [Waiter -> {"idle", "wait", "ok", "error"}]
  /\ DOMAIN path = Waiter /\ \A c \in Waiter : waiter[c] = "wait" => path[c] \in Path

\* A value below a key has a table above it.
Tree == \A p \in Path : Len(p) = 2 /\ database[p] # NoValue => database[<<p[1]>>] = Table

\* Who is in a queue waits for its path, and is there once.
Queues ==
  \A p \in Path : \A x \in 1..Len(wait_queue[p]) :
    /\ waiter[wait_queue[p][x]] = "wait" /\ path[wait_queue[p][x]] = p
    /\ \A y \in 1..Len(wait_queue[p]) : wait_queue[p][y] = wait_queue[p][x] => y = x

Want(p) == IF Len(p) = 1 THEN "queue" ELSE "branch"

\* Who waits is in the queue of the path, which has no value yet.
WaitsFor(c) ==
  /\ \E x \in 1..Len(wait_queue[path[c]]) : wait_queue[path[c]][x] = c
  /\ queue_mode[path[c][1]] = Want(path[c])
  /\ QUERY(path[c]) \in {NoValue, "error"} \/ c \in overlooked

DataInv ==
  DataTyped /\ Tree /\ Queues /\ \A c \in Waiter : waiter[c] = "wait" => WaitsFor(c)

LEMMA PathFacts ==
  ASSUME NEW p \in Path
  PROVE  /\ p[1] \in Key /\ <<p[1]>> \in Path /\ Len(<<p[1]>>) = 1 /\ <<p[1]>>[1] = p[1]
         /\ \/ Len(p) = 1 /\ p = <<p[1]>>
            \/ Len(p) = 2 /\ p # <<p[1]>>
<1>1. CASE p \in {<<k>> : k \in Key}
  <2>1. PICK k \in Key : p = <<k>>
    BY <1>1
  <2> QED BY <2>1 DEF Path
<1>2. CASE p \in Key \X Sub
  <2>1. PICK k \in Key, s \in Sub : p = <<k, s>>
    BY <1>2
  <2>2. Len(p) = 2 /\ p[1] = k /\ Len(<<k>>) = 1
    BY <2>1
  <2> QED BY <2>1, <2>2 DEF Path
<1> QED BY <1>1, <1>2 DEF Path

LEMMA UpdateKeeps ==
  ASSUME DataAssumption, DataInv, NEW p \in Path, NEW v \in Value \cup {NoValue}, UPDATE(p, v)
  PROVE  DataInv'
<1>0. DataTyped /\ Tree /\ Queues /\ \A c \in Waiter : waiter[c] = "wait" => WaitsFor(c)
  BY DEF DataInv
<1> DEFINE fresh == Fresh(p, v)
           woken == IF fresh THEN ToSet(wait_queue[p]) ELSE {}
           fail == IF fresh THEN ToSet(Blocked(p)) ELSE {}
           k == p[1]
           q == <<p[1]>>
           away == fresh /\ queue_mode[k] = "queue"
<1>1. /\ k \in Key /\ q \in Path /\ Len(q) = 1 /\ q[1] = k
      /\ Len(p) \in {1, 2} /\ (Len(p) = 1 <=> p = q)
  BY PathFacts
<1>told. waiter' = [c \in Waiter |->
           CASE c \in woken -> "ok" [] c \in fail -> "error" [] OTHER -> waiter[c]]
  BY DEF UPDATE
<1>stored. database' = [x \in Path |->
           CASE x = p -> v
             [] x = q /\ Len(p) = 2 -> Table
             [] Len(x) = 2 /\ x[1] = k /\ Len(p) = 1 -> NoValue
             [] OTHER -> database[x]]
  BY DEF UPDATE
<1>2. /\ Len(p) = 2 => database[q] \notin Value
      /\ overlooked' = IF Len(p) = 2 /\ database[q] = NoValue /\ v = NoValue
                       THEN overlooked \cup ToSet(wait_queue[q]) ELSE overlooked
      /\ UNCHANGED path
  BY DEF UPDATE
<1>3. wait_queue' = [x \in Path |-> IF (x = p /\ fresh) \/ (away /\ x = q) THEN <<>> ELSE wait_queue[x]]
  BY DEF UPDATE
<1>4. queue_mode' = [j \in Key |-> IF away /\ j = k THEN NoValue ELSE queue_mode[j]]
  BY DEF UPDATE
<1>5. \A x \in Path : /\ wait_queue[x] \in Seq(Waiter)
                      /\ ToSet(wait_queue[x]) = {wait_queue[x][i] : i \in 1..Len(wait_queue[x])}
  BY <1>0 DEF DataTyped, ToSet
<1>6. fresh => database[p] = NoValue /\ v # NoValue
  BY DEF Fresh
<1>7. ~ fresh => database[p] # NoValue \/ v = NoValue
  BY DEF Fresh
<1>8. fail = IF away /\ Len(p) = 2 THEN ToSet(wait_queue[q]) ELSE {}
  <2>1. ToSet(<<>>) = {}
    BY DEF ToSet
  <2> QED BY <2>1 DEF Blocked
<1>9. \A x \in Path : \A c \in ToSet(wait_queue[x]) :
        c \in Waiter /\ waiter[c] = "wait" /\ path[c] = x
  <2>1. TAKE x \in Path
  <2>2. TAKE c \in ToSet(wait_queue[x])
  <2>3. PICK i \in 1..Len(wait_queue[x]) : wait_queue[x][i] = c
    BY <1>5
  <2>4. wait_queue[x] \in Seq(Waiter)
    BY <1>5
  <2>5. c \in Waiter
    BY <2>3, <2>4
  <2> QED BY <1>0, <2>3, <2>5 DEF Queues
<1>10. \A c \in Waiter : waiter[c] = "wait" => c \in ToSet(wait_queue[path[c]]) /\ path[c] \in Path
  BY <1>0, <1>5 DEF DataTyped, WaitsFor
<1>woken. woken = IF fresh THEN ToSet(wait_queue[p]) ELSE {}
  OBVIOUS
<1>away. away <=> fresh /\ queue_mode[k] = "queue"
  OBVIOUS
<1> HIDE DEF fresh, woken, fail, k, q, away
\* Who still waits
<1>11. \A c \in Waiter :
         waiter'[c] \in {"ok", "error", waiter[c]} /\ (waiter'[c] = "wait" =>
           waiter[c] = "wait" /\ c \notin woken /\ c \notin fail)
  <2>1. \A c \in Waiter : waiter'[c] = IF c \in woken THEN "ok" ELSE IF c \in fail THEN "error" ELSE waiter[c]
    <3>1. \A c \in Waiter : ~ (c \in woken /\ c \in fail)
      BY <1>1, <1>8, <1>9, <1>woken
    <3>2. ASSUME NEW c \in Waiter
          PROVE  waiter'[c] = IF c \in woken THEN "ok" ELSE IF c \in fail THEN "error" ELSE waiter[c]
      <4>1. CASE c \in woken
        BY <1>told, <3>1, <4>1
      <4>2. CASE c \in fail
        BY <1>told, <3>1, <4>2
      <4>3. CASE c \notin woken /\ c \notin fail
        BY <1>told, <4>3
      <4> QED BY <4>1, <4>2, <4>3
    <3> QED BY <3>2
  <2> QED BY <2>1
<1>12. ASSUME NEW c \in Waiter, waiter'[c] = "wait"
       PROVE  /\ fresh => path[c] # p
              /\ away => path[c][1] # k
  <2>1. waiter[c] = "wait" /\ c \in ToSet(wait_queue[path[c]]) /\ path[c] \in Path
    BY <1>10, <1>11, <1>12
  <2>2. ASSUME fresh PROVE path[c] # p
    BY <1>11, <1>12, <1>woken, <2>1, <2>2
  <2>3. ASSUME away, path[c][1] = k PROVE FALSE
    <3>1. queue_mode[path[c][1]] = Want(path[c]) /\ queue_mode[k] = "queue"
      BY <1>0, <1>away, <2>1, <2>3 DEF WaitsFor
    <3>2. Len(path[c]) = 1
      BY <2>3, <3>1 DEF Want
    <3>3. path[c] = q
      <4>1. ASSUME NEW y \in Path, Len(y) = 1 PROVE y = <<y[1]>>
        <5>1. Len(y) # 2
          BY <4>1
        <5>2. (Len(y) = 1 /\ y = <<y[1]>>) \/ (Len(y) = 2 /\ y # <<y[1]>>)
          BY PathFacts
        <5> QED BY <5>1, <5>2
      <4>2. path[c] = <<path[c][1]>>
        BY <2>1, <3>2, <4>1
      <4> QED BY <2>3, <4>2 DEF q, k
    <3>4. CASE Len(p) = 1
      BY <1>1, <1>away, <2>2, <2>3, <3>3, <3>4
    <3>5. CASE Len(p) = 2
      BY <1>8, <1>11, <1>12, <2>1, <2>3, <3>3, <3>5
    <3> QED BY <1>1, <3>4, <3>5
  <2> QED BY <2>2, <2>3
<1>13. DataTyped'
  <2>1. database' \in [Path -> Value \cup {NoValue, Table}]
    <3>1. \A x \in Path : database[x] \in Value \cup {NoValue, Table}
      BY <1>0 DEF DataTyped
    <3>2. \A x \in Path : database'[x] \in {v, Table, NoValue, database[x]}
      BY <1>stored
    <3>3. \A x \in Path : database'[x] \in Value \cup {NoValue, Table}
      BY <3>1, <3>2
    <3> QED BY <1>stored, <3>3
  <2>2. wait_queue' \in [Path -> Seq(Waiter)]
    <3>1. <<>> \in Seq(Waiter)
      OBVIOUS
    <3> QED BY <1>3, <1>5, <3>1
  <2>3. queue_mode' \in [Key -> {NoValue, "queue", "branch"}]
    BY <1>0, <1>4 DEF DataTyped
  <2>4. waiter' \in [Waiter -> {"idle", "wait", "ok", "error"}]
    <3>1. \A c \in Waiter : waiter'[c] \in {"idle", "wait", "ok", "error"}
      BY <1>0, <1>11 DEF DataTyped
    <3> QED BY <1>told, <3>1
  <2>5. \A c \in Waiter : waiter'[c] = "wait" => path[c] \in Path
    BY <1>10, <1>11
  <2> QED BY <1>0, <1>2, <2>1, <2>2, <2>3, <2>4, <2>5 DEF DataTyped
<1>14. \A x \in Path : database'[x] = IF x = p THEN v ELSE IF x = q /\ Len(p) = 2 THEN Table ELSE
                                      IF Len(x) = 2 /\ x[1] = k /\ Len(p) = 1 THEN NoValue ELSE database[x]
  <2> SUFFICES ASSUME NEW x \in Path
               PROVE  database'[x] = IF x = p THEN v ELSE IF x = q /\ Len(p) = 2 THEN Table ELSE
                                     IF Len(x) = 2 /\ x[1] = k /\ Len(p) = 1 THEN NoValue ELSE database[x]
    OBVIOUS
  <2>1. CASE x = p
    BY <1>1, <1>stored, <2>1
  <2>2. CASE x = q /\ Len(p) = 2
    BY <1>1, <1>stored, <2>2
  <2>3. CASE Len(x) = 2 /\ x[1] = k /\ Len(p) = 1
    BY <1>1, <1>stored, <2>3
  <2>4. CASE ~ (x = p) /\ ~ (x = q /\ Len(p) = 2) /\ ~ (Len(x) = 2 /\ x[1] = k /\ Len(p) = 1)
    BY <1>stored, <2>4
  <2> QED BY <1>1, <2>1, <2>2, <2>3, <2>4
<1>15. Tree'
  <2> SUFFICES ASSUME NEW x \in Path, Len(x) = 2, database'[x] # NoValue
               PROVE  database'[<<x[1]>>] = Table
    BY DEF Tree
  <2>1. <<x[1]>> \in Path /\ Len(<<x[1]>>) = 1 /\ <<x[1]>>[1] = x[1] /\ x[1] \in Key /\ x # <<x[1]>>
    BY PathFacts
  <2>2. CASE x = p
    BY <1>1, <1>14, <2>1, <2>2 DEF q
  <2>3. CASE x # p
    <3>1. database[x] # NoValue /\ database[<<x[1]>>] = Table
      BY <1>0, <1>1, <1>14, <2>3 DEF Tree
    <3>2. CASE x[1] = k
      <4>1. Len(p) = 2
        BY <1>1, <1>14, <2>1, <2>3, <3>2
      <4>2. <<x[1]>> = q
        BY <3>2 DEF q, k
      <4> QED BY <1>1, <1>14, <2>1, <4>1, <4>2
    <3>3. CASE x[1] # k
      <4>1. <<x[1]>> # p /\ <<x[1]>> # q
        BY <1>1, <2>1, <3>3 DEF k
      <4> QED BY <1>14, <2>1, <3>1, <4>1
    <3> QED BY <3>2, <3>3
  <2> QED BY <2>2, <2>3
<1>16. Queues'
  <2> SUFFICES ASSUME NEW x \in Path, NEW i \in 1..Len(wait_queue'[x])
               PROVE  /\ waiter'[wait_queue'[x][i]] = "wait" /\ path'[wait_queue'[x][i]] = x
                      /\ \A y \in 1..Len(wait_queue'[x]) :
                           wait_queue'[x][y] = wait_queue'[x][i] => y = i
    BY DEF Queues
  <2>1. wait_queue'[x] = wait_queue[x] /\ ~ (x = p /\ fresh) /\ ~ (away /\ x = q)
    <3>1. 1..Len(<<>>) = {}
      OBVIOUS
    <3> QED BY <1>3, <3>1
  <2>2. /\ waiter[wait_queue[x][i]] = "wait" /\ path[wait_queue[x][i]] = x
        /\ \A y \in 1..Len(wait_queue[x]) : wait_queue[x][y] = wait_queue[x][i] => y = i
    BY <1>0, <2>1 DEF Queues
  <2>3. wait_queue[x][i] \in Waiter
    BY <1>5, <2>1
  <2>4. wait_queue[x][i] \notin woken
    BY <1>9, <1>woken, <2>1, <2>2
  <2>5. wait_queue[x][i] \notin fail
    BY <1>1, <1>8, <1>9, <2>1, <2>2
  <2>6. waiter'[wait_queue[x][i]] = waiter[wait_queue[x][i]]
    BY <1>told, <2>3, <2>4, <2>5
  <2> QED BY <1>2, <2>1, <2>2, <2>6
<1>17. ASSUME NEW c \in Waiter, waiter'[c] = "wait"
       PROVE  WaitsFor(c)'
  <2>1. /\ waiter[c] = "wait" /\ c \in ToSet(wait_queue[path[c]]) /\ path[c] \in Path
        /\ (fresh => path[c] # p) /\ (away => path[c][1] # k)
    BY <1>10, <1>11, <1>12, <1>17
  <2> DEFINE x == path[c]
  <2>2. x \in Path /\ path'[c] = x /\ WaitsFor(c)
    BY <1>0, <1>2, <2>1
  <2>3. x[1] \in Key /\ <<x[1]>> \in Path /\ Len(<<x[1]>>) = 1 /\ <<x[1]>>[1] = x[1]
        /\ Len(x) \in {1, 2} /\ (Len(x) = 1 <=> x = <<x[1]>>)
    BY <2>2, PathFacts
  <2>4. wait_queue'[x] = wait_queue[x] /\ queue_mode'[x[1]] = queue_mode[x[1]]
    <3>1. ~ (x = p /\ fresh) /\ ~ (away /\ x = q) /\ ~ (away /\ x[1] = k)
      BY <1>1, <2>1
    <3> QED BY <1>3, <1>4, <2>2, <2>3, <3>1
  <2> DEFINE reply == IF Len(x) = 2 /\ database'[<<x[1]>>] \in Value THEN "error" ELSE database'[x]
  <2>5. ASSUME c \notin overlooked' PROVE reply \in {NoValue, "error"}
    <3>1. c \notin overlooked /\ ~ (Len(p) = 2 /\ database[q] = NoValue /\ v = NoValue /\ x = q)
      BY <1>1, <1>2, <2>1, <2>5
    <3>2. QUERY(x) \in {NoValue, "error"}
      BY <2>2, <3>1 DEF WaitsFor
    <3>3. reply = IF Len(x) = 2 /\ database'[<<x[1]>>] \in Value THEN "error" ELSE database'[x]
      OBVIOUS
    <3>4. QUERY(x) = IF Len(x) = 2 /\ database[<<x[1]>>] \in Value THEN "error" ELSE database[x]
      BY DEF QUERY
    <3>5. database[x] \in Value \cup {NoValue, Table} /\ "error" \notin Value \cup {NoValue, Table}
          /\ NoValue # Table /\ Table \notin Value
      BY <1>0, <2>2 DEF DataTyped, DataAssumption
    <3> HIDE DEF x, reply
    <3>6. CASE x[1] # k
      <4>1. x # p /\ x # q /\ <<x[1]>> # p /\ <<x[1]>> # q
        BY <1>1, <2>3, <3>6 DEF k
      <4>2. database'[x] = database[x] /\ database'[<<x[1]>>] = database[<<x[1]>>]
        BY <1>14, <2>2, <2>3, <3>6, <4>1
      <4> QED BY <3>2, <3>3, <3>4, <4>2
    <3>7. CASE x[1] = k /\ Len(x) = 1
      <4>1. x = q /\ database[x] = NoValue
        BY <2>3, <3>2, <3>4, <3>5, <3>7 DEF q, k
      <4>2. CASE Len(p) = 1
        <5>1. x = p /\ v = NoValue
          BY <1>1, <1>7, <2>1, <4>1, <4>2 DEF x
        <5> QED BY <1>14, <2>2, <3>3, <3>7, <5>1
      <4>3. CASE Len(p) = 2
        <5>1. database[p] = NoValue
          BY <1>0, <3>5, <4>1, <4>3 DEF Tree, q
        <5>2. v # NoValue
          BY <3>1, <4>1, <4>3
        <5>3. fresh
          BY <5>1, <5>2, <1>7
        <5>4. queue_mode[k] = "queue"
          BY <2>2, <3>7 DEF WaitsFor, Want, x
        <5> QED BY <1>away, <2>1, <3>7, <5>3, <5>4 DEF x
      <4> QED BY <1>1, <4>2, <4>3
    <3>8. CASE x[1] = k /\ Len(x) = 2
      <4>1. <<x[1]>> = q /\ x # q
        BY <2>3, <3>8 DEF q, k
      <4>2. CASE Len(p) = 1
        <5>1. x # p
          BY <3>8, <4>2
        <5>2. database'[x] = NoValue
          BY <1>14, <2>2, <3>8, <4>1, <4>2, <5>1
        <5> QED BY <3>3, <5>2
      <4>3. CASE Len(p) = 2
        <5>1. database[x] = NoValue
          BY <1>2, <3>2, <3>4, <3>5, <4>1, <4>3
        <5>2. x = p => v = NoValue
          BY <1>7, <2>1, <5>1 DEF x
        <5>3. database'[x] = NoValue
          BY <1>14, <2>2, <4>1, <4>3, <5>1, <5>2
        <5> QED BY <3>3, <5>3
      <4> QED BY <1>1, <4>2, <4>3
    <3> QED BY <2>3, <3>6, <3>7, <3>8
  <2>6. QUERY(path[c])' = reply
    BY <2>2 DEF QUERY
  <2> QED BY <1>2, <2>2, <2>4, <2>5, <2>6 DEF WaitsFor
<1> QED BY <1>13, <1>15, <1>16, <1>17 DEF DataInv

LEMMA WaitsKeep ==
  ASSUME DataAssumption, DataInv, NEW c \in Waiter, NEW p \in Path, WAIT(c, p)
  PROVE  DataInv'
<1>0. DataTyped /\ Tree /\ Queues /\ \A d \in Waiter : waiter[d] = "wait" => WaitsFor(d)
  BY DEF DataInv
<1>1. /\ waiter[c] # "wait" /\ path' = [path EXCEPT ![c] = p]
      /\ overlooked' = overlooked \ {c} /\ UNCHANGED database
  BY DEF WAIT
<1>2. /\ p[1] \in Key /\ \A d \in Waiter \ {c} : path'[d] = path[d]
      /\ DOMAIN path' = Waiter /\ path'[c] = p
  BY <1>0, <1>1, PathFacts DEF DataTyped
<1>3. \A x \in Path : wait_queue[x] \in Seq(Waiter) /\ Len(wait_queue[x]) \in Nat
  BY <1>0 DEF DataTyped
<1>4. \A x \in Path : \A i \in 1..Len(wait_queue[x]) :
        wait_queue[x][i] \in Waiter /\ wait_queue[x][i] # c
  BY <1>0, <1>1, <1>3 DEF Queues
<1>5. \A d \in Waiter : waiter[d] = "wait" => d # c /\ path[d] \in Path /\ path[d][1] \in Key
  BY <1>0, <1>1, PathFacts DEF DataTyped
<1>6. Tree'
  BY <1>0, <1>1 DEF Tree
<1>7. ASSUME NEW s \in {"ok", "error"}, waiter' = [waiter EXCEPT ![c] = s],
             UNCHANGED <<wait_queue, queue_mode>>
      PROVE  DataInv'
  <2>1. /\ waiter' \in [Waiter -> {"idle", "wait", "ok", "error"}] /\ waiter'[c] = s
        /\ \A d \in Waiter \ {c} : waiter'[d] = waiter[d]
    BY <1>0, <1>7 DEF DataTyped
  <2>2. DataTyped'
    BY <1>0, <1>1, <1>2, <1>7, <2>1 DEF DataTyped
  <2>3. Queues'
    BY <1>0, <1>2, <1>4, <1>7, <2>1 DEF Queues
  <2>4. ASSUME NEW d \in Waiter, waiter'[d] = "wait" PROVE WaitsFor(d)'
    <3>1. d # c /\ waiter[d] = "wait" /\ path'[d] = path[d] /\ WaitsFor(d)
      BY <1>0, <1>2, <2>1, <2>4
    <3> QED BY <1>1, <1>7, <3>1 DEF WaitsFor, QUERY
  <2> QED BY <1>6, <2>2, <2>3, <2>4 DEF DataInv
<1>8. ASSUME QUERY(p) = NoValue, queue_mode[p[1]] \in {NoValue, Want(p)},
             queue_mode' = [queue_mode EXCEPT ![p[1]] = Want(p)],
             wait_queue' = [wait_queue EXCEPT ![p] = Append(@, c)],
             waiter' = [waiter EXCEPT ![c] = "wait"]
      PROVE  DataInv'
  <2>1. /\ waiter' \in [Waiter -> {"idle", "wait", "ok", "error"}] /\ waiter'[c] = "wait"
        /\ \A d \in Waiter \ {c} : waiter'[d] = waiter[d]
    BY <1>0, <1>8 DEF DataTyped
  <2>2. /\ wait_queue'[p] = Append(wait_queue[p], c)
        /\ \A x \in Path \ {p} : wait_queue'[x] = wait_queue[x]
        /\ wait_queue' \in [Path -> Seq(Waiter)]
    BY <1>0, <1>8 DEF DataTyped
  <2>3. /\ Len(wait_queue'[p]) = Len(wait_queue[p]) + 1
        /\ wait_queue'[p][Len(wait_queue[p]) + 1] = c
        /\ \A i \in 1..Len(wait_queue[p]) : wait_queue'[p][i] = wait_queue[p][i]
    BY <1>3, <2>2
  <2>4. /\ queue_mode' \in [Key -> {NoValue, "queue", "branch"}] /\ queue_mode'[p[1]] = Want(p)
        /\ \A k \in Key \ {p[1]} : queue_mode'[k] = queue_mode[k]
    BY <1>0, <1>2, <1>8 DEF DataTyped, Want
  <2>5. DataTyped'
    BY <1>0, <1>1, <1>2, <2>1, <2>2, <2>4 DEF DataTyped
  <2>6. Queues'
    <3> SUFFICES ASSUME NEW x \in Path, NEW i \in 1..Len(wait_queue'[x])
                 PROVE  /\ waiter'[wait_queue'[x][i]] = "wait" /\ path'[wait_queue'[x][i]] = x
                        /\ \A y \in 1..Len(wait_queue'[x]) :
                             wait_queue'[x][y] = wait_queue'[x][i] => y = i
      BY DEF Queues
    <3>1. CASE x # p
      BY <1>0, <1>2, <1>4, <2>1, <2>2, <3>1 DEF Queues
    <3>2. CASE x = p
      <4>1. \A j \in 1..Len(wait_queue'[p]) :
              j \in 1..Len(wait_queue[p]) \/ j = Len(wait_queue[p]) + 1
        BY <1>3, <2>3
      <4>2. CASE i = Len(wait_queue[p]) + 1
        BY <1>2, <1>4, <2>1, <2>3, <3>2, <4>1, <4>2
      <4>3. CASE i \in 1..Len(wait_queue[p])
        <5>1. /\ wait_queue'[p][i] = wait_queue[p][i] /\ wait_queue[p][i] \in Waiter \ {c}
              /\ waiter[wait_queue[p][i]] = "wait" /\ path[wait_queue[p][i]] = p
              /\ \A y \in 1..Len(wait_queue[p]) : wait_queue[p][y] = wait_queue[p][i] => y = i
          BY <1>0, <1>4, <2>3, <4>3 DEF Queues
        <5> QED BY <1>2, <2>1, <2>3, <3>2, <4>1, <5>1
      <4> QED BY <3>2, <4>1, <4>2, <4>3
    <3> QED BY <3>1, <3>2
  <2>7. ASSUME NEW d \in Waiter, waiter'[d] = "wait" PROVE WaitsFor(d)'
    <3>1. CASE d = c
      <4>1. \E x \in 1..Len(wait_queue'[p]) : wait_queue'[p][x] = c
        BY <1>3, <2>3
      <4>2. QUERY(p)' = NoValue
        BY <1>1, <1>8 DEF QUERY
      <4>3. QUERY(path[c])' = NoValue
        BY <1>2, <4>2 DEF QUERY
      <4> QED BY <1>2, <2>4, <3>1, <4>1, <4>3 DEF WaitsFor, Want
    <3>2. CASE d # c
      <4>1. /\ waiter[d] = "wait" /\ path'[d] = path[d] /\ WaitsFor(d)
            /\ path[d] \in Path /\ path[d][1] \in Key
        BY <1>0, <1>2, <1>5, <2>1, <2>7, <3>2
      <4>2. \E x \in 1..Len(wait_queue'[path[d]]) : wait_queue'[path[d]][x] = d
        <5>1. PICK x \in 1..Len(wait_queue[path[d]]) : wait_queue[path[d]][x] = d
          BY <4>1 DEF WaitsFor
        <5>2. CASE path[d] = p
          <6>1. x \in 1..Len(wait_queue'[p]) /\ wait_queue'[p][x] = d
            BY <1>3, <2>3, <5>1, <5>2
          <6> QED BY <5>2, <6>1
        <5>3. CASE path[d] # p
          <6>1. wait_queue'[path[d]] = wait_queue[path[d]]
            BY <2>2, <4>1, <5>3
          <6> QED BY <5>1, <6>1
        <5> QED BY <5>2, <5>3
      <4>3. queue_mode'[path[d][1]] = queue_mode[path[d][1]]
        <5>1. queue_mode[path[d][1]] \in {"queue", "branch"}
          BY <4>1 DEF WaitsFor, Want
        <5>2. NoValue \notin {"queue", "branch"}
          BY DEF DataAssumption
        <5> QED BY <1>8, <2>4, <4>1, <5>1, <5>2
      <4>4. QUERY(path[d])' = QUERY(path[d])
        BY <1>1, <4>1 DEF QUERY
      <4> QED BY <1>1, <3>2, <4>1, <4>2, <4>3, <4>4 DEF WaitsFor, Want
    <3> QED BY <3>1, <3>2
  <2> QED BY <1>6, <2>5, <2>6, <2>7 DEF DataInv
<1>9. \/ \E s \in {"ok", "error"} : waiter' = [waiter EXCEPT ![c] = s] /\ UNCHANGED <<wait_queue, queue_mode>>
      \/ /\ QUERY(p) = NoValue /\ queue_mode[p[1]] \in {NoValue, Want(p)}
         /\ queue_mode' = [queue_mode EXCEPT ![p[1]] = Want(p)]
         /\ wait_queue' = [wait_queue EXCEPT ![p] = Append(@, c)]
         /\ waiter' = [waiter EXCEPT ![c] = "wait"]
  BY DEF WAIT, Want
<1> QED BY <1>7, <1>8, <1>9

LEMMA InitDataInv == ASSUME DataInit PROVE DataInv
<1>1. /\ database = [p \in Path |-> NoValue] /\ wait_queue = [p \in Path |-> <<>>]
      /\ queue_mode = [k \in Key |-> NoValue] /\ waiter = [c \in Waiter |-> "idle"]
      /\ path = [c \in Waiter |-> <<>>]
  BY DEF DataInit
<1>2. <<>> \in Seq(Waiter) /\ 1..Len(<<>>) = {}
  OBVIOUS
<1>3. DataTyped
  BY <1>1, <1>2 DEF DataTyped
<1>4. Tree /\ Queues
  BY <1>1, <1>2 DEF Tree, Queues
<1> QED BY <1>1, <1>3, <1>4 DEF DataInv

LEMMA DataInvNext == ASSUME DataAssumption, DataInv, [DataNext]_dataVars PROVE DataInv'
<1>1. CASE UNCHANGED dataVars
  BY <1>1 DEF dataVars, DataInv, DataTyped, Tree, Queues, WaitsFor, QUERY
<1> QED BY <1>1, UpdateKeeps, WaitsKeep DEF DataNext

LEMMA Found == ASSUME DataInv PROVE WaitersFound
<1>0. DataTyped /\ Tree /\ Queues /\ \A c \in Waiter : waiter[c] = "wait" => WaitsFor(c)
  BY DEF DataInv
<1>1. \A p \in Path : DOMAIN wait_queue[p] = 1..Len(wait_queue[p])
  BY <1>0 DEF DataTyped
<1>2. ASSUME NEW c \in Waiter, waiter[c] = "wait"
      PROVE  Cardinality({i \in DOMAIN wait_queue[path[c]] : wait_queue[path[c]][i] = c}) = 1
  <2>1. path[c] \in Path
    BY <1>0, <1>2 DEF DataTyped
  <2>2. PICK x \in 1..Len(wait_queue[path[c]]) : wait_queue[path[c]][x] = c
    BY <1>0, <1>2 DEF WaitsFor
  <2>3. {i \in DOMAIN wait_queue[path[c]] : wait_queue[path[c]][i] = c} = {x}
    BY <1>0, <1>1, <2>1, <2>2 DEF Queues
  <2> QED BY <2>3, FS_Singleton
<1>3. \A c \in Waiter : waiter[c] = "wait" =>
        /\ QUERY(path[c]) \in {NoValue, "error"} \/ c \in overlooked
        /\ queue_mode[path[c][1]] = (IF Len(path[c]) = 1 THEN "queue" ELSE "branch")
  BY <1>0 DEF WaitsFor, Want
<1>4. \A p \in Path : \A i \in DOMAIN wait_queue[p] :
        waiter[wait_queue[p][i]] = "wait" /\ path[wait_queue[p][i]] = p
  BY <1>0, <1>1 DEF Queues
<1> QED BY <1>2, <1>3, <1>4 DEF WaitersFound

\* For any keys, values and clients: who waits for a path in datacenterd is in the queue
\* where the next value finds it, once, and no queue has anybody else.
THEOREM DataCenterCorrect == ASSUME DataAssumption PROVE DataSpec => []WaitersFound
<1> QED BY InitDataInv, DataInvNext, Found, PTL DEF DataSpec

-----------------------------------------------------------------------------
(* The C module loader.  A search that ends under the lock has passed      *)
(* every entry (Passed), and an entry is complete before it is counted     *)
(* (Filling).                                                              *)

Entry == [name : Library \cup {Nobody}, owned : BOOLEAN, init : BOOLEAN]
Steps == {"idle", "look", "lock", "again", "open", "symbols", "copy", "count", "unlock"}

LoaderTyped ==
  /\ modules \in [1..MAX_MODULE_TYPE -> Entry]
  /\ module_count \in 0..MAX_MODULE_TYPE
  /\ loader_pc \in [Loader -> Steps]
  /\ asked \in [Loader -> Library \cup {Nobody}]
  /\ entry \in [Loader -> Nat \ {0}]
  /\ found \in [Loader -> Nat]

\* Who is between Lock and Unlock holds the lock.
Inside(t) == loader_pc[t] \in {"again", "open", "symbols", "copy", "count", "unlock"}
Held == \A t \in Loader : Inside(t) <=> module_lock = t

\* The table is what LoadedOnce says of it.
Whole ==
  /\ \A x, y \in 1..module_count : modules[x].name = modules[y].name => x = y
  /\ \A x \in 1..module_count : modules[x].owned /\ modules[x].init

\* The entries a search has passed have other names, all of them when it has ended
\* under the lock.
Passed(t) ==
  /\ loader_pc[t] \in {"look", "again"} =>
       entry[t] <= module_count + 1 /\ \A x \in 1..module_count : x < entry[t] => modules[x].name # asked[t]
  /\ loader_pc[t] \in {"open", "symbols", "copy", "count"} =>
       \A x \in 1..module_count : modules[x].name # asked[t]

\* The entry that is being filled
Filling(t) ==
  /\ loader_pc[t] \in {"symbols", "copy", "count"} =>
       module_count < MAX_MODULE_TYPE /\ modules[module_count + 1].name = asked[t]
  /\ loader_pc[t] \in {"copy", "count"} => modules[module_count + 1].init
  /\ loader_pc[t] = "count" => modules[module_count + 1].owned

Result(t) ==
  IF found[t] # 0
  THEN found[t] <= module_count /\ modules[found[t]].name = asked[t]
  ELSE asked[t] \in Missing \cup Broken \/ module_count = MAX_MODULE_TYPE

Results(t) ==
  /\ loader_pc[t] = "unlock" \/ (loader_pc[t] = "idle" /\ asked[t] # Nobody) => Result(t)
  /\ loader_pc[t] \notin {"idle", "unlock"} => found[t] = 0

LoaderInv ==
  LoaderTyped /\ Held /\ Whole /\ \A t \in Loader : Passed(t) /\ Filling(t) /\ Results(t)

\* A step of t that leaves the table alone.
LEMMA TableStays ==
  ASSUME LoaderInv, NEW t \in Loader, UNCHANGED <<modules, module_count>>,
         \A u \in Loader \ {t} : /\ loader_pc'[u] = loader_pc[u] /\ asked'[u] = asked[u]
                                 /\ entry'[u] = entry[u] /\ found'[u] = found[u],
         LoaderTyped', Held', Passed(t)', Filling(t)', Results(t)'
  PROVE  LoaderInv'
<1>1. Whole'
  BY DEF LoaderInv, Whole
<1>2. ASSUME NEW u \in Loader PROVE Passed(u)' /\ Filling(u)' /\ Results(u)'
  <2>1. CASE u = t
    BY <2>1
  <2>2. CASE u # t
    BY <2>2 DEF LoaderInv, Passed, Filling, Results, Result
  <2> QED BY <2>1, <2>2
<1> QED BY <1>1, <1>2 DEF LoaderInv

\* A step of t that fills the entry after the last.
LEMMA EntryFills ==
  ASSUME LoaderAssumption, LoaderInv, NEW t \in Loader, Inside(t), module_count < MAX_MODULE_TYPE,
         \A x \in 1..module_count : modules'[x] = modules[x], UNCHANGED <<module_count, asked, entry, found>>,
         \A u \in Loader \ {t} : loader_pc'[u] = loader_pc[u],
         LoaderTyped', Held', Passed(t)', Filling(t)', Results(t)'
  PROVE  LoaderInv'
<1>0. LoaderTyped /\ Held /\ Whole /\ \A u \in Loader : Passed(u) /\ Filling(u) /\ Results(u)
  BY DEF LoaderInv
<1>1. Whole'
  BY <1>0 DEF Whole
<1>2. ASSUME NEW u \in Loader PROVE Passed(u)' /\ Filling(u)' /\ Results(u)'
  <2>1. CASE u = t
    BY <2>1
  <2>2. CASE u # t
    <3>1. ~ Inside(u) /\ loader_pc'[u] = loader_pc[u]
      BY <1>0, <2>2 DEF Held
    <3>2. Filling(u)'
      BY <3>1 DEF Filling, Inside
    <3>3. Passed(u)'
      BY <1>0, <3>1 DEF Passed
    <3>4. Results(u)'
      <4>1. found[u] \in Nat /\ module_count \in Nat
        BY <1>0 DEF LoaderTyped
      <4>2. found[u] # 0 /\ found[u] <= module_count => found[u] \in 1..module_count
        BY <4>1
      <4> QED BY <1>0, <3>1, <4>2 DEF Results, Result
    <3> QED BY <3>2, <3>3, <3>4
  <2> QED BY <2>1, <2>2
<1> QED BY <1>1, <1>2 DEF LoaderInv

\* What a step of t to s leaves: the programs of the others, and who is inside.
LEMMA Goes ==
  ASSUME LoaderAssumption, LoaderTyped, Held, NEW t \in Loader, NEW s \in Steps, Go(t, s)
  PROVE  /\ loader_pc' \in [Loader -> Steps] /\ loader_pc'[t] = s
         /\ \A u \in Loader \ {t} : loader_pc'[u] = loader_pc[u]
         /\ \/ (Inside(t)' <=> Inside(t)) /\ UNCHANGED module_lock
            \/ Inside(t)' /\ module_lock = Nobody /\ module_lock' = t
            \/ Inside(t) /\ ~ Inside(t)' /\ module_lock' = Nobody
            => Held'
<1>1. /\ loader_pc' \in [Loader -> Steps] /\ loader_pc'[t] = s
      /\ \A u \in Loader \ {t} : loader_pc'[u] = loader_pc[u]
  BY DEF LoaderTyped, Go
<1>2. \A u \in Loader \ {t} : Inside(u)' <=> Inside(u)
  BY <1>1 DEF Inside
<1>3. Nobody \notin Loader
  BY DEF LoaderAssumption
<1>4. ASSUME Inside(t)' <=> Inside(t), UNCHANGED module_lock PROVE Held'
  BY <1>2, <1>4 DEF Held
<1>5. ASSUME Inside(t)', module_lock = Nobody, module_lock' = t PROVE Held'
  BY <1>2, <1>3, <1>5 DEF Held
<1>6. ASSUME Inside(t), ~ Inside(t)', module_lock' = Nobody PROVE Held'
  BY <1>2, <1>3, <1>6 DEF Held
<1> QED BY <1>1, <1>4, <1>5, <1>6

LEMMA QueryKeeps ==
  ASSUME LoaderAssumption, LoaderInv, NEW t \in Loader, NEW x \in Library, fengnet_module_query(t, x)
  PROVE  LoaderInv'
<1>0. LoaderTyped /\ Held
  BY DEF LoaderInv
<1>1. /\ loader_pc[t] = "idle" /\ asked' = [asked EXCEPT ![t] = x]
      /\ entry' = [entry EXCEPT ![t] = 1] /\ found' = [found EXCEPT ![t] = 0]
      /\ Go(t, "look") /\ UNCHANGED <<modules, module_count, module_lock>> /\ "look" \in Steps
  BY DEF fengnet_module_query, Steps
<1>2. /\ loader_pc' \in [Loader -> Steps] /\ loader_pc'[t] = "look"
      /\ \A u \in Loader \ {t} : loader_pc'[u] = loader_pc[u]
      /\ ~ Inside(t) /\ ~ Inside(t)'
  BY <1>0, <1>1, Goes DEF Inside
<1>3. Held'
  BY <1>0, <1>1, <1>2, Goes
<1>4. /\ asked' \in [Loader -> Library \cup {Nobody}] /\ entry' \in [Loader -> Nat \ {0}]
      /\ found' \in [Loader -> Nat] /\ entry'[t] = 1 /\ found'[t] = 0
      /\ \A u \in Loader \ {t} : asked'[u] = asked[u] /\ entry'[u] = entry[u] /\ found'[u] = found[u]
  BY <1>0, <1>1 DEF LoaderTyped
<1>5. LoaderTyped'
  BY <1>0, <1>1, <1>2, <1>4 DEF LoaderTyped
<1>6. Passed(t)'
  BY <1>0, <1>1, <1>2, <1>4 DEF Passed, LoaderTyped
<1>7. Filling(t)' /\ Results(t)'
  BY <1>2, <1>4 DEF Filling, Results
<1> QED BY <1>1, <1>2, <1>3, <1>4, <1>5, <1>6, <1>7, TableStays

LEMMA SearchKeeps ==
  ASSUME LoaderAssumption, LoaderInv, NEW t \in Loader, _query(t) PROVE LoaderInv'
<1>0. LoaderTyped /\ Held /\ Passed(t) /\ Filling(t) /\ Results(t)
  BY DEF LoaderInv
<1>1. /\ loader_pc[t] \in {"look", "again"}
      /\ UNCHANGED <<modules, module_count, module_lock, asked>>
  BY DEF _query
<1>2. /\ entry[t] \in Nat \ {0} /\ module_count \in Nat /\ found[t] = 0
      /\ entry[t] <= module_count + 1
      /\ \A x \in 1..module_count : x < entry[t] => modules[x].name # asked[t]
  BY <1>0, <1>1 DEF LoaderTyped, Passed, Results
<1>3. CASE /\ entry[t] <= module_count /\ modules[entry[t]].name # asked[t]
           /\ entry' = [entry EXCEPT ![t] = @ + 1] /\ UNCHANGED <<loader_pc, found>>
  <2>1. /\ entry' \in [Loader -> Nat \ {0}] /\ entry'[t] = entry[t] + 1
        /\ \A u \in Loader \ {t} : entry'[u] = entry[u]
    BY <1>0, <1>3 DEF LoaderTyped
  <2>2. LoaderTyped' /\ Held'
    BY <1>0, <1>1, <1>3, <2>1 DEF LoaderTyped, Held, Inside
  <2>3. Passed(t)'
    <3>1. \A x \in 1..module_count : x < entry'[t] => x < entry[t] \/ x = entry[t]
      BY <1>2, <2>1
    <3>2. \A x \in 1..module_count : x < entry'[t] => modules[x].name # asked[t]
      BY <1>2, <1>3, <3>1
    <3>3. entry'[t] <= module_count + 1
      BY <1>2, <1>3, <2>1
    <3> QED BY <1>1, <1>3, <3>2, <3>3 DEF Passed
  <2>4. Filling(t)' /\ Results(t)'
    BY <1>0, <1>1, <1>3 DEF Filling, Results, Result
  <2> QED BY <1>1, <1>3, <2>1, <2>2, <2>3, <2>4, TableStays
<1>4. CASE /\ entry[t] <= module_count /\ modules[entry[t]].name = asked[t]
           /\ found' = [found EXCEPT ![t] = entry[t]]
           /\ Go(t, IF loader_pc[t] = "look" THEN "idle" ELSE "unlock")
           /\ UNCHANGED entry
  <2>1. PICK s \in {"idle", "unlock"} :
          s = (IF loader_pc[t] = "look" THEN "idle" ELSE "unlock") /\ s \in Steps
    BY DEF Steps
  <2>2. Go(t, s)
    BY <1>4, <2>1
  <2>3. /\ loader_pc' \in [Loader -> Steps] /\ loader_pc'[t] = s
        /\ \A u \in Loader \ {t} : loader_pc'[u] = loader_pc[u]
    BY <1>0, <2>1, <2>2, Goes
  <2>4. Inside(t)' <=> Inside(t)
    BY <1>1, <2>1, <2>3 DEF Inside
  <2>5. Held'
    BY <1>0, <1>1, <2>1, <2>2, <2>4, Goes
  <2>6. /\ found' \in [Loader -> Nat] /\ found'[t] = entry[t]
        /\ \A u \in Loader \ {t} : found'[u] = found[u]
    BY <1>0, <1>2, <1>4 DEF LoaderTyped
  <2>7. LoaderTyped'
    BY <1>0, <1>1, <1>4, <2>3, <2>6 DEF LoaderTyped
  <2>8. Passed(t)' /\ Filling(t)'
    BY <2>1, <2>3 DEF Passed, Filling
  <2>9. Results(t)'
    BY <1>1, <1>2, <1>4, <2>1, <2>3, <2>6 DEF Results, Result
  <2> QED BY <1>1, <1>4, <2>3, <2>5, <2>6, <2>7, <2>8, <2>9, TableStays
<1>5. CASE /\ entry[t] > module_count
           /\ Go(t, IF loader_pc[t] = "look" THEN "lock" ELSE "open")
           /\ UNCHANGED <<entry, found>>
  <2>1. PICK s \in {"lock", "open"} :
          s = (IF loader_pc[t] = "look" THEN "lock" ELSE "open") /\ s \in Steps
    BY DEF Steps
  <2>2. Go(t, s)
    BY <1>5, <2>1
  <2>3. /\ loader_pc' \in [Loader -> Steps] /\ loader_pc'[t] = s
        /\ \A u \in Loader \ {t} : loader_pc'[u] = loader_pc[u]
    BY <1>0, <2>1, <2>2, Goes
  <2>4. Inside(t)' <=> Inside(t)
    BY <1>1, <2>1, <2>3 DEF Inside
  <2>5. Held'
    BY <1>0, <1>1, <2>1, <2>2, <2>4, Goes
  <2>6. LoaderTyped'
    BY <1>0, <1>1, <1>5, <2>3 DEF LoaderTyped
  <2>7. Passed(t)'
    <3>1. \A x \in 1..module_count : modules[x].name # asked[t]
      BY <1>2, <1>5
    <3> QED BY <1>1, <2>1, <2>3, <3>1 DEF Passed
  <2>8. Filling(t)' /\ Results(t)'
    BY <1>2, <1>5, <2>1, <2>3 DEF Filling, Results
  <2> QED BY <1>1, <1>5, <2>3, <2>5, <2>6, <2>7, <2>8, TableStays
<1> QED BY <1>3, <1>4, <1>5 DEF _query

LEMMA LockKeeps ==
  ASSUME LoaderAssumption, LoaderInv, NEW t \in Loader, Lock(t) PROVE LoaderInv'
<1>0. LoaderTyped /\ Held /\ Results(t)
  BY DEF LoaderInv
<1>1. /\ loader_pc[t] = "lock" /\ module_lock = Nobody /\ module_lock' = t
      /\ entry' = [entry EXCEPT ![t] = 1] /\ Go(t, "again") /\ "again" \in Steps
      /\ UNCHANGED <<modules, module_count, asked, found>>
  BY DEF Lock, Locked, Steps
<1>2. /\ loader_pc' \in [Loader -> Steps] /\ loader_pc'[t] = "again"
      /\ \A u \in Loader \ {t} : loader_pc'[u] = loader_pc[u]
  BY <1>0, <1>1, Goes
<1>3. Inside(t)'
  BY <1>2 DEF Inside
<1>4. Held'
  BY <1>0, <1>1, <1>3, Goes
<1>5. /\ entry' \in [Loader -> Nat \ {0}] /\ entry'[t] = 1
      /\ \A u \in Loader \ {t} : entry'[u] = entry[u]
  BY <1>0, <1>1 DEF LoaderTyped
<1>6. LoaderTyped'
  BY <1>0, <1>1, <1>2, <1>5 DEF LoaderTyped
<1>7. Passed(t)'
  BY <1>0, <1>1, <1>2, <1>5 DEF Passed, LoaderTyped
<1>8. Filling(t)' /\ Results(t)'
  BY <1>0, <1>1, <1>2 DEF Filling, Results
<1> QED BY <1>1, <1>2, <1>4, <1>5, <1>6, <1>7, <1>8, TableStays

LEMMA UnlockKeeps ==
  ASSUME LoaderAssumption, LoaderInv, NEW t \in Loader, Unlock(t) PROVE LoaderInv'
<1>0. LoaderTyped /\ Held /\ Results(t)
  BY DEF LoaderInv
<1>1. /\ loader_pc[t] = "unlock" /\ module_lock' = Nobody /\ Go(t, "idle") /\ "idle" \in Steps
      /\ UNCHANGED <<modules, module_count, asked, entry, found>>
  BY DEF Unlock, Steps
<1>2. /\ loader_pc' \in [Loader -> Steps] /\ loader_pc'[t] = "idle"
      /\ \A u \in Loader \ {t} : loader_pc'[u] = loader_pc[u]
  BY <1>0, <1>1, Goes
<1>3. Inside(t) /\ ~ Inside(t)'
  BY <1>1, <1>2 DEF Inside
<1>4. Held'
  BY <1>0, <1>1, <1>3, Goes
<1>5. LoaderTyped'
  BY <1>0, <1>1, <1>2 DEF LoaderTyped
<1>6. Passed(t)' /\ Filling(t)'
  BY <1>2 DEF Passed, Filling
<1>7. Results(t)'
  BY <1>0, <1>1, <1>2 DEF Results, Result
<1> QED BY <1>1, <1>2, <1>4, <1>5, <1>6, <1>7, TableStays

\* The step of an insider that sets one field of the entry after the last
LEMMA FillKeeps ==
  ASSUME LoaderAssumption, LoaderInv, NEW t \in Loader, NEW s \in Steps, NEW e \in Entry,
         Inside(t), s # "idle", s # "look", s # "lock", module_count < MAX_MODULE_TYPE,
         modules' = [modules EXCEPT ![module_count + 1] = e], Go(t, s),
         UNCHANGED <<module_count, module_lock, asked, entry, found>>,
         Passed(t)', Filling(t)', Results(t)'
  PROVE  LoaderInv'
<1>0. LoaderTyped /\ Held
  BY DEF LoaderInv
<1>1. module_count + 1 \in 1..MAX_MODULE_TYPE /\ module_count \in Nat
  BY <1>0 DEF LoaderTyped, LoaderAssumption
<1>2. /\ modules' \in [1..MAX_MODULE_TYPE -> Entry]
      /\ \A x \in 1..module_count : modules'[x] = modules[x]
  BY <1>0, <1>1 DEF LoaderTyped
<1>3. /\ loader_pc' \in [Loader -> Steps] /\ loader_pc'[t] = s
      /\ \A u \in Loader \ {t} : loader_pc'[u] = loader_pc[u]
  BY <1>0, Goes
<1>4. Inside(t)'
  BY <1>3 DEF Inside, Steps
<1>5. Held'
  BY <1>0, <1>4, Goes
<1>6. LoaderTyped'
  BY <1>0, <1>2, <1>3 DEF LoaderTyped
<1> QED BY <1>2, <1>3, <1>5, <1>6, EntryFills

LEMMA NotFilled ==
  ASSUME LoaderAssumption, LoaderInv, NEW t \in Loader, Inside(t), Go(t, "unlock"),
         UNCHANGED <<modules, module_count, module_lock, asked, entry, found>>, Result(t)
  PROVE  LoaderInv'
<1>0. LoaderTyped /\ Held /\ "unlock" \in Steps
  BY DEF LoaderInv, Steps
<1>1. /\ loader_pc' \in [Loader -> Steps] /\ loader_pc'[t] = "unlock"
      /\ \A u \in Loader \ {t} : loader_pc'[u] = loader_pc[u]
  BY <1>0, Goes
<1>2. Inside(t)'
  BY <1>1 DEF Inside
<1>3. Held'
  BY <1>0, <1>2, Goes
<1>4. LoaderTyped'
  BY <1>0, <1>1 DEF LoaderTyped
<1>5. Passed(t)' /\ Filling(t)' /\ Results(t)'
  BY <1>1 DEF Passed, Filling, Results, Result
<1> QED BY <1>1, <1>3, <1>4, <1>5, TableStays

LEMMA OpenKeeps ==
  ASSUME LoaderAssumption, LoaderInv, NEW t \in Loader, _try_open(t) PROVE LoaderInv'
<1>0. LoaderTyped /\ Passed(t) /\ Results(t)
  BY DEF LoaderInv
<1>1. /\ loader_pc[t] = "open" /\ Inside(t) /\ found[t] = 0
      /\ UNCHANGED <<module_count, module_lock, asked, entry, found>>
  BY <1>0 DEF _try_open, Inside, Results
<1>2. CASE module_count = MAX_MODULE_TYPE \/ asked[t] \in Missing
  <2>1. Result(t) /\ Go(t, "unlock") /\ UNCHANGED modules
    BY <1>1, <1>2 DEF Result, _try_open
  <2> QED BY <1>1, <2>1, NotFilled
<1>3. CASE ~ (module_count = MAX_MODULE_TYPE \/ asked[t] \in Missing)
  <2> DEFINE k == module_count + 1
             e == [modules[k] EXCEPT !.name = asked[t], !.owned = FALSE]
  <2>1. module_count < MAX_MODULE_TYPE /\ k \in 1..MAX_MODULE_TYPE /\ module_count \in Nat
    BY <1>0, <1>3 DEF LoaderTyped, LoaderAssumption
  <2>2. modules[k] \in Entry /\ asked[t] \in Library \cup {Nobody}
    BY <1>0, <2>1 DEF LoaderTyped
  <2>3. e \in Entry /\ e.name = asked[t]
    BY <2>2 DEF Entry
  <2>4. /\ modules' = [modules EXCEPT ![k] = e]
        /\ Go(t, "symbols") /\ "symbols" \in Steps
    BY <1>3 DEF _try_open, Steps
  <2> HIDE DEF k, e
  <2>5. modules'[k] = e /\ \A x \in 1..module_count : modules'[x] = modules[x]
    BY <1>0, <2>1, <2>4 DEF LoaderTyped, k
  <2>6. loader_pc'[t] = "symbols"
    BY <1>0, <2>4 DEF LoaderTyped, Go
  <2>7. Passed(t)'
    BY <1>0, <1>1, <2>5, <2>6 DEF Passed
  <2>8. Filling(t)' /\ Results(t)'
    BY <1>1, <2>1, <2>3, <2>5, <2>6 DEF Filling, Results, k
  <2> QED BY <1>1, <2>1, <2>3, <2>4, <2>7, <2>8, FillKeeps DEF k
<1> QED BY <1>2, <1>3

LEMMA SymKeeps ==
  ASSUME LoaderAssumption, LoaderInv, NEW t \in Loader, open_sym(t) PROVE LoaderInv'
<1>0. LoaderTyped /\ Passed(t) /\ Filling(t) /\ Results(t)
  BY DEF LoaderInv
<1> DEFINE k == module_count + 1
           e == [modules[k] EXCEPT !.init = asked[t] \notin Broken]
           s == IF asked[t] \in Broken THEN "unlock" ELSE "copy"
<1>1. /\ loader_pc[t] = "symbols" /\ Inside(t) /\ found[t] = 0
      /\ UNCHANGED <<module_count, module_lock, asked, entry, found>>
      /\ module_count < MAX_MODULE_TYPE
  BY <1>0 DEF open_sym, Inside, Results, Filling
<1>2. k \in 1..MAX_MODULE_TYPE /\ module_count \in Nat
  BY <1>0, <1>1 DEF LoaderTyped, LoaderAssumption
<1>3. modules[k] \in Entry
  BY <1>0, <1>2 DEF LoaderTyped
<1>4. e \in Entry /\ e.name = modules[k].name /\ e.init = (asked[t] \notin Broken)
  <2>1. (asked[t] \notin Broken) \in BOOLEAN
    OBVIOUS
  <2> QED BY <1>3, <2>1 DEF Entry
<1>5. modules' = [modules EXCEPT ![k] = e] /\ Go(t, s)
  BY DEF open_sym
<1>6. s \in Steps /\ s \in {"unlock", "copy"} /\ (s = "unlock" <=> asked[t] \in Broken)
  BY DEF Steps
<1>7. modules[k].name = asked[t]
  BY <1>0, <1>1 DEF Filling
<1> HIDE DEF k, e, s
<1>8. modules'[k] = e /\ \A x \in 1..module_count : modules'[x] = modules[x]
  BY <1>0, <1>2, <1>5 DEF LoaderTyped, k
<1>9. loader_pc'[t] = s
  BY <1>0, <1>5 DEF LoaderTyped, Go
<1>10. Passed(t)'
  BY <1>0, <1>1, <1>6, <1>8, <1>9 DEF Passed
<1>11. Filling(t)'
  BY <1>1, <1>4, <1>6, <1>7, <1>8, <1>9 DEF Filling, k
<1>12. Results(t)'
  BY <1>1, <1>6, <1>9 DEF Results, Result
<1> QED BY <1>1, <1>4, <1>5, <1>6, <1>10, <1>11, <1>12, FillKeeps DEF k

LEMMA CopyKeeps ==
  ASSUME LoaderAssumption, LoaderInv, NEW t \in Loader, CopyName(t) PROVE LoaderInv'
<1>0. LoaderTyped /\ Passed(t) /\ Filling(t) /\ Results(t)
  BY DEF LoaderInv
<1> DEFINE k == module_count + 1
           e == [modules[k] EXCEPT !.owned = TRUE]
<1>1. /\ loader_pc[t] = "copy" /\ Inside(t) /\ found[t] = 0
      /\ UNCHANGED <<module_count, module_lock, asked, entry, found>>
      /\ module_count < MAX_MODULE_TYPE
  BY <1>0 DEF CopyName, Inside, Results, Filling
<1>2. k \in 1..MAX_MODULE_TYPE /\ module_count \in Nat
  BY <1>0, <1>1 DEF LoaderTyped, LoaderAssumption
<1>3. modules[k] \in Entry
  BY <1>0, <1>2 DEF LoaderTyped
<1>4. e \in Entry /\ e.name = modules[k].name /\ e.init = modules[k].init /\ e.owned = TRUE
  BY <1>3 DEF Entry
<1>5. modules' = [modules EXCEPT ![k] = e] /\ Go(t, "count") /\ "count" \in Steps
  BY DEF CopyName, Steps
<1>6. modules[k].name = asked[t] /\ modules[k].init
  BY <1>0, <1>1 DEF Filling
<1> HIDE DEF k, e
<1>7. modules'[k] = e /\ \A x \in 1..module_count : modules'[x] = modules[x]
  BY <1>0, <1>2, <1>5 DEF LoaderTyped, k
<1>8. loader_pc'[t] = "count"
  BY <1>0, <1>5 DEF LoaderTyped, Go
<1>9. Passed(t)'
  BY <1>0, <1>1, <1>7, <1>8 DEF Passed
<1>10. Filling(t)' /\ Results(t)'
  BY <1>1, <1>4, <1>6, <1>7, <1>8 DEF Filling, Results, k
<1> QED BY <1>1, <1>4, <1>5, <1>9, <1>10, FillKeeps DEF k

LEMMA CountKeeps ==
  ASSUME LoaderAssumption, LoaderInv, NEW t \in Loader, Publish(t) PROVE LoaderInv'
<1>0. LoaderTyped /\ Held /\ Whole /\ \A u \in Loader : Passed(u) /\ Filling(u) /\ Results(u)
  BY DEF LoaderInv
<1>1. /\ loader_pc[t] = "count" /\ Inside(t) /\ module_count' = module_count + 1
      /\ found' = [found EXCEPT ![t] = module_count'] /\ Go(t, "unlock") /\ "unlock" \in Steps
      /\ UNCHANGED <<modules, module_lock, asked, entry>>
  BY DEF Publish, Inside, Steps
<1> DEFINE k == module_count + 1
<1>2. /\ module_count \in Nat /\ module_count < MAX_MODULE_TYPE /\ k \in 1..MAX_MODULE_TYPE
      /\ modules[k].name = asked[t] /\ modules[k].init /\ modules[k].owned
  BY <1>0, <1>1 DEF LoaderTyped, Filling, LoaderAssumption
<1>3. \A x \in 1..module_count : modules[x].name # asked[t]
  BY <1>0, <1>1 DEF Passed
<1>4. module_count' = k /\ \A x \in 1..k : x \in 1..module_count \/ x = k
  BY <1>1, <1>2
<1> HIDE DEF k
<1>5. /\ loader_pc' \in [Loader -> Steps] /\ loader_pc'[t] = "unlock"
      /\ \A u \in Loader \ {t} : loader_pc'[u] = loader_pc[u]
  BY <1>0, <1>1, Goes
<1>6. Held'
  <2>1. Inside(t)'
    BY <1>5 DEF Inside
  <2> QED BY <1>0, <1>1, <2>1, Goes
<1>7. /\ found' \in [Loader -> Nat] /\ found'[t] = k /\ \A u \in Loader \ {t} : found'[u] = found[u]
      /\ k # 0
  BY <1>0, <1>1, <1>2, <1>4 DEF LoaderTyped
<1>8. LoaderTyped'
  BY <1>0, <1>1, <1>2, <1>4, <1>5, <1>7 DEF LoaderTyped
<1>9. Whole'
  <2>1. \A x, y \in 1..k : modules[x].name = modules[y].name => x = y
    BY <1>0, <1>2, <1>3, <1>4 DEF Whole
  <2>2. \A x \in 1..k : modules[x].owned /\ modules[x].init
    BY <1>0, <1>2, <1>4 DEF Whole
  <2> QED BY <1>1, <1>4, <2>1, <2>2 DEF Whole
<1>10. ASSUME NEW u \in Loader PROVE Passed(u)' /\ Filling(u)' /\ Results(u)'
  <2>1. CASE u = t
    <3>1. k <= module_count' /\ modules'[k].name = asked'[t]
      BY <1>1, <1>2, <1>4 DEF k
    <3> QED BY <1>5, <1>7, <2>1, <3>1 DEF Passed, Filling, Results, Result
  <2>2. CASE u # t
    <3>1. ~ Inside(u) /\ loader_pc'[u] = loader_pc[u] /\ found'[u] = found[u]
      BY <1>0, <1>1, <1>5, <1>7, <2>2 DEF Held
    <3>2. Filling(u)'
      BY <3>1 DEF Filling, Inside
    <3>3. Passed(u)'
      <4>1. ASSUME loader_pc[u] = "look"
            PROVE  /\ entry[u] <= module_count' + 1
                   /\ \A x \in 1..module_count' : x < entry[u] => modules[x].name # asked[u]
        <5>1. /\ entry[u] \in Nat /\ entry[u] <= module_count + 1
              /\ \A x \in 1..module_count : x < entry[u] => modules[x].name # asked[u]
          BY <1>0, <4>1 DEF Passed, LoaderTyped
        <5>2. \A x \in 1..k : x < entry[u] => x \in 1..module_count
          BY <1>2, <5>1 DEF k
        <5>3. entry[u] <= module_count' + 1
          BY <1>2, <1>4, <5>1 DEF k
        <5> QED BY <1>4, <5>1, <5>2, <5>3
      <4> QED BY <1>1, <3>1, <4>1 DEF Passed, Inside
    <3>4. Results(u)'
      <4>1. found[u] \in Nat
        BY <1>0 DEF LoaderTyped
      <4>2. found[u] <= module_count => found[u] <= module_count'
        BY <1>1, <1>2, <4>1
      <4>3. module_count # MAX_MODULE_TYPE
        BY <1>2, LoaderAssumption DEF LoaderAssumption
      <4>4. Results(u)
        BY <1>0
      <4> QED BY <1>1, <3>1, <4>2, <4>3, <4>4 DEF Results, Result
    <3> QED BY <3>2, <3>3, <3>4
  <2> QED BY <2>1, <2>2
<1> QED BY <1>6, <1>8, <1>9, <1>10 DEF LoaderInv

LEMMA LoaderInits == ASSUME LoaderAssumption, LoaderInit PROVE LoaderInv
<1>1. /\ modules = [x \in 1..MAX_MODULE_TYPE |-> [name |-> Nobody, owned |-> FALSE, init |-> FALSE]]
      /\ module_count = 0 /\ module_lock = Nobody
      /\ loader_pc = [t \in Loader |-> "idle"] /\ asked = [t \in Loader |-> Nobody]
      /\ entry = [t \in Loader |-> 1] /\ found = [t \in Loader |-> 0]
  BY DEF LoaderInit
<1>2. LoaderTyped
  <2>1. modules \in [1..MAX_MODULE_TYPE -> Entry]
    BY <1>1 DEF Entry
  <2>2. module_count \in 0..MAX_MODULE_TYPE
    BY <1>1 DEF LoaderAssumption
  <2>3. loader_pc \in [Loader -> Steps]
    BY <1>1 DEF Steps
  <2>4. asked \in [Loader -> Library \cup {Nobody}]
    BY <1>1
  <2>5. entry \in [Loader -> Nat \ {0}]
    BY <1>1
  <2>6. found \in [Loader -> Nat]
    BY <1>1
  <2>7. module_lock \in Loader \cup {Nobody}
    BY <1>1
  <2> QED BY <2>1, <2>2, <2>3, <2>4, <2>5, <2>6, <2>7 DEF LoaderTyped
<1>3. Held
  BY <1>1 DEF Held, Inside, LoaderAssumption
<1>4. 1..module_count = {}
  BY <1>1
<1>5. Whole /\ \A t \in Loader : Passed(t) /\ Filling(t) /\ Results(t)
  BY <1>1, <1>4 DEF Whole, Passed, Filling, Results
<1> QED BY <1>2, <1>3, <1>5 DEF LoaderInv

LEMMA LoaderInvNext ==
  ASSUME LoaderAssumption, LoaderInv, [LoaderNext]_loaderVars PROVE LoaderInv'
<1>1. CASE UNCHANGED loaderVars
  BY <1>1 DEF loaderVars, LoaderInv, LoaderTyped, Held, Inside, Whole, Passed, Filling, Results, Result
<1> QED BY <1>1, QueryKeeps, SearchKeeps, LockKeeps, UnlockKeeps, OpenKeeps, SymKeeps, CopyKeeps,
           CountKeeps DEF LoaderNext

\* For any number of threads, libraries and entries: fengnet_module_query loads a module
\* once, however many ask for it at a time, and what it finds is complete and what was
\* asked for.
THEOREM LoaderCorrect == ASSUME LoaderAssumption PROVE LoaderSpec => []LoadedOnce
<1>1. LoaderInv => LoadedOnce
  BY DEF LoaderInv, Whole, Results, Result, LoadedOnce
<1> QED BY <1>1, LoaderInits, LoaderInvNext, PTL DEF LoaderSpec

=============================================================================
