-------------------------------- MODULE Stm --------------------------------
(***************************************************************************)
(* Memory shared by services (lua-stm.cpp): one writer publishes immutable *)
(* copies in an object, readers on other threads take the current copy.    *)
(* The object is counted by its holders, a copy by those who use it.  A    *)
(* section under the object's lock is one step, but for the one in which a *)
(* reader gives its reference back: it has the lock shared, and its unlock *)
(* is a step of its own, like the releases outside the sections.  A copy   *)
(* is the number of the update that made it; what is done to a freed copy  *)
(* is recorded and changes nothing else.                                   *)
(***************************************************************************)
EXTENDS Naturals, FiniteSetTheorems, TLAPS

CONSTANTS
  Reader,
  MaxUpdate,    \* bound: copies made
  MaxRead       \* bound: reads

VARIABLES
  reference,    \* obj->reference
  obj_freed,
  copy,         \* obj->copy, 0 is NULL
  copy_reference, copy_freed,   \* per copy; the set of freed copies
  last_update,  \* the number of the newest copy
  writer,       \* "idle", "swapped" or "gone", and the copy it has to release
  reader,       \* per reader: where it is, lastcopy, and the copy just taken
  misuse,       \* copies that were used or freed after they were freed
  reads

stmVars == <<reference, obj_freed, copy, copy_reference, copy_freed, last_update, writer, reader,
          misuse, reads>>

Copy == 1 .. MaxUpdate

\* stm_releasecopy, of a copy or of NULL
stm_releasecopy(c) ==
  IF c = 0 THEN UNCHANGED <<copy_reference, copy_freed, misuse>>
  ELSE IF c \in copy_freed
       THEN misuse' = misuse \cup {c} /\ UNCHANGED <<copy_reference, copy_freed>>
       ELSE /\ copy_reference' = [copy_reference EXCEPT ![c] = @ - 1]
            /\ copy_freed' = IF copy_reference[c] <= 1 THEN copy_freed \cup {c} ELSE copy_freed
            /\ UNCHANGED misuse

\* No reader has the lock shared.
Unshared == \A r \in Reader : reader[r].pc # "leaving"

\* stm_update (lupdate), the section under the lock ...
Update ==
  /\ writer.pc = "idle" /\ last_update < MaxUpdate /\ Unshared
  /\ last_update' = last_update + 1
  /\ copy' = last_update'
  /\ copy_reference' = [copy_reference EXCEPT ![last_update'] = 1]
  /\ writer' = [pc |-> "swapped", old |-> copy]
  /\ UNCHANGED <<reference, obj_freed, copy_freed, reader, misuse, reads>>

\* ... and the release of the old copy after it
ReleaseOld ==
  /\ writer.pc = "swapped"
  /\ stm_releasecopy(writer.old)
  /\ writer' = [pc |-> "idle", old |-> 0]
  /\ UNCHANGED <<reference, obj_freed, copy, last_update, reader, reads>>

\* Mutant: a pointer is handed out without a reference of its own.
MutGrab(r) == reference' = reference

\* stm_grab, under the shared lock
stm_grab(r) == reference' = reference + 1

\* lcopy: the pointer goes to another service in a message
lcopy(r) ==
  /\ writer.pc = "idle" /\ reader[r].pc = "none"
  /\ stm_grab(r)
  /\ reader' = [reader EXCEPT ![r].pc = "handed"]
  /\ UNCHANGED <<obj_freed, copy, copy_reference, copy_freed, last_update, writer, misuse, reads>>

lnewreader(r) ==
  /\ reader[r].pc = "handed"
  /\ reader' = [reader EXCEPT ![r].pc = "open"]
  /\ UNCHANGED <<reference, obj_freed, copy, copy_reference, copy_freed, last_update, writer,
                 misuse, reads>>

\* stm_copy: the object, not the copy, is counted.
stm_copy(r) ==
  /\ reader[r].pc = "open" /\ reads < MaxRead
  /\ reads' = reads + 1
  /\ reader' = [reader EXCEPT ![r].pc = "taken", ![r].got = copy]
  /\ reference' = IF copy # 0 THEN reference + 1 ELSE reference
  /\ UNCHANGED <<obj_freed, copy, copy_reference, copy_freed, last_update, writer, misuse>>

\* lread: an unchanged copy is given back, the old one released for a new one
lread(r) ==
  LET b == reader[r]
  IN /\ b.pc = "taken"
     /\ stm_releasecopy(b.last)     \* = b.got when it is not updated
     /\ reader' = [reader EXCEPT ![r] =
          [pc |-> IF b.got \in {0, b.last} THEN "open" ELSE "using", last |-> b.got, got |-> 0]]
     /\ UNCHANGED <<reference, obj_freed, copy, last_update, writer, reads>>

\* The function given to lread uses the copy's memory.
Use(r) ==
  /\ reader[r].pc = "using"
  /\ misuse' = IF reader[r].last \in copy_freed THEN misuse \cup {reader[r].last} ELSE misuse
  /\ reader' = [reader EXCEPT ![r].pc = "open"]
  /\ UNCHANGED <<reference, obj_freed, copy, copy_reference, copy_freed, last_update, writer, reads>>

\* stm_release (ldeletewriter), under the lock
stm_release ==
  /\ writer.pc = "idle" /\ Unshared
  /\ stm_releasecopy(copy)
  /\ copy' = 0
  /\ reference' = reference - 1
  /\ obj_freed' = (reference <= 1)
  /\ writer' = [writer EXCEPT !.pc = "gone"]
  /\ UNCHANGED <<last_update, reader, reads>>

\* Mutant: the object is freed when another reader is left.
MutLastReader == reference <= 2

LastReader == reference = 1

\* stm_releasereader, under the shared lock, which the last one does not give back
stm_releasereader(r) ==
  /\ reader[r].pc = "open"
  /\ reference' = reference - 1
  /\ obj_freed' = (obj_freed \/ LastReader)
  /\ reader' = [reader EXCEPT ![r].pc = IF LastReader THEN "left" ELSE "leaving"]
  /\ UNCHANGED <<copy, copy_reference, copy_freed, last_update, writer, misuse, reads>>

\* The unlock of the others, and the release of the last copy (ldeletereader)
ldeletereader(r) ==
  /\ reader[r].pc \in {"leaving", "left"}
  /\ stm_releasecopy(reader[r].last)
  /\ reader' = [reader EXCEPT ![r] = [pc |-> "gone", last |-> 0, got |-> 0]]
  /\ UNCHANGED <<reference, obj_freed, copy, last_update, writer, reads>>

\* lnewwriter: stm_new
StmInit ==
  /\ reference = 1 /\ obj_freed = FALSE /\ copy = 1
  /\ copy_reference = [c \in Copy |-> IF c = 1 THEN 1 ELSE 0] /\ copy_freed = {}
  /\ last_update = 1 /\ writer = [pc |-> "idle", old |-> 0]
  /\ reader = [r \in Reader |-> [pc |-> "none", last |-> 0, got |-> 0]]
  /\ misuse = {} /\ reads = 0

StmNext ==
  \/ Update \/ ReleaseOld \/ stm_release
  \/ \E r \in Reader :
       \/ lcopy(r) \/ lnewreader(r) \/ stm_copy(r) \/ lread(r) \/ Use(r)
       \/ stm_releasereader(r) \/ ldeletereader(r)

StmSpec == StmInit /\ [][StmNext]_stmVars

-----------------------------------------------------------------------------
PointsTo == {"handed", "open", "taken", "using"}

\* The object is not freed while the writer, a reader or a message to one has a
\* reference to it that was not given back, and the last reader finds no copy in it,
\* as stm_releasereader asserts (lua-stm.cpp:71).
ObjectAlive ==
  obj_freed => /\ writer.pc = "gone" /\ copy = 0
               /\ \A r \in Reader : reader[r].pc \notin PointsTo

\* Who frees the object is alone with it: "last reader, no writer. so no need to
\* unlock" (lua-stm.cpp:70).
LastReaderAlone == obj_freed => \A r \in Reader : reader[r].pc # "leaving"

\* A copy is freed once, and not while the object or a reader points to it: the
\* writer's release "release[s] the last copy", which is there to be released.
CopyAlive ==
  /\ misuse = {}
  /\ copy \notin copy_freed
  /\ \A r \in Reader : reader[r].pc = "using" => reader[r].last \notin copy_freed

-----------------------------------------------------------------------------
(* ObjectAlive for any number of readers, updates and reads.  The count of *)
(* the object is at least the number of its holders; it may be more,       *)
(* because stm_copy counts the object for every copy it hands out and      *)
(* nobody takes that back.                                                 *)

\* The readers that have the pointer, or to which it is on its way
Holding == {r \in Reader : reader[r].pc \in PointsTo}

\* What the writer counts for
WriterShare == IF writer.pc = "gone" THEN 0 ELSE 1

\* The fields the count depends on have their types.
StmTyped ==
  /\ reference \in Nat
  /\ obj_freed \in BOOLEAN
  /\ writer \in [pc : {"idle", "swapped", "gone"}, old : Nat]
  /\ copy \in Nat /\ last_update \in Nat
  /\ reader \in [Reader -> [pc : {"none", "gone", "leaving", "left"} \cup PointsTo,
                            last : Nat, got : Nat]]

\* Every holder has a reference of its own.
HoldersCounted == reference >= Cardinality(Holding) + WriterShare

\* The writer leaves no copy in the object.
LastCopyGone == writer.pc = "gone" => copy = 0

\* The inductive invariant.
OInv == StmTyped /\ HoldersCounted /\ LastCopyGone /\ ObjectAlive

-----------------------------------------------------------------------------
LEMMA HoldingFinite ==
  ASSUME IsFiniteSet(Reader) PROVE IsFiniteSet(Holding) /\ Cardinality(Holding) \in Nat
  BY FS_Subset, FS_CardinalityType DEF Holding

\* A reader that leaves or joins changes the number by one.
LEMMA HoldingLess ==
  ASSUME IsFiniteSet(Reader), NEW r \in Holding
  PROVE  Cardinality(Holding \ {r}) = Cardinality(Holding) - 1 /\ Cardinality(Holding) > 0
<1>1. Cardinality(Holding \ {r}) = Cardinality(Holding) - 1
  BY HoldingFinite, FS_RemoveElement
<1>2. IsFiniteSet(Holding \ {r})
  BY HoldingFinite, FS_Subset
<1> QED BY <1>1, <1>2, HoldingFinite, FS_CardinalityType

LEMMA HoldingMore ==
  ASSUME IsFiniteSet(Reader), NEW r \in Reader \ Holding
  PROVE  Cardinality(Holding \cup {r}) = Cardinality(Holding) + 1
  BY HoldingFinite, FS_AddElement

LEMMA HoldingNone ==
  ASSUME IsFiniteSet(Reader), Cardinality(Holding) = 0
  PROVE  \A r \in Reader : r \notin Holding
  BY HoldingFinite, FS_EmptySet

LEMMA OInvInit == ASSUME IsFiniteSet(Reader), StmInit PROVE OInv
<1>1. StmTyped
  BY DEF StmInit, StmTyped
<1>2. Holding = {} /\ WriterShare = 1
  BY DEF StmInit, Holding, WriterShare, PointsTo
<1>3. HoldersCounted
  BY <1>2, FS_EmptySet DEF StmInit, HoldersCounted
<1>4. LastCopyGone /\ ObjectAlive
  BY DEF StmInit, LastCopyGone, ObjectAlive
<1> QED BY <1>1, <1>3, <1>4 DEF OInv

\* What leaves the count and the holders alone keeps the invariant.
LEMMA SameHolders ==
  ASSUME IsFiniteSet(Reader), OInv, StmTyped', Holding' = Holding, WriterShare' = WriterShare,
         reference' >= reference, obj_freed' = obj_freed, writer.pc # "gone" \/ copy' = copy
  PROVE  OInv'
<1>0. writer'.pc = "gone" <=> writer.pc = "gone"
  BY DEF WriterShare
<1>1. LastCopyGone' /\ (obj_freed' => writer'.pc = "gone" /\ copy' = 0)
  BY <1>0 DEF OInv, ObjectAlive, LastCopyGone
<1>2. ASSUME obj_freed', NEW r \in Reader PROVE reader'[r].pc \notin PointsTo
  <2>1. r \notin Holding
    BY <1>2 DEF OInv, ObjectAlive, Holding
  <2>2. r \notin Holding'
    BY <2>1
  <2> QED BY <2>2 DEF Holding
<1>3. ObjectAlive'
  BY <1>1, <1>2 DEF ObjectAlive
<1>4. HoldersCounted'
  <2>1. Cardinality(Holding') = Cardinality(Holding)
    OBVIOUS
  <2>2. WriterShare \in {0, 1}
    BY DEF WriterShare
  <2> QED BY <2>1, <2>2, HoldingFinite DEF OInv, HoldersCounted, StmTyped
<1> QED BY <1>1, <1>3, <1>4 DEF OInv

-----------------------------------------------------------------------------
\* The writer updates, and releases the copy it replaced.
LEMMA WriterKeeps ==
  ASSUME IsFiniteSet(Reader), OInv, Update \/ ReleaseOld
  PROVE  OInv'
<1>1. StmTyped'
  BY DEF OInv, StmTyped, Update, ReleaseOld
<1>2. Holding' = Holding /\ WriterShare' = WriterShare
  BY DEF Update, ReleaseOld, Holding, WriterShare
<1>3. reference' = reference /\ obj_freed' = obj_freed /\ (writer.pc # "gone" \/ copy' = copy)
  BY DEF Update, ReleaseOld
<1> QED BY <1>1, <1>2, <1>3, SameHolders DEF OInv, StmTyped

\* A reader takes its pointer out of the message, or reads.
LEMMA ReadingKeeps ==
  ASSUME IsFiniteSet(Reader), OInv, NEW r \in Reader,
         lnewreader(r) \/ stm_copy(r) \/ lread(r) \/ Use(r)
  PROVE  OInv'
<1> USE DEF OInv, lnewreader, stm_copy, lread, Use
<1>1. StmTyped'
  BY DEF StmTyped, PointsTo
<1>2. r \in Holding
  BY DEF Holding, PointsTo
<1>3. reader'[r].pc \in PointsTo
  BY DEF StmTyped, PointsTo
<1>4. \A q \in Reader \ {r} : reader'[q].pc = reader[q].pc
  BY DEF StmTyped
<1>5. Holding' = Holding
  BY <1>2, <1>3, <1>4 DEF Holding
<1>6. /\ WriterShare' = WriterShare /\ obj_freed' = obj_freed
      /\ reference' \in {reference, reference + 1} /\ copy' = copy
  BY DEF WriterShare
<1> QED BY <1>1, <1>5, <1>6, SameHolders DEF StmTyped

\* lcopy gives away a pointer and counts it, while the writer still has its own.
LEMMA CopyKeeps ==
  ASSUME IsFiniteSet(Reader), OInv, NEW r \in Reader, lcopy(r)
  PROVE  OInv'
<1> USE DEF OInv, lcopy, stm_grab
<1>1. StmTyped'
  BY DEF StmTyped, PointsTo
<1>2. r \notin Holding
  BY DEF Holding, PointsTo
<1>3. Holding' = Holding \cup {r}
  <2>1. reader'[r].pc = "handed" /\ \A q \in Reader \ {r} : reader'[q].pc = reader[q].pc
    BY DEF StmTyped
  <2> QED BY <2>1 DEF Holding, PointsTo
<1>4. Cardinality(Holding') = Cardinality(Holding) + 1
  BY <1>2, <1>3, HoldingMore
<1>5. HoldersCounted'
  BY <1>4, HoldingFinite DEF HoldersCounted, WriterShare, StmTyped
<1>6. ~ obj_freed' /\ LastCopyGone'
  BY DEF ObjectAlive, LastCopyGone
<1> QED BY <1>1, <1>5, <1>6 DEF ObjectAlive

\* stm_release frees the object only if the writer was its last holder.
LEMMA ReleaseKeeps ==
  ASSUME IsFiniteSet(Reader), OInv, stm_release
  PROVE  OInv'
<1> USE DEF OInv, stm_release
<1>1. Holding' = Holding /\ WriterShare = 1 /\ WriterShare' = 0 /\ writer'.pc = "gone"
  BY DEF Holding, WriterShare, StmTyped
<1>2. reference >= Cardinality(Holding) + 1 /\ reference' = reference - 1
  BY <1>1 DEF HoldersCounted
<1>3. StmTyped'
  BY <1>2, HoldingFinite DEF StmTyped
<1>4. HoldersCounted'
  <2>1. Cardinality(Holding') = Cardinality(Holding)
    BY <1>1
  <2> QED BY <1>1, <1>2, <2>1, HoldingFinite DEF HoldersCounted, StmTyped
<1>5. ASSUME obj_freed' PROVE \A r \in Reader : reader'[r].pc \notin PointsTo
  <2>1. reference <= 1
    BY <1>5
  <2>2. Cardinality(Holding) = 0
    BY <2>1, <1>2, HoldingFinite DEF StmTyped
  <2>3. \A r \in Reader : r \notin Holding
    BY <2>2, HoldingNone
  <2> QED BY <2>3 DEF Holding
<1> QED BY <1>1, <1>3, <1>4, <1>5 DEF ObjectAlive, LastCopyGone

\* A reader frees the object only if it was the last holder.
LEMMA ReleaseReaderKeeps ==
  ASSUME IsFiniteSet(Reader), OInv, NEW r \in Reader, stm_releasereader(r)
  PROVE  OInv'
<1> USE DEF OInv, stm_releasereader
<1>1. r \in Holding
  BY DEF Holding, PointsTo
<1>2. reader'[r].pc \in {"left", "leaving"} /\ \A q \in Reader \ {r} : reader'[q] = reader[q]
  BY DEF StmTyped
<1>3. Holding' = Holding \ {r}
  BY <1>2 DEF Holding, PointsTo
<1>4. Cardinality(Holding') = Cardinality(Holding) - 1 /\ Cardinality(Holding) > 0
  BY <1>1, <1>3, HoldingLess
<1>5. WriterShare' = WriterShare /\ WriterShare \in {0, 1} /\ writer' = writer /\ copy' = copy
  BY DEF WriterShare
<1>6. StmTyped'
  BY <1>4, <1>5, HoldingFinite DEF StmTyped, HoldersCounted, LastReader
<1>7. HoldersCounted'
  BY <1>4, <1>5, HoldingFinite DEF HoldersCounted, StmTyped
<1>8. ASSUME obj_freed'
      PROVE  writer.pc = "gone" /\ \A q \in Reader : reader'[q].pc \notin PointsTo
  <2>1. ~ obj_freed
    BY DEF ObjectAlive, PointsTo
  <2>2. reference = 1
    BY <1>8, <2>1 DEF LastReader
  <2>3. Cardinality(Holding) = 1 /\ WriterShare = 0
    BY <2>2, <1>4, <1>5, HoldingFinite DEF HoldersCounted
  <2>4. Holding \ {r} = {}
    <3>1. Cardinality(Holding \ {r}) = 0 /\ IsFiniteSet(Holding \ {r})
      BY <2>3, <1>3, <1>4, HoldingFinite, FS_Subset
    <3> QED BY <3>1, FS_EmptySet
  <2>5. \A q \in Reader \ {r} : reader'[q].pc \notin PointsTo
    BY <2>4, <1>2 DEF Holding
  <2> QED BY <2>3, <2>5, <1>2 DEF WriterShare, PointsTo
<1>9. LastCopyGone' /\ ObjectAlive'
  BY <1>5, <1>8 DEF LastCopyGone, ObjectAlive
<1> QED BY <1>6, <1>7, <1>9

\* What it does afterwards changes no count.
LEMMA DeleteReaderKeeps ==
  ASSUME IsFiniteSet(Reader), OInv, NEW r \in Reader, ldeletereader(r)
  PROVE  OInv'
<1> USE DEF OInv, ldeletereader
<1>1. StmTyped'
  BY DEF StmTyped
<1>2. reader'[r].pc = "gone" /\ \A q \in Reader \ {r} : reader'[q].pc = reader[q].pc
  BY DEF StmTyped
<1>3. Holding' = Holding
  BY <1>2 DEF Holding, PointsTo
<1>4. /\ WriterShare' = WriterShare /\ obj_freed' = obj_freed /\ reference' = reference
      /\ copy' = copy
  BY DEF WriterShare
<1> QED BY <1>1, <1>3, <1>4, SameHolders DEF StmTyped

LEMMA OInvNext == ASSUME IsFiniteSet(Reader), OInv, [StmNext]_stmVars PROVE OInv'
<1>1. CASE StmNext
  BY <1>1, WriterKeeps, ReadingKeeps, CopyKeeps, ReleaseKeeps, ReleaseReaderKeeps,
     DeleteReaderKeeps DEF StmNext
<1>2. CASE UNCHANGED stmVars
  BY <1>2 DEF stmVars, OInv, StmTyped, HoldersCounted, LastCopyGone, ObjectAlive, Holding, WriterShare
<1> QED BY <1>1, <1>2

-----------------------------------------------------------------------------
\* The shared object of stm is freed only when the writer is gone, with its last copy,
\* and every reader, and every message to one, has given its reference back; a reader
\* that has done so may still have to unlock it (LastReaderAlone).
THEOREM ObjectStaysAlive == ASSUME IsFiniteSet(Reader) PROVE StmSpec => []ObjectAlive
<1>1. OInv => ObjectAlive
  BY DEF OInv
<1> QED BY <1>1, OInvInit, OInvNext, PTL DEF StmSpec

============================================================================
