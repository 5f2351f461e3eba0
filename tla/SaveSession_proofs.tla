---- MODULE SaveSession_proofs ----
(***************************************************************************)
(* Theorems of SaveSession for any number of games, any counter range and  *)
(* any images: type correctness, that a store decides and writes from the  *)
(* image on disk, that it implements one atomic step of SaveLedger, that   *)
(* the next boot loads what it wrote, and that it buries no progress its   *)
(* session never saw.                                                      *)
(***************************************************************************)
EXTENDS SaveSession, TLAPS

Scans == [Slots -> SlotScan]
Resolved == [status : {"Empty", "Ok", "Corrupt", "Error"}, counter : Counter,
             storage_from_slot : {NoSlot, 0, 1}, legacy : BOOLEAN]
Loads == [status : {"Empty", "Ok", "Corrupt", "Error"}, counter : Counter,
          source : {"Own", "LegacyWithoutDonor", "LegacyDonor"}, base : Base]

LEMMA WrappingAddType == \A c \in Counter : WrappingAdd(c, 1) \in Counter
BY CounterModulusAssumption, SMT DEF WrappingAdd, Counter

LEMMA PhysicalSlotType == \A c \in Counter : PhysicalSlotForCounter(c) \in Slots
BY CounterModulusAssumption, SMT DEF PhysicalSlotForCounter, Counter, Slots

LEMMA NewestStorageSetType ==
  ASSUME NEW left, NEW right
  PROVE  NewestStorageSet(left, right) \in {NoSlot, 0, 1}
BY DEF NewestStorageSet

LEMMA StorageDonorType ==
  ASSUME NEW legacy, NEW scan
  PROVE  StorageDonor(legacy, scan) \in {NoSlot, 0, 1}
BY NewestStorageSetType DEF StorageDonor

LEMMA ResolveBothOkType ==
  ASSUME NEW scan \in Scans
  PROVE  ResolveBothOk(scan) \in Resolved
<1>1. /\ scan[0] \in SlotScan /\ scan[1] \in SlotScan
  BY DEF Scans, Slots
<1>2. /\ scan[0].counter \in Counter /\ scan[1].counter \in Counter
      /\ scan[0].legacy \in BOOLEAN /\ scan[1].legacy \in BOOLEAN
  BY <1>1 DEF SlotScan
<1>3. CASE scan[0].legacy = scan[1].legacy
  BY <1>2, <1>3, StorageDonorType DEF ResolveBothOk, Resolution, Resolved
<1>4. CASE scan[0].legacy # scan[1].legacy
  <2> DEFINE legacy == IF scan[0].legacy THEN 0 ELSE 1
             full == 1 - legacy
             offered == [s \in {0, 1} |->
               IF s = full THEN FullStorageCounter(scan[s])
               ELSE scan[s].storage_counter]
             donor == NewestStorageSet(offered[0], offered[1])
  <2>1. donor \in {NoSlot, 0, 1}
    BY NewestStorageSetType
  <2>2. legacy \in {0, 1} /\ full \in {0, 1}
    OBVIOUS
  <2>3. scan[legacy].counter \in Counter /\ scan[full].counter \in Counter
    BY <1>2, <2>2
  <2>4. ResolveBothOk(scan) =
          IF SecondCounterIsNewer(scan[full].counter, scan[legacy].counter)
          THEN Resolution("Ok", scan[legacy].counter, donor, TRUE)
          ELSE Resolution("Ok", scan[full].counter, NoSlot, FALSE)
    BY <1>4 DEF ResolveBothOk
  <2> QED
    BY <2>1, <2>3, <2>4 DEF Resolution, Resolved
<1> QED
  BY <1>3, <1>4

LEMMA ResolveType ==
  ASSUME NEW scan \in Scans
  PROVE  Resolve(scan) \in Resolved
<1> DEFINE intact == {s \in {0, 1} : scan[s].integrity = "Ok"}
           only == CHOOSE s \in intact : TRUE
<1>1. /\ scan[0] \in SlotScan /\ scan[1] \in SlotScan
  BY DEF Scans, Slots
<1>2. /\ scan[0].counter \in Counter /\ scan[1].counter \in Counter
      /\ scan[0].legacy \in BOOLEAN /\ scan[1].legacy \in BOOLEAN
  BY <1>1 DEF SlotScan
<1>3. CASE intact = {0, 1}
  <2>1. intact \notin {{0}, {1}}
    BY <1>3
  <2>2. Resolve(scan) = ResolveBothOk(scan)
    BY <1>3, <2>1 DEF Resolve
  <2> QED
    BY <2>2, ResolveBothOkType
<1>4. CASE intact \in {{0}, {1}}
  <2>1. only \in {0, 1}
    BY <1>4
  <2>2. scan[only].counter \in Counter /\ scan[only].legacy \in BOOLEAN
    BY <1>2, <2>1
  <2>3. Resolve(scan) =
          Resolution(IF scan[1 - only].integrity = "Error"
                     THEN "Error" ELSE "Ok",
                     scan[only].counter,
                     StorageDonor(scan[only].legacy, scan), scan[only].legacy)
    <3>1. intact # {0, 1}
      BY <1>4
    <3> QED
      BY <1>4, <3>1 DEF Resolve
  <2> QED
    BY <2>2, <2>3, StorageDonorType DEF Resolution, Resolved
<1>5. CASE intact # {0, 1} /\ intact \notin {{0}, {1}}
  <2>1. 0 \in Counter
    BY CounterModulusAssumption DEF Counter
  <2>2. Resolve(scan) =
          Resolution(IF \A s \in {0, 1} : scan[s].integrity = "Empty"
                     THEN "Empty" ELSE "Corrupt", 0, NoSlot, FALSE)
    BY <1>5 DEF Resolve
  <2> QED
    BY <2>1, <2>2 DEF Resolution, Resolved
<1> QED
  BY <1>3, <1>4, <1>5

LEMMA DiskLoadType ==
  ASSUME NEW image \in Image
  PROVE  DiskLoad(image) \in Loads
<1> DEFINE scan == [s \in Slots |-> ScanOf(image[s])]
           res == Resolve(scan)
           slot == image[PhysicalSlotForCounter(res.counter)]
           donor == res.storage_from_slot
<1>1. \A s \in Slots : image[s] \in Slot
  BY DEF Image
<1>2. scan \in Scans
  BY <1>1 DEF Scans, ScanOf, Slot, SlotScan
<1>3. /\ res.status \in {"Empty", "Ok", "Corrupt", "Error"}
      /\ res.counter \in Counter
      /\ res.storage_from_slot \in {NoSlot, 0, 1}
      /\ res.legacy \in BOOLEAN
  <2> HIDE DEF scan
  <2> QED
    BY <1>2, ResolveType DEF Resolved
<1>4. slot \in Slot
  BY <1>1, <1>3, PhysicalSlotType
<1>5. slot.blocks \in Payload /\ slot.boxes \in Payload /\ NoStamp \in Payload
  BY <1>4 DEF Slot, Payload
<1>6. donor # NoSlot => image[donor].boxes \in Payload
  BY <1>1, <1>3 DEF Slot, Slots
<1> HIDE DEF res, slot
<1>7. DiskLoad(image) =
        [status |-> res.status, counter |-> res.counter,
         source |-> IF ~res.legacy THEN "Own"
                    ELSE IF donor = NoSlot THEN "LegacyWithoutDonor"
                    ELSE "LegacyDonor",
         base |-> [blocks |-> IF MenuShowsContinue(res.status)
                              THEN slot.blocks ELSE NoStamp,
                   boxes |-> IF ~MenuShowsContinue(res.status) THEN NoStamp
                             ELSE IF ~res.legacy THEN slot.boxes
                             ELSE IF donor = NoSlot THEN NoStamp
                             ELSE image[donor].boxes]]
  BY DEF DiskLoad, res, slot
<1> QED
  BY <1>3, <1>5, <1>6, <1>7 DEF Loads, Base

LEMMA DamagedType ==
  ASSUME NEW image \in Image, NEW s \in Slots
  PROVE  DamagedImages(image, s) \subseteq Image
<1>1. image[s] \in Slot
  BY DEF Image
<1>2. WithoutBlocks(image[s]) \in Slot /\ WithoutBoxes(image[s]) \in Slot
  BY <1>1 DEF WithoutBlocks, WithoutBoxes, Slot, Payload
<1> QED
  BY <1>2 DEF DamagedImages, Image

LEMMA BootedType ==
  ASSUME NEW image \in Image
  PROVE  Booted(image) \in Session
BY DiskLoadType DEF Booted, Session, Loads

LEMMA NoFlashType == NoFlashSession \in Session
BY CounterModulusAssumption DEF NoFlashSession, Session, Base, Payload, Counter

LEMMA SavedType ==
  ASSUME NEW s \in Session, NEW image \in Image, NEW stamp \in Stamps
  PROVE  /\ SavedImage(s, image, stamp) \in Image
         /\ AfterWritten(s, image, stamp) \in Session
<1> DEFINE load == DiskLoad(image)
           counter == WrappingAdd(load.counter, 1)
           boxes == BoxesToWrite(s, load, stamp)
<1>1. load.counter \in Counter /\ load.base \in Base
  BY DiskLoadType DEF Loads
<1>2. counter \in Counter
  BY <1>1, WrappingAddType
<1>3. PhysicalSlotForCounter(counter) \in Slots
  BY <1>2, PhysicalSlotType
<1>4. stamp \in Payload
  BY DEF Payload
<1>5. boxes \in Payload
  <2>1. s.base.boxes \in Payload /\ load.base.boxes \in Payload
    BY <1>1 DEF Session, Base
  <2>2. s.new_game \in BOOLEAN
    BY DEF Session
  <2> HIDE DEF load
  <2> QED
    BY <1>4, <2>1, <2>2 DEF BoxesToWrite
<1> HIDE DEF load, counter, boxes
<1>6. FullSlot(counter, stamp, boxes) \in Slot
  BY <1>2, <1>4, <1>5 DEF FullSlot, Slot
<1>7. SavedImage(s, image, stamp) =
        [image EXCEPT ![PhysicalSlotForCounter(counter)] =
          FullSlot(counter, stamp, boxes)]
  BY DEF SavedImage, load, counter, boxes
<1>8. AfterWritten(s, image, stamp) =
        [s EXCEPT !.counter = counter,
                  !.base = [blocks |-> stamp, boxes |-> boxes],
                  !.merged_donor = FALSE, !.different = FALSE]
  BY DEF AfterWritten, SavedBase, load, counter, boxes
<1>9. [blocks |-> stamp, boxes |-> boxes] \in Base
  BY <1>4, <1>5 DEF Base
<1>10. SavedImage(s, image, stamp) \in Image
  BY <1>3, <1>6, <1>7 DEF Image
<1>11. AfterWritten(s, image, stamp) \in Session
  BY <1>2, <1>8, <1>9 DEF Session
<1> QED
  BY <1>10, <1>11

----------------------------------------------------------------------------
\* What TypeOK and StoreSeesTheDisk need to be inductive: under the lock a
\* stamp is left for the store, the file was readable, and a store that stages
\* was not refused.
Underway(p) ==
  /\ pc[p] \in Locked => clock <= LastStamp /\ session[p].file
  /\ pc[p] = "staged" => Verdict(p) = "Written"

IInv == TypeOK /\ StoreSeesTheDisk /\ \A p \in Procs : Underway(p)

\* Choosing a lineage keeps a session a session.
LEMMA LineageType ==
  ASSUME NEW s \in Session, NEW new_game \in BOOLEAN
  PROVE  [s EXCEPT !.new_game = new_game, !.different = new_game] \in Session
BY DEF Session

LEMMA InitIInv == Init => IInv
<1> SUFFICES ASSUME Init PROVE IInv
  OBVIOUS
<1>1. TypeOK
  <2>1. ErasedImage \in Image
    BY CounterModulusAssumption
    DEF ErasedImage, EmptySlot, Image, Slot, Payload, Counter
  <2>2. disk \in Image /\ clock \in FirstStamp .. LastStamp + 1
        /\ damage \in [slots : 0 .. MaxDamage, copies : 0 .. MaxDamage]
    BY SessionAssumption DEF Init
  <2> QED
    BY <2>1, <2>2, NoFlashType DEF Init, TypeOK, Places
<1>2. StoreSeesTheDisk
  BY SessionAssumption
  DEF Init, StoreSeesTheDisk, LockHeld, RereadIsCurrent, Locked
<1>3. \A p \in Procs : Underway(p)
  BY DEF Init, Underway, Locked
<1> QED
  BY <1>1, <1>2, <1>3 DEF IInv

\* What the other games see of a step: nothing of theirs moves.
OthersUntouched(p) ==
  \A q \in Procs \ {p} :
    /\ pc'[q] = pc[q] /\ session'[q] = session[q]
    /\ confirmed'[q] = confirmed[q] /\ reread'[q] = reread[q]

\* A step of a game outside the lock disturbs no store under way.
LEMMA OutsideTheLock ==
  ASSUME IInv, NEW p \in Procs, pc[p] \notin Locked, pc'[p] \notin Locked,
         UNCHANGED <<disk, lock, clock>>, OthersUntouched(p)
  PROVE  StoreSeesTheDisk' /\ \A q \in Procs : Underway(q)'
<1>1. ASSUME NEW q \in Procs
      PROVE  LockHeld(q)' /\ RereadIsCurrent(q)' /\ Underway(q)'
  <2>1. LockHeld(q) /\ RereadIsCurrent(q) /\ Underway(q)
    BY DEF IInv, StoreSeesTheDisk
  <2>2. CASE q = p
    BY <2>1, <2>2 DEF LockHeld, RereadIsCurrent, Underway, Locked
  <2>3. CASE q # p
    <3>1. /\ pc'[q] = pc[q] /\ session'[q] = session[q]
          /\ confirmed'[q] = confirmed[q] /\ reread'[q] = reread[q]
      BY <2>3 DEF OthersUntouched
    <3>2. Verdict(q)' = Verdict(q)
      BY <3>1 DEF Verdict
    <3> QED
      BY <2>1, <3>1, <3>2 DEF LockHeld, RereadIsCurrent, Underway
  <2> QED
    BY <2>2, <2>3
<1> QED
  BY <1>1 DEF StoreSeesTheDisk

\* A step that gives the lock back leaves no store under way.
LEMMA GivingTheLockBack ==
  ASSUME IInv, NEW p \in Procs, lock = p, lock' = NoProc,
         pc'[p] \notin Locked, \A q \in Procs \ {p} : pc'[q] = pc[q]
  PROVE  StoreSeesTheDisk' /\ \A q \in Procs : Underway(q)'
<1>1. \A q \in Procs : pc'[q] \notin Locked
  BY DEF IInv, StoreSeesTheDisk, LockHeld
<1>2. \A q \in Procs : lock' # q
  BY SessionAssumption
<1> QED
  BY <1>1, <1>2
  DEF StoreSeesTheDisk, LockHeld, RereadIsCurrent, Underway, Locked

\* The environment only acts while nobody holds the lock.
LEMMA EnvironmentStep ==
  ASSUME IInv, lock = NoProc, UNCHANGED <<clock, lock, pc>>
  PROVE  StoreSeesTheDisk' /\ \A q \in Procs : Underway(q)'
<1>1. \A q \in Procs : lock # q
  BY SessionAssumption
<1>2. \A q \in Procs : pc[q] \notin Locked
  BY <1>1 DEF IInv, StoreSeesTheDisk, LockHeld
<1> QED
  BY <1>1, <1>2
  DEF StoreSeesTheDisk, LockHeld, RereadIsCurrent, Underway, Locked

----------------------------------------------------------------------------
LEMMA ErasedImageType == ErasedImage \in Image
BY CounterModulusAssumption
DEF ErasedImage, EmptySlot, Image, Slot, Payload, Counter

LEMMA AfterAttemptType ==
  ASSUME NEW s \in Session
  PROVE  AfterAttempt(s) \in Session
BY DEF AfterAttempt, Session

\* The actions of a game outside the lock.
LEMMA OutsideIInv ==
  ASSUME IInv, NEW p \in Procs,
         \/ Boot(p) \/ AskToSave(p) \/ StoreDisabled(p)
         \/ \E new_game \in BOOLEAN : StartGame(p, new_game)
         \/ \E yes \in BOOLEAN : AnswerPrompt(p, yes)
  PROVE  IInv'
<1> USE DEF IInv, TypeOK
<1>1. CASE Boot(p)
  <2>1. Booted(disk) \in Session /\ NoFlashSession \in Session
    BY BootedType, NoFlashType
  <2>2. {disk[s].blocks : s \in Slots} \in SUBSET Payload
    BY DEF Image, Slot
  <2>3. TypeOK'
    BY <1>1, <2>1, <2>2 DEF Boot, Goto, Places
  <2>4. StoreSeesTheDisk' /\ \A q \in Procs : Underway(q)'
    BY <1>1, OutsideTheLock DEF Boot, Goto, OthersUntouched, Locked
  <2> QED
    BY <2>3, <2>4
<1>2. CASE AskToSave(p)
  <2>1. TypeOK'
    BY <1>2 DEF AskToSave, Goto, Places
  <2>2. StoreSeesTheDisk' /\ \A q \in Procs : Underway(q)'
    BY <1>2, OutsideTheLock DEF AskToSave, Goto, OthersUntouched, Locked
  <2> QED
    BY <2>1, <2>2
<1>3. CASE StoreDisabled(p)
  <2>1. TypeOK'
    BY <1>3, AfterAttemptType, ErasedImageType
    DEF StoreDisabled, Leave, Goto, Places
  <2>2. StoreSeesTheDisk' /\ \A q \in Procs : Underway(q)'
    BY <1>3, OutsideTheLock
    DEF StoreDisabled, Leave, Goto, OthersUntouched, Locked
  <2> QED
    BY <2>1, <2>2
<1>4. ASSUME NEW new_game \in BOOLEAN, StartGame(p, new_game)
      PROVE  IInv'
  <2>1. [session[p] EXCEPT !.new_game = new_game, !.different = new_game]
          \in Session
    BY LineageType
  <2>2. TypeOK'
    BY <1>4, <2>1 DEF StartGame, Goto, Places
  <2>3. StoreSeesTheDisk' /\ \A q \in Procs : Underway(q)'
    BY <1>4, OutsideTheLock DEF StartGame, Goto, OthersUntouched, Locked
  <2> QED
    BY <2>2, <2>3
<1>5. ASSUME NEW yes \in BOOLEAN, AnswerPrompt(p, yes)
      PROVE  IInv'
  <2>1. TypeOK'
    BY <1>5 DEF AnswerPrompt, Goto, Places
  <2>2. StoreSeesTheDisk' /\ \A q \in Procs : Underway(q)'
    BY <1>5, OutsideTheLock DEF AnswerPrompt, Goto, OthersUntouched, Locked
  <2> QED
    BY <2>1, <2>2
<1> QED
  BY <1>1, <1>2, <1>3, <1>4, <1>5

\* The steps of a store, from taking the lock to giving it back.
LEMMA LockIInv ==
  ASSUME IInv, NEW p \in Procs, Lock(p)
  PROVE  IInv'
<1> USE DEF IInv
<1>1. TypeOK'
  BY DEF TypeOK, Lock, Goto, Places
<1>2. \A q \in Procs : pc[q] \notin Locked
  BY SessionAssumption DEF Lock, StoreSeesTheDisk, LockHeld
<1>3. pc'[p] = "locked" /\ \A q \in Procs \ {p} : pc'[q] = pc[q]
  BY DEF TypeOK, Lock, Goto
<1>4. ASSUME NEW q \in Procs
      PROVE  LockHeld(q)' /\ RereadIsCurrent(q)' /\ Underway(q)'
  <2>1. CASE q = p
    BY <1>3, <2>1 DEF Lock, LockHeld, RereadIsCurrent, Underway, Locked
  <2>2. CASE q # p
    BY <1>2, <1>3, <2>2
    DEF Lock, LockHeld, RereadIsCurrent, Underway, Locked
  <2> QED
    BY <2>1, <2>2
<1> QED
  BY <1>1, <1>4 DEF StoreSeesTheDisk

\* A step inside the lock that keeps it: the other games are all outside.
LEMMA RereadIInv ==
  ASSUME IInv, NEW p \in Procs, Reread(p)
  PROVE  IInv'
<1> USE DEF IInv
<1>1. TypeOK'
  BY DEF TypeOK, Reread, Goto, Places
<1>2. lock = p /\ \A q \in Procs \ {p} : pc[q] \notin Locked
  BY DEF Reread, StoreSeesTheDisk, LockHeld, Locked
<1>3. /\ pc'[p] = "decided" /\ \A q \in Procs \ {p} : pc'[q] = pc[q]
      /\ reread'[p] = disk
  BY DEF TypeOK, Reread, Goto
<1>4. ASSUME NEW q \in Procs
      PROVE  LockHeld(q)' /\ RereadIsCurrent(q)' /\ Underway(q)'
  <2>1. CASE q = p
    BY <1>2, <1>3, <2>1
    DEF Reread, LockHeld, RereadIsCurrent, Underway, Locked
  <2>2. CASE q # p
    BY <1>2, <1>3, <2>2
    DEF Reread, LockHeld, RereadIsCurrent, Underway, Locked
  <2> QED
    BY <2>1, <2>2
<1> QED
  BY <1>1, <1>4 DEF StoreSeesTheDisk

LEMMA StageIInv ==
  ASSUME IInv, NEW p \in Procs, Stage(p)
  PROVE  IInv'
<1> USE DEF IInv
<1>1. TypeOK'
  BY DEF TypeOK, Stage, Goto, Places
<1>2. lock = p /\ \A q \in Procs \ {p} : pc[q] \notin Locked
  BY DEF Stage, StoreSeesTheDisk, LockHeld, Locked
<1>3. pc'[p] = "staged" /\ \A q \in Procs \ {p} : pc'[q] = pc[q]
  BY DEF TypeOK, Stage, Goto
<1>4. Verdict(p)' = "Written"
  BY DEF Stage, Verdict
<1>5. ASSUME NEW q \in Procs
      PROVE  LockHeld(q)' /\ RereadIsCurrent(q)' /\ Underway(q)'
  <2>1. CASE q = p
    <3>1. reread[p] = disk /\ clock <= LastStamp /\ session[p].file
      BY DEF Stage, StoreSeesTheDisk, RereadIsCurrent, Underway, Locked
    <3> QED
      BY <1>2, <1>3, <1>4, <2>1, <3>1
      DEF Stage, LockHeld, RereadIsCurrent, Underway, Locked
  <2>2. CASE q # p
    BY <1>2, <1>3, <2>2
    DEF Stage, LockHeld, RereadIsCurrent, Underway, Locked
  <2> QED
    BY <2>1, <2>2
<1> QED
  BY <1>1, <1>5 DEF StoreSeesTheDisk

LEMMA ReleaseIInv ==
  ASSUME IInv, NEW p \in Procs, Refuse(p) \/ Rename(p) \/ StoreFails(p)
  PROVE  IInv'
<1> USE DEF IInv
<1>1. lock = p /\ pc[p] \in Locked
  BY DEF Refuse, Rename, StoreFails, StoreSeesTheDisk, LockHeld, Locked
<1>2. StoreSeesTheDisk' /\ \A q \in Procs : Underway(q)'
  BY <1>1, GivingTheLockBack
  DEF TypeOK, Refuse, Rename, StoreFails, Leave, Goto, Locked
<1>3. CASE Refuse(p)
  BY <1>2, <1>3, AfterAttemptType, ErasedImageType
  DEF TypeOK, Refuse, Leave, Goto, Places
<1>4. CASE StoreFails(p)
  BY <1>2, <1>4, AfterAttemptType, ErasedImageType
  DEF TypeOK, StoreFails, Leave, Goto, Places
<1>5. CASE Rename(p)
  <2>1. clock <= LastStamp
    BY <1>5 DEF Rename, Underway, Locked
  <2>2. clock \in Stamps /\ clock + 1 \in FirstStamp .. LastStamp + 1
    BY <2>1, SessionAssumption DEF TypeOK
  <2>3. reread[p] \in Image /\ session[p] \in Session
    BY DEF TypeOK
  <2>4. disk' \in Image /\ AfterWritten(session[p], reread[p], clock) \in Session
    BY <1>5, <2>2, <2>3, SavedType DEF Rename
  <2>5. known' \in [Procs -> SUBSET Payload]
    BY <1>5, <2>2 DEF TypeOK, Rename, Payload
  <2>6. TypeOK'
    BY <1>5, <2>2, <2>4, <2>5, ErasedImageType
    DEF TypeOK, Rename, Leave, Goto, Places
  <2> QED
    BY <1>2, <2>6
<1> QED
  BY <1>3, <1>4, <1>5

LEMMA CrashIInv ==
  ASSUME IInv, NEW p \in Procs, Crash(p)
  PROVE  IInv'
<1> USE DEF IInv
<1>1. TypeOK'
  BY NoFlashType, ErasedImageType DEF TypeOK, Crash, Leave, Goto, Places
<1>2. pc'[p] \notin Locked /\ OthersUntouched(p)
  BY DEF TypeOK, Crash, Leave, Goto, Locked, OthersUntouched
<1>3. CASE lock = p
  <2>1. lock' = NoProc /\ \A q \in Procs \ {p} : pc'[q] = pc[q]
    BY <1>2, <1>3 DEF Crash, OthersUntouched
  <2> QED
    BY <1>1, <1>2, <1>3, <2>1, GivingTheLockBack
<1>4. CASE lock # p
  <2>1. pc[p] \notin Locked
    BY <1>4 DEF StoreSeesTheDisk, LockHeld
  <2>2. UNCHANGED <<disk, lock, clock>>
    BY <1>4 DEF Crash
  <2> QED
    BY <1>1, <1>2, <2>1, <2>2, OutsideTheLock
<1> QED
  BY <1>3, <1>4

LEMMA EnvironmentIInv ==
  ASSUME IInv,
         \/ \E s \in Slots : Damage(s)
         \/ \E image \in ForeignImages : Replace(image)
  PROVE  IInv'
<1> USE DEF IInv
<1>1. damage' \in [slots : 0 .. MaxDamage, copies : 0 .. MaxDamage]
  BY SessionAssumption DEF TypeOK, Damage, Replace, MayAlter
<1>2. disk' \in Image
  BY DamagedType, SessionAssumption DEF TypeOK, Damage, Replace
<1>3. TypeOK'
  BY <1>1, <1>2 DEF TypeOK, Damage, Replace
<1>4. StoreSeesTheDisk' /\ \A q \in Procs : Underway(q)'
  BY EnvironmentStep DEF Damage, Replace, MayAlter
<1> QED
  BY <1>3, <1>4

LEMMA StutterIInv ==
  ASSUME IInv, UNCHANGED vars
  PROVE  IInv'
<1>1. \A q \in Procs : Verdict(q)' = Verdict(q)
  BY DEF vars, Verdict
<1> QED
  BY <1>1
  DEF vars, IInv, TypeOK, StoreSeesTheDisk, LockHeld, RereadIsCurrent, Underway

LEMMA NextIInv == IInv /\ [Next]_vars => IInv'
<1> SUFFICES ASSUME IInv, [Next]_vars PROVE IInv'
  OBVIOUS
<1> QED
  BY OutsideIInv, LockIInv, RereadIInv, StageIInv, ReleaseIInv, CrashIInv,
     EnvironmentIInv, StutterIInv
  DEF Next, Step

LEMMA InvariantIInv == Spec => []IInv
BY InitIInv, NextIInv, PTL DEF Spec

\* Every variable keeps its type, and the bound on stamps holds although a
\* store checks it only when it takes the lock.
THEOREM TypeCorrect == Spec => []TypeOK
BY InvariantIInv, PTL DEF IInv

\* At most one store is past the lock, and what it decides and writes from is
\* the image on disk.
THEOREM StoreSeesTheDiskAlways == Spec => []StoreSeesTheDisk
BY InvariantIInv, PTL DEF IInv

----------------------------------------------------------------------------
\* No store, of whatever lineage, lands on a save ahead of its session.
THEOREM NewerProgressIsSafe == Spec => NoNewerProgressBuried
<1>1. ASSUME IInv, NEW p \in Procs, Stores(p)
      PROVE  ~( /\ MenuShowsContinue(DiskLoad(disk).status)
                /\ CounterIsAhead(session[p].counter, DiskLoad(disk).counter))
  <2>1. Verdict(p) = "Written" /\ reread[p] = disk
    BY <1>1
    DEF IInv, Underway, StoreSeesTheDisk, RereadIsCurrent, Stores
  <2> QED
    BY <2>1 DEF Verdict, StoreVerdict
<1>2. IInv => [\A p \in Procs : LET load == DiskLoad(disk) IN
                Stores(p) => ~( /\ MenuShowsContinue(load.status)
                                /\ CounterIsAhead(session[p].counter,
                                                  load.counter))]_vars
  BY <1>1
<1> QED
  BY <1>2, InvariantIInv, PTL DEF NoNewerProgressBuried

----------------------------------------------------------------------------
\* The dialog skips its question only for a game whose store refuses on its
\* own to land on a save.
AskedFirst ==
  \A p \in Procs : pc[p] \in Locked \union {"store"} =>
    confirmed[p] \/ session[p].different

LEMMA InvariantAskedFirst == Spec => []AskedFirst
<1>1. Init => AskedFirst
  BY DEF Init, AskedFirst, Locked
<1>2. ASSUME TypeOK, AskedFirst, [Next]_vars
      PROVE  AskedFirst'
  <2> USE DEF AskedFirst, TypeOK, Goto, Leave, Locked
  <2>1. CASE UNCHANGED vars
    BY <1>2, <2>1 DEF vars
  <2>2. ASSUME NEW p \in Procs, Boot(p) \/ Crash(p) PROVE AskedFirst'
    BY <1>2, <2>2 DEF Boot, Crash
  <2>3. ASSUME NEW p \in Procs, AskToSave(p) PROVE AskedFirst'
    BY <1>2, <2>3 DEF AskToSave, SkipsPrompt
  <2>4. ASSUME NEW p \in Procs, NEW new_game \in BOOLEAN,
               StartGame(p, new_game)
        PROVE  AskedFirst'
    BY <1>2, <2>4 DEF StartGame
  <2>5. ASSUME NEW p \in Procs, NEW yes \in BOOLEAN, AnswerPrompt(p, yes)
        PROVE  AskedFirst'
    BY <1>2, <2>5 DEF AnswerPrompt
  <2>6. ASSUME NEW p \in Procs, Lock(p) \/ Reread(p) \/ Stage(p)
        PROVE  AskedFirst'
    BY <1>2, <2>6 DEF Lock, Reread, Stage
  <2>7. ASSUME NEW p \in Procs,
               StoreDisabled(p) \/ Refuse(p) \/ Rename(p) \/ StoreFails(p)
        PROVE  AskedFirst'
    BY <1>2, <2>7 DEF StoreDisabled, Refuse, Rename, StoreFails
  <2>8. CASE \/ \E s \in Slots : Damage(s)
             \/ \E image \in ForeignImages : Replace(image)
    BY <1>2, <2>8 DEF Damage, Replace, MayAlter
  <2> QED
    BY <1>2, <2>1, <2>2, <2>3, <2>4, <2>5, <2>6, <2>7, <2>8 DEF Next, Step
<1> QED
  BY <1>1, <1>2, TypeCorrect, PTL DEF Spec

\* A continuable save is written over only by a store whose own dialog had the
\* overwrite question answered yes.
THEOREM OverwritesAreConfirmed == Spec => EveryOverwriteConfirmed
<1>1. ASSUME IInv, AskedFirst, NEW p \in Procs, Stores(p),
             MenuShowsContinue(DiskLoad(disk).status)
      PROVE  confirmed[p]
  <2>1. Verdict(p) = "Written" /\ reread[p] = disk
    BY <1>1
    DEF IInv, Underway, StoreSeesTheDisk, RereadIsCurrent, Stores
  <2>2. ~(session[p].different /\ ~confirmed[p])
    BY <1>1, <2>1 DEF Verdict, StoreVerdict
  <2>3. confirmed[p] \/ session[p].different
    BY <1>1 DEF AskedFirst, Stores, Locked
  <2> QED
    BY <2>2, <2>3
<1>2. IInv /\ AskedFirst =>
        [\A p \in Procs :
          Stores(p) /\ MenuShowsContinue(DiskLoad(disk).status)
            => confirmed[p]]_vars
  BY <1>1
<1> QED
  BY <1>2, InvariantIInv, InvariantAskedFirst, PTL DEF EveryOverwriteConfirmed

----------------------------------------------------------------------------
\* SaveSession implements SaveLedger: every step of a store but its last is a
\* stutter of the ledger, and the last one is the whole store over the image on
\* disk.

\* The ledger's rules are the session's: both instances of SaveSessionRules
\* have the same constants.
LEMMA SameResolve ==
  ASSUME NEW scan PROVE Ledger!Resolve(scan) = Resolve(scan)
BY SMTT(30) DEF Ledger!Resolve, Resolve, Ledger!ResolveBothOk, ResolveBothOk,
  Ledger!Resolution, Resolution, Ledger!StorageDonor, StorageDonor,
  Ledger!NewestStorageSet, NewestStorageSet, Ledger!NoSlot, NoSlot,
  Ledger!NoCounter, NoCounter,
  Ledger!OlderGenerationPrecedes, OlderGenerationPrecedes,
  Ledger!CounterIsAhead, CounterIsAhead, Ledger!WrappingSub, WrappingSub,
  Ledger!SecondCounterIsNewer, SecondCounterIsNewer,
  Ledger!FullStorageCounter, FullStorageCounter

LEMMA SameDiskLoad ==
  ASSUME NEW image PROVE Ledger!DiskLoad(image) = DiskLoad(image)
BY SameResolve DEF Ledger!DiskLoad, DiskLoad, Ledger!Slots, Slots,
  Ledger!ScanOf, ScanOf,
  Ledger!PhysicalSlotForCounter, PhysicalSlotForCounter,
  Ledger!MenuShowsContinue, MenuShowsContinue, Ledger!NoStamp, NoStamp,
  Ledger!NoSlot, NoSlot

LEMMA SameReconcile ==
  ASSUME NEW s, NEW load
  PROVE  Ledger!ReconcileBase(s, load) = ReconcileBase(s, load)
BY DEF Ledger!ReconcileBase, ReconcileBase, Ledger!CounterIsAhead,
  CounterIsAhead, Ledger!WrappingSub, WrappingSub,
  Ledger!DonorWasLost, DonorWasLost

LEMMA SameVerdict ==
  ASSUME NEW s, NEW answer, NEW load
  PROVE  Ledger!StoreVerdict(s, answer, load) = StoreVerdict(s, answer, load)
BY SameReconcile DEF Ledger!StoreVerdict, StoreVerdict,
  Ledger!MenuShowsContinue, MenuShowsContinue,
  Ledger!CounterIsAhead, CounterIsAhead, Ledger!WrappingSub, WrappingSub

LEMMA SameBoxes ==
  ASSUME NEW s, NEW load, NEW stamp
  PROVE  Ledger!BoxesToWrite(s, load, stamp) = BoxesToWrite(s, load, stamp)
BY SameReconcile DEF Ledger!BoxesToWrite, BoxesToWrite

LEMMA SameSaved ==
  ASSUME NEW s, NEW image, NEW stamp
  PROVE  /\ Ledger!SavedImage(s, image, stamp) = SavedImage(s, image, stamp)
         /\ Ledger!AfterWritten(s, image, stamp) = AfterWritten(s, image, stamp)
BY SameBoxes, SameDiskLoad DEF Ledger!SavedImage, SavedImage,
  Ledger!AfterWritten, AfterWritten, Ledger!SavedBase, SavedBase,
  Ledger!FullSlot, FullSlot, Ledger!WrappingAdd, WrappingAdd,
  Ledger!PhysicalSlotForCounter, PhysicalSlotForCounter

LEMMA SameBoot ==
  /\ Ledger!NoFlashSession = NoFlashSession
  /\ \A image : Ledger!Booted(image) = Booted(image)
  /\ \A s : Ledger!AfterAttempt(s) = AfterAttempt(s)
BY SameDiskLoad DEF Ledger!NoFlashSession, NoFlashSession, Ledger!Booted,
  Booted, Ledger!AfterAttempt, AfterAttempt, Ledger!NoStamp, NoStamp

LEMMA SameDamage ==
  ASSUME NEW image, NEW s
  PROVE  Ledger!DamagedImages(image, s) = DamagedImages(image, s)
BY DEF Ledger!DamagedImages, DamagedImages, Ledger!WithoutBlocks,
  WithoutBlocks, Ledger!WithoutBoxes, WithoutBoxes, Ledger!NoStamp, NoStamp,
  Ledger!NoCounter, NoCounter

----------------------------------------------------------------------------
LEMMA InitLedger == Init => Ledger!Init
BY SameBoot DEF Init, Ledger!Init

\* The last step of a store is the ledger's store.
LEMMA RenameIsTheStore ==
  ASSUME IInv, NEW p \in Procs, Rename(p)
  PROVE  Ledger!Store(p)
<1>1. /\ reread[p] = disk
      /\ StoreVerdict(session[p], confirmed[p], DiskLoad(disk)) = "Written"
      /\ session[p].file
  BY DEF Rename, IInv, Underway, StoreSeesTheDisk, RereadIsCurrent, Verdict,
         Locked
<1>2. /\ disk' = SavedImage(session[p], disk, clock)
      /\ session' = [session EXCEPT ![p] = AfterWritten(session[p], disk, clock)]
      /\ clock' = clock + 1
      /\ confirmed' = [confirmed EXCEPT ![p] = FALSE]
  BY <1>1 DEF Rename, Leave
<1> QED
  BY <1>1, <1>2, SameSaved, SameVerdict, SameDiskLoad DEF Ledger!Store

LEMMA NextLedger == IInv /\ [Next]_vars => [Ledger!Next]_Ledger!vars
<1> SUFFICES ASSUME IInv, [Next]_vars
             PROVE  Ledger!Next \/ UNCHANGED Ledger!vars
  OBVIOUS
<1>1. CASE UNCHANGED vars
  BY <1>1 DEF vars, Ledger!vars
<1>2. ASSUME NEW p \in Procs, Boot(p)
      PROVE  Ledger!Next
  <2>1. Ledger!Open(p)
    BY <1>2, SameBoot DEF Boot, Ledger!Open
  <2> QED
    BY <2>1 DEF Ledger!Next
<1>3. ASSUME NEW p \in Procs, NEW new_game \in BOOLEAN, StartGame(p, new_game)
      PROVE  Ledger!Next
  <2>1. Ledger!Begin(p, new_game)
    BY <1>3 DEF StartGame, Ledger!Begin, MenuShowsContinue,
      Ledger!MenuShowsContinue
  <2> QED
    BY <2>1 DEF Ledger!Next
<1>4. ASSUME NEW p \in Procs, AskToSave(p)
      PROVE  Ledger!Next
  <2>1. Ledger!Consent(p, FALSE)
    BY <1>4 DEF AskToSave, Ledger!Consent
  <2> QED
    BY <2>1 DEF Ledger!Next
<1>5. ASSUME NEW p \in Procs, NEW yes \in BOOLEAN, AnswerPrompt(p, yes)
      PROVE  Ledger!Next
  <2>1. Ledger!Consent(p, yes)
    BY <1>5 DEF AnswerPrompt, Ledger!Consent
  <2> QED
    BY <2>1 DEF Ledger!Next
<1>6. ASSUME NEW p \in Procs, StoreDisabled(p) \/ Refuse(p) \/ StoreFails(p)
      PROVE  Ledger!Next
  <2>1. Ledger!Decline(p)
    BY <1>6, SameBoot
    DEF StoreDisabled, Refuse, StoreFails, Leave, Ledger!Decline
  <2> QED
    BY <2>1 DEF Ledger!Next
<1>7. ASSUME NEW p \in Procs, Lock(p) \/ Reread(p) \/ Stage(p)
      PROVE  UNCHANGED Ledger!vars
  BY <1>7 DEF Lock, Reread, Stage, Ledger!vars
<1>8. ASSUME NEW p \in Procs, Rename(p)
      PROVE  Ledger!Next
  BY <1>8, RenameIsTheStore DEF Ledger!Next
<1>9. ASSUME NEW p \in Procs, Crash(p)
      PROVE  Ledger!Next
  <2>1. Ledger!Close(p)
    BY <1>9, SameBoot DEF Crash, Leave, Ledger!Close
  <2> QED
    BY <2>1 DEF Ledger!Next
<1>10. ASSUME NEW s \in Slots, Damage(s)
       PROVE  Ledger!Next
  <2>1. disk' \in UNION {Ledger!DamagedImages(disk, t) : t \in Ledger!Slots}
    BY <1>10, SameDamage DEF Damage, Slots, Ledger!Slots
  <2> QED
    BY <1>10, <2>1 DEF Damage, Ledger!Alter, Ledger!Next
<1>11. ASSUME NEW image \in ForeignImages, Replace(image)
       PROVE  Ledger!Next
  BY <1>11 DEF Replace, Ledger!Alter, Ledger!Next
<1> QED
  BY <1>1, <1>2, <1>3, <1>4, <1>5, <1>6, <1>7, <1>8, <1>9, <1>10, <1>11
  DEF Next, Step

\* However many sessions race, crash and fail, the file behaves as one ledger
\* on which every store is a single step.
THEOREM SessionImplementsLedger == Spec => LedgerSpec
BY InitLedger, NextLedger, InvariantIInv, PTL
DEF Spec, LedgerSpec, Ledger!Spec

----------------------------------------------------------------------------
\* A counter and the next one, through the wrap: they are in different slots,
\* and only the next one is newer.
LEMMA NextCounter ==
  ASSUME NEW c \in Counter
  PROVE  /\ WrappingAdd(c, 1) \in Counter
         /\ PhysicalSlotForCounter(WrappingAdd(c, 1)) = 1 - PhysicalSlotForCounter(c)
         /\ SecondCounterIsNewer(c, WrappingAdd(c, 1))
         /\ ~SecondCounterIsNewer(WrappingAdd(c, 1), c)
<1>1. /\ c \in Nat /\ c < CounterModulus /\ CounterModulus \in Nat
      /\ CounterModulus >= 4 /\ CounterModulus % 2 = 0
  BY CounterModulusAssumption DEF Counter
<1>2. CASE c + 1 < CounterModulus
  <2>1. WrappingAdd(c, 1) = c + 1 BY <1>2 DEF WrappingAdd
  <2>2. (c + 1) % 2 = 1 - (c % 2) BY <1>1
  <2> QED BY <1>1, <1>2, <2>1, <2>2 DEF Counter, PhysicalSlotForCounter, SecondCounterIsNewer
<1>3. CASE c + 1 = CounterModulus
  <2>1. WrappingAdd(c, 1) = 0 BY <1>1, <1>3 DEF WrappingAdd
  <2>2. c % 2 = 1 BY <1>1, <1>3
  <2> QED BY <1>1, <1>3, <2>1, <2>2 DEF Counter, PhysicalSlotForCounter, SecondCounterIsNewer
<1> QED BY <1>1, <1>2, <1>3

\* The counter a load goes on from is the one of its slot, if that is whole.
LEMMA LoadsItsSlot ==
  ASSUME NEW scan \in Scans, NEW c \in Counter, c = Resolve(scan).counter,
         \A s \in Slots : scan[s].integrity = "Ok" => PhysicalSlotForCounter(scan[s].counter) = s
  PROVE  \A s \in Slots :
           scan[s].integrity = "Ok" /\ s = PhysicalSlotForCounter(c) => scan[s].counter = c
<1> DEFINE intact == {s \in {0, 1} : scan[s].integrity = "Ok"}
           only == CHOOSE s \in intact : TRUE
<1>1. CASE intact = {0, 1}
  <2>1. intact \notin {{0}, {1}} BY <1>1
  <2>2. Resolve(scan) = ResolveBothOk(scan) BY <1>1, <2>1 DEF Resolve
  <2>3. c = scan[0].counter \/ c = scan[1].counter
    BY <2>2 DEF ResolveBothOk, Resolution
  <2>4. /\ PhysicalSlotForCounter(scan[0].counter) = 0
        /\ PhysicalSlotForCounter(scan[1].counter) = 1
    BY <1>1 DEF Slots
  <2> QED BY <2>3, <2>4 DEF Slots
<1>2. CASE intact \in {{0}, {1}}
  <2>1. only \in intact /\ only \in {0, 1} BY <1>2
  <2>2. intact # {0, 1} BY <1>2
  <2>3. Resolve(scan).counter = scan[only].counter
    BY <1>2, <2>2 DEF Resolve, Resolution
  <2>4. \A s \in Slots : scan[s].integrity = "Ok" => s = only BY <1>2, <2>1 DEF Slots
  <2> QED BY <2>3, <2>4
<1>3. CASE intact # {0, 1} /\ intact \notin {{0}, {1}}
  <2>1. \A s \in Slots : scan[s].integrity # "Ok" BY <1>3 DEF Slots
  <2> QED BY <2>1
<1> QED BY <1>1, <1>2, <1>3

\* A full generation written beside the one it was counted on from is loaded.
LEMMA LoadsTheNewer ==
  ASSUME NEW scan \in Scans, NEW c \in Counter, NEW w \in Slots,
         w = PhysicalSlotForCounter(WrappingAdd(c, 1)),
         scan[w].integrity = "Ok", ~scan[w].legacy, scan[w].counter = WrappingAdd(c, 1),
         scan[1 - w].integrity = "Ok" => scan[1 - w].counter = c
  PROVE  /\ MenuShowsContinue(Resolve(scan).status)
         /\ Resolve(scan).counter = WrappingAdd(c, 1) /\ ~Resolve(scan).legacy
<1> DEFINE intact == {s \in {0, 1} : scan[s].integrity = "Ok"}
           only == CHOOSE s \in intact : TRUE
<1>1. w \in {0, 1} /\ w \in intact /\ 1 - w \in {0, 1} BY DEF Slots
<1>2. /\ scan[0].legacy \in BOOLEAN /\ scan[1].legacy \in BOOLEAN
  BY DEF Scans, Slots, SlotScan
<1>3. CASE intact = {0, 1}
  <2>1. intact \notin {{0}, {1}} BY <1>3
  <2>2. Resolve(scan) = ResolveBothOk(scan) BY <1>3, <2>1 DEF Resolve
  <2>3. scan[1 - w].counter = c BY <1>1, <1>3
  <2>4. CASE scan[0].legacy = scan[1].legacy
    <3>1. ResolveBothOk(scan) =
            Resolution("Ok", IF SecondCounterIsNewer(scan[0].counter, scan[1].counter)
                             THEN scan[1].counter ELSE scan[0].counter,
                       StorageDonor(scan[0].legacy, scan), scan[0].legacy)
      BY <2>4 DEF ResolveBothOk
    <3>2. ~scan[0].legacy BY <1>1, <2>4
    <3>3. (IF SecondCounterIsNewer(scan[0].counter, scan[1].counter)
           THEN scan[1].counter ELSE scan[0].counter) = WrappingAdd(c, 1)
      <4>1. CASE w = 0 BY <4>1, <2>3, NextCounter
      <4>2. CASE w = 1 BY <4>2, <2>3, NextCounter
      <4> QED BY <1>1, <4>1, <4>2
    <3> QED BY <2>2, <3>1, <3>2, <3>3 DEF Resolution, MenuShowsContinue
  <2>5. CASE scan[0].legacy # scan[1].legacy
    <3>1. scan[1 - w].legacy BY <1>1, <1>2, <2>5
    <3>2. (IF scan[0].legacy THEN 0 ELSE 1) = 1 - w BY <1>1, <2>5, <3>1
    <3>3. ~SecondCounterIsNewer(scan[w].counter, scan[1 - w].counter) BY <2>3, NextCounter
    <3>4. 1 - (1 - w) = w BY <1>1
    <3>5. ResolveBothOk(scan) = Resolution("Ok", scan[w].counter, NoSlot, FALSE)
      BY <2>5, <3>2, <3>3, <3>4 DEF ResolveBothOk
    <3> QED BY <2>2, <3>5 DEF Resolution, MenuShowsContinue
  <2> QED BY <2>4, <2>5
<1>4. CASE intact # {0, 1}
  <2>1. intact = {w} BY <1>1, <1>4
  <2>2. intact \in {{0}, {1}} /\ only = w BY <1>1, <2>1
  <2>3. Resolve(scan) =
          Resolution(IF scan[1 - only].integrity = "Error" THEN "Error" ELSE "Ok",
                     scan[only].counter, StorageDonor(scan[only].legacy, scan),
                     scan[only].legacy)
    BY <1>4, <2>2 DEF Resolve
  <2> QED BY <2>2, <2>3 DEF Resolution, MenuShowsContinue
<1> QED BY <1>3, <1>4

\* Of two adjacent generations the load goes on from the later one.
LEMMA LoadsTheLater ==
  ASSUME NEW scan \in Scans, NEW w \in Slots,
         scan[w].integrity = "Ok", scan[1 - w].integrity = "Ok",
         scan[w].counter = WrappingAdd(scan[1 - w].counter, 1)
  PROVE  Resolve(scan).counter = scan[w].counter
<1> DEFINE intact == {s \in {0, 1} : scan[s].integrity = "Ok"}
           c == scan[1 - w].counter
<1>1. w \in {0, 1} /\ 1 - w \in Slots BY DEF Slots
<1>2. intact = {0, 1} /\ intact \notin {{0}, {1}} BY <1>1
<1>3. Resolve(scan) = ResolveBothOk(scan) BY <1>2 DEF Resolve
<1>4. c \in Counter BY <1>1 DEF Scans, SlotScan
<1>5. SecondCounterIsNewer(c, scan[w].counter) /\ ~SecondCounterIsNewer(scan[w].counter, c)
  BY <1>4, NextCounter
<1>6. CASE w = 0
  BY <1>3, <1>5, <1>6 DEF ResolveBothOk, Resolution
<1>7. CASE w = 1
  BY <1>3, <1>5, <1>7 DEF ResolveBothOk, Resolution
<1> QED BY <1>1, <1>6, <1>7

\* What a store writes is what the next load finds, and it leaves the image
\* sound.
LEMMA SavedComesBack ==
  ASSUME NEW s \in Session, NEW image \in Image, Sound(image), NEW stamp \in Stamps,
         NEW saved, saved = SavedImage(s, image, stamp)
  PROVE  /\ MenuShowsContinue(DiskLoad(saved).status)
         /\ DiskLoad(saved).counter = WrappingAdd(DiskLoad(image).counter, 1)
         /\ DiskLoad(saved).base.blocks = stamp
         /\ DiskLoad(saved).base.boxes = BoxesToWrite(s, DiskLoad(image), stamp)
         /\ Sound(saved)
<1> DEFINE c == DiskLoad(image).counter
           n == WrappingAdd(c, 1)
           w == PhysicalSlotForCounter(n)
           boxes == BoxesToWrite(s, DiskLoad(image), stamp)
           scan == [r \in Slots |-> ScanOf(image[r])]
           after == [r \in Slots |-> ScanOf(saved[r])]
<1>1. saved = [image EXCEPT ![w] = FullSlot(n, stamp, boxes)] BY DEF SavedImage
<1>2. c \in Counter BY DiskLoadType DEF Loads
<1>3. n \in Counter /\ w \in Slots /\ w = 1 - PhysicalSlotForCounter(c)
      /\ PhysicalSlotForCounter(c) \in Slots
  BY <1>2, NextCounter, PhysicalSlotType
<1>4. saved \in Image BY SavedType
<1>5. saved[w] = FullSlot(n, stamp, boxes) /\ \A r \in Slots : r # w => saved[r] = image[r]
  BY <1>1, <1>3 DEF Image
<1>6. \A r \in Slots : image[r] \in Slot /\ saved[r] \in Slot BY <1>4 DEF Image
<1>7. scan \in Scans /\ after \in Scans BY <1>6 DEF Scans, ScanOf, Slot, SlotScan
<1>8. \A r \in Slots : /\ scan[r].integrity = image[r].integrity
                       /\ scan[r].counter = image[r].counter
                       /\ after[r].integrity = saved[r].integrity
                       /\ after[r].counter = saved[r].counter
                       /\ after[r].legacy = saved[r].legacy
  BY DEF ScanOf
<1>9. c = Resolve(scan).counter BY DEF DiskLoad
<1>10. /\ saved[w].integrity = "Ok" /\ saved[w].counter = n /\ ~saved[w].legacy
       /\ saved[w].blocks = stamp /\ saved[w].boxes = boxes
  BY <1>5 DEF FullSlot
<1>11. Sound(saved)
  <2>1. stamp # NoStamp BY StampsAssumption DEF NoStamp
  <2> QED BY <1>3, <1>5, <1>10, <2>1 DEF Sound
<1>12. 1 - w \in Slots /\ 1 - w # w /\ 1 - w = PhysicalSlotForCounter(c)
  BY <1>3 DEF Slots
<1> HIDE DEF c, n, w, boxes, scan, after
<1>13. after[1 - w].integrity = "Ok" => after[1 - w].counter = c
  <2>1. \A r \in Slots : scan[r].integrity = "Ok" => PhysicalSlotForCounter(scan[r].counter) = r
    BY <1>8 DEF Sound
  <2>2. \A r \in Slots : scan[r].integrity = "Ok" /\ r = PhysicalSlotForCounter(c)
                           => scan[r].counter = c
    BY <1>2, <1>7, <1>9, <2>1, LoadsItsSlot
  <2> QED BY <1>5, <1>8, <1>12, <2>2
<1>14. /\ MenuShowsContinue(Resolve(after).status)
       /\ Resolve(after).counter = n /\ ~Resolve(after).legacy
  <2>1. w = PhysicalSlotForCounter(WrappingAdd(c, 1)) /\ n = WrappingAdd(c, 1) BY DEF w, n
  <2>2. after[w].integrity = "Ok" /\ ~after[w].legacy /\ after[w].counter = WrappingAdd(c, 1)
    BY <1>3, <1>8, <1>10, <2>1
  <2> QED BY <1>2, <1>3, <1>7, <1>13, <2>1, <2>2, LoadsTheNewer
<1>15. /\ DiskLoad(saved).status = Resolve(after).status
       /\ DiskLoad(saved).counter = n
       /\ DiskLoad(saved).base.blocks = saved[PhysicalSlotForCounter(n)].blocks
       /\ DiskLoad(saved).base.boxes = saved[PhysicalSlotForCounter(n)].boxes
  BY <1>14 DEF DiskLoad, after
<1>16. PhysicalSlotForCounter(n) = w BY DEF w
<1>17. n = WrappingAdd(DiskLoad(image).counter, 1) BY DEF n, c
<1> QED BY <1>10, <1>11, <1>14, <1>15, <1>16, <1>17 DEF boxes

\* Damage takes whole slots out of play and moves none.
LEMMA DamageKeepsSound ==
  ASSUME NEW image \in Image, Sound(image), NEW s \in Slots,
         NEW damaged \in DamagedImages(image, s)
  PROVE  /\ damaged \in Image /\ Sound(damaged)
         /\ \A r \in Slots :
              /\ r # s => damaged[r] = image[r]
              /\ damaged[r].integrity = "Ok" =>
                   /\ image[r].integrity = "Ok" /\ damaged[r].counter = image[r].counter
                   /\ damaged[r].legacy = image[r].legacy /\ damaged[r].blocks = image[r].blocks
<1>1. \A r \in Slots : image[r] \in Slot BY DEF Image
<1>2. PICK slot \in {WithoutBlocks(image[s]), WithoutBoxes(image[s])} :
        damaged = [image EXCEPT ![s] = slot]
  BY DEF DamagedImages
<1>3. slot.integrity = "Ok" =>
        /\ image[s].integrity = "Ok" /\ slot.counter = image[s].counter
        /\ slot.legacy = image[s].legacy /\ slot.blocks = image[s].blocks
  BY <1>1, <1>2 DEF WithoutBlocks, WithoutBoxes, Slot
<1>4. \A r \in Slots : damaged[r] = IF r = s THEN slot ELSE image[r]
  BY <1>2 DEF Image
<1>5. damaged \in Image BY DamagedType
<1>6. Sound(damaged) BY <1>3, <1>4 DEF Sound
<1> QED BY <1>3, <1>4, <1>5, <1>6

LEMMA SoundAlways == Spec => []Sound(disk)
<1>1. Init => Sound(disk) BY ImagesAssumption DEF Init
<1>2. ASSUME IInv, Sound(disk), [Next]_vars PROVE Sound(disk)'
  <2>1. CASE UNCHANGED disk BY <1>2, <2>1 DEF Sound
  <2>2. ASSUME NEW p \in Procs, Rename(p) PROVE Sound(disk)'
    <3>1. /\ reread[p] = disk /\ session[p] \in Session /\ disk \in Image /\ clock <= LastStamp
          /\ clock \in FirstStamp .. LastStamp + 1
      BY <1>2, <2>2 DEF Rename, IInv, TypeOK, StoreSeesTheDisk, RereadIsCurrent, Underway, Locked
    <3>2. clock \in Stamps BY <3>1, SessionAssumption
    <3>3. disk' = SavedImage(session[p], disk, clock) BY <2>2, <3>1 DEF Rename
    <3> QED BY <1>2, <3>1, <3>2, <3>3, SavedComesBack
  <2>3. ASSUME NEW s \in Slots, Damage(s) PROVE Sound(disk)'
    BY <1>2, <2>3, DamageKeepsSound DEF Damage, IInv, TypeOK
  <2>4. ASSUME NEW image \in ForeignImages, Replace(image) PROVE Sound(disk)'
    BY <2>4, ImagesAssumption DEF Replace
  <2> QED
    BY <1>2, <2>1, <2>2, <2>3, <2>4
    DEF Next, Step, vars, Boot, AskToSave, Crash, StartGame, AnswerPrompt, StoreDisabled,
        Lock, Reread, Refuse, Stage, StoreFails
<1> QED BY <1>1, <1>2, InvariantIInv, PTL DEF Spec

\* Only the game that is past the decision to write renames its image.
LEMMA StoringIsRenaming ==
  ASSUME IInv, NEW p \in Procs, Stores(p), [Next]_vars
  PROVE  Rename(p)
<1>1. clock' # clock
  <2>1. clock \in Nat BY SessionAssumption DEF IInv, TypeOK
  <2> QED BY <2>1 DEF Stores
<1>2. PICK q \in Procs : Rename(q)
  BY <1>1
  DEF Next, Step, vars, Boot, AskToSave, Crash, StartGame, AnswerPrompt, StoreDisabled,
      Lock, Reread, Refuse, Stage, StoreFails, Damage, Replace
<1>3. lock = p /\ lock = q
  BY <1>2 DEF IInv, StoreSeesTheDisk, LockHeld, Locked, Stores, Rename
<1> QED BY <1>2, <1>3

\* What a store reports written is what the next boot loads, for any images and
\* any counter: the new generation is one ahead of the one beside it, even
\* through the wrap and after a slot was lost, and a continued session's boxes
\* come with it (game_save.rs, `store_under` and `reconcile_base`).
THEOREM StoresComeBack == Spec => StoreComesBack
<1>1. ASSUME IInv, Sound(disk), [Next]_vars, NEW p \in Procs, Stores(p)
      PROVE  /\ MenuShowsContinue(DiskLoad(disk').status)
             /\ DiskLoad(disk').base.blocks = clock
             /\ ~session[p].new_game /\ ~ReadsAhead(p) =>
                  DiskLoad(disk').base.boxes = session[p].base.boxes
  <2>1. Rename(p) BY <1>1, StoringIsRenaming
  <2>2. /\ reread[p] = disk /\ session[p] \in Session /\ disk \in Image /\ clock <= LastStamp
        /\ clock \in FirstStamp .. LastStamp + 1 /\ Verdict(p) = "Written"
    BY <1>1, <2>1
    DEF Rename, IInv, TypeOK, StoreSeesTheDisk, RereadIsCurrent, Underway, Locked
  <2>3. clock \in Stamps BY <2>2, SessionAssumption
  <2>4. disk' = SavedImage(session[p], disk, clock) BY <2>1, <2>2 DEF Rename
  <2>5. /\ MenuShowsContinue(DiskLoad(disk').status)
        /\ DiskLoad(disk').base.blocks = clock
        /\ DiskLoad(disk').base.boxes = BoxesToWrite(session[p], DiskLoad(disk), clock)
    BY <1>1, <2>2, <2>3, <2>4, SavedComesBack
  <2>6. ASSUME ~session[p].new_game, ~ReadsAhead(p)
        PROVE  BoxesToWrite(session[p], DiskLoad(disk), clock) = session[p].base.boxes
    <3>1. ReconcileBase(session[p], DiskLoad(disk)) # "Refuse"
      BY <2>2, <2>6 DEF Verdict, StoreVerdict
    <3>2. CASE ReconcileBase(session[p], DiskLoad(disk)) = "Restore"
      BY <2>6, <3>2 DEF BoxesToWrite
    <3>3. CASE ReconcileBase(session[p], DiskLoad(disk)) # "Restore"
      <4>1. /\ ~CounterIsAhead(DiskLoad(disk).counter, session[p].counter)
            /\ DiskLoad(disk).counter # session[p].counter
                 \/ DiskLoad(disk).base = session[p].base
        BY <3>1, <3>3 DEF ReconcileBase
      <4>2. DiskLoad(disk).base = session[p].base BY <2>6, <4>1 DEF ReadsAhead
      <4> QED BY <2>6, <3>3, <4>2 DEF BoxesToWrite
    <3> QED BY <3>2, <3>3
  <2> QED BY <2>5, <2>6
<1>2. IInv /\ Sound(disk) /\ [Next]_vars =>
        [\A p \in Procs : Stores(p) =>
           LET load == DiskLoad(disk')
           IN /\ MenuShowsContinue(load.status) /\ load.base.blocks = clock
              /\ ~session[p].new_game /\ ~ReadsAhead(p) =>
                   load.base.boxes = session[p].base.boxes]_vars
  BY <1>1
<1> QED BY <1>2, InvariantIInv, SoundAlways, PTL DEF Spec, StoreComesBack

----------------------------------------------------------------------------
\* A load of a sound image adopts a whole slot if there is one, and counts from
\* 0 if there is none.
LEMMA LoadOf ==
  ASSUME NEW image \in Image, Sound(image), NEW c, c = DiskLoad(image).counter,
         NEW r, r = PhysicalSlotForCounter(c)
  PROVE  /\ c \in Counter /\ r \in Slots /\ 1 - r \in Slots /\ 1 - r # r
         /\ MenuShowsContinue(DiskLoad(image).status) <=> image[r].integrity = "Ok"
         /\ image[r].integrity = "Ok" =>
              /\ image[r].counter = c /\ image[r].blocks # NoStamp
              /\ DiskLoad(image).base.blocks = image[r].blocks
         /\ image[r].integrity # "Ok" =>
              /\ c = 0 /\ \A s \in Slots : image[s].integrity # "Ok"
              /\ DiskLoad(image).base.blocks = NoStamp
<1> DEFINE scan == [s \in Slots |-> ScanOf(image[s])]
           intact == {s \in {0, 1} : scan[s].integrity = "Ok"}
           only == CHOOSE s \in intact : TRUE
<1>1. c \in Counter BY DiskLoadType DEF Loads
<1>2. r \in Slots /\ 1 - r \in Slots /\ 1 - r # r BY <1>1, PhysicalSlotType DEF Slots
<1>3. \A s \in Slots : image[s] \in Slot BY DEF Image
<1>4. scan \in Scans BY <1>3 DEF Scans, ScanOf, Slot, SlotScan
<1>5. \A s \in Slots : scan[s].integrity = image[s].integrity /\ scan[s].counter = image[s].counter
  BY DEF ScanOf
<1>6. /\ c = Resolve(scan).counter
      /\ DiskLoad(image).status = Resolve(scan).status
      /\ DiskLoad(image).base.blocks =
           IF MenuShowsContinue(Resolve(scan).status) THEN image[r].blocks ELSE NoStamp
  BY DEF DiskLoad
<1> HIDE DEF scan
<1>7. \A s \in Slots : scan[s].integrity = "Ok" => PhysicalSlotForCounter(scan[s].counter) = s
  BY <1>5 DEF Sound
<1>8. CASE intact = {0, 1}
  <2>1. intact \notin {{0}, {1}} BY <1>8
  <2>2. Resolve(scan) = ResolveBothOk(scan) BY <1>8, <2>1 DEF Resolve
  <2>3. Resolve(scan).status = "Ok" BY <2>2 DEF ResolveBothOk, Resolution
  <2>4. \A s \in Slots : image[s].integrity = "Ok" BY <1>5, <1>8 DEF Slots
  <2>5. image[r].counter = c
    BY <1>1, <1>2, <1>4, <1>5, <1>6, <1>7, <2>4, LoadsItsSlot
  <2> QED BY <1>1, <1>2, <1>6, <2>3, <2>4, <2>5 DEF MenuShowsContinue, Sound
<1>9. CASE intact \in {{0}, {1}}
  <2>1. only \in intact /\ only \in {0, 1} /\ only \in Slots BY <1>9 DEF Slots
  <2>2. intact # {0, 1} BY <1>9
  <2>3. /\ Resolve(scan).counter = scan[only].counter
        /\ Resolve(scan).status \in {"Ok", "Error"}
    BY <1>9, <2>2 DEF Resolve, Resolution
  <2>4. scan[only].integrity = "Ok" BY <2>1
  <2>5. r = only BY <1>6, <1>7, <2>1, <2>3, <2>4
  <2> QED BY <1>1, <1>2, <1>5, <1>6, <2>1, <2>3, <2>4, <2>5 DEF MenuShowsContinue, Sound
<1>10. CASE intact # {0, 1} /\ intact \notin {{0}, {1}}
  <2>1. \A s \in Slots : scan[s].integrity # "Ok" BY <1>10 DEF Slots
  <2>2. /\ Resolve(scan).counter = 0 /\ Resolve(scan).status \in {"Empty", "Corrupt"}
    BY <1>10 DEF Resolve, Resolution
  <2> QED BY <1>1, <1>2, <1>5, <1>6, <2>1, <2>2 DEF MenuShowsContinue
<1> QED BY <1>8, <1>9, <1>10

\* How far a counter is ahead of another, through the wrap.
LEMMA Gaps ==
  ASSUME NEW d \in Counter, NEW k \in Counter
  PROVE  /\ WrappingSub(d, k) \in 0 .. (CounterModulus - 1)
         /\ WrappingSub(d, k) = 0 <=> d = k
         /\ WrappingSub(WrappingAdd(d, 1), k) =
              IF k = WrappingAdd(d, 1) THEN 0 ELSE WrappingSub(d, k) + 1
         /\ WrappingSub(d, WrappingAdd(k, 1)) =
              IF d = k THEN CounterModulus - 1 ELSE WrappingSub(d, k) - 1
         /\ d # k /\ 2 * WrappingSub(d, k) < CounterModulus => CounterIsAhead(k, d)
         /\ WrappingAdd(d, 1) = WrappingAdd(k, 1) => d = k
<1>1. /\ d \in Nat /\ d < CounterModulus /\ k \in Nat /\ k < CounterModulus
      /\ CounterModulus \in Nat /\ CounterModulus >= 4
  BY CounterModulusAssumption DEF Counter
<1>2. /\ WrappingSub(d, k) \in 0 .. (CounterModulus - 1)
      /\ WrappingSub(d, k) = 0 <=> d = k
  BY <1>1 DEF WrappingSub
<1>3. WrappingSub(WrappingAdd(d, 1), k) =
        IF k = WrappingAdd(d, 1) THEN 0 ELSE WrappingSub(d, k) + 1
  BY <1>1 DEF WrappingSub, WrappingAdd
<1>4. WrappingSub(d, WrappingAdd(k, 1)) =
        IF d = k THEN CounterModulus - 1 ELSE WrappingSub(d, k) - 1
  BY <1>1 DEF WrappingSub, WrappingAdd
<1>5. WrappingAdd(d, 1) = WrappingAdd(k, 1) => d = k BY <1>1 DEF WrappingAdd
<1> QED BY <1>2, <1>3, <1>4, <1>5 DEF CounterIsAhead

\* A load of a paired image adopts the later generation.
LEMMA LoadOfPaired ==
  ASSUME NEW image \in Image, Sound(image), Paired(image),
         NEW c, c = DiskLoad(image).counter, NEW r, r = PhysicalSlotForCounter(c),
         image[r].integrity = "Ok"
  PROVE  IF image[1 - r].integrity = "Ok" THEN c = WrappingAdd(image[1 - r].counter, 1)
         ELSE c = 1
<1>1. /\ c \in Counter /\ r \in Slots /\ 1 - r \in Slots /\ 1 - r # r /\ image[r].counter = c
  BY LoadOf
<1>2. CASE image[1 - r].integrity # "Ok" BY <1>1, <1>2 DEF Paired
<1>3. CASE image[1 - r].integrity = "Ok"
  <2> DEFINE scan == [s \in Slots |-> ScanOf(image[s])]
  <2>1. \A s \in Slots : s = r \/ s = 1 - r BY <1>1 DEF Slots
  <2>2. PICK w \in Slots : image[w].counter = WrappingAdd(image[1 - w].counter, 1)
    BY <1>3, <2>1 DEF Paired
  <2>3. \A s \in Slots : image[s] \in Slot BY DEF Image
  <2>4. scan \in Scans BY <2>3 DEF Scans, ScanOf, Slot, SlotScan
  <2>5. 1 - w \in Slots BY DEF Slots
  <2>6. \A s \in Slots : scan[s].integrity = "Ok" /\ scan[s].counter = image[s].counter
    BY <1>3, <2>1 DEF ScanOf
  <2>7. Resolve(scan).counter = c BY DEF DiskLoad
  <2> HIDE DEF scan
  <2>8. image[w].counter = c BY <2>2, <2>4, <2>5, <2>6, <2>7, LoadsTheLater
  <2>9. /\ PhysicalSlotForCounter(image[w].counter) = w
        /\ PhysicalSlotForCounter(image[r].counter) = r
    BY <1>1, <1>3, <2>1 DEF Sound
  <2>10. w = r BY <1>1, <2>8, <2>9
  <2> QED BY <1>3, <2>2, <2>8, <2>10
<1> QED BY <1>2, <1>3

----------------------------------------------------------------------------
\* What a session knows of the disk.

\* The save a session goes on from is one it loaded or wrote.
BaseKnown(p) ==
  session[p].file => session[p].base.blocks \in known[p] \union {NoStamp}

\* Until a file is copied in or both slots are damaged, the disk is at most the
\* stores made so far ahead of any session, and behind one only by the damage.
Found == DiskLoad(disk)
Ahead(p) == WrappingSub(Found.counter, session[p].counter) <= clock - FirstStamp
FellBack(p) ==
  /\ damage.slots = 1 /\ session[p].counter = WrappingAdd(Found.counter, 1)
  /\ MenuShowsContinue(Found.status) => Found.base.blocks \in known[p]
Unpaired == damage.copies > 0 \/ damage.slots > 1
InStep(p) == session[p].file => Unpaired \/ Ahead(p) \/ FellBack(p)

\* Before any damage, a session that is up to date knows both slots.
Intact == damage.slots = 0 /\ damage.copies = 0
KnowsBoth(p) ==
  session[p].file /\ session[p].counter = Found.counter =>
    \A s \in Slots : disk[s].integrity = "Ok" => disk[s].blocks \in known[p]
UpToDate == Intact => Paired(disk) /\ \A p \in Procs : KnowsBoth(p)

KnownInv == UpToDate /\ \A p \in Procs : BaseKnown(p) /\ InStep(p)

LEMMA KnownInit == Init => KnownInv
<1> SUFFICES ASSUME Init PROVE KnownInv OBVIOUS
<1>1. \A p \in Procs : ~session[p].file BY DEF Init, NoFlashSession
<1>2. Paired(disk) BY ImagesAssumption DEF Init
<1> QED BY <1>1, <1>2 DEF KnownInv, UpToDate, KnowsBoth, BaseKnown, InStep

\* A game that learns nothing and forgets nothing it goes on from.
Same(p) ==
  /\ known'[p] = known[p]
  /\ session'[p].file = session[p].file /\ session'[p].counter = session[p].counter
  /\ session'[p].base = session[p].base

LEMMA KnownUnchanged ==
  ASSUME KnownInv, UNCHANGED <<disk, clock, damage>>,
         \A p \in Procs : ~session'[p].file \/ Same(p)
  PROVE  KnownInv'
<1>1. ASSUME NEW p \in Procs PROVE BaseKnown(p)' /\ InStep(p)' /\ (KnowsBoth(p) => KnowsBoth(p)')
  <2>1. CASE ~session'[p].file BY <2>1 DEF BaseKnown, InStep, KnowsBoth
  <2>2. CASE Same(p)
    BY <2>2 DEF Same, KnownInv, BaseKnown, InStep, Unpaired, Ahead, FellBack, Found, KnowsBoth
  <2> QED BY <1>1, <2>1, <2>2
<1>2. UpToDate' BY <1>1 DEF KnownInv, UpToDate, Intact, Paired
<1> QED BY <1>1, <1>2 DEF KnownInv

LEMMA BootKnows ==
  ASSUME IInv, KnownInv, Sound(disk), NEW p \in Procs, Boot(p)
  PROVE  KnownInv'
<1>1. /\ UNCHANGED <<disk, clock, damage>> /\ disk \in Image
      /\ session \in [Procs -> Session] /\ known \in [Procs -> SUBSET Payload]
      /\ clock - FirstStamp >= 0
  BY SessionAssumption DEF Boot, IInv, TypeOK
<1>2. ASSUME NEW q \in Procs, q # p PROVE Same(q)
  BY <1>1, <1>2 DEF Boot, Same
<1>3. CASE /\ session' = [session EXCEPT ![p] = NoFlashSession]
           /\ known' = [known EXCEPT ![p] = {}]
  <2>1. ~session'[p].file BY <1>1, <1>3 DEF NoFlashSession
  <2> QED BY <1>1, <1>2, <2>1, KnownUnchanged
<1>4. CASE /\ session' = [session EXCEPT ![p] = Booted(disk)]
           /\ known' = [known EXCEPT ![p] = {disk[s].blocks : s \in Slots}]
  <2>1. /\ session'[p].counter = Found.counter /\ session'[p].base = Found.base
        /\ known'[p] = {disk[s].blocks : s \in Slots}
    BY <1>1, <1>4 DEF Booted, Found
  <2>2. Found.base.blocks \in known'[p] \union {NoStamp} /\ Found.counter \in Counter
    BY <1>1, <2>1, LoadOf DEF Found
  <2>3. WrappingSub(Found.counter, Found.counter) = 0 BY <2>2, Gaps
  <2>4. BaseKnown(p)' BY <2>1, <2>2 DEF BaseKnown
  <2>5. InStep(p)' BY <1>1, <2>1, <2>3 DEF InStep, Ahead, Found
  <2>6. KnowsBoth(p)' BY <1>1, <2>1 DEF KnowsBoth
  <2>7. ASSUME NEW q \in Procs, q # p
        PROVE  BaseKnown(q)' /\ InStep(q)' /\ (KnowsBoth(q) => KnowsBoth(q)')
    BY <1>1, <1>2, <2>7
    DEF Same, KnownInv, BaseKnown, InStep, Unpaired, Ahead, FellBack, Found, KnowsBoth
  <2>8. UpToDate' BY <1>1, <2>6, <2>7 DEF KnownInv, UpToDate, Intact, Paired
  <2> QED BY <2>4, <2>5, <2>7, <2>8 DEF KnownInv
<1> QED BY <1>3, <1>4 DEF Boot

\* A step that takes no part in a store.
LEMMA QuietKnows ==
  ASSUME IInv, KnownInv, NEW p \in Procs,
         \/ AskToSave(p) \/ StoreDisabled(p) \/ Lock(p) \/ Reread(p) \/ Refuse(p) \/ Stage(p)
         \/ StoreFails(p) \/ Crash(p)
         \/ \E new_game \in BOOLEAN : StartGame(p, new_game)
         \/ \E yes \in BOOLEAN : AnswerPrompt(p, yes)
  PROVE  KnownInv'
<1>1. /\ UNCHANGED <<disk, clock, damage>> 
      /\ session \in [Procs -> Session] /\ known \in [Procs -> SUBSET Payload]
  BY DEF AskToSave, StoreDisabled, Lock, Reread, Refuse, Stage, StoreFails, Crash, StartGame,
         AnswerPrompt, IInv, TypeOK
<1>2. ASSUME UNCHANGED <<session, known>> PROVE KnownInv'
  BY <1>1, <1>2, KnownUnchanged DEF Same
<1>3. ASSUME session' = [session EXCEPT ![p] = AfterAttempt(@)], UNCHANGED known PROVE KnownInv'
  <2>1. \A q \in Procs : Same(q) BY <1>1, <1>3 DEF Same, AfterAttempt, Session
  <2> QED BY <1>1, <2>1, KnownUnchanged
<1>4. CASE Crash(p)
  <2>1. \A q \in Procs : q # p => Same(q) BY <1>1, <1>4 DEF Crash, Same
  <2>2. ~session'[p].file BY <1>1, <1>4 DEF Crash, NoFlashSession
  <2> QED BY <1>1, <2>1, <2>2, KnownUnchanged
<1>5. ASSUME NEW new_game \in BOOLEAN, StartGame(p, new_game) PROVE KnownInv'
  <2>1. /\ session' = [session EXCEPT ![p] = [session[p] EXCEPT !.new_game = new_game,
                                                                !.different = new_game]]
        /\ UNCHANGED known
    BY <1>5 DEF StartGame
  <2>2. \A q \in Procs : Same(q) BY <1>1, <2>1 DEF Same, Session
  <2> QED BY <1>1, <2>2, KnownUnchanged
<1> QED
  BY <1>2, <1>3, <1>4, <1>5
  DEF AskToSave, StoreDisabled, Lock, Reread, Refuse, Stage, StoreFails, AnswerPrompt

\* The store itself: it goes on from a save it knows, or from none.
LEMMA RenameKnows ==
  ASSUME IInv, KnownInv, Sound(disk), NEW p \in Procs, Rename(p)
  PROVE  KnownInv'
<1> DEFINE f == Found.counter
           n == WrappingAdd(f, 1)
           w == PhysicalSlotForCounter(n)
<1>1. /\ reread[p] = disk /\ session[p] \in Session /\ disk \in Image /\ clock <= LastStamp
      /\ clock \in FirstStamp .. LastStamp + 1 /\ Verdict(p) = "Written" /\ session[p].file
      /\ session \in [Procs -> Session] /\ known \in [Procs -> SUBSET Payload]
  BY DEF Rename, IInv, TypeOK, StoreSeesTheDisk, RereadIsCurrent, Underway, Locked
<1>2. clock \in Stamps /\ clock \in Nat /\ FirstStamp \in Nat /\ LastStamp \in Nat
  BY <1>1, SessionAssumption
<1>3. /\ disk' = SavedImage(session[p], disk, clock)
      /\ session'[p] = AfterWritten(session[p], disk, clock)
      /\ known'[p] = known[p] \union {clock}
      /\ clock' = clock + 1 /\ damage' = damage
      /\ \A q \in Procs : q # p => session'[q] = session[q] /\ known'[q] = known[q]
  BY <1>1 DEF Rename
<1>4. /\ Found' = DiskLoad(disk')
      /\ DiskLoad(disk').counter = n /\ DiskLoad(disk').base.blocks = clock
  BY <1>1, <1>2, <1>3, SavedComesBack DEF Found
<1>5. /\ session'[p].file /\ session'[p].counter = n /\ session'[p].base.blocks = clock
  BY <1>1, <1>3 DEF AfterWritten, SavedBase, Session, Found
<1>6. f \in Counter /\ n \in Counter /\ w \in Slots /\ 1 - w \in Slots
      /\ 1 - w = PhysicalSlotForCounter(f) /\ 1 - w # w
  <2>1. f \in Counter BY <1>1, DiskLoadType DEF Loads, Found
  <2>2. /\ n \in Counter /\ w = 1 - PhysicalSlotForCounter(f)
        /\ PhysicalSlotForCounter(f) \in Slots /\ w \in Slots
    BY <2>1, NextCounter, PhysicalSlotType
  <2> HIDE DEF f, n, w
  <2> QED BY <2>1, <2>2 DEF Slots
<1>7. /\ disk'[w].blocks = clock /\ disk'[w].integrity = "Ok" /\ disk'[w].counter = n
      /\ disk'[1 - w] = disk[1 - w]
  <2>1. disk' = [disk EXCEPT ![w] = FullSlot(n, clock, BoxesToWrite(session[p], DiskLoad(disk), clock))]
    BY <1>3 DEF SavedImage, Found
  <2> HIDE DEF f, n, w
  <2> QED BY <1>1, <1>6, <2>1 DEF Image, FullSlot
<1>8. \A q \in Procs : session[q].counter \in Counter BY <1>1 DEF Session
<1> DEFINE r == 1 - w
           gap(q) == WrappingSub(f, session[q].counter)
           shown == MenuShowsContinue(Found.status)
<1>9. /\ shown <=> disk[r].integrity = "Ok"
      /\ disk[r].integrity = "Ok" => disk[r].counter = f
      /\ disk[r].integrity # "Ok" => f = 0
  BY <1>1, <1>6, LoadOf DEF Found
<1>10. /\ shown => ~CounterIsAhead(session[p].counter, f)
  BY <1>1 DEF Verdict, StoreVerdict, Found
<1>11. \A q \in Procs : Ahead(q) <=> gap(q) <= clock - FirstStamp BY DEF Ahead
<1>12. \A q \in Procs : Ahead(q)' <=>
         WrappingSub(n, session'[q].counter) <= clock + 1 - FirstStamp
  <2>1. \A q \in Procs : Ahead(q)' <=>
          WrappingSub(Found'.counter, session'[q].counter) <= clock' - FirstStamp
    BY DEF Ahead
  <2>2. Found'.counter = n BY <1>4
  <2>3. clock' = clock + 1 BY <1>3
  <2>4. clock' - FirstStamp = clock + 1 - FirstStamp BY <1>2, <2>3
  <2> HIDE DEF n
  <2> QED BY <2>1, <2>2, <2>4
<1>13. Unpaired' <=> Unpaired BY <1>3 DEF Unpaired
<1> HIDE DEF f, w, shown
<1>14. ASSUME NEW q \in Procs PROVE BaseKnown(q)'
  <2>1. CASE q = p BY <1>3, <1>5, <2>1 DEF BaseKnown
  <2>2. CASE q # p BY <1>3, <2>2 DEF BaseKnown, KnownInv
  <2> QED BY <2>1, <2>2
<1>15. ASSUME NEW q \in Procs PROVE InStep(q)'
  <2>1. CASE q = p
    <3>1. WrappingSub(n, n) = 0 BY <1>6, Gaps
    <3>2. Ahead(q)' BY <1>1, <1>2, <1>5, <1>12, <2>1, <3>1
    <3> QED BY <3>2 DEF InStep
  <2>2. CASE q # p /\ session[q].file
    <3>1. session'[q] = session[q] BY <1>3, <2>2
    <3>2. Unpaired \/ Ahead(q) \/ FellBack(q) BY <2>2 DEF KnownInv, InStep
    <3>3. CASE Unpaired BY <1>13, <3>3 DEF InStep
    <3>4. CASE Ahead(q)
      <4>1. gap(q) \in Int /\ WrappingSub(n, session[q].counter) =
              IF session[q].counter = n THEN 0 ELSE gap(q) + 1
        BY <1>6, <1>8, Gaps
      <4>2. gap(q) <= clock - FirstStamp BY <1>11, <3>4
      <4> HIDE DEF gap, n
      <4>3. WrappingSub(n, session[q].counter) <= clock + 1 - FirstStamp
        BY <1>1, <1>2, <4>1, <4>2
      <4>4. Ahead(q)' BY <1>12, <3>1, <4>3
      <4> QED BY <4>4 DEF InStep
    <3>5. CASE FellBack(q)
      <4>1. session[q].counter = n BY <3>5 DEF FellBack, f
      <4>2. WrappingSub(n, n) = 0 BY <1>6, Gaps
      <4>3. Ahead(q)' BY <1>1, <1>2, <1>12, <3>1, <4>1, <4>2
      <4> QED BY <4>3 DEF InStep
    <3> QED BY <3>2, <3>3, <3>4, <3>5
  <2>3. CASE q # p /\ ~session[q].file BY <1>3, <2>3 DEF InStep
  <2> QED BY <2>1, <2>2, <2>3
<1>16. ASSUME Intact' PROVE Paired(disk)' /\ \A q \in Procs : KnowsBoth(q)'
  <2>1. Intact BY <1>3, <1>16 DEF Intact
  <2>2. \A q \in Procs : session[q].file => Ahead(q)
    <3>1. ~Unpaired /\ \A q \in Procs : ~FellBack(q) BY <2>1 DEF Intact, Unpaired, FellBack
    <3> QED BY <3>1 DEF KnownInv, InStep
  <2>3. Paired(disk)'
    <3>1. f = 0 => n = 1 BY CounterModulusAssumption DEF WrappingAdd
    <3>2. IF disk'[r].integrity = "Ok" THEN n = WrappingAdd(disk'[r].counter, 1) ELSE n = 1
      BY <1>7, <1>9, <3>1
    <3>3. /\ w \in Slots /\ r \in Slots /\ 1 - w = r /\ 1 - r = w
          /\ \A s \in Slots : s = w \/ s = r
      BY <1>6 DEF Slots
    <3>4. CASE disk'[r].integrity = "Ok"
      <4>1. disk'[w].counter = WrappingAdd(disk'[1 - w].counter, 1) BY <1>7, <3>2, <3>3, <3>4
      <4>2. \A s \in Slots : disk'[1 - s].integrity = "Ok" BY <1>7, <3>3, <3>4
      <4> HIDE DEF r
      <4> QED BY <3>3, <4>1, <4>2 DEF Paired
    <3>5. CASE disk'[r].integrity # "Ok"
      <4>1. disk'[w].counter = 1 BY <1>7, <3>2, <3>5
      <4> HIDE DEF r
      <4> QED BY <3>3, <3>5, <4>1 DEF Paired
    <3> QED BY <3>4, <3>5
  <2>4. KnowsBoth(p)'
    <3>1. CASE disk[r].integrity # "Ok"
      BY <1>3, <1>6, <1>7, <3>1 DEF KnowsBoth, Slots
    <3>2. CASE disk[r].integrity = "Ok"
      <4>1. gap(p) <= clock - FirstStamp BY <1>1, <1>11, <2>2
      <4>2. gap(p) \in Int BY <1>6, <1>8, Gaps
      <4>3. 2 * gap(p) < CounterModulus
        <5> HIDE DEF gap
        <5> QED BY <1>1, <1>2, <4>1, <4>2, StoresAssumption, CounterModulusAssumption
      <4>4. f = session[p].counter BY <1>6, <1>8, <1>9, <1>10, <3>2, <4>3, Gaps
      <4>5. disk[r].blocks \in known[p]
        BY <1>1, <1>6, <2>1, <3>2, <4>4 DEF KnownInv, UpToDate, KnowsBoth, f
      <4> QED BY <1>3, <1>6, <1>7, <4>5 DEF KnowsBoth, Slots
    <3> QED BY <3>1, <3>2
  <2>5. ASSUME NEW q \in Procs, q # p PROVE KnowsBoth(q)'
    <3>1. SUFFICES ASSUME session[q].file, session[q].counter = n PROVE FALSE
      BY <1>3, <1>4, <2>5 DEF KnowsBoth
    <3>2. gap(q) <= clock - FirstStamp BY <1>11, <2>2, <3>1
    <3>3. gap(q) = CounterModulus - 1 BY <1>6, <3>1, Gaps
    <3> HIDE DEF gap, n
    <3> QED BY <1>1, <1>2, <3>2, <3>3, StoresAssumption, CounterModulusAssumption
  <2> QED BY <2>3, <2>4, <2>5
<1> QED BY <1>14, <1>15, <1>16 DEF KnownInv, UpToDate

\* Damage to one slot of an intact file sets the disk back by one generation
\* at most, and to a save every session that is up to date knows.
LEMMA DamageKnows ==
  ASSUME IInv, KnownInv, Sound(disk), NEW s \in Slots, Damage(s)
  PROVE  KnownInv'
<1> DEFINE f == DiskLoad(disk).counter
           g == DiskLoad(disk').counter
           r == PhysicalSlotForCounter(f)
           t == PhysicalSlotForCounter(g)
<1>1. /\ disk \in Image /\ session \in [Procs -> Session]
      /\ clock \in Nat /\ FirstStamp \in Nat /\ clock >= FirstStamp
      /\ damage \in [slots : 0 .. MaxDamage, copies : 0 .. MaxDamage] /\ MaxDamage \in Nat
  BY SessionAssumption DEF IInv, TypeOK
<1>2. /\ UNCHANGED <<clock, session, known>> /\ disk' \in DamagedImages(disk, s)
      /\ damage'.slots = damage.slots + 1 /\ damage'.copies = damage.copies
      /\ damage.slots \in Nat /\ damage.copies \in Nat
  BY <1>1 DEF Damage
<1>3. ~Intact' BY <1>1, <1>2 DEF Intact
<1>4. ASSUME NEW q \in Procs PROVE BaseKnown(q)' BY <1>2 DEF BaseKnown, KnownInv
<1>5. CASE ~Intact
  <2>1. Unpaired' BY <1>1, <1>2, <1>5 DEF Unpaired, Intact
  <2> QED BY <1>3, <1>4, <2>1 DEF KnownInv, UpToDate, InStep
<1>6. CASE Intact
  <2>1. damage'.slots = 1 BY <1>1, <1>2, <1>6 DEF Intact
  <2>2. Paired(disk) /\ \A q \in Procs : KnowsBoth(q) BY <1>6 DEF KnownInv, UpToDate
  <2>3. /\ disk' \in Image /\ Sound(disk')
        /\ \A x \in Slots :
              /\ x # s => disk'[x] = disk[x]
              /\ disk'[x].integrity = "Ok" =>
                   /\ disk[x].integrity = "Ok" /\ disk'[x].counter = disk[x].counter
                   /\ disk'[x].blocks = disk[x].blocks
    BY <1>1, <1>2, DamageKeepsSound
  <2>4. /\ f \in Counter /\ r \in Slots /\ 1 - r \in Slots /\ 1 - r # r
        /\ disk[r].integrity = "Ok" => disk[r].counter = f
        /\ disk[r].integrity # "Ok" => f = 0 /\ \A x \in Slots : disk[x].integrity # "Ok"
    BY <1>1, LoadOf
  <2>5. /\ g \in Counter /\ t \in Slots
        /\ MenuShowsContinue(DiskLoad(disk').status) <=> disk'[t].integrity = "Ok"
        /\ disk'[t].integrity = "Ok" =>
             disk'[t].counter = g /\ DiskLoad(disk').base.blocks = disk'[t].blocks
        /\ disk'[t].integrity # "Ok" => g = 0 /\ \A x \in Slots : disk'[x].integrity # "Ok"
    BY <2>3, LoadOf
  <2>6. disk[r].integrity = "Ok" =>
          IF disk[1 - r].integrity = "Ok" THEN f = WrappingAdd(disk[1 - r].counter, 1)
          ELSE f = 1
    BY <1>1, <2>2, LoadOfPaired DEF f, r
  <2> HIDE DEF f, g, r, t
  <2>7. g = f \/ f = WrappingAdd(g, 1)
    <3>1. CASE disk[r].integrity # "Ok" BY <2>3, <2>4, <2>5, <3>1
    <3>2. CASE disk[r].integrity = "Ok" /\ disk'[t].integrity = "Ok"
      <4>1. t = r \/ t = 1 - r BY <2>4, <2>5 DEF Slots
      <4> QED BY <2>3, <2>4, <2>5, <2>6, <3>2, <4>1
    <3>3. CASE disk[r].integrity = "Ok" /\ disk'[t].integrity # "Ok"
      <4>1. disk'[r].integrity # "Ok" /\ disk'[1 - r].integrity # "Ok" BY <2>4, <2>5, <3>3
      <4>2. disk[1 - r].integrity # "Ok" BY <2>3, <2>4, <3>3, <4>1
      <4>3. f = 1 /\ g = 0 BY <2>5, <2>6, <3>3, <4>2
      <4> QED BY <4>3, CounterModulusAssumption DEF WrappingAdd
    <3> QED BY <3>1, <3>2, <3>3
  <2>8. ASSUME NEW q \in Procs, session[q].file PROVE Ahead(q)' \/ FellBack(q)'
    <3> DEFINE k == session[q].counter
    <3>1. k \in Counter BY <1>1 DEF Session
    <3>2. WrappingSub(f, k) <= clock - FirstStamp
      <4>1. ~Unpaired /\ ~FellBack(q) BY <1>6 DEF Intact, Unpaired, FellBack
      <4> QED BY <2>8, <4>1 DEF KnownInv, InStep, Ahead, Found, f
    <3>3. Ahead(q)' <=> WrappingSub(g, k) <= clock - FirstStamp
      BY <1>2 DEF Ahead, Found, g
    <3>4. CASE g = f BY <3>2, <3>3, <3>4
    <3>5. CASE f = WrappingAdd(g, 1) /\ k # f
      <4>1. WrappingSub(f, k) = WrappingSub(g, k) + 1 /\ WrappingSub(g, k) \in Int
        BY <2>5, <3>1, <3>5, Gaps
      <4> HIDE DEF k
      <4>2. WrappingSub(g, k) <= clock - FirstStamp BY <1>1, <3>2, <4>1
      <4> QED BY <3>3, <4>2
    <3>6. CASE f = WrappingAdd(g, 1) /\ k = f
      <4>1. \A x \in Slots : disk[x].integrity = "Ok" => disk[x].blocks \in known[q]
        BY <2>2, <2>8, <3>6 DEF KnowsBoth, Found, f
      <4>2. MenuShowsContinue(DiskLoad(disk').status) => DiskLoad(disk').base.blocks \in known[q]
        BY <2>3, <2>5, <4>1
      <4> QED BY <1>2, <2>1, <3>6, <4>2 DEF FellBack, Found, g
    <3> QED BY <2>7, <3>4, <3>5, <3>6
  <2> QED BY <1>2, <1>3, <1>4, <2>8 DEF KnownInv, UpToDate, InStep
<1> QED BY <1>5, <1>6

LEMMA KnownAlways == Spec => []KnownInv
<1>1. ASSUME IInv, Sound(disk), KnownInv, [Next]_vars PROVE KnownInv'
  <2>1. CASE UNCHANGED vars
    BY <1>1, <2>1, KnownUnchanged DEF vars, Same
  <2>2. ASSUME NEW p \in Procs, Rename(p) PROVE KnownInv' BY <1>1, <2>2, RenameKnows
  <2>3. ASSUME NEW s \in Slots, Damage(s) PROVE KnownInv' BY <1>1, <2>3, DamageKnows
  <2>4. ASSUME NEW image \in ForeignImages, Replace(image) PROVE KnownInv'
    <3>1. /\ UNCHANGED <<clock, session, known>> /\ damage'.copies = damage.copies + 1
          /\ damage.copies \in Nat
      BY <1>1, <2>4 DEF Replace, IInv, TypeOK
    <3>2. Unpaired' /\ ~Intact' BY <3>1 DEF Unpaired, Intact
    <3> QED BY <1>1, <3>1, <3>2 DEF KnownInv, UpToDate, BaseKnown, InStep
  <2>5. ASSUME NEW p \in Procs, Boot(p) PROVE KnownInv' BY <1>1, <2>5, BootKnows
  <2> QED BY <1>1, <2>1, <2>2, <2>3, <2>4, <2>5, QuietKnows DEF Next, Step
<1> QED BY <1>1, KnownInit, InvariantIInv, SoundAlways, PTL DEF Spec

\* A continued session writes over progress it never saw only once a file was
\* copied in or both slots were damaged, whatever the counters, and then never
\* over a save under its own counter or ahead of it.
THEOREM UnseenProgressIsSafe == Spec => NoUnseenProgressBuried
<1>1. ASSUME IInv, Sound(disk), KnownInv, [Next]_vars, NEW p \in Procs, Stores(p),
             ~session[p].new_game, MenuShowsContinue(DiskLoad(disk).status)
      PROVE  \/ DiskLoad(disk).base.blocks \in known[p]
             \/ /\ damage.copies > 0 \/ damage.slots > 1
                /\ DiskLoad(disk).counter # session[p].counter
                /\ ~CounterIsAhead(session[p].counter, DiskLoad(disk).counter)
  <2> DEFINE load == DiskLoad(disk)
             s == session[p]
  <2>1. /\ reread[p] = disk /\ s \in Session /\ disk \in Image /\ Verdict(p) = "Written"
        /\ s.file /\ clock \in FirstStamp .. LastStamp + 1
        /\ FirstStamp \in Nat /\ LastStamp \in Nat
    BY <1>1, StoringIsRenaming, SessionAssumption
    DEF Rename, IInv, TypeOK, StoreSeesTheDisk, RereadIsCurrent, Underway, Locked
  <2>2. load.counter \in Counter /\ s.counter \in Counter
    BY <2>1, DiskLoadType DEF Loads, Session
  <2>3. load.base.blocks # NoStamp BY <1>1, <2>1, LoadOf
  <2>4. ~CounterIsAhead(s.counter, load.counter) /\ ReconcileBase(s, load) # "Refuse"
    BY <1>1, <2>1 DEF Verdict, StoreVerdict
  <2>5. s.base.blocks \in known[p] \union {NoStamp}
    BY <1>1, <2>1 DEF KnownInv, BaseKnown
  <2>6. CASE load.counter = s.counter
    <3>1. ~CounterIsAhead(load.counter, s.counter) BY <2>6 DEF CounterIsAhead
    <3>2. load.base = s.base \/ DonorWasLost(s, load)
      BY <2>4, <2>6, <3>1 DEF ReconcileBase
    <3>3. load.base.blocks = s.base.blocks BY <3>2 DEF DonorWasLost
    <3> QED BY <2>3, <2>5, <3>3
  <2>7. CASE load.counter # s.counter
    <3>1. Unpaired \/ Ahead(p) \/ FellBack(p) BY <1>1, <2>1 DEF KnownInv, InStep
    <3>2. CASE Unpaired BY <2>4, <2>7, <3>2 DEF Unpaired
    <3>3. CASE FellBack(p) BY <1>1, <3>3 DEF FellBack, Found
    <3>4. ~Ahead(p)
      <4>1. SUFFICES ASSUME Ahead(p) PROVE FALSE OBVIOUS
      <4> DEFINE gap == WrappingSub(load.counter, s.counter)
      <4>2. gap <= clock - FirstStamp BY <4>1 DEF Ahead, Found
      <4>3. gap \in Int BY <2>2, Gaps
      <4>4. 2 * gap < CounterModulus
        <5> HIDE DEF gap
        <5> QED BY <2>1, <4>2, <4>3, StoresAssumption, CounterModulusAssumption
      <4> QED BY <2>2, <2>4, <2>7, <4>4, Gaps
    <3> QED BY <3>1, <3>2, <3>3, <3>4
  <2> QED BY <2>6, <2>7
<1>2. IInv /\ Sound(disk) /\ KnownInv /\ [Next]_vars =>
        [\A p \in Procs : LET load == DiskLoad(disk) IN
           Stores(p) /\ ~session[p].new_game /\ MenuShowsContinue(load.status) =>
             \/ load.base.blocks \in known[p]
             \/ /\ damage.copies > 0 \/ damage.slots > 1
                /\ load.counter # session[p].counter
                /\ ~CounterIsAhead(session[p].counter, load.counter)]_vars
  BY <1>1
<1> QED
  BY <1>2, InvariantIInv, SoundAlways, KnownAlways, PTL DEF Spec, NoUnseenProgressBuried
====
