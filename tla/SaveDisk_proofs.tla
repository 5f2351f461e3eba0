---- MODULE SaveDisk_proofs ----
(***************************************************************************)
(* Theorems of the save on disk: of the file it is kept in (SaveFile), for *)
(* any number of processes and directories and any bounds, and of the      *)
(* flash image in it (SaveStore), for any counters, rotations, bounds and  *)
(* any length of run.                                                      *)
(*                                                                         *)
(* SaveFile: type correctness, that no power loss uncovers a save that was *)
(* not written whole, and that a guarded write replaces the very save its  *)
(* process read.  The inductive invariant FileIInv rests on two facts      *)
(* about lock files.  They are never put back: a slot that holds the file  *)
(* a process locked has held it ever since.  And a file is in one slot     *)
(* only: a process whose check found its file in the slot of the parent    *)
(* stands where it stood when an earlier check did, however often the path *)
(* moved between.                                                          *)
(*                                                                         *)
(* SaveStore: type correctness, and two more invariants.  OneFaultKept     *)
(* shows that one fault costs no more than the save it hit.  It names the  *)
(* slots: the newest generation stands whole in one of them, and the other *)
(* is blank, holds the generation before it, or was torn or damaged; or    *)
(* the newest was hurt and the one before it stands alone.  What a torn    *)
(* write leaves is told from a generation because the rotations of two     *)
(* writes to one slot are two positions apart.  NoFaultKept shows, with    *)
(* five-sector builds writing and nothing torn, that the newest generation *)
(* and the newest boxes load.  It adds how many generations behind the     *)
(* newest one a head and the tail under it are: counters compare in that   *)
(* order only while they are less than half their range apart.             *)
(***************************************************************************)

EXTENDS SaveFile, SaveStore, FiniteSetTheorems, TLAPS

SavedImages == [dir : Dirs \cup {NoDir}, number : Nat, data : Data]
Places == {"idle", "open", "create", "reopen", "flock", "own", "read", "loaded",
           "stage", "fill", "ours", "rename", "sync", "release"}
CheckedPlaces == {"locked", "guarded", "read", "loaded", "stage", "ours", "rename"}
Points ==
  {At(place) : place \in Places} \cup [at : {"parent", "slot"}, next : CheckedPlaces]

\* A process between its lock and its release, one that has read the save, and
\* one that has filled its staged file.
HasLock(p) == pc[p].next \in CheckedPlaces \cup {"own", "fill", "sync"}
HasRead(p) == pc[p].next \in {"loaded", "stage", "fill", "ours", "rename"}
HasFilled(p) == pc[p].next \in {"ours", "rename"}

StateType ==
  /\ parent \in Dirs
  /\ slot \in [Dirs -> Int] /\ files \in Nat /\ upsets \in 0..MaxUpsets
  /\ holder \in [LockFiles -> Processes \cup {Nobody}]
  /\ save \in [Dirs -> SavedImages] /\ survivors \in [Dirs -> SUBSET SavedImages]
  /\ pc \in [Processes -> Points]
  /\ identity \in [Processes -> Dirs \cup {NoDir}]
  /\ lock_file \in [Processes -> Nat]
  /\ staged \in [Processes -> SavedImages] /\ seen \in [Processes -> SavedImages]
  /\ raced \in [Processes -> BOOLEAN]

\* No more lock files were made than there are slots in use and upsets so far.
InUse == {d \in Dirs : slot[d] # Free}
FilesCounted == files <= Cardinality(InUse) + upsets

FilesApart ==
  /\ \A d \in Dirs : slot[d] \in (1..files) \cup {Free, Spoilt}
  /\ \A d, e \in Dirs : slot[d] = slot[e] /\ slot[d] \in 1..files => d = e

LocksHeld ==
  \A p \in Processes :
    /\ lock_file[p] \in 0..files
    /\ pc[p].next = "flock" \/ HasLock(p) => lock_file[p] # Free
    /\ HasLock(p) => holder[lock_file[p]] = p

\* A check still holds when the call that relies on it is made.
ChecksHold ==
  \A p \in Processes :
    Exposed(p) /\ ~raced[p] => slot[parent] = lock_file[p]

\* The save a process read is the save still, wherever its lock file is.
SeenIsSaved ==
  \A p \in Processes : HasRead(p) /\ ~raced[p] =>
    \A d \in Dirs : slot[d] = lock_file[p] => save[d] = seen[p]

StagedIsOwn ==
  \A p \in Processes :
    /\ HasFilled(p) => staged[p].data # "filling"
    /\ pc[p].next = "rename" /\ ~raced[p] => staged[p].data # "foreign"

SurvivorsWhole ==
  /\ \A d \in Dirs : save[d] \in survivors[d]
  /\ PowerLossLeavesWhole

FileIInv ==
  /\ StateType /\ FilesCounted /\ FilesApart /\ LocksHeld
  /\ ChecksHold /\ SeenIsSaved /\ StagedIsOwn /\ SurvivorsWhole

---------------------------------------------------------------------------
(* The beginning, and a process that only moves on.                        *)

LEMMA InitFileIInv == Init => FileIInv
<1> SUFFICES ASSUME Init PROVE FileIInv
  OBVIOUS
<1> USE DEF Init
<1>1. StateType
  <2>1. \A d \in Dirs : Image(d, 0, "synced") \in SavedImages
    BY DEF SavedImages, Image, Data
  <2>2. NoImage \in SavedImages
    BY DEF SavedImages, NoImage, Image, Data
  <2>3. At("idle") \in Points
    BY DEF Points, At, Places
  <2>4. 0 \in 0..MaxUpsets
    BY SaveFileAssumption
  <2> QED
    BY <2>1, <2>2, <2>3, <2>4, SaveFileAssumption DEF StateType, Free
<1>2. FilesCounted
  <2>1. InUse = {}
    BY DEF InUse
  <2> QED
    BY <2>1, FS_EmptySet DEF FilesCounted
<1>3. FilesApart
  BY DEF FilesApart, Free
<1>4. \A p \in Processes : pc[p].next = "idle"
  BY DEF At
<1>5. LocksHeld /\ ChecksHold /\ SeenIsSaved /\ StagedIsOwn
  BY <1>4 DEF LocksHeld, ChecksHold, SeenIsSaved, StagedIsOwn, HasLock, HasRead, HasFilled,
              Exposed, At, CheckedPlaces, Free
<1>6. SurvivorsWhole
  BY DEF SurvivorsWhole, PowerLossLeavesWhole, Image
<1> QED
  BY <1>1, <1>2, <1>3, <1>5, <1>6 DEF FileIInv

\* A process takes a step that touches nothing but its own place and identity:
\* what it may claim at the new place it could claim before, or has just checked.
LEMMA MovesOn ==
  ASSUME FileIInv, NEW p \in Processes, NEW where \in Points, Goto(p, where),
         identity' \in [Processes -> Dirs \cup {NoDir}],
         UNCHANGED <<parent, diskVars, holder, lock_file, staged, upsets, seen, raced>>,
         where.next # "flock",
         where.next \in CheckedPlaces \cup {"own", "fill", "sync"} => HasLock(p),
         where \in {At("read"), At("rename")} => slot[parent] = lock_file[p],
         where.next \in {"loaded", "stage", "fill", "ours", "rename"} => HasRead(p),
         where.next \in {"ours", "rename"} => HasFilled(p),
         where.next = "rename" => pc[p].next = "rename" \/ staged[p].data # "foreign"
  PROVE  FileIInv'
<1> USE DEF FileIInv, diskVars, Goto
<1>1. pc[p] \in Points /\ pc'[p] = where /\ \A q \in Processes \ {p} : pc'[q] = pc[q]
  BY DEF StateType
<1>2. StateType'
  BY DEF StateType
<1>3. FilesCounted' /\ FilesApart'
  BY DEF FilesCounted, FilesApart, InUse
<1>4. LocksHeld'
  BY <1>1 DEF LocksHeld, HasLock
<1>5. ChecksHold'
  BY <1>1 DEF ChecksHold, Exposed
<1>6. SeenIsSaved'
  BY <1>1 DEF SeenIsSaved, HasRead
<1>7. StagedIsOwn'
  BY <1>1 DEF StagedIsOwn, HasFilled
<1>8. SurvivorsWhole'
  BY DEF SurvivorsWhole, PowerLossLeavesWhole
<1> QED
  BY <1>2, <1>3, <1>4, <1>5, <1>6, <1>7, <1>8

---------------------------------------------------------------------------
(* The steps of `lock`.                                                    *)

LEMMA BeginStep == ASSUME FileIInv, NEW p \in Processes, Begin(p) PROVE FileIInv'
<1>1. At("open") \in Points
  BY DEF At, Points, Places
<1>2. identity' \in [Processes -> Dirs \cup {NoDir}]
  BY DEF Begin, FileIInv, StateType
<1> QED
  BY <1>1, <1>2, MovesOn DEF Begin, At, CheckedPlaces

LEMMA MaxFilesType == Cardinality(Dirs) \in Nat /\ MaxFiles \in Nat
BY SaveFileAssumption, FS_CardinalityType DEF MaxFiles

\* Opening the slot's file names it; the lock is still to come.
LEMMA OpenedStep ==
  ASSUME FileIInv, NEW p \in Processes, Opened(p),
         UNCHANGED <<parent, diskVars, holder, identity, staged, upsets, seen, raced>>
  PROVE  FileIInv'
<1> USE DEF FileIInv, diskVars, Goto, Opened
<1>1. pc'[p] = At("flock") /\ \A q \in Processes \ {p} : pc'[q] = pc[q]
  BY DEF StateType
<1>2. slot[parent] \in 1..files
  <2>1. parent \in Dirs /\ slot[parent] > 0
    BY MaxFilesType DEF StateType, LockFiles
  <2> QED
    BY <2>1 DEF StateType, FilesApart, Free, Spoilt
<1>3. lock_file'[p] = slot[parent] /\ \A q \in Processes \ {p} : lock_file'[q] = lock_file[q]
  BY DEF StateType
<1>4. StateType'
  <2>1. At("flock") \in Points /\ slot[parent] \in Nat
    BY <1>2 DEF Points, Places, StateType
  <2> QED
    BY <2>1 DEF StateType
<1>5. FilesCounted' /\ FilesApart'
  BY DEF FilesCounted, FilesApart, InUse
<1>6. LocksHeld'
  BY <1>1, <1>2, <1>3 DEF LocksHeld, HasLock, At, CheckedPlaces, StateType, Free
<1>7. ChecksHold'
  BY <1>1, <1>3 DEF ChecksHold, Exposed, At
<1>8. SeenIsSaved'
  BY <1>1, <1>3 DEF SeenIsSaved, HasRead, At
<1>9. StagedIsOwn'
  BY <1>1 DEF StagedIsOwn, HasFilled, At
<1>10. SurvivorsWhole'
  BY DEF SurvivorsWhole, PowerLossLeavesWhole
<1> QED
  BY <1>4, <1>5, <1>6, <1>7, <1>8, <1>9, <1>10

LEMMA OpenSlotStep == ASSUME FileIInv, NEW p \in Processes, OpenSlot(p) PROVE FileIInv'
<1>1. CASE Opened(p)
  BY <1>1, OpenedStep DEF OpenSlot
<1>2. ASSUME NEW place \in {"create", "release"}, Goto(p, At(place)), UNCHANGED lock_file
      PROVE  FileIInv'
  <2>1. At(place) \in Points /\ identity' \in [Processes -> Dirs \cup {NoDir}]
    BY DEF OpenSlot, At, Points, Places, FileIInv, StateType
  <2> QED
    BY <1>2, <2>1, MovesOn DEF OpenSlot, At, CheckedPlaces
<1> QED
  BY <1>1, <1>2 DEF OpenSlot

LEMMA ReopenSlotStep == ASSUME FileIInv, NEW p \in Processes, ReopenSlot(p) PROVE FileIInv'
<1>1. CASE Opened(p)
  BY <1>1, OpenedStep DEF ReopenSlot
<1>2. CASE Goto(p, At("release")) /\ UNCHANGED lock_file
  <2>1. At("release") \in Points /\ identity' \in [Processes -> Dirs \cup {NoDir}]
    BY DEF ReopenSlot, At, Points, Places, FileIInv, StateType
  <2> QED
    BY <1>2, <2>1, MovesOn DEF ReopenSlot, At, CheckedPlaces
<1> QED
  BY <1>1, <1>2 DEF ReopenSlot

\* A fresh file goes into a slot that had none: one more slot is in use.
LEMMA SlotFilled ==
  ASSUME FileIInv, NEW d \in Dirs, slot[d] = Free, NEW file \in Int \ {Free},
         slot' = [slot EXCEPT ![d] = file]
  PROVE  /\ Cardinality(InUse) \in Nat /\ Cardinality(InUse') = Cardinality(InUse) + 1
         /\ Cardinality(InUse') <= Cardinality(Dirs) /\ Cardinality(Dirs) \in Nat
<1> USE DEF FileIInv, InUse
<1>1. IsFiniteSet(Dirs)
  BY SaveFileAssumption
<1>2. IsFiniteSet(InUse) /\ IsFiniteSet(InUse')
  BY <1>1, FS_Subset
<1>3. InUse' = InUse \cup {d} /\ d \notin InUse
  BY DEF StateType
<1>4. InUse' \subseteq Dirs
  OBVIOUS
<1>5. Cardinality(InUse \cup {d}) = Cardinality(InUse) + 1
  BY <1>2, <1>3, FS_AddElement
<1> QED
  BY <1>1, <1>2, <1>3, <1>4, <1>5, FS_Subset, FS_CardinalityType

LEMMA CreateSlotStep == ASSUME FileIInv, NEW p \in Processes, CreateSlot(p) PROVE FileIInv'
<1>1. CASE slot[parent] = Free
  <2> USE <1>1 DEF FileIInv
  <2>1. /\ files \in Nat /\ parent \in Dirs /\ files' = files + 1
        /\ slot' = [slot EXCEPT ![parent] = files + 1]
        /\ lock_file' = [lock_file EXCEPT ![p] = files + 1] /\ Goto(p, At("flock"))
        /\ UNCHANGED <<parent, save, survivors, holder, identity, staged, upsets, seen, raced>>
    BY DEF CreateSlot, StateType
  <2>2. pc'[p] = At("flock") /\ \A q \in Processes \ {p} : pc'[q] = pc[q]
    BY <2>1 DEF StateType, Goto
  <2>3. /\ lock_file'[p] = files + 1
        /\ \A q \in Processes \ {p} : lock_file'[q] = lock_file[q]
    BY <2>1 DEF StateType
  <2>4. /\ slot'[parent] = files + 1
        /\ \A d \in Dirs \ {parent} : slot'[d] = slot[d]
    BY <2>1 DEF StateType
  <2>5. StateType'
    BY <2>1 DEF StateType, Goto, At, Points, Places
  <2>6. FilesCounted'
    <3>1. files + 1 \in Int \ {Free}
      BY <2>1 DEF Free
    <3>2. Cardinality(InUse) \in Nat /\ Cardinality(InUse') = Cardinality(InUse) + 1
      BY <2>1, <3>1, SlotFilled
    <3> QED
      BY <2>1, <3>2, SaveFileAssumption DEF FilesCounted, StateType
  <2>7. FilesApart'
    BY <2>1, <2>4 DEF FilesApart, Free, Spoilt
  <2>8. LocksHeld'
    BY <2>1, <2>2, <2>3 DEF LocksHeld, HasLock, At, CheckedPlaces, Free
  <2>9. ChecksHold'
    <3> SUFFICES ASSUME NEW q \in Processes, Exposed(q)', ~raced'[q]
                 PROVE  slot'[parent'] = lock_file'[q]
      BY DEF ChecksHold
    <3>1. q # p /\ Exposed(q) /\ slot[parent] = lock_file[q]
      BY <2>1, <2>2 DEF Exposed, At, ChecksHold
    <3>2. HasLock(q)
      BY <3>1 DEF Exposed, At, HasLock, CheckedPlaces
    <3> QED
      BY <3>1, <3>2 DEF LocksHeld
  <2>10. SeenIsSaved'
    <3> SUFFICES ASSUME NEW q \in Processes, HasRead(q)', ~raced'[q],
                        NEW d \in Dirs, slot'[d] = lock_file'[q]
                 PROVE  save'[d] = seen'[q]
      BY DEF SeenIsSaved
    <3>1. q # p /\ HasRead(q) /\ lock_file'[q] = lock_file[q]
      BY <2>2, <2>3 DEF HasRead, At
    <3>2. lock_file[q] \in 0..files
      BY DEF LocksHeld
    <3>3. d # parent
      BY <2>1, <2>4, <3>1, <3>2
    <3> QED
      BY <2>1, <2>4, <3>1, <3>3 DEF SeenIsSaved
  <2>11. StagedIsOwn'
    BY <2>1, <2>2 DEF StagedIsOwn, HasFilled, At
  <2>12. SurvivorsWhole'
    BY <2>1 DEF SurvivorsWhole, PowerLossLeavesWhole
  <2> QED
    BY <2>5, <2>6, <2>7, <2>8, <2>9, <2>10, <2>11, <2>12
<1>2. CASE slot[parent] # Free
  <2>1. At("reopen") \in Points /\ identity' \in [Processes -> Dirs \cup {NoDir}]
    BY DEF CreateSlot, At, Points, Places, FileIInv, StateType
  <2> QED
    BY <1>2, <2>1, MovesOn DEF CreateSlot, At, CheckedPlaces, diskVars
<1> QED
  BY <1>1, <1>2

\* The file a process has locked is one of those that can be made.
LEMMA HeldIsLockFile ==
  ASSUME FileIInv, NEW p \in Processes, pc[p].next = "flock" \/ HasLock(p)
  PROVE  lock_file[p] \in 1..files /\ lock_file[p] \in LockFiles
<1> USE DEF FileIInv
<1>1. lock_file[p] \in 1..files
  BY DEF LocksHeld, Free, StateType
<1>2. IsFiniteSet(InUse) /\ Cardinality(InUse) <= Cardinality(Dirs)
  BY SaveFileAssumption, FS_Subset DEF InUse
<1>3. Cardinality(InUse) \in Nat
  BY <1>2, FS_CardinalityType
<1>4. files <= MaxFiles
  BY <1>2, <1>3, MaxFilesType, SaveFileAssumption DEF FilesCounted, StateType, MaxFiles
<1> QED
  BY <1>1, <1>4, MaxFilesType DEF LockFiles, StateType

LEMMA FlockStep == ASSUME FileIInv, NEW p \in Processes, Flock(p) PROVE FileIInv'
<1> USE DEF FileIInv, Flock, Goto, diskVars
<1>1. pc'[p] = At("own") /\ \A q \in Processes \ {p} : pc'[q] = pc[q]
  BY DEF StateType
<1>2. lock_file[p] \in 1..files /\ lock_file[p] \in LockFiles
  BY HeldIsLockFile DEF At
<1>4. /\ holder'[lock_file[p]] = p /\ holder[lock_file[p]] = Nobody
      /\ \A f \in LockFiles \ {lock_file[p]} : holder'[f] = holder[f]
  BY <1>2 DEF StateType
<1>5. StateType'
  BY <1>2 DEF StateType, At, Points, Places
<1>6. FilesCounted' /\ FilesApart'
  BY DEF FilesCounted, FilesApart, InUse
<1>7. LocksHeld'
  <2> SUFFICES ASSUME NEW q \in Processes
               PROVE  /\ lock_file[q] \in 0..files
                      /\ (pc[q].next = "flock" \/ HasLock(q))' => lock_file[q] # Free
                      /\ HasLock(q)' => holder'[lock_file[q]] = q
    BY DEF LocksHeld
  <2>1. CASE q = p
    BY <1>2, <1>4, <2>1 DEF Free, LocksHeld
  <2>2. CASE q # p
    <3>1. HasLock(q)' <=> HasLock(q)
      BY <1>1, <2>2 DEF HasLock
    <3>2. HasLock(q) => holder[lock_file[q]] = q /\ lock_file[q] # lock_file[p]
      BY <1>4, <2>2, NobodyAssumption DEF LocksHeld
    <3>3. HasLock(q) => holder'[lock_file[q]] = holder[lock_file[q]]
      BY <3>2 DEF StateType
    <3> QED
      BY <1>1, <2>2, <3>1, <3>2, <3>3 DEF LocksHeld
  <2> QED
    BY <2>1, <2>2
<1>8. ChecksHold'
  BY <1>1 DEF ChecksHold, Exposed, At
<1>9. SeenIsSaved'
  BY <1>1 DEF SeenIsSaved, HasRead, At
<1>10. StagedIsOwn'
  BY <1>1 DEF StagedIsOwn, HasFilled, At
<1>11. SurvivorsWhole'
  BY DEF SurvivorsWhole, PowerLossLeavesWhole
<1> QED
  BY <1>5, <1>6, <1>7, <1>8, <1>9, <1>10, <1>11

\* The three steps that compare and move on or give up.
LEMMA CheckingStep ==
  ASSUME FileIInv, NEW p \in Processes, OwnEntry(p) \/ CheckParent(p) \/ CheckSlot(p)
  PROVE  FileIInv'
<1>1. pc[p] \in Points /\ identity' \in [Processes -> Dirs \cup {NoDir}]
  BY DEF FileIInv, StateType, OwnEntry, CheckParent, CheckSlot
<1>2. ASSUME Goto(p, At("release")),
             UNCHANGED <<parent, diskVars, holder, lock_file, staged, upsets, seen, raced>>
      PROVE  FileIInv'
  <2>1. At("release") \in Points
    BY DEF At, Points, Places
  <2> QED
    BY <1>1, <1>2, <2>1, MovesOn DEF At, CheckedPlaces
<1>3. CASE OwnEntry(p) /\ slot[parent] = lock_file[p]
  <2>1. CheckBefore("locked") \in Points
    BY DEF CheckBefore, Points, CheckedPlaces
  <2> QED
    BY <1>1, <1>3, <2>1, MovesOn DEF OwnEntry, CheckBefore, At, CheckedPlaces, HasLock
<1>4. CASE CheckParent(p) /\ parent = identity[p]
  <2> DEFINE where == [pc[p] EXCEPT !.at = "slot"]
  <2>1. pc[p] \in [at : {"parent", "slot"}, next : CheckedPlaces]
    BY <1>1, <1>4 DEF CheckParent, Points, At, Places
  <2>2. /\ where \in [at : {"parent", "slot"}, next : CheckedPlaces]
        /\ where.at = "slot" /\ where.next = pc[p].next
    BY <2>1
  <2>3. where \in Points /\ where \notin {At("read"), At("rename")} /\ where.next # "flock"
    BY <2>2 DEF Points, At, CheckedPlaces
  <2>4. Goto(p, where)
        /\ UNCHANGED <<parent, diskVars, holder, lock_file, staged, upsets, seen, raced>>
    BY <1>4 DEF CheckParent
  <2>5. /\ HasLock(p) <=> where.next \in CheckedPlaces \cup {"own", "fill", "sync"}
        /\ HasRead(p) <=> where.next \in {"loaded", "stage", "fill", "ours", "rename"}
        /\ HasFilled(p) <=> where.next \in {"ours", "rename"}
    BY <2>2 DEF HasLock, HasRead, HasFilled
  <2> HIDE DEF where
  <2> QED
    BY <1>1, <2>2, <2>3, <2>4, <2>5, MovesOn
<1>5. CASE CheckSlot(p) /\ slot[parent] = lock_file[p]
  <2>1. pc[p].next \in CheckedPlaces
    BY <1>1, <1>5 DEF CheckSlot, Points, At, Places
  <2>2. Passed(pc[p].next) \in Points
    BY <2>1 DEF Passed, Points, CheckBefore, At, Places, CheckedPlaces
  <2>3. Passed(pc[p].next).next \in CheckedPlaces
    BY <2>1 DEF Passed, CheckBefore, At, CheckedPlaces
  <2>4. /\ pc[p].next \in {"loaded", "stage", "ours", "rename"}
           <=> Passed(pc[p].next).next \in {"loaded", "stage", "ours", "rename"}
        /\ pc[p].next \in {"ours", "rename"} <=> Passed(pc[p].next).next \in {"ours", "rename"}
        /\ pc[p].next = "rename" <=> Passed(pc[p].next).next = "rename"
    BY <2>1 DEF Passed, CheckBefore, At, CheckedPlaces
  <2>5. Goto(p, Passed(pc[p].next))
        /\ UNCHANGED <<parent, diskVars, holder, lock_file, staged, upsets, seen, raced>>
    BY <1>5 DEF CheckSlot
  <2> QED
    BY <1>1, <1>5, <2>1, <2>2, <2>3, <2>4, <2>5, MovesOn
    DEF HasLock, HasRead, HasFilled, CheckedPlaces
<1> QED
  BY <1>2, <1>3, <1>4, <1>5 DEF OwnEntry, CheckParent, CheckSlot

---------------------------------------------------------------------------
(* The steps under the guard.                                              *)

LEMMA ReadStep == ASSUME FileIInv, NEW p \in Processes, Read(p) PROVE FileIInv'
<1> USE DEF FileIInv, Read, Goto, diskVars
<1>1. pc'[p] = CheckBefore("loaded") /\ \A q \in Processes \ {p} : pc'[q] = pc[q]
  BY DEF StateType
<1>2. seen'[p] = save[parent] /\ \A q \in Processes \ {p} : seen'[q] = seen[q]
  BY DEF StateType
<1>3. StateType'
  <2>1. CheckBefore("loaded") \in Points /\ save[parent] \in SavedImages
    BY DEF CheckBefore, Points, CheckedPlaces, StateType
  <2> QED
    BY <2>1 DEF StateType
<1>4. FilesCounted' /\ FilesApart'
  BY DEF FilesCounted, FilesApart, InUse
<1>5. LocksHeld'
  BY <1>1 DEF LocksHeld, HasLock, CheckBefore, At, CheckedPlaces
<1>6. ChecksHold'
  BY <1>1 DEF ChecksHold, Exposed, CheckBefore, At
<1>7. SeenIsSaved'
  <2> SUFFICES ASSUME NEW q \in Processes, HasRead(q)', ~raced[q],
                      NEW d \in Dirs, slot[d] = lock_file[q]
               PROVE  save[d] = seen'[q]
    BY DEF SeenIsSaved
  <2>1. CASE q = p
    <3>1. HasLock(p) /\ Exposed(p)
      BY DEF HasLock, Exposed, At, CheckedPlaces
    <3>2. slot[parent] = slot[d] /\ slot[d] \in 1..files
      BY <2>1, <3>1 DEF ChecksHold, LocksHeld, Free, StateType
    <3>3. d = parent
      BY <3>2 DEF FilesApart, StateType
    <3> QED
      BY <1>2, <2>1, <3>3
  <2>2. CASE q # p
    BY <1>1, <1>2, <2>2 DEF SeenIsSaved, HasRead
  <2> QED
    BY <2>1, <2>2
<1>8. StagedIsOwn'
  BY <1>1 DEF StagedIsOwn, HasFilled, CheckBefore
<1>9. SurvivorsWhole'
  BY DEF SurvivorsWhole, PowerLossLeavesWhole
<1> QED
  BY <1>3, <1>4, <1>5, <1>6, <1>7, <1>8, <1>9

LEMMA StartWriteStep == ASSUME FileIInv, NEW p \in Processes, StartWrite(p) PROVE FileIInv'
<1>1. /\ CheckBefore("stage") \in Points
      /\ identity' \in [Processes -> Dirs \cup {NoDir}]
  BY DEF StartWrite, CheckBefore, Points, CheckedPlaces, FileIInv, StateType
<1> QED
  BY <1>1, MovesOn DEF StartWrite, CheckBefore, At, CheckedPlaces, HasLock, HasRead

\* A process changes its own staged file, before `still_ours` has passed it.
LEMMA StagingStep ==
  ASSUME FileIInv, NEW p \in Processes, NEW where \in Points, Goto(p, where),
         NEW image \in SavedImages, staged' = [staged EXCEPT ![p] = image],
         UNCHANGED <<parent, diskVars, holder, identity, lock_file, upsets, seen, raced>>,
         HasLock(p), HasRead(p), where \notin {At("read"), At("rename")},
         where.next \notin {"flock", "rename"},
         where.next = "ours" => image.data # "filling"
  PROVE  FileIInv'
<1> USE DEF FileIInv, Goto, diskVars
<1>1. pc'[p] = where /\ \A q \in Processes \ {p} : pc'[q] = pc[q]
  BY DEF StateType
<1>2. staged'[p] = image /\ \A q \in Processes \ {p} : staged'[q] = staged[q]
  BY DEF StateType
<1>3. StateType'
  BY DEF StateType
<1>4. FilesCounted' /\ FilesApart'
  BY DEF FilesCounted, FilesApart, InUse
<1>5. LocksHeld'
  BY <1>1 DEF LocksHeld, HasLock
<1>6. ChecksHold'
  BY <1>1 DEF ChecksHold, Exposed
<1>7. SeenIsSaved'
  BY <1>1 DEF SeenIsSaved, HasRead
<1>8. StagedIsOwn'
  BY <1>1, <1>2 DEF StagedIsOwn, HasFilled
<1>9. SurvivorsWhole'
  BY DEF SurvivorsWhole, PowerLossLeavesWhole
<1> QED
  BY <1>3, <1>4, <1>5, <1>6, <1>7, <1>8, <1>9

LEMMA StageStep == ASSUME FileIInv, NEW p \in Processes, Stage(p) PROVE FileIInv'
<1> DEFINE image == Image(parent, save[parent].number + 1, "filling")
<1>1. image \in SavedImages /\ At("fill") \in Points
  BY DEF FileIInv, StateType, SavedImages, Image, Data, Points, Places
<1>2. /\ Goto(p, At("fill")) /\ staged' = [staged EXCEPT ![p] = image]
      /\ UNCHANGED <<parent, diskVars, holder, identity, lock_file, upsets, seen, raced>>
  BY DEF Stage
<1>3. At("fill") \notin {At("read"), At("rename")} /\ At("fill").next = "fill"
  BY DEF At
<1>4. HasLock(p) /\ HasRead(p)
  BY DEF Stage, At, HasLock, HasRead, CheckedPlaces
<1> HIDE DEF image
<1> QED
  BY <1>1, <1>2, <1>3, <1>4, StagingStep

LEMMA FillStep == ASSUME FileIInv, NEW p \in Processes, Fill(p) PROVE FileIInv'
<1> DEFINE data == IF staged[p].data = "filling" THEN "synced" ELSE staged[p].data
           image == [staged[p] EXCEPT !.data = data]
<1>1. staged[p] \in SavedImages /\ HasLock(p) /\ HasRead(p)
  BY DEF FileIInv, StateType, Fill, HasLock, HasRead, At, CheckedPlaces
<1>2. CASE staged' = [staged EXCEPT ![p] = image] /\ Goto(p, CheckBefore("ours"))
  <2>1. image \in SavedImages /\ image.data # "filling"
    BY <1>1 DEF SavedImages, Data
  <2>2. /\ CheckBefore("ours") \in Points
        /\ CheckBefore("ours") \notin {At("read"), At("rename")}
        /\ CheckBefore("ours").next = "ours"
    BY DEF CheckBefore, Points, CheckedPlaces, At
  <2> HIDE DEF image
  <2> QED
    BY <1>1, <1>2, <2>1, <2>2, StagingStep DEF Fill
<1>3. CASE Goto(p, At("release")) /\ UNCHANGED staged
  <2>1. At("release") \in Points /\ identity' \in [Processes -> Dirs \cup {NoDir}]
    BY DEF Fill, At, Points, Places, FileIInv, StateType
  <2> QED
    BY <1>3, <2>1, MovesOn DEF Fill, At, CheckedPlaces
<1> QED
  BY <1>2, <1>3 DEF Fill

LEMMA StillOursStep == ASSUME FileIInv, NEW p \in Processes, StillOurs(p) PROVE FileIInv'
<1>1. identity' \in [Processes -> Dirs \cup {NoDir}]
  BY DEF FileIInv, StateType, StillOurs
<1>2. CASE StillThere(p) /\ staged[p].data # "foreign"
  <2>1. CheckBefore("rename") \in Points
    BY DEF CheckBefore, Points, CheckedPlaces
  <2> QED
    BY <1>1, <1>2, <2>1, MovesOn
    DEF StillOurs, CheckBefore, At, CheckedPlaces, HasLock, HasRead, HasFilled
<1>3. CASE ~(StillThere(p) /\ staged[p].data # "foreign")
  <2>1. At("release") \in Points
    BY DEF At, Points, Places
  <2> QED
    BY <1>1, <1>3, <2>1, MovesOn DEF StillOurs, At, CheckedPlaces
<1> QED
  BY <1>2, <1>3

\* Two processes that hold the lock of one file are the same.
LEMMA OneHolder ==
  ASSUME LocksHeld, NEW p \in Processes, NEW q \in Processes, HasLock(p), HasLock(q),
         lock_file[p] = lock_file[q]
  PROVE  p = q
BY DEF LocksHeld

LEMMA RenameStep == ASSUME FileIInv, NEW p \in Processes, Rename(p) PROVE FileIInv'
<1>1. CASE StillThere(p)
  <2> USE <1>1 DEF FileIInv, Rename, Goto
  <2>1. HasLock(p) /\ HasFilled(p) /\ Exposed(p) /\ parent \in Dirs
    BY DEF HasLock, HasFilled, Exposed, At, CheckedPlaces, StateType
  <2>2. pc'[p] = At("sync") /\ \A q \in Processes \ {p} : pc'[q] = pc[q]
    BY DEF StateType
  <2>3. save'[parent] = staged[p] /\ \A d \in Dirs \ {parent} : save'[d] = save[d]
    BY DEF StateType
  <2>4. StateType'
    <3>1. At("sync") \in Points /\ NoImage \in SavedImages /\ staged[p] \in SavedImages
      BY DEF Points, Places, StateType, SavedImages, NoImage, Image, Data
    <3> QED
      BY <3>1 DEF StateType
  <2>5. FilesCounted' /\ FilesApart'
    BY DEF FilesCounted, FilesApart, InUse
  <2>6. LocksHeld'
    BY <2>1, <2>2 DEF LocksHeld, HasLock, At
  <2>7. ChecksHold'
    BY <2>2 DEF ChecksHold, Exposed, At
  <2>8. SeenIsSaved'
    <3> SUFFICES ASSUME NEW q \in Processes, HasRead(q)', ~raced'[q],
                        NEW d \in Dirs, slot[d] = lock_file[q]
                 PROVE  save'[d] = seen[q]
      BY DEF SeenIsSaved
    <3>1. q # p /\ HasRead(q) /\ pc[q] # At("idle")
      BY <2>2 DEF HasRead, At
    <3>2. ~raced[q] /\ ~raced[p]
      BY <3>1
    <3>3. d # parent
      <4>1. slot[parent] = lock_file[p] /\ HasLock(q)
        BY <2>1, <3>1, <3>2 DEF ChecksHold, HasRead, HasLock, CheckedPlaces
      <4> QED
        BY <2>1, <3>1, <4>1, OneHolder
    <3> QED
      BY <2>3, <3>1, <3>2, <3>3 DEF SeenIsSaved
  <2>9. StagedIsOwn'
    <3>1. \A q \in Processes \ {p} : staged'[q] = staged[q] /\ (raced[q] => raced'[q])
      BY DEF StateType
    <3> QED
      BY <2>2, <3>1 DEF StagedIsOwn, HasFilled, At
  <2>10. SurvivorsWhole'
    <3>1. staged[p].data # "filling"
      BY <2>1 DEF StagedIsOwn
    <3> QED
      BY <2>1, <2>3, <3>1 DEF SurvivorsWhole, PowerLossLeavesWhole, StateType
  <2> QED
    BY <2>4, <2>5, <2>6, <2>7, <2>8, <2>9, <2>10
<1>2. CASE ~StillThere(p)
  <2>1. At("release") \in Points /\ identity' \in [Processes -> Dirs \cup {NoDir}]
    BY DEF At, Points, Places, FileIInv, StateType, Rename
  <2> QED
    BY <1>2, <2>1, MovesOn DEF Rename, At, CheckedPlaces, diskVars
<1> QED
  BY <1>1, <1>2

LEMMA SyncStep == ASSUME FileIInv, NEW p \in Processes, SyncDirectory(p) PROVE FileIInv'
<1> USE DEF FileIInv, SyncDirectory, Goto
<1>1. pc'[p] = At("release") /\ \A q \in Processes \ {p} : pc'[q] = pc[q]
  BY DEF StateType
<1>2. /\ survivors' \in [Dirs -> SUBSET SavedImages]
      /\ \A d \in Dirs : survivors'[d] \in {survivors[d], {save[d]}}
  BY DEF StateType
<1>3. StateType'
  <2>1. At("release") \in Points
    BY DEF Points, Places
  <2> QED
    BY <1>2, <2>1 DEF StateType
<1>4. FilesCounted' /\ FilesApart'
  BY DEF FilesCounted, FilesApart, InUse
<1>5. LocksHeld'
  BY <1>1 DEF LocksHeld, HasLock, At, CheckedPlaces
<1>6. ChecksHold'
  BY <1>1 DEF ChecksHold, Exposed, At
<1>7. SeenIsSaved'
  BY <1>1 DEF SeenIsSaved, HasRead, At
<1>8. StagedIsOwn'
  BY <1>1 DEF StagedIsOwn, HasFilled, At
<1>9. SurvivorsWhole'
  BY <1>2 DEF SurvivorsWhole, PowerLossLeavesWhole
<1> QED
  BY <1>3, <1>4, <1>5, <1>6, <1>7, <1>8, <1>9

\* A guard is dropped, by its process or with it.
LEMMA ForgetStep ==
  ASSUME FileIInv, NEW p \in Processes, Forget(p), holder' = Unlocked({p}),
         upsets' \in {upsets, upsets + 1}, upsets' \in 0..MaxUpsets,
         UNCHANGED <<parent, diskVars>>
  PROVE  FileIInv'
<1> USE DEF FileIInv, Forget, Goto, diskVars
<1>1. /\ pc'[p] = At("idle") /\ lock_file'[p] = Free /\ staged'[p] = NoImage
      /\ \A q \in Processes \ {p} :
           /\ pc'[q] = pc[q] /\ lock_file'[q] = lock_file[q] /\ staged'[q] = staged[q]
           /\ seen'[q] = seen[q] /\ raced'[q] = raced[q]
  BY DEF StateType
<1>2. \A f \in LockFiles : holder'[f] = IF holder[f] = p THEN Nobody ELSE holder[f]
  BY DEF Unlocked
<1>3. StateType'
  <2>1. At("idle") \in Points /\ NoImage \in SavedImages
    BY DEF Points, Places, NoImage, Image, SavedImages, Data
  <2>2. holder' \in [LockFiles -> Processes \cup {Nobody}]
    BY DEF Unlocked, StateType
  <2> QED
    BY <2>1, <2>2 DEF StateType, Free
<1>4. FilesCounted' /\ FilesApart'
  <2>1. IsFiniteSet(InUse)
    BY SaveFileAssumption, FS_Subset DEF InUse
  <2>2. Cardinality(InUse) \in Nat /\ InUse' = InUse
    BY <2>1, FS_CardinalityType DEF InUse
  <2> QED
    BY <2>2 DEF FilesCounted, FilesApart, StateType
<1>5. LocksHeld'
  <2> SUFFICES ASSUME NEW q \in Processes
               PROVE  /\ lock_file'[q] \in 0..files
                      /\ (pc[q].next = "flock" \/ HasLock(q))' => lock_file'[q] # Free
                      /\ HasLock(q)' => holder'[lock_file'[q]] = q
    BY DEF LocksHeld
  <2>1. CASE q = p
    BY <1>1, <2>1 DEF HasLock, At, CheckedPlaces, Free, StateType
  <2>2. CASE q # p
    <3>1. HasLock(q) => lock_file[q] \in LockFiles
      BY HeldIsLockFile
    <3> QED
      BY <1>1, <1>2, <2>2, <3>1 DEF LocksHeld, HasLock
  <2> QED
    BY <2>1, <2>2
<1>6. ChecksHold'
  BY <1>1 DEF ChecksHold, Exposed, At
<1>7. SeenIsSaved'
  BY <1>1 DEF SeenIsSaved, HasRead, At
<1>8. StagedIsOwn'
  BY <1>1 DEF StagedIsOwn, HasFilled, At
<1>9. SurvivorsWhole'
  BY DEF SurvivorsWhole, PowerLossLeavesWhole
<1> QED
  BY <1>3, <1>4, <1>5, <1>6, <1>7, <1>8, <1>9

---------------------------------------------------------------------------
(* What the processes do not control.                                      *)

\* Changes of the path or of a slot that put no lock file anywhere.
LEMMA UpsetStep ==
  ASSUME FileIInv, Upset, Race, parent' \in Dirs, slot' \in [Dirs -> Int],
         \A d \in Dirs : slot'[d] \in {slot[d], Free, Spoilt},
         files <= Cardinality(InUse') + upsets',
         UNCHANGED <<files, save, survivors, holder, procVars, seen>>
  PROVE  FileIInv'
<1> USE DEF FileIInv, Upset, Race, procVars
<1>1. /\ raced' \in [Processes -> BOOLEAN]
      /\ \A p \in Processes : ~raced'[p] => ~raced[p] /\ ~Exposed(p)
  BY DEF StateType
<1>2. StateType'
  BY <1>1, SaveFileAssumption DEF StateType
<1>3. FilesCounted'
  BY DEF FilesCounted
<1>4. FilesApart'
  BY DEF FilesApart, Free, Spoilt, StateType
<1>5. LocksHeld'
  BY DEF LocksHeld, HasLock
<1>6. ChecksHold'
  BY <1>1 DEF ChecksHold, Exposed
<1>7. SeenIsSaved'
  <2> SUFFICES ASSUME NEW p \in Processes, HasRead(p)', ~raced'[p],
                      NEW d \in Dirs, slot'[d] = lock_file[p]
               PROVE  save[d] = seen[p]
    BY DEF SeenIsSaved
  <2>1. HasRead(p) /\ HasLock(p) /\ ~raced[p]
    BY <1>1 DEF HasRead, HasLock, CheckedPlaces
  <2>2. lock_file[p] \in 1..files
    BY <2>1 DEF LocksHeld, Free, StateType
  <2>3. slot[d] = lock_file[p]
    BY <2>2 DEF Free, Spoilt
  <2> QED
    BY <2>1, <2>3 DEF SeenIsSaved
<1>8. StagedIsOwn'
  BY <1>1 DEF StagedIsOwn, HasFilled
<1>9. SurvivorsWhole'
  BY DEF SurvivorsWhole, PowerLossLeavesWhole
<1> QED
  BY <1>2, <1>3, <1>4, <1>5, <1>6, <1>7, <1>8, <1>9

\* Taking or spoiling a slot empties one of the slots in use at most.
LEMMA SlotUpset ==
  ASSUME FileIInv, NEW d \in Dirs, NEW left \in {Free, Spoilt},
         slot' = [slot EXCEPT ![d] = left], upsets' = upsets + 1
  PROVE  files <= Cardinality(InUse') + upsets'
<1> USE DEF FileIInv, InUse
<1>1. IsFiniteSet(InUse) /\ IsFiniteSet(InUse') /\ IsFiniteSet(InUse \ {d})
  BY SaveFileAssumption, FS_Subset
<1>2. /\ Cardinality(InUse) \in Nat /\ Cardinality(InUse') \in Nat
      /\ Cardinality(InUse \ {d}) \in Nat
  BY <1>1, FS_CardinalityType
<1>3. Cardinality(InUse) <= Cardinality(InUse \ {d}) + 1
  <2>1. Cardinality(InUse \ {d}) =
          IF d \in InUse THEN Cardinality(InUse) - 1 ELSE Cardinality(InUse)
    BY <1>1, FS_RemoveElement
  <2> QED
    BY <1>2, <2>1
<1>4. InUse \ {d} \subseteq InUse'
  BY DEF StateType
<1>5. Cardinality(InUse \ {d}) <= Cardinality(InUse')
  BY <1>1, <1>4, FS_Subset
<1>6. files <= Cardinality(InUse) + upsets /\ files \in Nat /\ upsets \in Nat
  BY SaveFileAssumption DEF FilesCounted, StateType
<1> QED
  BY <1>2, <1>3, <1>5, <1>6

LEMMA SlotLostStep ==
  ASSUME FileIInv, NEW d \in Dirs, TakeSlot(d) \/ SpoilSlot(d)
  PROVE  FileIInv'
<1>1. PICK left \in {Free, Spoilt} : slot' = [slot EXCEPT ![d] = left]
  BY DEF TakeSlot, SpoilSlot
<1>2. /\ Upset /\ Race
      /\ UNCHANGED <<parent, files, save, survivors, holder, procVars, seen>>
  BY DEF TakeSlot, SpoilSlot
<1>3. files <= Cardinality(InUse') + upsets'
  BY <1>1, <1>2, SlotUpset DEF Upset
<1>4. /\ parent' \in Dirs /\ slot' \in [Dirs -> Int]
      /\ \A e \in Dirs : slot'[e] \in {slot[e], Free, Spoilt}
  BY <1>1, <1>2 DEF FileIInv, StateType, Free, Spoilt
<1> QED
  BY <1>2, <1>3, <1>4, UpsetStep

LEMMA RetargetStep == ASSUME FileIInv, Retarget PROVE FileIInv'
<1>1. files <= Cardinality(InUse') + upsets'
  <2>1. IsFiniteSet(InUse)
    BY SaveFileAssumption, FS_Subset DEF InUse
  <2>2. Cardinality(InUse) \in Nat /\ InUse' = InUse
    BY <2>1, FS_CardinalityType DEF InUse, Retarget, diskVars
  <2> QED
    BY <2>2, SaveFileAssumption DEF FileIInv, FilesCounted, StateType, Retarget, Upset
<1> QED
  BY <1>1, UpsetStep DEF Retarget, diskVars, FileIInv, StateType

LEMMA ReplaceStagedStep ==
  ASSUME FileIInv, NEW p \in Processes, ReplaceStaged(p)
  PROVE  FileIInv'
<1> USE DEF FileIInv, ReplaceStaged, Upset, diskVars
<1>1. /\ staged'[p].data = "foreign" /\ staged' \in [Processes -> SavedImages]
      /\ \A q \in Processes \ {p} : staged'[q] = staged[q]
  BY DEF StateType, SavedImages, Data
<1>2. /\ raced' \in [Processes -> BOOLEAN] /\ (pc[p].next = "rename" => raced'[p])
      /\ \A q \in Processes : raced[q] => raced'[q]
  BY DEF StateType
<1>3. upsets' \in 0..MaxUpsets /\ upsets' = upsets + 1
  BY SaveFileAssumption DEF StateType
<1>4. StateType'
  BY <1>1, <1>2, <1>3 DEF StateType
<1>5. FilesCounted' /\ FilesApart'
  <2>1. IsFiniteSet(InUse)
    BY SaveFileAssumption, FS_Subset DEF InUse
  <2>2. Cardinality(InUse) \in Nat /\ InUse' = InUse
    BY <2>1, FS_CardinalityType DEF InUse
  <2> QED
    BY <1>3, <2>2, SaveFileAssumption DEF FilesCounted, FilesApart, StateType
<1>6. LocksHeld'
  BY DEF LocksHeld, HasLock
<1>7. ChecksHold'
  BY <1>2 DEF ChecksHold, Exposed
<1>8. SeenIsSaved'
  BY <1>2 DEF SeenIsSaved, HasRead
<1>9. StagedIsOwn'
  BY <1>1, <1>2 DEF StagedIsOwn, HasFilled
<1>10. SurvivorsWhole'
  BY DEF SurvivorsWhole, PowerLossLeavesWhole
<1> QED
  BY <1>4, <1>5, <1>6, <1>7, <1>8, <1>9, <1>10

LEMMA CrashStep == ASSUME FileIInv, NEW p \in Processes, Crash(p) PROVE FileIInv'
<1>1. upsets' \in {upsets, upsets + 1} /\ upsets' \in 0..MaxUpsets
  BY SaveFileAssumption DEF Crash, Upset, FileIInv, StateType
<1> QED
  BY <1>1, ForgetStep DEF Crash

LEMMA PowerLossStep == ASSUME FileIInv, PowerLoss PROVE FileIInv'
<1> USE DEF FileIInv
<1>0. /\ Upset /\ UNCHANGED <<parent, slot, files>>
      /\ holder' = [f \in LockFiles |-> Nobody]
      /\ pc' = [p \in Processes |-> At("idle")]
      /\ identity' = [p \in Processes |-> NoDir] /\ lock_file' = [p \in Processes |-> Free]
      /\ staged' = [p \in Processes |-> NoImage]
      /\ seen' = [p \in Processes |-> NoImage] /\ raced' = [p \in Processes |-> FALSE]
  BY DEF PowerLoss
<1>1. PICK left \in [Dirs -> UNION {survivors[d] : d \in Dirs}] :
        /\ \A d \in Dirs : left[d] \in survivors[d]
        /\ save' = left /\ survivors' = [d \in Dirs |-> {left[d]}]
  BY DEF PowerLoss
<1>2. \A p \in Processes : pc'[p].next = "idle" /\ lock_file'[p] = Free
  BY <1>0 DEF At
<1>3. upsets' \in 0..MaxUpsets /\ upsets' = upsets + 1
  BY <1>0, SaveFileAssumption DEF StateType, Upset
<1>4. StateType'
  <2>1. At("idle") \in Points /\ NoImage \in SavedImages
    BY DEF Points, Places, NoImage, Image, SavedImages, Data
  <2>2. left \in [Dirs -> SavedImages]
    BY <1>1 DEF StateType
  <2> QED
    BY <1>0, <1>1, <1>3, <2>1, <2>2 DEF StateType, Free
<1>5. FilesCounted' /\ FilesApart'
  <2>1. IsFiniteSet(InUse)
    BY SaveFileAssumption, FS_Subset DEF InUse
  <2>2. Cardinality(InUse) \in Nat /\ InUse' = InUse
    BY <1>0, <2>1, FS_CardinalityType DEF InUse
  <2> QED
    BY <1>0, <1>3, <2>2, SaveFileAssumption DEF FilesCounted, FilesApart, StateType
<1>6. LocksHeld' /\ ChecksHold' /\ SeenIsSaved' /\ StagedIsOwn'
  <2>1. \A p \in Processes : ~HasLock(p)' /\ ~HasRead(p)' /\ ~HasFilled(p)' /\ ~Exposed(p)'
    BY <1>2 DEF HasLock, HasRead, HasFilled, Exposed, At, CheckedPlaces
  <2>2. files' \in Nat
    BY <1>0 DEF StateType
  <2> QED
    BY <1>2, <2>1, <2>2 DEF LocksHeld, ChecksHold, SeenIsSaved, StagedIsOwn, Free
<1>7. SurvivorsWhole'
  BY <1>1 DEF SurvivorsWhole, PowerLossLeavesWhole
<1> QED
  BY <1>4, <1>5, <1>6, <1>7

---------------------------------------------------------------------------
(* The theorems.                                                           *)

LEMMA NextFileIInv == FileIInv /\ [Next]_vars => FileIInv'
<1> SUFFICES ASSUME FileIInv, [Next]_vars PROVE FileIInv'
  OBVIOUS
<1>1. ASSUME NEW p \in Processes, Step(p)
      PROVE  FileIInv'
  <2>1. CASE Release(p)
    BY <2>1, ForgetStep DEF Release, FileIInv, StateType
  <2> QED
    BY <1>1, <2>1, OpenSlotStep, CreateSlotStep, ReopenSlotStep, FlockStep, CheckingStep,
       ReadStep, StartWriteStep, StageStep, FillStep, StillOursStep, RenameStep, SyncStep
    DEF Step
<1>2. CASE UNCHANGED vars
  BY <1>2 DEF vars, diskVars, procVars, FileIInv, StateType, FilesCounted, InUse, FilesApart,
     LocksHeld, ChecksHold, SeenIsSaved, StagedIsOwn, SurvivorsWhole, PowerLossLeavesWhole,
     HasLock, HasRead, HasFilled, Exposed
<1> QED
  BY <1>1, <1>2, BeginStep, ReplaceStagedStep, CrashStep, SlotLostStep, RetargetStep,
     PowerLossStep
  DEF Next

LEMMA FileAlways == Spec => []FileIInv
BY InitFileIInv, NextFileIInv, PTL DEF Spec

\* The types of the state, with the count of lock files among them: however slots
\* are taken, spoilt and filled again, no more files are made than slots and
\* upsets allow.
LEMMA FileTypes == FileIInv => TypeOK
<1> SUFFICES ASSUME FileIInv PROVE TypeOK
  OBVIOUS
<1> USE DEF FileIInv
<1>1. IsFiniteSet(InUse) /\ Cardinality(InUse) <= Cardinality(Dirs)
  BY SaveFileAssumption, FS_Subset DEF InUse
<1>2. Cardinality(InUse) \in Nat
  BY <1>1, FS_CardinalityType
<1>3. files \in 0..MaxFiles
  BY <1>1, <1>2, MaxFilesType, SaveFileAssumption DEF FilesCounted, StateType, MaxFiles
<1>4. slot \in [Dirs -> LockFiles \cup {Free, Spoilt}]
  BY <1>3, MaxFilesType DEF FilesApart, StateType, LockFiles
<1>5. \A p \in Processes : staged[p].data \in Data /\ seen[p].data \in Data
  BY DEF StateType, SavedImages
<1> QED
  BY <1>3, <1>4, <1>5 DEF TypeOK, StateType, LocksHeld, SurvivorsWhole

\* Whatever programs retarget the path, take lock files away or replace staged
\* files, and wherever processes crash or the power fails: every save a power loss
\* may leave was filled and synchronised before `Rename` named it.
THEOREM SavesAreWhole == Spec => []FileInv
<1>1. FileIInv => FileInv
  BY FileTypes DEF FileInv, FileIInv, SurvivorsWhole
<1> QED
  BY <1>1, FileAlways, PTL

\* A guarded write replaces the very save its process read, by the image it staged,
\* unless an upset fell between a last check and the call that relies on it: for
\* any number of processes, directories and upsets.
THEOREM GuardedWriteUpdates == Spec => OnlyOwnUpdate
<1>1. ASSUME FileIInv, [Next]_vars, NEW p \in Processes, Renames(p), ~raced[p]
      PROVE  save[parent] = seen[p] /\ save'[parent].data # "foreign"
  <2>1. Rename(p) /\ StillThere(p)
    <3>1. /\ pc \in [Processes -> Points] /\ pc[p] = At("rename")
          /\ pc'[p] # pc[p] /\ pc'[p] # At("idle")
      BY <1>1 DEF Renames, At, FileIInv, StateType
    <3>2. Next
      BY <1>1, <3>1 DEF vars, procVars
    <3>3. ~PowerLoss
      BY <1>1, <3>1 DEF PowerLoss
    <3>4. PICK q \in Processes : Begin(q) \/ Step(q) \/ Crash(q)
      BY <3>1, <3>2, <3>3 DEF Next, ReplaceStaged, TakeSlot, SpoilSlot, Retarget, procVars
    <3>5. q = p
      <4>1. \E where : Goto(q, where)
        <5>1. CASE OpenSlot(q) \/ CreateSlot(q) \/ ReopenSlot(q)
          BY <5>1 DEF OpenSlot, CreateSlot, ReopenSlot, Opened
        <5>2. CASE Fill(q) \/ Rename(q)
          BY <5>2 DEF Fill, Rename
        <5> QED
          BY <3>4, <5>1, <5>2 DEF Begin, Step, Crash, Forget, Flock, OwnEntry, CheckParent,
             CheckSlot, Read, StartWrite, Stage, StillOurs, SyncDirectory, Release
      <4> QED
        BY <1>1, <3>1, <4>1 DEF Goto
    <3>6. Rename(p)
      BY <1>1, <3>1, <3>4, <3>5 DEF Begin, Step, Crash, Forget, Goto, OpenSlot, CreateSlot, ReopenSlot,
         Flock, OwnEntry, CheckParent, CheckSlot, Read, StartWrite, Stage, Fill, StillOurs,
         SyncDirectory, Release, At
    <3> QED
      BY <1>1, <3>1, <3>6 DEF Rename, Goto, Renames, At
  <2>2. HasRead(p) /\ Exposed(p) /\ parent \in Dirs /\ save \in [Dirs -> SavedImages]
    BY <1>1, <2>1 DEF Rename, HasRead, Exposed, At, FileIInv, StateType
  <2>3. save[parent] = seen[p]
    BY <1>1, <2>2 DEF FileIInv, ChecksHold, SeenIsSaved
  <2>4. staged[p].data # "foreign"
    BY <1>1, <2>1 DEF Rename, At, FileIInv, StagedIsOwn
  <2>5. save'[parent] = staged[p]
    BY <2>1, <2>2 DEF Rename
  <2> QED
    BY <2>3, <2>4, <2>5
<1>2. FileIInv /\ [Next]_vars =>
        [\A p \in Processes : Renames(p) /\ ~raced[p] =>
           save[parent] = seen[p] /\ save'[parent].data # "foreign"]_vars
  BY <1>1
<1> QED
  BY <1>2, FileAlways, PTL DEF Spec, OnlyOwnUpdate

---------------------------------------------------------------------------
(* The shapes a slot is in.                                                *)

\* The id at position i of a full write at rotation r, and of a five-sector one.
IdAt(i, r) == (i + NUM_SECTORS_PER_SLOT - r) % NUM_SECTORS_PER_SLOT
HeadIdAt(i, q) == (i + SECTOR_ID_PKMN_STORAGE_START - q) % SECTOR_ID_PKMN_STORAGE_START

\* The payload of id under blocks of one write and boxes of another.
Payload(b, v, id) == Chunk(IF id \in SaveBlockIds THEN b ELSE v, id)

\* val holds the blocks of write b and the boxes of write v, by id.
Carries(val, b, v) == \A id \in SectorIds : val[id] = Payload(b, v, id)

Reads(sector, id, counter, data) ==
  /\ sector.signed /\ sector.sum /\ sector.id = id
  /\ sector.counter = counter /\ sector.data = data

\* The positions ps hold what a full write at rotation r laid there.
Holds(half, ps, r, c, b, v) ==
  \A i \in ps : Reads(half[i], IdAt(i, r), c, Payload(b, v, IdAt(i, r)))
HoldsHead(half, q, c, b) ==
  \A i \in HeadPositions :
    Reads(half[i], HeadIdAt(i, q), c, Chunk(b, HeadIdAt(i, q)))
Blank(half, ps) == \A i \in ps : half[i] = EmptySector

\* The ids a write lays first.
FirstIds(k) == {id \in SectorIds : id < k}

\* The first k sectors of a full write at rotation r over what slot held.
LaidOver(new, half, k, r, c, val) ==
  \A i \in Positions :
    IF IdAt(i, r) < k THEN Reads(new[i], IdAt(i, r), c, val[IdAt(i, r)])
    ELSE new[i] = half[i]

\* What a scan of a slot works from.
Head(half) == HeadIn(half, ValidIn(half))
HeadCounter(half) == LegacyCounter(half, Head(half))
Tail(half) == TailGeneration(half, ValidIn(half), HeadCounter(half))
IsLegacy(half) ==
  LegacyIntact(half, ValidIn(half), Head(half), HeadCounter(half), Tail(half))
ValidIds(half) == {half[i].id : i \in ValidIn(half)}

Images == [Slots -> [Positions -> Sector]]


\* Positions and ids are the numbers 0 to 13, five of them the head's.
LEMMA Ranges ==
  /\ Positions = 0 .. 13 /\ SectorIds = 0 .. 13
  /\ SaveBlockIds = 0 .. 4 /\ StorageIds = 5 .. 13
  /\ HeadPositions = 0 .. 4 /\ TailPositions = 5 .. 13
  /\ NUM_SECTORS_PER_SLOT = 14 /\ SECTOR_ID_PKMN_STORAGE_START = 5
  /\ SECTOR_ID_SAVEBLOCK2 = 0 /\ PKMN_STORAGE_CHUNKS = 9
  /\ TORN_WRITE_PREDECESSOR_ROTATION = 12 /\ NoCounter = -1 /\ NoId = -1 /\ NoSlot = -1
<1>1. NUM_SECTORS_PER_SLOT = 14 /\ SECTOR_ID_PKMN_STORAGE_START = 5
  BY DEF NUM_SECTORS_PER_SLOT, SECTOR_ID_PKMN_STORAGE_START
<1>2. /\ SaveBlockIds = 0 .. 4 /\ StorageIds = 5 .. 13 /\ Positions = 0 .. 13
  BY <1>1 DEF SaveBlockIds, StorageIds, Positions
<1>3. SectorIds = 0 .. 13 BY <1>2 DEF SectorIds
<1> QED
  BY <1>1, <1>2, <1>3
  DEF HeadPositions, TailPositions, SECTOR_ID_SAVEBLOCK2, PKMN_STORAGE_CHUNKS,
      TORN_WRITE_PREDECESSOR_ROTATION, NoCounter, NoId, NoSlot

\* A payload is as long as its id says, which is a number of bytes.
LEMMA PayloadLens == \A id \in SectorIds : SectorPayloadLen(id) \in Nat
BY DEF SectorPayloadLen

\* A sector that reads as written under its own id verifies.
LEMMA ReadsValid ==
  ASSUME NEW sector, NEW id \in SectorIds, NEW c, NEW data, data.id = id,
         Reads(sector, id, c, data)
  PROVE  IsValid(sector)
<1>1. SectorPayloadLen(id) <= SectorPayloadLen(id) BY PayloadLens
<1> QED BY <1>1 DEF IsValid, Reads

\* The largest and the smallest of a set of positions.
LEMMA MaxIs ==
  ASSUME NEW S \in SUBSET Int, NEW x \in S, \A y \in S : y <= x
  PROVE  MaxPos(S) = x
<1>1. \A z \in S : (\A y \in S : y <= z) => z = x OBVIOUS
<1> QED BY <1>1 DEF MaxPos
LEMMA MinIs ==
  ASSUME NEW S \in SUBSET Int, NEW x \in S, \A y \in S : x <= y
  PROVE  MinPos(S) = x
<1>1. \A z \in S : (\A y \in S : z <= y) => z = x OBVIOUS
<1> QED BY <1>1 DEF MinPos

\* Sums of two positions, one time around.
LEMMA OneTurn ==
  /\ \A x \in 0 .. 27 : x % 14 = IF x < 14 THEN x ELSE x - 14
  /\ \A x \in 0 .. 9 : x % 5 = IF x < 5 THEN x ELSE x - 5
<1>1. \A x \in 0 .. 27 : x % 14 = IF x < 14 THEN x ELSE x - 14 OBVIOUS
<1>2. \A x \in 0 .. 9 : x % 5 = IF x < 5 THEN x ELSE x - 5 OBVIOUS
<1> QED BY <1>1, <1>2

LEMMA IdAtIs ==
  \A i \in Positions, r \in Positions :
    IdAt(i, r) = IF r <= i THEN i - r ELSE (i + 14) - r
<1> SUFFICES ASSUME NEW i \in Positions, NEW r \in Positions
             PROVE  IdAt(i, r) = IF r <= i THEN i - r ELSE (i + 14) - r
  OBVIOUS
<1>1. IdAt(i, r) = ((i + 14) - r) % 14 BY Ranges DEF IdAt
<1>2. (i + 14) - r \in 0 .. 27 BY Ranges
<1>3. ((i + 14) - r) % 14 = IF (i + 14) - r < 14 THEN (i + 14) - r
                            ELSE ((i + 14) - r) - 14
  BY <1>2, OneTurn
<1> QED BY <1>1, <1>3, Ranges
LEMMA HeadIdAtIs ==
  \A i \in HeadPositions, q \in HeadPositions :
    HeadIdAt(i, q) = IF q <= i THEN i - q ELSE (i + 5) - q
<1> SUFFICES ASSUME NEW i \in HeadPositions, NEW q \in HeadPositions
             PROVE  HeadIdAt(i, q) = IF q <= i THEN i - q ELSE (i + 5) - q
  OBVIOUS
<1>1. HeadIdAt(i, q) = ((i + 5) - q) % 5 BY Ranges DEF HeadIdAt
<1>2. (i + 5) - q \in 0 .. 9 BY Ranges
<1>3. ((i + 5) - q) % 5 = IF (i + 5) - q < 5 THEN (i + 5) - q
                            ELSE ((i + 5) - q) - 5
  BY <1>2, OneTurn
<1> QED BY <1>1, <1>3, Ranges

\* A position holds one id and an id stands at one position.
LEMMA Rotating ==
  ASSUME NEW r \in Positions
  PROVE  /\ \A i \in Positions : IdAt(i, r) \in SectorIds
         /\ \A i \in Positions, id \in SectorIds :
              IdAt(i, r) = id <=> i = (id + r) % 14
         /\ \A i \in Positions : ((i + 14) - IdAt(i, r)) % 14 = r
         /\ \A id \in SectorIds : (id + r) % 14 \in Positions
<1>1. \A id \in SectorIds :
        (id + r) % 14 = IF id + r < 14 THEN id + r ELSE (id + r) - 14
  BY Ranges, OneTurn
<1>2. \A i \in Positions : IdAt(i, r) \in SectorIds BY IdAtIs, Ranges
<1>3. \A i \in Positions, id \in SectorIds :
        IdAt(i, r) = id <=> i = (id + r) % 14
  BY <1>1, IdAtIs, Ranges
<1>4. \A i \in Positions : ((i + 14) - IdAt(i, r)) % 14 = r
  <2> SUFFICES ASSUME NEW i \in Positions
               PROVE  ((i + 14) - IdAt(i, r)) % 14 = r
    OBVIOUS
  <2>1. IdAt(i, r) = IF r <= i THEN i - r ELSE (i + 14) - r BY IdAtIs
  <2>2. (i + 14) - IdAt(i, r) \in 0 .. 27 BY <2>1, Ranges
  <2>3. ((i + 14) - IdAt(i, r)) % 14 =
          IF (i + 14) - IdAt(i, r) < 14 THEN (i + 14) - IdAt(i, r)
          ELSE ((i + 14) - IdAt(i, r)) - 14
    BY <2>2, OneTurn
  <2> QED BY <2>1, <2>3, Ranges
<1>5. \A id \in SectorIds : (id + r) % 14 \in Positions BY <1>1, Ranges
<1> QED BY <1>2, <1>3, <1>4, <1>5
LEMMA HeadRotating ==
  ASSUME NEW q \in HeadPositions
  PROVE  /\ \A i \in HeadPositions : HeadIdAt(i, q) \in SaveBlockIds
         /\ \A i \in HeadPositions, id \in SaveBlockIds :
              HeadIdAt(i, q) = id <=> i = (id + q) % 5
         /\ \A id \in SaveBlockIds : (id + q) % 5 \in HeadPositions
<1>1. \A id \in SaveBlockIds :
        (id + q) % 5 = IF id + q < 5 THEN id + q ELSE (id + q) - 5
  BY Ranges, OneTurn
<1>2. \A i \in HeadPositions : HeadIdAt(i, q) \in SaveBlockIds
  BY HeadIdAtIs, Ranges
<1>3. \A i \in HeadPositions, id \in SaveBlockIds :
        HeadIdAt(i, q) = id <=> i = (id + q) % 5
  BY <1>1, HeadIdAtIs, Ranges
<1>4. \A id \in SaveBlockIds : (id + q) % 5 \in HeadPositions BY <1>1, Ranges
<1> QED BY <1>2, <1>3, <1>4

---------------------------------------------------------------------------
(* What a scan reports.                                                    *)

LEMMA ScanIs ==
  ASSUME NEW half
  PROVE  /\ ScanSlot(half).integrity =
              IF \A i \in Positions : ~half[i].signed THEN "Empty"
              ELSE IF IsLegacy(half) \/ ValidIds(half) = SectorIds THEN "Ok"
              ELSE "Error"
         /\ ScanSlot(half).counter =
              IF IsLegacy(half) THEN HeadCounter(half)
              ELSE IF ValidIn(half) = {} THEN 0
              ELSE half[MaxPos(ValidIn(half))].counter
         /\ ScanSlot(half).legacy = IsLegacy(half)
         /\ ScanSlot(half).storage_counter = StorageGeneration(half, ValidIn(half))
         /\ ScanSlot(half).majority_counter = MajorityCounter(half, ValidIn(half))
<1>1. ScanSlot(half) = ScanOf(half, ValidIn(half), IsLegacy(half), HeadCounter(half))
  BY DEF ScanSlot, ScanHead, ScanValid, Head, HeadCounter, Tail, IsLegacy
<1> QED BY <1>1 DEF ScanOf, ValidIds

\* A complete head fills the five positions of the head with its five ids.
LEMMA HeadFilled ==
  ASSUME NEW half, NEW valid, HeadIsComplete(half, HeadIn(half, valid))
  PROVE  HeadIn(half, valid) = HeadPositions
<1> DEFINE head == HeadIn(half, valid)
<1>1. head \subseteq 0 .. 4 BY Ranges DEF HeadIn
<1>2. \A id \in 0 .. 4 : \E i \in head : half[i].id = id
  BY Ranges DEF HeadIsComplete
<1>3. PICK p0 \in head : half[p0].id = 0 BY <1>2
<1>4. PICK p1 \in head : half[p1].id = 1 BY <1>2
<1>5. PICK p2 \in head : half[p2].id = 2 BY <1>2
<1>6. PICK p3 \in head : half[p3].id = 3 BY <1>2
<1>7. PICK p4 \in head : half[p4].id = 4 BY <1>2
<1>8. /\ p0 # p1 /\ p0 # p2 /\ p0 # p3 /\ p0 # p4 /\ p1 # p2 /\ p1 # p3
      /\ p1 # p4 /\ p2 # p3 /\ p2 # p4 /\ p3 # p4
  BY <1>3, <1>4, <1>5, <1>6, <1>7
<1>9. /\ p0 \in 0 .. 4 /\ p1 \in 0 .. 4 /\ p2 \in 0 .. 4 /\ p3 \in 0 .. 4
      /\ p4 \in 0 .. 4
  BY <1>1, <1>3, <1>4, <1>5, <1>6, <1>7
<1>10. \A i \in 0 .. 4 : i = p0 \/ i = p1 \/ i = p2 \/ i = p3 \/ i = p4
  BY <1>8, <1>9
<1>11. 0 .. 4 \subseteq head
  BY <1>10, <1>3, <1>4, <1>5, <1>6, <1>7
<1> QED BY <1>1, <1>11, Ranges

\* The tail behind a head reads as one of the generations its sectors carry,
\* with at most one of them out of step.
LEMMA TailIs ==
  ASSUME NEW half, Tail(half) # NoTail
  PROVE  LET t == Tail(half)
             usable == TailPositions \intersect ValidIn(half)
         IN /\ \E i \in usable : t.rotation = ImpliedRotation(half, i)
            /\ \E i \in usable : t.counter = half[i].counter
            /\ Cardinality({i \in usable : ImpliedRotation(half, i) # t.rotation
                                           \/ half[i].counter # t.counter}) <= 1
<1> DEFINE valid == ValidIn(half)
           legacy_counter == HeadCounter(half)
           unusable == {i \in TailPositions : half[i].signed /\ i \notin valid}
           usable == TailPositions \intersect valid
           rot == [i \in usable |-> ImpliedRotation(half, i)]
           ctr == [i \in usable |-> half[i].counter]
           outliers(g) ==
             {i \in usable : rot[i] # g.rotation \/ ctr[i] # g.counter}
           budget_kept(g) ==
             \/ unusable = {}
             \/ Cardinality(unusable) = 1
                /\ Cardinality(usable) = PKMN_STORAGE_CHUNKS - 1
                /\ outliers(g) = {}
           torn_past_the_head(g) ==
             unusable = {SECTOR_ID_PKMN_STORAGE_START} /\ g.rotation # 0
           outlier_is_the_heads(g) == \E i \in outliers(g) :
             rot[i] # g.rotation /\ ctr[i] = legacy_counter
           found == {g \in [rotation : Consensus(usable, rot),
                            counter : Consensus(usable, ctr)] :
             /\ budget_kept(g)
             /\ ~torn_past_the_head(g)
             /\ Cardinality(outliers(g)) <= 1
             /\ ~outlier_is_the_heads(g)}
           t == Tail(half)
<1>1. t = IF found = {} THEN NoTail ELSE CHOOSE g \in found : TRUE
  BY Zenon DEF Tail, TailGeneration
<1>2. found # {}
  BY <1>1
<1>3. t \in found
  <2> HIDE DEF found, t
  <2> QED BY <1>1, <1>2, Zenon
<1>4. /\ t \in [rotation : Consensus(usable, rot), counter : Consensus(usable, ctr)]
      /\ Cardinality(outliers(t)) <= 1
  BY <1>3, Zenon
<1>5. t.rotation \in Consensus(usable, rot) /\ t.counter \in Consensus(usable, ctr)
  <2> HIDE DEF t, rot, ctr, usable
  <2> QED BY <1>4
<1>6. t.rotation \in {rot[i] : i \in usable} /\ t.counter \in {ctr[i] : i \in usable}
  <2> HIDE DEF t, rot, ctr, usable
  <2> QED BY <1>5 DEF Consensus
<1>7. outliers(t) = {i \in usable : ImpliedRotation(half, i) # t.rotation
                                    \/ half[i].counter # t.counter}
  <2> HIDE DEF t, usable
  <2> QED OBVIOUS
<1>8. \A i \in usable : rot[i] = ImpliedRotation(half, i) /\ ctr[i] = half[i].counter
  OBVIOUS
<1> HIDE DEF t, usable, rot, ctr, outliers
<1>9. Cardinality({i \in usable : ImpliedRotation(half, i) # t.rotation
                                  \/ half[i].counter # t.counter}) <= 1
  BY <1>4, <1>7
<1>10. /\ \E i \in usable : t.rotation = ImpliedRotation(half, i)
       /\ \E i \in usable : t.counter = half[i].counter
  BY <1>6, <1>8, Zenon
<1> QED BY <1>9, <1>10 DEF t, usable

\* No head is read over a tail that is not older than it, or torn onto it.
LEMMA NotLegacy ==
  ASSUME NEW half,
         HeadIsComplete(half, Head(half))
           /\ (\A i \in Head(half) : half[i].counter = HeadCounter(half))
         => /\ \A i \in Head(half) : half[i].id = i
            /\ \E i \in TailPositions : half[i].signed
            /\ \/ Tail(half) = NoTail
               \/ ~OlderGenerationPrecedes(Tail(half).counter, HeadCounter(half))
               \/ Tail(half).rotation = TORN_WRITE_PREDECESSOR_ROTATION
  PROVE  ~IsLegacy(half)
BY Zenon DEF IsLegacy, LegacyIntact

---------------------------------------------------------------------------
(* Scans of the slots one process after another leaves: a full generation, *)
(* an erased slot, a damaged generation and a torn write.                  *)

LEMMA NextRotationIs ==
  \A r \in Positions : /\ NextRotation(r) = IF r < 13 THEN r + 1 ELSE 0
                       /\ NextRotation(r) \in Positions
<1> SUFFICES ASSUME NEW r \in Positions
             PROVE  /\ NextRotation(r) = IF r < 13 THEN r + 1 ELSE 0
                    /\ NextRotation(r) \in Positions
  OBVIOUS
<1>1. NextRotation(r) = (r + 1) % 14 BY Ranges DEF NextRotation
<1>2. (r + 1) % 14 = IF r + 1 < 14 THEN r + 1 ELSE (r + 1) - 14
  BY OneTurn, Ranges
<1> QED BY <1>1, <1>2, Ranges

LEMMA IdOnce ==
  ASSUME NEW r \in Positions, NEW i \in Positions, NEW j \in Positions,
         IdAt(i, r) = IdAt(j, r)
  PROVE  i = j
BY IdAtIs, Ranges

\* A full write fills the head with the head's ids only at rotation 0.
LEMMA HeadMeansUnrotated ==
  ASSUME NEW r \in Positions,
         \A i \in HeadPositions : IdAt(i, r) \in SaveBlockIds
  PROVE  r = 0
<1>1. IdAt(0, r) \in 0 .. 4 /\ IdAt(4, r) \in 0 .. 4 BY Ranges
<1> QED BY <1>1, IdAtIs, Ranges
LEMMA Unrotated == \A i \in Positions : IdAt(i, 0) = i
BY IdAtIs, Ranges

\* A tail all of whose valid sectors carry one counter has that counter.
LEMMA TailOfOneCounter ==
  ASSUME NEW half, NEW c,
         \A i \in TailPositions \intersect ValidIn(half) : half[i].counter = c
  PROVE  Tail(half) = NoTail \/ Tail(half).counter = c
BY TailIs

LEMMA NotOlderThanItself == \A c : ~OlderGenerationPrecedes(c, c)
BY DEF OlderGenerationPrecedes, CounterIsAhead

LEMMA PayloadId == \A b, v, id : Payload(b, v, id).id = id
BY DEF Payload, Chunk

LEMMA FullScan ==
  ASSUME NEW half, NEW r \in Positions, NEW c, NEW b, NEW v,
         Holds(half, Positions, r, c, b, v)
  PROVE  /\ ValidIn(half) = Positions
         /\ ScanSlot(half).integrity = "Ok"
         /\ ScanSlot(half).counter = c
         /\ ScanSlot(half).legacy = FALSE
<1>1. \A i \in Positions : Reads(half[i], IdAt(i, r), c, Payload(b, v, IdAt(i, r)))
  BY DEF Holds
<1>2. \A i \in Positions : IsValid(half[i])
  BY <1>1, Rotating, ReadsValid, PayloadId
<1>3. ValidIn(half) = Positions
  BY <1>2 DEF ValidIn
<1>4. ~IsLegacy(half)
  <2> SUFFICES ASSUME HeadIsComplete(half, Head(half)),
                      \A i \in Head(half) : half[i].counter = HeadCounter(half)
               PROVE  /\ \A i \in Head(half) : half[i].id = i
                      /\ \E i \in TailPositions : half[i].signed
                      /\ \/ Tail(half) = NoTail
                         \/ ~OlderGenerationPrecedes(Tail(half).counter,
                                                     HeadCounter(half))
                         \/ Tail(half).rotation = TORN_WRITE_PREDECESSOR_ROTATION
    BY NotLegacy
  <2>1. Head(half) = HeadPositions BY HeadFilled DEF Head
  <2>2. \A i \in HeadPositions : half[i].id \in SaveBlockIds
    BY <2>1 DEF Head, HeadIn
  <2>3. \A i \in HeadPositions : i \in Positions BY Ranges
  <2>4. r = 0 BY <2>2, <2>3, <1>1, HeadMeansUnrotated DEF Reads
  <2>5. \A i \in Head(half) : half[i].id = i
    BY <2>1, <2>3, <2>4, <1>1, Unrotated DEF Reads
  <2>6. 5 \in TailPositions /\ 5 \in Positions /\ 0 \in HeadPositions /\ 0 \in Positions BY Ranges
  <2>7. half[5].signed BY <2>6, <1>1 DEF Reads
  <2>8. HeadCounter(half) = c BY <2>1, <2>6, <1>1 DEF Reads
  <2>9. Tail(half) = NoTail \/ Tail(half).counter = c
    BY <1>1, <1>3, TailOfOneCounter DEF Reads
  <2> QED BY <2>5, <2>6, <2>7, <2>8, <2>9, NotOlderThanItself
<1>5. ValidIds(half) = SectorIds
  <2>1. \A i \in Positions : half[i].id \in SectorIds
    <3>1. \A i \in Positions : IdAt(i, r) \in SectorIds BY Rotating
    <3> QED BY <1>1, <3>1 DEF Reads
  <2>2. \A id \in SectorIds : \E i \in Positions : half[i].id = id
    <3> SUFFICES ASSUME NEW id \in SectorIds
                 PROVE  \E i \in Positions : half[i].id = id
      OBVIOUS
    <3>1. (id + r) % 14 \in Positions BY Rotating
    <3>2. IdAt((id + r) % 14, r) = id BY <3>1, Rotating
    <3> QED BY <1>1, <3>1, <3>2 DEF Reads
  <2> QED BY <2>1, <2>2, <1>3 DEF ValidIds
<1>6. 13 \in Positions /\ \A i \in Positions : i <= 13 BY Ranges
<1>7. MaxPos(Positions) = 13
  <2>1. Positions \in SUBSET Int BY Ranges
  <2> QED BY <1>6, <2>1, MaxIs
<1>8. half[13].counter = c /\ half[13].signed BY <1>6, <1>1 DEF Reads
<1>9. IsLegacy(half) = FALSE BY <1>4 DEF IsLegacy, LegacyIntact
<1> QED BY <1>3, <1>4, <1>5, <1>6, <1>7, <1>8, <1>9, ScanIs

LEMMA BlankScan ==
  ASSUME NEW half, Blank(half, Positions)
  PROVE  ScanSlot(half).integrity = "Empty" /\ ValidIn(half) = {}
<1>1. \A i \in Positions : ~half[i].signed
  BY DEF Blank, EmptySector
<1>2. ValidIn(half) = {}
  BY <1>1 DEF ValidIn, IsValid
<1> QED BY <1>1, <1>2, ScanIs

\* A full generation with a sector that no longer verifies.
LEMMA HurtScan ==
  ASSUME NEW half, NEW r \in Positions, NEW c, NEW b, NEW v, NEW d \in Positions,
         Holds(half, Positions \ {d}, r, c, b, v), ~IsValid(half[d])
  PROVE  ScanSlot(half).integrity = "Error"
<1>1. \A i \in Positions \ {d} :
        Reads(half[i], IdAt(i, r), c, Payload(b, v, IdAt(i, r)))
  BY DEF Holds
<1>2. d \notin ValidIn(half) BY DEF ValidIn
<1>3. ~IsLegacy(half)
  <2> SUFFICES ASSUME HeadIsComplete(half, Head(half)),
                      \A i \in Head(half) : half[i].counter = HeadCounter(half)
               PROVE  /\ \A i \in Head(half) : half[i].id = i
                      /\ \E i \in TailPositions : half[i].signed
                      /\ \/ Tail(half) = NoTail
                         \/ ~OlderGenerationPrecedes(Tail(half).counter,
                                                     HeadCounter(half))
                         \/ Tail(half).rotation = TORN_WRITE_PREDECESSOR_ROTATION
    BY NotLegacy
  <2>1. Head(half) = HeadPositions BY HeadFilled DEF Head
  <2>2. \A i \in HeadPositions : half[i].id \in SaveBlockIds /\ i # d
    BY <2>1, <1>2 DEF Head, HeadIn
  <2>3. \A i \in HeadPositions : i \in Positions \ {d} BY <2>2, Ranges
  <2>4. r = 0 BY <2>2, <2>3, <1>1, HeadMeansUnrotated DEF Reads
  <2>5. \A i \in Head(half) : half[i].id = i
    BY <2>1, <2>3, <2>4, <1>1, Unrotated DEF Reads
  <2>6. 5 \in TailPositions /\ 6 \in TailPositions /\ 0 \in HeadPositions BY Ranges
  <2>7. half[5].signed \/ half[6].signed
    <3>1. 5 \in Positions \ {d} \/ 6 \in Positions \ {d} BY Ranges
    <3> QED BY <3>1, <1>1 DEF Reads
  <2>8. HeadCounter(half) = c BY <2>1, <2>3, <2>6, <1>1 DEF Reads
  <2>9. \A i \in TailPositions \intersect ValidIn(half) : i \in Positions \ {d}
    BY <1>2 DEF ValidIn
  <2>10. Tail(half) = NoTail \/ Tail(half).counter = c
    BY <1>1, <2>9, TailOfOneCounter DEF Reads
  <2> QED BY <2>5, <2>6, <2>7, <2>8, <2>10, NotOlderThanItself
<1>4. IdAt(d, r) \in SectorIds BY Rotating
<1>5. IdAt(d, r) \notin ValidIds(half)
  <2> SUFFICES ASSUME NEW i \in ValidIn(half), half[i].id = IdAt(d, r)
               PROVE  FALSE
    BY DEF ValidIds
  <2>1. i \in Positions /\ i # d BY <1>2 DEF ValidIn
  <2>2. IdAt(i, r) = IdAt(d, r) BY <2>1, <1>1 DEF Reads
  <2> QED BY <2>1, <2>2, IdOnce
<1>6. \E i \in Positions : half[i].signed
  <2>1. 5 \in Positions \ {d} \/ 6 \in Positions \ {d} BY Ranges
  <2> QED BY <2>1, <1>1 DEF Reads
<1> QED BY <1>3, <1>4, <1>5, <1>6, ScanIs

LEMMA AtMostOne ==
  ASSUME NEW S, IsFiniteSet(S), Cardinality(S) <= 1, NEW x \in S, NEW y \in S
  PROVE  x = y
<1> SUFFICES ASSUME x # y PROVE FALSE OBVIOUS
<1>1. {x, y} \subseteq S OBVIOUS
<1>2. Cardinality({x, y}) = 2
  <2>1. IsFiniteSet({x}) /\ Cardinality({x}) = 1 BY FS_Singleton
  <2>2. {x, y} = {x} \union {y} OBVIOUS
  <2>3. Cardinality({x} \union {y})
          = IF y \in {x} THEN Cardinality({x}) ELSE Cardinality({x}) + 1
    BY <2>1, FS_AddElement
  <2>4. y \notin {x} OBVIOUS
  <2> QED BY <2>1, <2>2, <2>3, <2>4
<1>3. Cardinality({x, y}) <= Cardinality(S) BY <1>1, FS_Subset
<1>4. Cardinality(S) \in Nat BY FS_CardinalityType
<1> QED BY <1>2, <1>3, <1>4

\* What a write torn after k sectors leaves does not read as a generation: the
\* older half never supplies the ids the newer half lacks, nor stands as a
\* tail a five-sector head would be read over.
LEMMA TornOverGeneration ==
  ASSUME NEW half, NEW new, NEW k \in 1 .. 13, NEW r1 \in Positions,
         NEW c1, NEW c, c # c1, NEW b, NEW v, NEW val,
         \A id \in SectorIds : val[id].id = id,
         Holds(half, Positions, r1, c1, b, v),
         LaidOver(new, half, k, NextRotation(NextRotation(r1)), c, val)
  PROVE  ScanSlot(new).integrity = "Error" /\ ValidIds(new) # SectorIds
<1> DEFINE r == NextRotation(NextRotation(r1))
<1>1. r \in Positions BY NextRotationIs
<1>2. r = IF r1 < 12 THEN r1 + 2 ELSE r1 - 12 BY NextRotationIs, Ranges
<1>3. \A i \in Positions :
        \/ IdAt(i, r) < k /\ new[i].id = IdAt(i, r) /\ new[i].counter = c
        \/ IdAt(i, r) >= k /\ new[i].id = IdAt(i, r1) /\ new[i].counter = c1
  <2> SUFFICES ASSUME NEW i \in Positions
               PROVE \/ IdAt(i, r) < k /\ new[i].id = IdAt(i, r) /\ new[i].counter = c
                     \/ IdAt(i, r) >= k /\ new[i].id = IdAt(i, r1) /\ new[i].counter = c1
    OBVIOUS
  <2>1. CASE IdAt(i, r) < k
    BY <2>1 DEF LaidOver, Reads
  <2>2. CASE ~(IdAt(i, r) < k)
    <3>1. new[i] = half[i] BY <2>2 DEF LaidOver
    <3>2. IdAt(i, r) \in Int BY <1>1, IdAtIs, Ranges
    <3> QED BY <2>2, <3>1, <3>2 DEF Holds, Reads
  <2> QED BY <2>1, <2>2
<1>4. \A i \in Positions : new[i].signed
  BY DEF LaidOver, Holds, Reads
<1> HIDE DEF r
<1>5. ~IsLegacy(new)
  <2> SUFFICES ASSUME HeadIsComplete(new, Head(new)),
                      \A i \in Head(new) : new[i].counter = HeadCounter(new)
               PROVE  /\ \A i \in Head(new) : new[i].id = i
                      /\ \E i \in TailPositions : new[i].signed
                      /\ \/ Tail(new) = NoTail
                         \/ ~OlderGenerationPrecedes(Tail(new).counter,
                                                     HeadCounter(new))
                         \/ Tail(new).rotation = TORN_WRITE_PREDECESSOR_ROTATION
    BY NotLegacy
  <2>1. Head(new) = HeadPositions BY HeadFilled DEF Head
  <2>2. \A i \in HeadPositions : new[i].id \in SaveBlockIds
    BY <2>1 DEF Head, HeadIn
  <2>3. \A i \in 0 .. 4 : i \in Positions BY Ranges
  <2>4. \A i \in 0 .. 4 : new[i].id \in 0 .. 4 /\ new[i].counter = HeadCounter(new)
    BY <2>1, <2>2, Ranges
  <2>5. CASE HeadCounter(new) = c
    <3>1. \A i \in 0 .. 4 : IdAt(i, r) < k /\ new[i].id = IdAt(i, r)
      BY <2>5, <2>3, <2>4, <1>3
    <3>2. \A i \in HeadPositions : IdAt(i, r) \in SaveBlockIds
      BY <3>1, <2>4, Ranges
    <3>3. r = 0 BY <3>2, <1>1, HeadMeansUnrotated
    <3>4. r1 = 12 BY <3>3, <1>2, Ranges
    <3>5. \A i \in Head(new) : new[i].id = i
      <4>1. \A i \in 0 .. 4 : IdAt(i, r) = i BY <3>3, <2>3, Unrotated
      <4> QED BY <4>1, <3>1, <2>1, Ranges
    <3>6. \E i \in TailPositions : new[i].signed
      <4>1. 5 \in TailPositions /\ 5 \in Positions BY Ranges
      <4> QED BY <4>1, <1>4
    <3>7. ASSUME Tail(new) # NoTail
          PROVE  Tail(new).counter = c \/ Tail(new).rotation = 12
      <4> DEFINE usable == TailPositions \intersect ValidIn(new)
                 t == Tail(new)
                 out == {i \in usable : ImpliedRotation(new, i) # t.rotation
                                        \/ new[i].counter # t.counter}
      <4>1. /\ \E i \in usable : t.rotation = ImpliedRotation(new, i)
            /\ Cardinality(out) <= 1
        BY <3>7, TailIs
      <4>2. \A i \in Positions :
              \/ new[i].counter = c /\ ImpliedRotation(new, i) = 0
              \/ new[i].counter = c1 /\ ImpliedRotation(new, i) = 12
        <5> SUFFICES ASSUME NEW i \in Positions
                     PROVE \/ new[i].counter = c /\ ImpliedRotation(new, i) = 0
                           \/ new[i].counter = c1 /\ ImpliedRotation(new, i) = 12
          OBVIOUS
        <5>1. ImpliedRotation(new, i) = ((i + 14) - new[i].id) % 14
          <6>1. i + 14 - new[i].id = (i + 14) - new[i].id
            <7>1. i \in Int /\ new[i].id \in Int
              <8>1. IdAt(i, r) \in SectorIds /\ IdAt(i, r1) \in SectorIds
                BY <1>1, Rotating
              <8> QED BY <8>1, <1>3, Ranges
            <7> QED BY <7>1
          <6> QED BY <6>1, Ranges DEF ImpliedRotation
        <5>2. ((i + 14) - IdAt(i, r)) % 14 = r BY <1>1, Rotating
        <5>3. ((i + 14) - IdAt(i, r1)) % 14 = r1 BY Rotating
        <5> QED BY <5>1, <5>2, <5>3, <1>3, <3>3, <3>4
      <4>3. SUFFICES ASSUME t.rotation # 12, t.counter # c PROVE FALSE
        OBVIOUS
      <4>4. out = usable
        <5>1. usable \subseteq Positions BY DEF ValidIn
        <5>2. t.rotation = 0 BY <4>1, <4>2, <4>3, <5>1
        <5> QED BY <4>2, <4>3, <5>1, <5>2
      <4>5. \A i \in Positions : IsValid(new[i])
        <5> SUFFICES ASSUME NEW i \in Positions PROVE IsValid(new[i])
          OBVIOUS
        <5>1. CASE IdAt(i, r) < k
          <6>1. IdAt(i, r) \in SectorIds BY <1>1, Rotating
          <6>2. Reads(new[i], IdAt(i, r), c, val[IdAt(i, r)])
            BY <5>1 DEF LaidOver, r
          <6> QED BY <6>1, <6>2, ReadsValid
        <5>2. CASE ~(IdAt(i, r) < k)
          <6>1. new[i] = half[i] BY <5>2 DEF LaidOver, r
          <6>2. IdAt(i, r1) \in SectorIds BY Rotating
          <6>3. Reads(half[i], IdAt(i, r1), c1, Payload(b, v, IdAt(i, r1)))
            BY DEF Holds
          <6> QED BY <6>1, <6>2, <6>3, PayloadId, ReadsValid
        <5> QED BY <5>1, <5>2
      <4>6. 5 \in usable /\ 6 \in usable
        BY <4>5, Ranges DEF ValidIn
      <4>7. IsFiniteSet(TailPositions)
        <5>1. 5 \in Int /\ 13 \in Int OBVIOUS
        <5>2. IsFiniteSet(5 .. 13) BY <5>1, FS_Interval, Zenon
        <5> QED BY <5>2, Ranges
      <4>8. IsFiniteSet(out)
        BY <4>7, FS_Subset
      <4> HIDE DEF out, usable, t
      <4> QED BY <4>1, <4>4, <4>6, <4>8, AtMostOne
    <3> QED BY <2>5, <3>5, <3>6, <3>7, NotOlderThanItself, Ranges
  <2>6. CASE HeadCounter(new) # c
    <3>1. \A i \in 0 .. 4 : IdAt(i, r) >= k /\ new[i].id = IdAt(i, r1)
      BY <2>6, <2>3, <2>4, <1>3
    <3>2. \A i \in HeadPositions : IdAt(i, r1) \in SaveBlockIds
      BY <3>1, <2>4, Ranges
    <3>3. r1 = 0 BY <3>2, HeadMeansUnrotated
    <3>4. r = 2 BY <3>3, <1>2, Ranges
    <3>5. IdAt(2, r) = 0 BY <3>4, <1>1, IdAtIs, Ranges
    <3> QED BY <3>1, <3>5
  <2> QED BY <2>5, <2>6
<1>6. \E m \in SectorIds : m \notin ValidIds(new)
  <2> DEFINE m == IF k = 1 THEN 2 ELSE k
  <2>1. m \in SectorIds BY Ranges
  <2>2. ASSUME NEW i \in Positions PROVE new[i].id # m
    <3>1. IdAt(i, r) = IF r <= i THEN i - r ELSE (i + 14) - r BY <1>1, IdAtIs
    <3>2. IdAt(i, r1) = IF r1 <= i THEN i - r1 ELSE (i + 14) - r1 BY IdAtIs
    <3> QED BY <3>1, <3>2, <1>2, <1>3, Ranges
  <2> HIDE DEF m
  <2>3. m \notin ValidIds(new) BY <2>2 DEF ValidIds, ValidIn
  <2> QED BY <2>1, <2>3
<1>7. \E i \in Positions : new[i].signed
  <2>1. 5 \in Positions BY Ranges
  <2> QED BY <2>1, <1>4
<1> QED BY <1>5, <1>6, <1>7, ScanIs

\* The second save ever, at rotation 2 over a slot never written, torn.
LEMMA TornOverBlank ==
  ASSUME NEW half, NEW new, NEW k \in 1 .. 13, NEW c, NEW val,
         Blank(half, Positions), LaidOver(new, half, k, 2, c, val)
  PROVE  ScanSlot(new).integrity = "Error" /\ ValidIds(new) # SectorIds
<1>1. 2 \in Positions BY Ranges
<1>2. \A i \in Positions :
        \/ IdAt(i, 2) < k /\ new[i].id = IdAt(i, 2) /\ new[i].signed
        \/ IdAt(i, 2) >= k /\ ~new[i].signed
  <2> SUFFICES ASSUME NEW i \in Positions
               PROVE \/ IdAt(i, 2) < k /\ new[i].id = IdAt(i, 2) /\ new[i].signed
                     \/ IdAt(i, 2) >= k /\ ~new[i].signed
    OBVIOUS
  <2>1. IdAt(i, 2) \in Int BY <1>1, IdAtIs, Ranges
  <2>2. CASE IdAt(i, 2) < k
    BY <2>2 DEF LaidOver, Reads
  <2>3. CASE ~(IdAt(i, 2) < k)
    <3>1. new[i] = half[i] BY <2>3 DEF LaidOver
    <3> QED BY <2>1, <2>3, <3>1 DEF Blank, EmptySector
  <2> QED BY <2>2, <2>3
<1>3. ~IsLegacy(new)
  <2> SUFFICES ASSUME HeadIsComplete(new, Head(new)) PROVE FALSE
    BY NotLegacy
  <2>1. Head(new) = HeadPositions BY HeadFilled DEF Head
  <2>2. new[0].id \in SaveBlockIds /\ IsValid(new[0])
    BY <2>1, Ranges DEF Head, HeadIn, ValidIn
  <2>3. new[0].signed BY <2>2 DEF IsValid
  <2>4. 0 \in Positions BY Ranges
  <2>5. IdAt(0, 2) = 12 BY <1>1, <2>4, IdAtIs
  <2> QED BY <2>2, <2>3, <2>4, <2>5, <1>2, Ranges
<1>4. k \in SectorIds BY Ranges
<1>5. k \notin ValidIds(new)
  <2> SUFFICES ASSUME NEW i \in ValidIn(new), new[i].id = k PROVE FALSE
    BY DEF ValidIds
  <2>1. i \in Positions /\ new[i].signed BY DEF ValidIn, IsValid
  <2> QED BY <2>1, <1>2
<1>6. \E i \in Positions : new[i].signed
  <2>1. IdAt(2, 2) = 0 BY <1>1, IdAtIs
  <2> QED BY <2>1, <1>1, <1>2
<1> QED BY <1>3, <1>4, <1>5, <1>6, ScanIs

---------------------------------------------------------------------------
(* What a load copies from a full slot.                                    *)

LEMMA CopyOfFull ==
  ASSUME NEW half, NEW r \in Positions, NEW c, NEW b, NEW v, NEW before,
         NEW legacy \in BOOLEAN, ~legacy,
         Holds(half, Positions, r, c, b, v)
  PROVE  /\ CopyValidSlotPayloads(half, legacy, before).last = r
         /\ Carries(CopyValidSlotPayloads(half, legacy, before).payload, b, v)
<1> DEFINE valid == {i \in Positions : IsValid(half[i])}
           of(id) == {i \in valid : half[i].id = id}
           ids0 == {i \in Positions : half[i].id = SECTOR_ID_SAVEBLOCK2}
           payload == [id \in SectorIds |->
             IF of(id) = {} THEN Zeroed(id) ELSE half[MaxPos(of(id))].data]
           copy == CopyValidSlotPayloads(half, legacy, before)
<1>1. valid = Positions
  <2>1. ValidIn(half) = Positions BY FullScan
  <2> QED BY <2>1 DEF ValidIn
<1>2. copy = [last |-> IF ids0 = {} THEN before ELSE MaxPos(ids0), payload |-> payload]
  BY DEF CopyValidSlotPayloads, ReadPositions
<1>3. ASSUME NEW id \in SectorIds
      PROVE  /\ (id + r) % 14 \in Positions
             /\ {i \in Positions : half[i].id = id} = {(id + r) % 14}
             /\ half[(id + r) % 14].data = Payload(b, v, id)
  <2>1. (id + r) % 14 \in Positions BY Rotating
  <2>2. \A i \in Positions : IdAt(i, r) = id <=> i = (id + r) % 14 BY Rotating
  <2>3. \A i \in Positions : half[i].id = IdAt(i, r)
                             /\ half[i].data = Payload(b, v, IdAt(i, r))
    BY DEF Holds, Reads
  <2> QED BY <2>1, <2>2, <2>3
<1>4. \A p \in Positions : MaxPos({p}) = p
  BY Ranges, MaxIs
<1>5. ids0 = {r}
  <2>1. SECTOR_ID_SAVEBLOCK2 \in SectorIds /\ SECTOR_ID_SAVEBLOCK2 = 0 BY Ranges
  <2>2. (0 + r) % 14 = r BY OneTurn, Ranges
  <2> QED BY <1>3, <2>1, <2>2
<1>6. copy.last = r
  <2> HIDE DEF payload, ids0, copy
  <2> QED BY <1>2, <1>4, <1>5
<1>7. ASSUME NEW id \in SectorIds PROVE payload[id] = Payload(b, v, id)
  <2>1. of(id) = {(id + r) % 14} BY <1>1, <1>3
  <2>2. MaxPos(of(id)) = (id + r) % 14 BY <2>1, <1>3, <1>4
  <2> HIDE DEF of
  <2> QED BY <2>1, <2>2, <1>3
<1>8. copy.payload = payload
  <2> HIDE DEF payload, ids0, copy
  <2> QED BY <1>2
<1> QED BY <1>6, <1>7, <1>8 DEF Carries

LEMMA CopyOfBlank ==
  ASSUME NEW half, NEW legacy \in BOOLEAN, NEW before, Blank(half, Positions)
  PROVE  CopyValidSlotPayloads(half, legacy, before).last = before
<1>1. ReadPositions(legacy) \subseteq Positions BY Ranges DEF ReadPositions
<1>2. \A i \in Positions : half[i].id # SECTOR_ID_SAVEBLOCK2
  BY Ranges DEF Blank, EmptySector
<1>3. {i \in ReadPositions(legacy) : half[i].id = SECTOR_ID_SAVEBLOCK2} = {}
  BY <1>1, <1>2
<1> QED BY <1>3, Zenon DEF CopyValidSlotPayloads

---------------------------------------------------------------------------
(* What a write lays on flash.                                             *)

LEMMA Laid ==
  ASSUME NEW image \in Images, NEW k \in 1 .. 14,
         NEW r \in Positions, NEW c \in Counter, NEW val,
         PhysicalSlotForCounter(c) \in Slots
  PROVE  LET new == LayGeneration(image, FirstIds(k), NUM_SECTORS_PER_SLOT, r, c, val)
         IN /\ \A s \in Slots : s # PhysicalSlotForCounter(c) => new[s] = image[s]
            /\ LaidOver(new[PhysicalSlotForCounter(c)],
                        image[PhysicalSlotForCounter(c)], k, r, c, val)
<1> DEFINE half == PhysicalSlotForCounter(c)
           ids == FirstIds(k)
           at == [id \in ids |-> (id + r) % NUM_SECTORS_PER_SLOT]
           put(i) == CHOOSE id \in ids : at[id] = i
           laid == [i \in Positions |->
              IF \E id \in ids : at[id] = i
              THEN [WriteSector(put(i), 0, c) EXCEPT !.data = val[put(i)]]
              ELSE image[half][i]]
           new == LayGeneration(image, ids, NUM_SECTORS_PER_SLOT, r, c, val)
<1>1. new = [image EXCEPT ![half] = laid]
  BY Zenon DEF LayGeneration
<1>0. ids \subseteq SectorIds /\ \A id \in SectorIds : id \in ids <=> id < k
  BY DEF FirstIds
<1> HIDE DEF ids
<1>2. /\ \A s \in Slots : s # half => new[s] = image[s]
      /\ new[half] = laid
  <2> HIDE DEF laid, half, new
  <2>1. half \in Slots BY DEF half
  <2>2. DOMAIN image = Slots BY DEF Images
  <2> QED BY <1>1, <2>1, <2>2
<1>3. ASSUME NEW i \in Positions
      PROVE  IF IdAt(i, r) < k THEN Reads(laid[i], IdAt(i, r), c, val[IdAt(i, r)])
             ELSE laid[i] = image[half][i]
  <2>0. \A id \in SectorIds : IdAt(i, r) = id <=> i = (id + r) % 14 BY Rotating
  <2>1. \A id \in ids : at[id] = i <=> IdAt(i, r) = id
    <3> SUFFICES ASSUME NEW id \in ids PROVE at[id] = i <=> IdAt(i, r) = id
      OBVIOUS
    <3>1. id \in SectorIds BY <1>0
    <3>2. at[id] = (id + r) % 14 BY Ranges
    <3>3. IdAt(i, r) = id <=> i = (id + r) % 14 BY <3>1, <2>0, Zenon
    <3> HIDE DEF at
    <3> QED BY <3>2, <3>3
  <2>2. IdAt(i, r) \in 0 .. 13
    <3>1. IdAt(i, r) \in SectorIds BY Rotating
    <3> QED BY <3>1, Ranges
  <2>3. CASE IdAt(i, r) < k
    <3>1. IdAt(i, r) \in ids BY <1>0, <2>2, <2>3, Ranges
    <3>2. at[IdAt(i, r)] = i BY <2>1, <3>1
    <3>3. put(i) = IdAt(i, r)
      <4> HIDE DEF at
      <4> QED BY <2>1, <3>1, <3>2
    <3>4. laid[i] = [WriteSector(put(i), 0, c) EXCEPT !.data = val[put(i)]]
      <4> HIDE DEF at, put
      <4> QED BY <3>1, <3>2
    <3> HIDE DEF laid, put, at
    <3> QED BY <2>3, <3>3, <3>4 DEF WriteSector, Reads
  <2>4. CASE ~(IdAt(i, r) < k)
    <3>1. ~\E id \in ids : at[id] = i
      <4> HIDE DEF at
      <4> QED BY <1>0, <2>1, <2>2, <2>4, Ranges
    <3> HIDE DEF at, put
    <3> QED BY <3>1, <2>4
  <2> QED BY <2>3, <2>4
<1>4. LaidOver(laid, image[half], k, r, c, val)
  <2> HIDE DEF laid, half
  <2> QED BY <1>3 DEF LaidOver
<1> HIDE DEF laid, new
<1> QED BY <1>2, <1>4 DEF half, new, ids

\* A write that reaches its end replaces the slot.
LEMMA LaidWhole ==
  ASSUME NEW new, NEW half, NEW r \in Positions, NEW c, NEW val, NEW b, NEW v,
         LaidOver(new, half, 14, r, c, val),
         Carries(val, b, v)
  PROVE  Holds(new, Positions, r, c, b, v)
<1> SUFFICES ASSUME NEW i \in Positions
             PROVE  Reads(new[i], IdAt(i, r), c, Payload(b, v, IdAt(i, r)))
  BY DEF Holds
<1>1. IdAt(i, r) \in SectorIds BY Rotating
<1>2. IdAt(i, r) < 14 BY <1>1, Ranges
<1>3. Reads(new[i], IdAt(i, r), c, val[IdAt(i, r)]) BY <1>2 DEF LaidOver
<1> QED BY <1>1, <1>3 DEF Carries

---------------------------------------------------------------------------
(* Counters of one generation and the next.                                *)

LEMMA Parity ==
  /\ \A c \in Counter : PhysicalSlotForCounter(c) \in Slots
  /\ \A c \in Counter : NextCounter(c) \in Counter
  /\ \A c \in Counter :
       PhysicalSlotForCounter(NextCounter(c)) = 1 - PhysicalSlotForCounter(c)
<1>1. /\ CounterModulus \in Nat /\ CounterModulus >= 4 /\ CounterModulus % 2 = 0
  BY CounterModulusAssumption
<1> SUFFICES ASSUME NEW c \in Counter
             PROVE  /\ PhysicalSlotForCounter(c) \in Slots
                    /\ NextCounter(c) \in Counter
                    /\ PhysicalSlotForCounter(NextCounter(c))
                         = 1 - PhysicalSlotForCounter(c)
  OBVIOUS
<1>2. c \in 0 .. CounterModulus - 1 BY DEF Counter
<1>3. NextCounter(c) = IF c + 1 < CounterModulus THEN c + 1 ELSE 0
  BY <1>1, <1>2 DEF NextCounter, WrappingAdd
<1>4. NextCounter(c) \in Counter BY <1>1, <1>2, <1>3 DEF Counter
<1>5. c % 2 \in {0, 1} BY <1>2
<1>6. (c + 1) % 2 = 1 - (c % 2) BY <1>2
<1>7. NextCounter(c) % 2 = 1 - (c % 2)
  <2>1. CASE c + 1 < CounterModulus
    BY <2>1, <1>3, <1>6
  <2>2. CASE ~(c + 1 < CounterModulus)
    <3>1. c + 1 = CounterModulus BY <2>2, <1>1, <1>2
    <3>2. 1 - (c % 2) = 0 BY <3>1, <1>1, <1>6
    <3> QED BY <2>2, <1>3, <3>2
  <2> QED BY <2>1, <2>2
<1> QED BY <1>4, <1>5, <1>7 DEF PhysicalSlotForCounter, Slots

LEMMA NextIsNewer ==
  ASSUME NEW c \in Counter
  PROVE  /\ SecondCounterIsNewer(c, NextCounter(c))
         /\ ~SecondCounterIsNewer(NextCounter(c), c)
         /\ NextCounter(c) # c
         /\ NextCounter(NextCounter(c)) # c
<1>1. /\ CounterModulus \in Nat /\ CounterModulus >= 4
  BY CounterModulusAssumption
<1>2. c \in 0 .. CounterModulus - 1 BY DEF Counter
<1> QED BY <1>1, <1>2 DEF NextCounter, WrappingAdd, SecondCounterIsNewer

---------------------------------------------------------------------------
(* What a load adopts while no five-sector head is about.                  *)

Scans(image) == [s \in Slots |-> ScanSlot(image[s])]

\* Slot t holds nothing a load prefers to the generation c of the other slot.
Yields(image, t, c) ==
  \/ ScanSlot(image[t]).integrity \in {"Empty", "Error"}
  \/ /\ ScanSlot(image[t]).integrity = "Ok"
     /\ ScanSlot(image[t]).legacy = FALSE
     /\ \E c1 \in Counter : c = NextCounter(c1) /\ ScanSlot(image[t]).counter = c1

LEMMA ResolveFull ==
  ASSUME NEW image, NEW s \in Slots, NEW c \in Counter,
         s = PhysicalSlotForCounter(c),
         ScanSlot(image[s]).integrity = "Ok", ScanSlot(image[s]).counter = c,
         ScanSlot(image[s]).legacy = FALSE,
         Yields(image, 1 - s, c)
  PROVE  /\ Verdict(image).status \in {"Ok", "Error"}
         /\ Verdict(image).counter = c
         /\ Verdict(image).storage_from_slot = NoSlot
         /\ Verdict(image).legacy = FALSE
<1> DEFINE scan == Scans(image)
           intact == {t \in {0, 1} : scan[t].integrity = "Ok"}
           only == CHOOSE t \in intact : TRUE
<1>1. /\ Slots = {0, 1} /\ s \in {0, 1} /\ 1 - s \in {0, 1} /\ s # 1 - s
      /\ {s, 1 - s} = {0, 1}
  BY DEF Slots
<1>2. scan[s] = ScanSlot(image[s]) /\ scan[1 - s] = ScanSlot(image[1 - s])
  BY <1>1 DEF Scans
<1>3. Verdict(image) = Resolve(scan) BY DEF Verdict, Scans
<1>4. Resolve(scan) =
     IF intact = {0, 1} THEN ResolveBothOk(scan)
     ELSE IF intact # {}
     THEN Resolution(IF scan[1 - only].integrity = "Error"
                     THEN "Error" ELSE "Ok",
                     scan[only].counter,
                     StorageDonor(scan[only].legacy, scan),
                     scan[only].legacy)
     ELSE Resolution(IF \A t \in {0, 1} : scan[t].integrity = "Empty"
                     THEN "Empty" ELSE "Corrupt",
                     0, NoSlot, FALSE)
  BY DEF Resolve
<1> HIDE DEF scan
<1>5. CASE ScanSlot(image[1 - s]).integrity \in {"Empty", "Error"}
  <2>1. scan[s].integrity = "Ok" /\ scan[1 - s].integrity # "Ok" BY <1>2, <1>5
  <2>2. intact = {s} BY <2>1, <1>1
  <2>3. only = s
    <3> HIDE DEF intact
    <3> QED BY <2>2
  <2>4. intact # {0, 1} /\ intact # {} BY <2>2, <1>1
  <2>5. Resolve(scan) = Resolution(IF scan[1 - s].integrity = "Error"
                     THEN "Error" ELSE "Ok",
                     scan[s].counter,
                     StorageDonor(scan[s].legacy, scan),
                     scan[s].legacy)
    <3> HIDE DEF intact, only
    <3> QED BY <2>3, <2>4, <1>4, Zenon
  <2>6. StorageDonor(scan[s].legacy, scan) = NoSlot
    BY <1>2 DEF StorageDonor
  <2> QED BY <1>2, <1>3, <2>5, <2>6 DEF Resolution
<1>6. CASE /\ ScanSlot(image[1 - s]).integrity = "Ok"
           /\ ScanSlot(image[1 - s]).legacy = FALSE
           /\ \E c1 \in Counter : /\ c = NextCounter(c1)
                                  /\ ScanSlot(image[1 - s]).counter = c1
  <2>1. PICK c1 \in Counter : c = NextCounter(c1) /\ scan[1 - s].counter = c1
    BY <1>2, <1>6
  <2>2. scan[s].integrity = "Ok" /\ scan[1 - s].integrity = "Ok" BY <1>2, <1>6
  <2>3. intact = {0, 1} BY <2>2, <1>1
  <2>4. Resolve(scan) = ResolveBothOk(scan) BY <2>3, <1>4
  <2>5. scan[0].legacy = FALSE /\ scan[1].legacy = FALSE
    BY <1>1, <1>2, <1>6
  <2>6. ResolveBothOk(scan) = Resolution("Ok",
         IF SecondCounterIsNewer(scan[0].counter, scan[1].counter)
         THEN scan[1].counter ELSE scan[0].counter,
         StorageDonor(scan[0].legacy, scan), scan[0].legacy)
    BY <2>5 DEF ResolveBothOk
  <2>7. StorageDonor(scan[0].legacy, scan) = NoSlot
    BY <2>5 DEF StorageDonor
  <2>8. (IF SecondCounterIsNewer(scan[0].counter, scan[1].counter)
         THEN scan[1].counter ELSE scan[0].counter) = c
    BY <1>1, <1>2, <2>1, NextIsNewer
  <2> QED BY <1>3, <2>4, <2>5, <2>6, <2>7, <2>8 DEF Resolution
<1> QED BY <1>5, <1>6 DEF Yields

\* A slot that holds a generation is loaded, with its blocks and its boxes, when
\* the other slot is empty, unreadable or one generation behind.
LEMMA LoadFull ==
  ASSUME NEW image, NEW s \in Slots, NEW c \in Counter, NEW r \in Positions,
         NEW b, NEW v, s = PhysicalSlotForCounter(c),
         Holds(image[s], Positions, r, c, b, v),
         Yields(image, 1 - s, c)
  PROVE  /\ Load(image).status \in {"Ok", "Error"}
         /\ Load(image).counter = c
         /\ Load(image).last = r
         /\ Load(image).source = "Own"
         /\ Carries(Load(image).base, b, v)
<1> DEFINE res == Verdict(image)
           donated == [last |-> 0]
           copied == CopyValidSlotPayloads(image[PhysicalSlotForCounter(res.counter)],
                                           res.legacy, donated.last)
<1>1. /\ res.status \in {"Ok", "Error"} /\ res.counter = c
      /\ res.storage_from_slot = NoSlot /\ res.legacy = FALSE
  <2>1. /\ ScanSlot(image[s]).integrity = "Ok" /\ ScanSlot(image[s]).counter = c
        /\ ScanSlot(image[s]).legacy = FALSE
    BY FullScan
  <2> QED BY <2>1, ResolveFull
<1>3. Load(image) = CopyAdopted(image, res, donated)
  <2> HIDE DEF res, donated
  <2> QED BY <1>1, Zenon DEF Load, CopyAfterDonor, res, donated
<1>4. CopyAdopted(image, res, donated) = Rebuilt(res, donated, copied)
  BY DEF CopyAdopted
<1>5. copied.last = r /\ Carries(copied.payload, b, v)
  <2>1. copied = CopyValidSlotPayloads(image[s], res.legacy, donated.last)
    BY <1>1
  <2>2. /\ CopyValidSlotPayloads(image[s], res.legacy, donated.last).last = r
        /\ Carries(CopyValidSlotPayloads(image[s], res.legacy, donated.last).payload, b, v)
    <3> DEFINE lg == res.legacy
               sl == image[s]
               bf == donated.last
    <3>1. lg \in BOOLEAN /\ ~lg BY <1>1
    <3>2. Holds(sl, Positions, r, c, b, v) OBVIOUS
    <3> HIDE DEF lg, sl, bf
    <3>3. CopyValidSlotPayloads(sl, lg, bf).last = r
      BY <3>1, <3>2, CopyOfFull
    <3>4. Carries(CopyValidSlotPayloads(sl, lg, bf).payload, b, v)
      BY <3>1, <3>2, CopyOfFull
    <3> QED BY <3>3, <3>4 DEF lg, sl, bf
  <2> HIDE DEF copied, donated, res
  <2> QED BY <2>1, <2>2
<1> HIDE DEF copied, donated, res
<1>6. /\ Rebuilt(res, donated, copied).status = res.status
      /\ Rebuilt(res, donated, copied).counter = res.counter
      /\ Rebuilt(res, donated, copied).last = copied.last
      /\ Rebuilt(res, donated, copied).source = "Own"
      /\ \A id \in SectorIds :
           Rebuilt(res, donated, copied).base[id] = copied.payload[id]
  BY <1>1 DEF Rebuilt
<1> QED BY <1>1, <1>3, <1>4, <1>5, <1>6 DEF Carries

---------------------------------------------------------------------------
(* Type correctness: what is loaded and laid again is well formed.         *)

\* A set of positions that is not empty has a last and a first.
LEMMA LastPosition ==
  ASSUME NEW S \in SUBSET Positions, S # {}
  PROVE  MaxPos(S) \in S
<1>1. S \subseteq 0 .. 13 BY Ranges
<1>2. \E x \in S : \A y \in S : y <= x
  <2> SUFFICES ASSUME \A x \in S : \E y \in S : ~(y <= x) PROVE FALSE
    OBVIOUS
  <2>1. 13 \notin S BY <1>1
  <2>2. 12 \notin S BY <1>1, <2>1
  <2>3. 11 \notin S BY <1>1, <2>1, <2>2
  <2>4. 10 \notin S BY <1>1, <2>1, <2>2, <2>3
  <2>5. S \subseteq 0 .. 9 BY <1>1, <2>1, <2>2, <2>3, <2>4
  <2>6. 9 \notin S BY <2>5
  <2>7. 8 \notin S BY <2>5, <2>6
  <2>8. 7 \notin S BY <2>5, <2>6, <2>7
  <2>9. 6 \notin S BY <2>5, <2>6, <2>7, <2>8
  <2>10. S \subseteq 0 .. 5 BY <2>5, <2>6, <2>7, <2>8, <2>9
  <2>11. 5 \notin S BY <2>10
  <2>12. 4 \notin S BY <2>10, <2>11
  <2>13. 3 \notin S BY <2>10, <2>11, <2>12
  <2>14. 2 \notin S BY <2>10, <2>11, <2>12, <2>13
  <2>15. S \subseteq 0 .. 1 BY <2>10, <2>11, <2>12, <2>13, <2>14
  <2>16. 1 \notin S BY <2>15
  <2>17. 0 \notin S BY <2>15, <2>16
  <2>18. \A x \in S : x = 0 \/ x = 1 BY <2>15
  <2> QED BY <2>16, <2>17, <2>18
<1>3. PICK x \in S : \A y \in S : y <= x BY <1>2
<1>4. MaxPos(S) = x BY <1>1, <1>3, MaxIs
<1> QED BY <1>3, <1>4
LEMMA FirstPosition ==
  ASSUME NEW S \in SUBSET Positions, S # {}
  PROVE  MinPos(S) \in S
<1>1. S \subseteq 0 .. 13 BY Ranges
<1>2. \E x \in S : \A y \in S : x <= y
  <2> SUFFICES ASSUME \A x \in S : \E y \in S : ~(x <= y) PROVE FALSE
    OBVIOUS
  <2>1. 0 \notin S BY <1>1
  <2>2. 1 \notin S BY <1>1, <2>1
  <2>3. 2 \notin S BY <1>1, <2>1, <2>2
  <2>4. 3 \notin S BY <1>1, <2>1, <2>2, <2>3
  <2>5. S \subseteq 4 .. 13 BY <1>1, <2>1, <2>2, <2>3, <2>4
  <2>6. 4 \notin S BY <2>5
  <2>7. 5 \notin S BY <2>5, <2>6
  <2>8. 6 \notin S BY <2>5, <2>6, <2>7
  <2>9. 7 \notin S BY <2>5, <2>6, <2>7, <2>8
  <2>10. S \subseteq 8 .. 13 BY <2>5, <2>6, <2>7, <2>8, <2>9
  <2>11. 8 \notin S BY <2>10
  <2>12. 9 \notin S BY <2>10, <2>11
  <2>13. 10 \notin S BY <2>10, <2>11, <2>12
  <2>14. 11 \notin S BY <2>10, <2>11, <2>12, <2>13
  <2>15. S \subseteq 12 .. 13 BY <2>10, <2>11, <2>12, <2>13, <2>14
  <2>16. 12 \notin S BY <2>15
  <2>17. 13 \notin S BY <2>15, <2>16
  <2>18. \A x \in S : x = 12 \/ x = 13 BY <2>15
  <2> QED BY <2>16, <2>17, <2>18
<1>3. PICK x \in S : \A y \in S : x <= y BY <1>2
<1>4. MinPos(S) = x BY <1>1, <1>3, MinIs
<1> QED BY <1>3, <1>4

\* A payload of one of the first n writes.
Payloads(n) == [val : 0 .. n, id : SectorIds \union {NoId}]
Stamps(image, n) == \A s \in Slots, i \in Positions : image[s][i].data \in Payloads(n)

LEMMA SectorFields ==
  ASSUME NEW sector \in Sector
  PROVE  sector.counter \in Counter /\ sector.id \in SectorIds \union {NoId}
BY DEF Sector

LEMMA ScanCounter ==
  ASSUME NEW half \in [Positions -> Sector]
  PROVE  ScanSlot(half).counter \in Counter
<1>1. CASE IsLegacy(half)
  <2>1. HeadIsComplete(half, Head(half)) BY <1>1 DEF IsLegacy, LegacyIntact
  <2>2. Head(half) # {} BY <2>1, Ranges DEF HeadIsComplete
  <2>3. Head(half) \subseteq Positions BY Ranges DEF Head, HeadIn
  <2>4. MinPos(Head(half)) \in Positions BY <2>2, <2>3, FirstPosition
  <2>5. HeadCounter(half) = half[MinPos(Head(half))].counter
    BY <2>2 DEF HeadCounter, LegacyCounter
  <2> QED BY <1>1, <2>4, <2>5, SectorFields, ScanIs
<1>2. CASE ~IsLegacy(half) /\ ValidIn(half) = {}
  <2>1. 0 \in Counter BY CounterModulusAssumption DEF Counter
  <2> QED BY <1>2, <2>1, ScanIs
<1>3. CASE ~IsLegacy(half) /\ ValidIn(half) # {}
  <2>1. ValidIn(half) \subseteq Positions BY DEF ValidIn
  <2>2. MaxPos(ValidIn(half)) \in Positions BY <1>3, <2>1, LastPosition
  <2> QED BY <1>3, <2>2, SectorFields, ScanIs
<1> QED BY <1>1, <1>2, <1>3

LEMMA VerdictType ==
  ASSUME NEW image \in Images
  PROVE  /\ Verdict(image).counter \in Counter
         /\ Verdict(image).storage_from_slot \in {NoSlot, 0, 1}
<1> DEFINE scan == Scans(image)
           intact == {t \in {0, 1} : scan[t].integrity = "Ok"}
           only == CHOOSE t \in intact : TRUE
<1>1. Verdict(image) = Resolve(scan) BY DEF Verdict, Scans
<1>2. scan[0].counter \in Counter /\ scan[1].counter \in Counter
  <2>1. image[0] \in [Positions -> Sector] /\ image[1] \in [Positions -> Sector]
    BY DEF Images, Slots
  <2>2. scan[0] = ScanSlot(image[0]) /\ scan[1] = ScanSlot(image[1])
    BY DEF Scans, Slots
  <2> QED BY <2>1, <2>2, ScanCounter
<1>3. Resolve(scan) =
     IF intact = {0, 1} THEN ResolveBothOk(scan)
     ELSE IF intact # {}
     THEN Resolution(IF scan[1 - only].integrity = "Error"
                     THEN "Error" ELSE "Ok",
                     scan[only].counter,
                     StorageDonor(scan[only].legacy, scan),
                     scan[only].legacy)
     ELSE Resolution(IF \A t \in {0, 1} : scan[t].integrity = "Empty"
                     THEN "Empty" ELSE "Corrupt",
                     0, NoSlot, FALSE)
  BY DEF Resolve
<1>4. \A x, y : NewestStorageSet(x, y) \in {NoSlot, 0, 1}
  BY DEF NewestStorageSet
<1>5. \A x : StorageDonor(x, scan) \in {NoSlot, 0, 1}
  BY <1>4 DEF StorageDonor
<1> HIDE DEF scan
<1>6. CASE intact = {0, 1}
  <2>1. Resolve(scan) = ResolveBothOk(scan) BY <1>3, <1>6
  <2>2. CASE scan[0].legacy = scan[1].legacy
    <3>1. ResolveBothOk(scan) = Resolution("Ok",
         IF SecondCounterIsNewer(scan[0].counter, scan[1].counter)
         THEN scan[1].counter ELSE scan[0].counter,
         StorageDonor(scan[0].legacy, scan), scan[0].legacy)
      BY <2>2 DEF ResolveBothOk
    <3> QED BY <1>1, <1>2, <1>5, <2>1, <3>1 DEF Resolution
  <2>3. CASE scan[0].legacy # scan[1].legacy
    <3> DEFINE legacy == IF scan[0].legacy THEN 0 ELSE 1
               full == 1 - legacy
               offered == [s \in {0, 1} |->
                 IF s = full THEN FullStorageCounter(scan[s])
                 ELSE scan[s].storage_counter]
    <3>1. legacy \in {0, 1} /\ full \in {0, 1} OBVIOUS
    <3>2. ResolveBothOk(scan) =
        IF SecondCounterIsNewer(scan[full].counter, scan[legacy].counter)
          THEN Resolution("Ok", scan[legacy].counter,
                 NewestStorageSet(offered[0], offered[1]), TRUE)
          ELSE Resolution("Ok", scan[full].counter, NoSlot, FALSE)
      BY <2>3 DEF ResolveBothOk
    <3> HIDE DEF offered, full, legacy
    <3> QED BY <1>1, <1>2, <1>4, <2>1, <3>1, <3>2 DEF Resolution
  <2> QED BY <2>2, <2>3
<1>7. CASE intact # {0, 1} /\ intact # {}
  <2>1. only \in {0, 1} BY <1>7
  <2> HIDE DEF only, intact
  <2> QED BY <1>1, <1>2, <1>3, <1>5, <1>7, <2>1 DEF Resolution
<1>8. CASE intact # {0, 1} /\ intact = {}
  <2>1. 0 \in Counter BY CounterModulusAssumption DEF Counter
  <2> HIDE DEF intact
  <2> QED BY <1>1, <1>3, <1>8, <2>1 DEF Resolution
<1> QED BY <1>6, <1>7, <1>8

LEMMA CopyType ==
  ASSUME NEW half, NEW n \in Nat, \A i \in Positions : half[i].data \in Payloads(n),
         NEW legacy, NEW before \in Positions
  PROVE  /\ CopyValidSlotPayloads(half, legacy, before).last \in Positions
         /\ \A id \in SectorIds :
              CopyValidSlotPayloads(half, legacy, before).payload[id] \in Payloads(n)
<1> DEFINE read == ReadPositions(legacy)
           valid == {i \in read : IsValid(half[i])}
           of(id) == {i \in valid : half[i].id = id}
           ids0 == {i \in read : half[i].id = SECTOR_ID_SAVEBLOCK2}
           payload == [id \in SectorIds |->
             IF of(id) = {} THEN Zeroed(id) ELSE half[MaxPos(of(id))].data]
           copy == CopyValidSlotPayloads(half, legacy, before)
<1>1. copy = [last |-> IF ids0 = {} THEN before ELSE MaxPos(ids0), payload |-> payload]
  BY DEF CopyValidSlotPayloads
<1>2. read \subseteq Positions BY Ranges DEF ReadPositions
<1>3. ids0 # {} => MaxPos(ids0) \in Positions
  <2>1. ids0 \subseteq Positions BY <1>2
  <2> HIDE DEF ids0
  <2> QED BY <2>1, LastPosition
<1>4. ASSUME NEW id \in SectorIds PROVE payload[id] \in Payloads(n)
  <2>1. of(id) \subseteq Positions BY <1>2
  <2> HIDE DEF of
  <2>2. CASE of(id) = {}
    <3>1. payload[id] = Chunk(0, id) BY <2>2 DEF Zeroed
    <3> QED BY <3>1 DEF Chunk, Payloads
  <2>3. CASE of(id) # {}
    <3>1. MaxPos(of(id)) \in Positions BY <2>1, <2>3, LastPosition
    <3> QED BY <2>3, <3>1
  <2> QED BY <2>2, <2>3
<1> HIDE DEF payload, ids0
<1>5. copy.last \in Positions /\ copy.payload = payload
  BY <1>1, <1>3
<1> QED BY <1>4, <1>5

\* Whatever the image, the store rebuilt from it is well formed.
LEMMA LoadType ==
  ASSUME NEW image \in Images, NEW n \in Nat, Stamps(image, n)
  PROVE  /\ Load(image).counter \in Counter
         /\ Load(image).last \in Positions
         /\ \A id \in SectorIds : Load(image).base[id] \in Payloads(n)
<1> DEFINE res == Verdict(image)
           source == PhysicalSlotForCounter(res.counter)
           donor == res.storage_from_slot
           donated == IF donor = NoSlot THEN [last |-> 0]
                      ELSE CopyValidSlotPayloads(image[donor], FALSE, 0)
           copied == CopyValidSlotPayloads(image[source], res.legacy, donated.last)
<1>1. res.counter \in Counter /\ donor \in {NoSlot, 0, 1} BY VerdictType
<1>2. source \in Slots BY <1>1, Parity
<1>3. Load(image) = Rebuilt(res, donated, copied)
  BY Zenon DEF Load, CopyAfterDonor, CopyAdopted
<1>4. 0 \in Positions BY Ranges
<1> HIDE DEF res
<1>5. ASSUME NEW t \in Slots, NEW legacy, NEW before \in Positions
      PROVE  /\ CopyValidSlotPayloads(image[t], legacy, before).last \in Positions
             /\ \A id \in SectorIds :
                  CopyValidSlotPayloads(image[t], legacy, before).payload[id] \in Payloads(n)
  <2>1. \A i \in Positions : image[t][i].data \in Payloads(n) BY DEF Stamps
  <2> QED BY <2>1, CopyType
<1>6. /\ donated.last \in Positions
      /\ donor # NoSlot => \A id \in SectorIds : donated.payload[id] \in Payloads(n)
  <2>1. CASE donor = NoSlot
    BY <2>1, <1>4
  <2>2. CASE donor # NoSlot
    <3>1. donor \in Slots BY <1>1, <2>2 DEF Slots
    <3>2. donated = CopyValidSlotPayloads(image[donor], FALSE, 0) BY <2>2
    <3> HIDE DEF donated, donor
    <3> QED BY <3>1, <3>2, <1>4, <1>5
  <2> QED BY <2>1, <2>2
<1> HIDE DEF donated, donor
<1>7. copied.last \in Positions /\ \A id \in SectorIds : copied.payload[id] \in Payloads(n)
  BY <1>2, <1>5, <1>6
<1> HIDE DEF copied, source
<1>8. /\ Rebuilt(res, donated, copied).counter = res.counter
      /\ Rebuilt(res, donated, copied).last = copied.last
  BY DEF Rebuilt
<1>9. ASSUME NEW id \in SectorIds
      PROVE  Rebuilt(res, donated, copied).base[id] \in Payloads(n)
  <2>1. Rebuilt(res, donated, copied).base[id] =
          IF id \in StorageIds /\ donor # NoSlot
          THEN donated.payload[id] ELSE copied.payload[id]
    BY DEF Rebuilt, donor
  <2> QED BY <2>1, <1>6, <1>7
<1> QED BY <1>1, <1>3, <1>7, <1>8, <1>9

LEMMA LaidType ==
  ASSUME NEW image \in Images, NEW n \in Nat, Stamps(image, n),
         NEW ids \in SUBSET SectorIds, NEW m, NEW r, NEW c \in Counter, NEW val,
         \A id \in ids : val[id] \in Payloads(n)
  PROVE  /\ LayGeneration(image, ids, m, r, c, val) \in Images
         /\ Stamps(LayGeneration(image, ids, m, r, c, val), n)
<1> DEFINE half == PhysicalSlotForCounter(c)
           at == [id \in ids |-> (id + r) % m]
           put(i) == CHOOSE id \in ids : at[id] = i
           laid == [i \in Positions |->
              IF \E id \in ids : at[id] = i
              THEN [WriteSector(put(i), 0, c) EXCEPT !.data = val[put(i)]]
              ELSE image[half][i]]
           new == LayGeneration(image, ids, m, r, c, val)
<1>1. new = [image EXCEPT ![half] = laid]
  BY Zenon DEF LayGeneration
<1>2. half \in Slots BY Parity
<1>3. ASSUME NEW i \in Positions
      PROVE  laid[i] \in Sector /\ laid[i].data \in Payloads(n)
  <2>1. CASE \E id \in ids : at[id] = i
    <3>1. put(i) \in ids
      <4> HIDE DEF at
      <4> QED BY <2>1
    <3>2. laid[i] = [WriteSector(put(i), 0, c) EXCEPT !.data = val[put(i)]]
      <4> HIDE DEF at, put
      <4> QED BY <2>1
    <3> HIDE DEF laid, put, at
    <3>3. val[put(i)] \in Payloads(n) BY <3>1
    <3>4. val[put(i)] \in [val : Nat, id : SectorIds \union {NoId}]
      BY <3>3 DEF Payloads
    <3>5. /\ laid[i] = [signed |-> TRUE, sum |-> TRUE, id |-> put(i),
                        counter |-> c, data |-> val[put(i)]]
      BY <3>2 DEF WriteSector
    <3>6. put(i) \in SectorIds \union {NoId} BY <3>1
    <3> QED BY <3>3, <3>4, <3>5, <3>6 DEF Sector
  <2>2. CASE ~\E id \in ids : at[id] = i
    <3>1. laid[i] = image[half][i]
      <4> HIDE DEF at, put
      <4> QED BY <2>2
    <3> HIDE DEF laid, put, at, half
    <3> QED BY <3>1, <1>2 DEF Images, Stamps
  <2> QED BY <2>1, <2>2
<1>4. laid \in [Positions -> Sector]
  <2>1. laid = [i \in Positions |-> laid[i]] OBVIOUS
  <2> HIDE DEF laid
  <2> QED BY <2>1, <1>3
<1> HIDE DEF laid, half
<1>5. new \in Images BY <1>1, <1>2, <1>4 DEF Images
<1>6. Stamps(new, n)
  <2> SUFFICES ASSUME NEW s \in Slots, NEW i \in Positions
               PROVE  new[s][i].data \in Payloads(n)
    BY DEF Stamps
  <2>1. CASE s = half
    <3>1. new[s] = laid BY <2>1, <1>1, <1>2 DEF Images
    <3> QED BY <3>1, <1>3
  <2>2. CASE s # half
    <3>1. new[s] = image[s] BY <2>2, <1>1 DEF Images
    <3> QED BY <3>1 DEF Stamps
  <2> QED BY <2>1, <2>2
<1> QED BY <1>5, <1>6

LEMMA Later ==
  ASSUME NEW n \in Nat, NEW image, Stamps(image, n)
  PROVE  Stamps(image, n + 1)
<1>1. Payloads(n) \subseteq Payloads(n + 1)
  <2>1. 0 .. n \subseteq 0 .. n + 1 OBVIOUS
  <2> QED BY <2>1 DEF Payloads
<1> QED BY <1>1 DEF Stamps

LEMMA ErasedType == Erased \in Images /\ \A n \in Nat : Stamps(Erased, n)
<1>1. EmptySector \in Sector
  <2>1. 0 \in Counter BY CounterModulusAssumption DEF Counter
  <2>2. [val |-> 0, id |-> NoId] \in [val : Nat, id : SectorIds \union {NoId}]
    OBVIOUS
  <2>3. PICK d \in [val : Nat, id : SectorIds \union {NoId}] :
          EmptySector = [signed |-> FALSE, sum |-> FALSE, id |-> NoId, counter |-> 0,
                         data |-> d]
    BY <2>2 DEF EmptySector
  <2>4. NoId \in SectorIds \union {NoId} OBVIOUS
  <2> QED BY <2>1, <2>3, <2>4 DEF Sector
<1>2. \A n \in Nat : EmptySector.data \in Payloads(n)
  BY DEF EmptySector, Payloads
<1>3. Erased \in Images BY <1>1 DEF Erased, Images
<1>4. \A s \in Slots, i \in Positions : Erased[s][i] = EmptySector BY DEF Erased
<1> QED BY <1>2, <1>3, <1>4 DEF Stamps

\* What a save stamps is one write newer than what it carries.
LEMMA StampedType ==
  ASSUME NEW base, NEW fresh, clock \in Nat,
         \A id \in SectorIds : base[id] \in Payloads(clock)
  PROVE  \A id \in SectorIds : Stamped(base, fresh)[id] \in Payloads(clock + 1)
<1> SUFFICES ASSUME NEW id \in SectorIds
             PROVE  Stamped(base, fresh)[id] \in Payloads(clock + 1)
  OBVIOUS
<1>1. Payloads(clock) \subseteq Payloads(clock + 1)
  <2>1. 0 .. clock \subseteq 0 .. clock + 1 OBVIOUS
  <2> QED BY <2>1 DEF Payloads
<1>2. Chunk(clock + 1, id) \in Payloads(clock + 1)
  BY DEF Chunk, Payloads
<1>3. Stamped(base, fresh)[id] = IF id \in fresh THEN Chunk(clock + 1, id) ELSE base[id]
  BY DEF Stamped
<1> QED BY <1>1, <1>2, <1>3

Kinds == {"empty", "full", "legacy", "doubtful", "broken", "misfiled", "carried"}
Histories(n) == [Slots -> [kind : Kinds, blocks : 0 .. n, storage : 0 .. n]]

LEMMA GaveType ==
  ASSUME NEW n \in Nat, NEW half \in Slots, whole \in Histories(n),
         NEW kind \in Kinds, NEW b \in 0 .. n + 1, NEW v \in 0 .. n + 1,
         \/ Gave(half, Generation(kind, b, v))
         \/ NothingClaimed("misfiled")
  PROVE  whole' \in Histories(n + 1)
<1>1. \A k \in Kinds, x \in 0 .. n + 1, y \in 0 .. n + 1 :
        Generation(k, x, y) \in [kind : Kinds, blocks : 0 .. n + 1, storage : 0 .. n + 1]
  BY DEF Generation
<1>2. \A k \in Kinds : NothingClaimed(k) => whole' \in Histories(n + 1)
  <2>1. 0 \in 0 .. n + 1 OBVIOUS
  <2> QED BY <1>1, <2>1 DEF NothingClaimed, NoGeneration, Histories
<1>3. "carried" \in Kinds /\ "misfiled" \in Kinds BY DEF Kinds
<1>4. whole \in Histories(n + 1)
  <2>1. 0 .. n \subseteq 0 .. n + 1 OBVIOUS
  <2>2. [kind : Kinds, blocks : 0 .. n, storage : 0 .. n] \subseteq
        [kind : Kinds, blocks : 0 .. n + 1, storage : 0 .. n + 1]
    BY <2>1
  <2> QED BY <2>2 DEF Histories
<1>5. CASE whole' = [whole EXCEPT ![half] = Generation(kind, b, v)]
  <2> DEFINE g == Generation(kind, b, v)
  <2>1. g \in [kind : Kinds, blocks : 0 .. n + 1, storage : 0 .. n + 1] BY <1>1
  <2> HIDE DEF g
  <2>2. whole' = [whole EXCEPT ![half] = g] BY <1>5 DEF g
  <2> QED BY <1>4, <2>1, <2>2 DEF Histories
<1> QED BY <1>2, <1>3, <1>5 DEF Gave

---------------------------------------------------------------------------
(* StoreSpec => []StoreTypeOK                                              *)

\* Well formed sectors, stamped by writes that were made.
TypeKept == StoreTypeOK /\ Stamps(flash, clock)

LEMMA TypeIs ==
  TypeKept <=> /\ flash \in Images /\ Stamps(flash, clock)
               /\ clock \in 0 .. 2 + MaxWrites /\ faults \in 0 .. MaxFaults
               /\ whole \in Histories(clock)
BY DEF TypeKept, StoreTypeOK, Images, Histories, Kinds
LEMMA TypeIsNext ==
  TypeKept' <=> /\ flash' \in Images /\ Stamps(flash', clock')
                 /\ clock' \in 0 .. 2 + MaxWrites /\ faults' \in 0 .. MaxFaults
                 /\ whole' \in Histories(clock')
BY DEF TypeKept, StoreTypeOK, Images, Histories, Kinds, Stamps

LEMMA Bounds == MaxWrites \in Nat /\ MaxFaults \in Nat
BY StoreAssumption

LEMMA InitType == ASSUME StoreInit PROVE TypeKept
<1>1. clock = 2 /\ faults = 0 BY DEF StoreInit
<1>2. clock \in 0 .. 2 + MaxWrites /\ faults \in 0 .. MaxFaults BY <1>1, Bounds
<1>3. \A k \in Kinds, x \in {0, 1, 2} :
        Generation(k, x, x) \in [kind : Kinds, blocks : 0 .. clock, storage : 0 .. clock]
  BY <1>1 DEF Generation
<1>4. "empty" \in Kinds /\ "full" \in Kinds BY DEF Kinds
<1>5. CASE flash = Erased /\ whole = [s \in Slots |-> NoGeneration("empty")]
  <2>1. whole \in Histories(clock) BY <1>3, <1>4, <1>5 DEF NoGeneration, Histories
  <2>2. flash \in Images /\ Stamps(flash, clock) BY <1>1, <1>5, ErasedType
  <2> QED BY <1>2, <2>1, <2>2, TypeIs
<1>6. ASSUME NEW c \in StartCounters, NEW r \in StartRotations,
             flash = Imported(c, r),
             whole = [s \in Slots |->
               IF s = PhysicalSlotForCounter(c) THEN Generation("full", 2, 2)
               ELSE Generation("full", 1, 1)]
      PROVE  TypeKept
  <2>1. whole \in Histories(clock) BY <1>3, <1>4, <1>6 DEF Histories
  <2>2. c \in Counter /\ WrappingSub(c, 1) \in Counter
    BY StoreAssumption, CounterModulusAssumption DEF Counter, WrappingSub
  <2> DEFINE older == LayGeneration(Erased, SectorIds, NUM_SECTORS_PER_SLOT,
                 (r + NUM_SECTORS_PER_SLOT - 1) % NUM_SECTORS_PER_SLOT,
                 WrappingSub(c, 1), [id \in SectorIds |-> Chunk(1, id)])
  <2>3. \A id \in SectorIds : [i \in SectorIds |-> Chunk(1, i)][id] \in Payloads(2)
                              /\ [i \in SectorIds |-> Chunk(2, i)][id] \in Payloads(2)
    BY DEF Chunk, Payloads
  <2>4. older \in Images /\ Stamps(older, 2)
    BY <2>2, <2>3, ErasedType, LaidType
  <2>5. flash = LayGeneration(older, SectorIds, NUM_SECTORS_PER_SLOT, r, c,
                              [id \in SectorIds |-> Chunk(2, id)])
    BY <1>6 DEF Imported
  <2> HIDE DEF older
  <2>6. flash \in Images /\ Stamps(flash, 2)
    BY <2>2, <2>3, <2>4, <2>5, LaidType
  <2> QED BY <1>1, <1>2, <2>1, <2>6, TypeIs
<1> QED BY <1>5, <1>6 DEF StoreInit

\* A step that lays sectors of the next write, and records what it gave.
LEMMA WriteType ==
  ASSUME TypeKept, MayWrite, clock' = clock + 1, faults' \in 0 .. MaxFaults,
         NEW ids \in SUBSET SectorIds, NEW m, NEW r, NEW c \in Counter, NEW fresh,
         NEW base, \A id \in SectorIds : base[id] \in Payloads(clock),
         flash' = LayGeneration(flash, ids, m, r, c, Stamped(base, fresh)),
         whole' \in Histories(clock + 1)
  PROVE  TypeKept'
<1>1. clock \in Nat /\ clock + 1 \in 0 .. 2 + MaxWrites
  BY TypeIs, Bounds DEF MayWrite
<1>2. \A id \in ids : Stamped(base, fresh)[id] \in Payloads(clock + 1)
  BY <1>1, StampedType
<1>3. flash \in Images /\ Stamps(flash, clock + 1) BY <1>1, TypeIs, Later
<1> DEFINE val == Stamped(base, fresh)
           n == clock + 1
<1>4. n \in Nat BY <1>1
<1> HIDE DEF val, n
<1>5. /\ LayGeneration(flash, ids, m, r, c, val) \in Images
      /\ Stamps(LayGeneration(flash, ids, m, r, c, val), n)
  BY <1>2, <1>3, <1>4, LaidType DEF val, n
<1>6. flash' \in Images /\ Stamps(flash', clock + 1)
  BY <1>5 DEF val, n
<1> QED BY <1>1, <1>6, TypeIsNext

LEMMA TokenType ==
  ASSUME NEW n \in Nat, NEW val, \A id \in SectorIds : val[id] \in Payloads(n)
  PROVE  StorageToken(val) \in 0 .. n
<1>1. 5 \in SectorIds BY Ranges
<1>2. val[5].val \in 0 .. n BY <1>1 DEF Payloads
<1> QED BY <1>2 DEF StorageToken

LEMMA LoadNow ==
  ASSUME TypeKept
  PROVE  /\ Load(flash).counter \in Counter
         /\ Load(flash).last \in Positions
         /\ \A id \in SectorIds : Load(flash).base[id] \in Payloads(clock)
<1>1. clock \in Nat /\ flash \in Images /\ Stamps(flash, clock) BY TypeIs, Bounds
<1> QED BY <1>1, LoadType

LEMMA PortSaveType ==
  ASSUME TypeKept, NEW new_game, PortSave(new_game)
  PROVE  TypeKept'
<1> DEFINE base == Load(flash).base
           counter == NextCounter(Load(flash).counter)
           fresh == IF new_game THEN SectorIds ELSE SaveBlockIds
           val == Stamped(base, fresh)
           rotation == NextRotation(Load(flash).last)
<1>1. counter \in Counter /\ \A id \in SectorIds : base[id] \in Payloads(clock)
  BY LoadNow, Parity
<1>2. /\ MayWrite /\ clock' = clock + 1 /\ faults' = faults
      /\ flash' = LayGeneration(flash, SectorIds, NUM_SECTORS_PER_SLOT, rotation,
                                counter, val)
      /\ Gave(PhysicalSlotForCounter(counter),
              Generation("full", clock + 1, StorageToken(val)))
  BY DEF PortSave
<1> HIDE DEF counter, base, rotation, fresh
<1>3. /\ clock \in Nat /\ faults \in 0 .. MaxFaults /\ whole \in Histories(clock)
      /\ PhysicalSlotForCounter(counter) \in Slots /\ "full" \in Kinds
  BY <1>1, TypeIs, Bounds, Parity DEF Kinds
<1>4. StorageToken(val) \in 0 .. clock + 1
  <2>1. \A id \in SectorIds : val[id] \in Payloads(clock + 1)
    BY <1>1, <1>3, StampedType
  <2> DEFINE n == clock + 1
  <2>2. n \in Nat BY <1>3
  <2> HIDE DEF val, n
  <2>3. StorageToken(val) \in 0 .. n BY <2>1, <2>2, TokenType DEF n
  <2> QED BY <2>3 DEF n
<1>5. whole' \in Histories(clock + 1)
  <2>1. clock + 1 \in 0 .. clock + 1 BY <1>3
  <2> HIDE DEF val
  <2> QED BY <1>2, <1>3, <1>4, <2>1, GaveType
<1>6. faults' \in 0 .. MaxFaults BY <1>2, <1>3
<1> QED BY <1>1, <1>2, <1>5, <1>6, WriteType

\* What a write, cut off or not, recorded.
LEMMA GivenType ==
  ASSUME TypeKept, NEW half \in Slots, NEW k, NEW all, NEW kind \in Kinds,
         NEW b \in 0 .. clock + 1, NEW v \in 0 .. clock + 1,
         Given(half, k, all, Generation(kind, b, v)), CutOff(k, all),
         all \in {5, 14}
  PROVE  /\ whole' \in Histories(clock + 1)
         /\ clock' = clock + 1 /\ faults' \in 0 .. MaxFaults /\ k \in 1 .. all
<1>1. /\ clock \in Nat /\ faults \in 0 .. MaxFaults /\ whole \in Histories(clock)
  BY TypeIs, Bounds
<1>2. "broken" \in Kinds /\ 0 \in 0 .. clock + 1 BY <1>1 DEF Kinds
<1>3. \/ NothingClaimed("misfiled")
      \/ Gave(half, Generation("broken", 0, 0))
      \/ Gave(half, Generation(kind, b, v))
  BY DEF Given, NoGeneration
<1>4. whole' \in Histories(clock + 1)
  BY <1>1, <1>2, <1>3, GaveType
<1>5. k \in 1 .. all /\ clock' = clock + 1 BY DEF CutOff
<1>6. faults' \in 0 .. MaxFaults
  BY <1>1, <1>5, Bounds DEF CutOff
<1> QED BY <1>4, <1>5, <1>6

LEMMA UpstreamSaveType ==
  ASSUME TypeKept, UpstreamSave
  PROVE  TypeKept'
<1> DEFINE base == Load(flash).base
           counter == NextCounter(Load(flash).counter)
           rotation == NextRotation(Load(flash).last)
<1>1. counter \in Counter /\ \A id \in SectorIds : base[id] \in Payloads(clock)
  BY LoadNow, Parity
<1>2. PICK k \in 1 .. NUM_SECTORS_PER_SLOT :
        /\ MayWrite /\ CutOff(k, NUM_SECTORS_PER_SLOT)
        /\ flash' = LayGeneration(flash, 0 .. k - 1, NUM_SECTORS_PER_SLOT, rotation,
                                  counter, Stamped(base, SectorIds))
        /\ Given(PhysicalSlotForCounter(counter), k, NUM_SECTORS_PER_SLOT,
             Generation("full", clock + 1, clock + 1))
  BY DEF UpstreamSave
<1> HIDE DEF counter, base, rotation
<1>3. /\ clock + 1 \in 0 .. clock + 1 /\ "full" \in Kinds
      /\ PhysicalSlotForCounter(counter) \in Slots /\ NUM_SECTORS_PER_SLOT \in {5, 14}
  BY <1>1, TypeIs, Bounds, Parity, Ranges DEF Kinds
<1>4. /\ whole' \in Histories(clock + 1)
      /\ clock' = clock + 1 /\ faults' \in 0 .. MaxFaults
  BY <1>2, <1>3, GivenType
<1>5. 0 .. k - 1 \in SUBSET SectorIds BY <1>2, Ranges
<1> QED BY <1>1, <1>2, <1>4, <1>5, WriteType

LEMMA LegacySaveType ==
  ASSUME TypeKept, NEW q \in LegacyRotations, LegacySave(q)
  PROVE  TypeKept'
<1> DEFINE base == Load(flash).base
           counter == NextCounter(Load(flash).counter)
           half == PhysicalSlotForCounter(counter)
           kind == IF whole[half].kind \in {"broken", "doubtful"}
                   THEN "doubtful" ELSE "legacy"
<1>1. counter \in Counter /\ \A id \in SectorIds : base[id] \in Payloads(clock)
  BY LoadNow, Parity
<1>2. PICK k \in 1 .. SECTOR_ID_PKMN_STORAGE_START :
        /\ MayWrite /\ CutOff(k, SECTOR_ID_PKMN_STORAGE_START)
        /\ flash' = LayGeneration(flash, 0 .. k - 1, SECTOR_ID_PKMN_STORAGE_START,
                                  q, counter, Stamped(base, SaveBlockIds))
        /\ Given(half, k, SECTOR_ID_PKMN_STORAGE_START, Generation(kind, clock + 1, 0))
  BY DEF LegacySave
<1>3. kind \in Kinds BY DEF Kinds
<1> HIDE DEF counter, base, half, kind
<1>4. /\ clock + 1 \in 0 .. clock + 1 /\ 0 \in 0 .. clock + 1
      /\ half \in Slots /\ SECTOR_ID_PKMN_STORAGE_START \in {5, 14}
  BY <1>1, TypeIs, Bounds, Parity, Ranges DEF half
<1>5. /\ whole' \in Histories(clock + 1)
      /\ clock' = clock + 1 /\ faults' \in 0 .. MaxFaults
  BY <1>2, <1>3, <1>4, GivenType
<1>6. 0 .. k - 1 \in SUBSET SectorIds BY <1>2, Ranges
<1> QED BY <1>1, <1>2, <1>5, <1>6, WriteType

LEMMA DamagedType ==
  ASSUME NEW sector \in Sector, NEW kind, NEW id \in SectorIds \union {NoId},
         NEW c \in Counter
  PROVE  Damaged(sector, kind, id, c) \in Sector
         /\ Damaged(sector, kind, id, c).data = sector.data
<1>1. CASE kind = "signature"
  <2>1. Damaged(sector, kind, id, c) = [sector EXCEPT !.signed = FALSE]
    BY <1>1 DEF Damaged
  <2> QED BY <2>1 DEF Sector
<1>2. CASE kind = "checksum"
  <2>1. Damaged(sector, kind, id, c) = [sector EXCEPT !.sum = FALSE]
    BY <1>2 DEF Damaged
  <2> QED BY <2>1 DEF Sector
<1>3. CASE kind = "counter"
  <2>1. Damaged(sector, kind, id, c) = [sector EXCEPT !.counter = c]
    BY <1>3 DEF Damaged
  <2> QED BY <2>1 DEF Sector
<1>4. CASE kind \notin {"signature", "checksum", "counter"}
  <2>1. Damaged(sector, kind, id, c) = [sector EXCEPT !.id = id]
    BY <1>4 DEF Damaged
  <2> QED BY <2>1 DEF Sector
<1> QED BY <1>1, <1>2, <1>3, <1>4

LEMMA DamageType ==
  ASSUME TypeKept, NEW s \in Slots, NEW i \in Positions, NEW kind,
         NEW id \in SectorIds \union {NoId}, NEW c \in Counter,
         Damage(s, i, kind, id, c)
  PROVE  TypeKept'
<1>1. /\ flash \in Images /\ Stamps(flash, clock) /\ whole \in Histories(clock)
      /\ clock \in 0 .. 2 + MaxWrites /\ faults \in 0 .. MaxFaults
  BY TypeIs
<1> DEFINE hurt == Damaged(flash[s][i], kind, id, c)
<1>2. hurt \in Sector /\ hurt.data = flash[s][i].data
  <2>1. flash[s][i] \in Sector BY <1>1 DEF Images
  <2> QED BY <2>1, DamagedType
<1>3. flash' = [flash EXCEPT ![s][i] = hurt] BY DEF Damage
<1> HIDE DEF hurt
<1>4. flash' \in Images BY <1>1, <1>2, <1>3 DEF Images
<1>5. Stamps(flash', clock)
  <2> SUFFICES ASSUME NEW t \in Slots, NEW j \in Positions
               PROVE  flash'[t][j].data \in Payloads(clock)
    BY DEF Stamps
  <2>1. flash'[t][j] = IF t = s /\ j = i THEN hurt ELSE flash[t][j]
    BY <1>1, <1>3 DEF Images
  <2> QED BY <1>1, <1>2, <2>1 DEF Stamps
<1>6. whole' \in Histories(clock)
  <2>1. \A k \in Kinds : NoGeneration(k)
          \in [kind : Kinds, blocks : 0 .. clock, storage : 0 .. clock]
    BY <1>1 DEF NoGeneration, Generation
  <2>2. "broken" \in Kinds /\ "misfiled" \in Kinds BY DEF Kinds
  <2>3. \/ whole' = whole
        \/ whole' = [t \in Slots |-> NoGeneration("misfiled")]
        \/ whole' = [whole EXCEPT ![s] = NoGeneration("broken")]
    BY DEF Damage, NothingClaimed
  <2>4. CASE whole' = [whole EXCEPT ![s] = NoGeneration("broken")]
    <3> DEFINE g == NoGeneration("broken")
    <3>1. g \in [kind : Kinds, blocks : 0 .. clock, storage : 0 .. clock]
      BY <2>1, <2>2
    <3>2. whole' = [whole EXCEPT ![s] = g] BY <2>4
    <3> HIDE DEF g
    <3> QED BY <1>1, <3>1, <3>2 DEF Histories
  <2> QED BY <1>1, <2>1, <2>2, <2>3, <2>4 DEF Histories
<1>7. clock' = clock /\ faults' \in 0 .. MaxFaults
  BY <1>1, Bounds DEF Damage
<1> QED BY <1>1, <1>4, <1>5, <1>6, <1>7, TypeIsNext

\* The counter a damage step writes is a counter, and the id one it could read.
LEMMA DamageSteps ==
  ASSUME StoreNext
  PROVE  \/ \E new_game \in BOOLEAN : PortSave(new_game)
         \/ UpstreamSave
         \/ \E q \in LegacyRotations : LegacySave(q)
         \/ \E s \in Slots, i \in Positions, kind \in DamageKinds,
               id \in SectorIds \union {NoId}, c \in Counter :
              Damage(s, i, kind, id, c)
<1>1. 0 \in Counter BY CounterModulusAssumption DEF Counter
<1> QED BY <1>1 DEF StoreNext

LEMMA NextType ==
  ASSUME TypeKept, [StoreNext]_storeVars
  PROVE  TypeKept'
<1>1. CASE StoreNext
  BY <1>1, DamageSteps, PortSaveType, UpstreamSaveType, LegacySaveType, DamageType
<1>2. CASE UNCHANGED storeVars
  <2>1. /\ flash' = flash /\ clock' = clock /\ faults' = faults /\ whole' = whole
    BY <1>2 DEF storeVars
  <2> QED BY <2>1, TypeIs, TypeIsNext
<1> QED BY <1>1, <1>2

LEMMA StoreTypeKept == StoreSpec => []TypeKept
<1>1. StoreInit => TypeKept BY InitType
<1>2. TypeKept /\ [StoreNext]_storeVars => TypeKept' BY NextType
<1> QED BY <1>1, <1>2, PTL DEF StoreSpec

\* Whatever was written, torn or damaged, every sector on flash is well formed,
\* and every generation recorded was given by a write that was made.
THEOREM StoreTypeCorrect == StoreSpec => []StoreTypeOK
<1>1. TypeKept => StoreTypeOK BY DEF TypeKept
<1> QED BY <1>1, StoreTypeKept, PTL

---------------------------------------------------------------------------
(* One fault, and no five-sector builds: the newest generation is always   *)
(* held whole, with the one before it, an erased slot or the one broken    *)
(* slot beside it.                                                         *)

FullAt(image, w, s, r, c, b, v) ==
  /\ r \in Positions /\ c \in Counter /\ s = PhysicalSlotForCounter(c)
  /\ Holds(image[s], Positions, r, c, b, v)
  /\ w[s] = Generation("full", b, v)
NeverWritten(image, w, s) == Blank(image[s], Positions) /\ w[s] = NoGeneration("empty")
Broken(image, w, s) ==
  ScanSlot(image[s]).integrity = "Error" /\ w[s] = NoGeneration("broken")

\* What stands beside the newest generation.
Beside(image, w, f, s, r, c, b) ==
  \/ \E r1 \in Positions, c1 \in Counter, b1 \in Nat : \E v1 \in 0 .. b1 :
       /\ FullAt(image, w, s, r1, c1, b1, v1)
       /\ r = NextRotation(r1) /\ c = NextCounter(c1) /\ b1 < b
  \/ r = 1 /\ c = 1 /\ NeverWritten(image, w, s)
  \/ f = 1 /\ Broken(image, w, s)
Standing(image, w, f, n) ==
  \E s \in Slots, r \in Positions, c \in Counter, b \in 0 .. n : \E v \in 0 .. b :
    /\ FullAt(image, w, s, r, c, b, v)
    /\ Beside(image, w, f, 1 - s, r, c, b)
Fresh(image, w) == \A s \in Slots : NeverWritten(image, w, s)
Lone(image, w, f) == f = 1 /\ Broken(image, w, 1) /\ NeverWritten(image, w, 0)

NoneClaimed(w) == \A s \in Slots : w[s].kind \in Unclaimed

OneFaultKept ==
  LegacyRotations = {} /\ faults <= 1 =>
    \/ Standing(flash, whole, faults, clock)
    \/ Fresh(flash, whole)
    \/ Lone(flash, whole, faults)
    \/ DamageKinds \intersect {"counter", "id"} # {} /\ NoneClaimed(whole)

LEMMA SlotPair ==
  \A s \in Slots : /\ 1 - s \in Slots /\ 1 - (1 - s) = s /\ s # 1 - s
                   /\ \A t \in Slots : t = s \/ t = 1 - s
BY DEF Slots

\* Of two slots neither of which holds a generation nothing is loaded.
LEMMA LoadNothing ==
  ASSUME NEW image, ScanSlot(image[0]).integrity # "Ok",
         ScanSlot(image[1]).integrity # "Ok", Blank(image[0], Positions)
  PROVE  /\ ~MenuShowsContinue(Load(image).status)
         /\ Load(image).counter = 0 /\ Load(image).last = 0
<1> DEFINE scan == Scans(image)
           intact == {t \in {0, 1} : scan[t].integrity = "Ok"}
           res == Verdict(image)
<1>1. scan[0] = ScanSlot(image[0]) /\ scan[1] = ScanSlot(image[1])
  BY DEF Scans, Slots
<1>2. intact = {} BY <1>1
<1>3. Verdict(image) = Resolve(scan) BY DEF Verdict, Scans
<1> HIDE DEF scan
<1>4. Resolve(scan) = Resolution(IF \A t \in {0, 1} : scan[t].integrity = "Empty"
                     THEN "Empty" ELSE "Corrupt", 0, NoSlot, FALSE)
  <2>1. intact # {0, 1} BY <1>2
  <2> QED BY <1>2, <2>1 DEF Resolve
<1>5. /\ res.status \in {"Empty", "Corrupt"} /\ res.counter = 0
      /\ res.storage_from_slot = NoSlot /\ res.legacy = FALSE
  BY <1>3, <1>4 DEF Resolution
<1> DEFINE donated == [last |-> 0]
           copied == CopyValidSlotPayloads(image[PhysicalSlotForCounter(res.counter)],
                                           res.legacy, donated.last)
<1> HIDE DEF res
<1>6. Load(image) = Rebuilt(res, donated, copied)
  <2>1. Load(image) = CopyAdopted(image, res, donated)
    <3> HIDE DEF donated
    <3> QED BY <1>5, Zenon DEF Load, CopyAfterDonor, res, donated
  <2> QED BY <2>1 DEF CopyAdopted
<1>7. copied.last = 0
  <2> DEFINE lg == res.legacy
             sl == image[PhysicalSlotForCounter(res.counter)]
             bf == donated.last
  <2>1. lg \in BOOLEAN BY <1>5
  <2>2. sl = image[0] BY <1>5 DEF PhysicalSlotForCounter
  <2>3. bf = 0 OBVIOUS
  <2> HIDE DEF lg, sl, bf
  <2>4. CopyValidSlotPayloads(sl, lg, bf).last = bf BY <2>1, <2>2, CopyOfBlank
  <2> QED BY <2>3, <2>4 DEF lg, sl, bf
<1> HIDE DEF copied, donated
<1>8. /\ Rebuilt(res, donated, copied).status = res.status
      /\ Rebuilt(res, donated, copied).counter = res.counter
      /\ Rebuilt(res, donated, copied).last = copied.last
  BY DEF Rebuilt
<1> QED BY <1>5, <1>6, <1>7, <1>8 DEF MenuShowsContinue

LEMMA LoadFreshOrLone ==
  ASSUME NEW image, NEW w, NEW f, Fresh(image, w) \/ Lone(image, w, f)
  PROVE  /\ ~MenuShowsContinue(Load(image).status)
         /\ Load(image).counter = 0 /\ Load(image).last = 0
<1>1. 0 \in Slots /\ 1 \in Slots BY DEF Slots
<1>2. Blank(image[0], Positions) BY <1>1 DEF Fresh, Lone, NeverWritten
<1>3. ScanSlot(image[0]).integrity = "Empty" BY <1>2, BlankScan
<1>4. ScanSlot(image[1]).integrity # "Ok"
  <2>1. CASE Fresh(image, w)
    <3>1. Blank(image[1], Positions) BY <1>1, <2>1 DEF Fresh, NeverWritten
    <3>2. ScanSlot(image[1]).integrity = "Empty" BY <3>1, BlankScan
    <3> QED BY <3>2
  <2>2. CASE Lone(image, w, f)
    BY <2>2 DEF Lone, Broken
  <2> QED BY <2>1, <2>2
<1> QED BY <1>2, <1>3, <1>4, LoadNothing

\* The newest generation standing is the one loaded.
LEMMA LoadStanding ==
  ASSUME NEW image, NEW w, NEW f, NEW s \in Slots, NEW r \in Positions,
         NEW c \in Counter, NEW b, NEW v,
         FullAt(image, w, s, r, c, b, v), Beside(image, w, f, 1 - s, r, c, b)
  PROVE  /\ Load(image).status \in {"Ok", "Error"}
         /\ Load(image).counter = c
         /\ Load(image).last = r
         /\ Load(image).source = "Own"
         /\ Carries(Load(image).base, b, v)
<1>1. s = PhysicalSlotForCounter(c) /\ Holds(image[s], Positions, r, c, b, v)
  BY DEF FullAt
<1>2. Yields(image, 1 - s, c)
  <2>1. ASSUME NEW r1 \in Positions, NEW c1 \in Counter, NEW b1 \in Nat, NEW v1 \in 0 .. b1,
               FullAt(image, w, 1 - s, r1, c1, b1, v1), c = NextCounter(c1)
        PROVE  /\ ScanSlot(image[1 - s]).integrity = "Ok"
               /\ ScanSlot(image[1 - s]).legacy = FALSE
               /\ \E x \in Counter : /\ c = NextCounter(x)
                                     /\ ScanSlot(image[1 - s]).counter = x
    <3> DEFINE half == image[1 - s]
    <3>1. Holds(half, Positions, r1, c1, b1, v1) BY <2>1 DEF FullAt
    <3> HIDE DEF half
    <3>2. /\ ScanSlot(half).integrity = "Ok" /\ ScanSlot(half).legacy = FALSE
          /\ ScanSlot(half).counter = c1
      BY <3>1, FullScan
    <3> QED BY <2>1, <3>2 DEF half
  <2>2. ASSUME NeverWritten(image, w, 1 - s)
        PROVE  ScanSlot(image[1 - s]).integrity = "Empty"
    BY <2>2, BlankScan DEF NeverWritten
  <2>3. Broken(image, w, 1 - s) => ScanSlot(image[1 - s]).integrity = "Error"
    BY DEF Broken
  <2> QED BY <2>1, <2>2, <2>3 DEF Beside, Yields
<1> QED BY <1>1, <1>2, LoadFull

LEMMA OneFaultLoads ==
  ASSUME LegacyRotations = {}, faults <= 1, TypeKept, OneFaultKept
  PROVE  NewestWholeGenerationLoads
<1>1. CASE Standing(flash, whole, faults, clock)
  <2>1. PICK s \in Slots, r \in Positions, c \in Counter, b \in 0 .. clock : \E v \in 0 .. b :
          /\ FullAt(flash, whole, s, r, c, b, v)
          /\ Beside(flash, whole, faults, 1 - s, r, c, b)
    BY <1>1 DEF Standing
  <2> PICK v \in 0 .. b : /\ FullAt(flash, whole, s, r, c, b, v)
                          /\ Beside(flash, whole, faults, 1 - s, r, c, b)
    BY <2>1
  <2>2. clock \in Nat BY TypeIs, Bounds
  <2>3. whole[s].kind = "full" /\ whole[s].blocks = b /\ whole[s].storage = v
    BY DEF FullAt, Generation
  <2>4. s \in WholeSlots BY <2>3 DEF WholeSlots
  <2>5. \A t \in WholeSlots : whole[t].blocks <= whole[s].blocks
    <3> SUFFICES ASSUME NEW t \in WholeSlots PROVE whole[t].blocks <= b
      BY <2>3
    <3>1. t \in Slots /\ whole[t].kind \in {"full", "legacy"} BY DEF WholeSlots
    <3>2. CASE t = s BY <3>2, <2>2, <2>3
    <3>3. CASE t = 1 - s
      <4>1. ~NeverWritten(flash, whole, 1 - s) /\ ~Broken(flash, whole, 1 - s)
        BY <3>1, <3>3 DEF NeverWritten, Broken, NoGeneration, Generation
      <4>2. PICK r1 \in Positions, c1 \in Counter, b1 \in Nat : \E v1 \in 0 .. b1 :
              FullAt(flash, whole, 1 - s, r1, c1, b1, v1) /\ b1 < b
        BY <4>1 DEF Beside
      <4>3. whole[t].blocks = b1 BY <4>2, <3>3 DEF FullAt, Generation
      <4> QED BY <4>2, <4>3
    <3> QED BY <3>1, <3>2, <3>3, SlotPair
  <2>6. /\ Load(flash).status \in {"Ok", "Error"}
        /\ Carries(Load(flash).base, b, v)
    BY LoadStanding
  <2>7. /\ \A id \in SaveBlockIds : id \in SectorIds /\ Payload(b, v, id) = Chunk(b, id)
        /\ \A id \in StorageIds : id \in SectorIds /\ Payload(b, v, id) = Chunk(v, id)
    BY Ranges DEF Payload
  <2>8. LoadsBlocksOf(Load(flash), s)
    BY <2>3, <2>6, <2>7 DEF LoadsBlocksOf, MenuShowsContinue, Carries
  <2> QED BY <2>4, <2>5, <2>8 DEF NewestWholeGenerationLoads
<1>2. CASE Fresh(flash, whole) \/ Lone(flash, whole, faults)
  <2>1. ~MenuShowsContinue(Load(flash).status) BY <1>2, LoadFreshOrLone
  <2>2. \A t \in Slots : whole[t].kind \in {"empty", "broken"}
    BY <1>2 DEF Slots, Fresh, Lone, NeverWritten, Broken, NoGeneration, Generation
  <2>3. WholeSlots = {} BY <2>2 DEF WholeSlots
  <2> QED BY <2>1, <2>3 DEF NewestWholeGenerationLoads
<1>3. CASE NoneClaimed(whole)
  BY <1>3 DEF NoneClaimed, NewestWholeGenerationLoads
<1> QED BY <1>1, <1>2, <1>3 DEF OneFaultKept

\* A write that reaches its end leaves the newest generation, and the one it
\* was loaded from beside it.
LEMMA StandingWritten ==
  ASSUME NEW image, NEW new, NEW w, NEW w1, NEW f, NEW f1, NEW n \in Nat,
         NEW s \in Slots, NEW r \in Positions, NEW c \in Counter, NEW b \in 0 .. n,
         NEW v \in 0 .. b, NEW v1 \in 0 .. n + 1, NEW val,
         FullAt(image, w, s, r, c, b, v),
         Carries(val, n + 1, v1),
         new[s] = image[s], w1[s] = w[s],
         LaidOver(new[1 - s], image[1 - s], 14, NextRotation(r), NextCounter(c), val),
         w1[1 - s] = Generation("full", n + 1, v1)
  PROVE  Standing(new, w1, f1, n + 1)
<1>1. NextRotation(r) \in Positions /\ NextCounter(c) \in Counter
      /\ 1 - s = PhysicalSlotForCounter(NextCounter(c))
  BY NextRotationIs, Parity DEF FullAt
<1> DEFINE m == n + 1
           o == 1 - s
           r1 == NextRotation(r)
           c1 == NextCounter(c)
<1>2. m \in Nat /\ m \in 0 .. m /\ v1 \in 0 .. m /\ b \in Nat /\ v \in 0 .. b /\ b < m
  OBVIOUS
<1>3. o \in Slots /\ 1 - o = s BY SlotPair
<1>4. Holds(new[o], Positions, r1, c1, m, v1)
  <2> DEFINE sn == new[o]
             so == image[o]
  <2>1. LaidOver(sn, so, 14, r1, c1, val) OBVIOUS
  <2>2. Carries(val, m, v1) OBVIOUS
  <2> HIDE DEF sn, so, r1, c1, m
  <2>3. r1 \in Positions BY <1>1 DEF r1
  <2>4. Holds(sn, Positions, r1, c1, m, v1) BY <2>1, <2>2, <2>3, LaidWhole
  <2> QED BY <2>4 DEF sn
<1>5. FullAt(new, w1, o, r1, c1, m, v1) BY <1>1, <1>4 DEF FullAt
<1>6. FullAt(new, w1, s, r, c, b, v) BY DEF FullAt
<1> HIDE DEF m, o
<1>7. Beside(new, w1, f1, s, r1, c1, m) BY <1>2, <1>6 DEF Beside
<1>8. Standing(new, w1, f1, m)
  <2> HIDE DEF r1, c1
  <2>1. r1 \in Positions /\ c1 \in Counter BY <1>1 DEF r1, c1
  <2> QED BY <1>2, <1>3, <1>5, <1>7, <2>1 DEF Standing
<1> QED BY <1>8 DEF m

\* The first write ever: both slots unreadable, slot 0 erased.
LEMMA FirstWritten ==
  ASSUME NEW image, NEW new, NEW w, NEW w1, NEW f, NEW f1, NEW n \in Nat, NEW val,
         Fresh(image, w) \/ Lone(image, w, f),
         Carries(val, n + 1, n + 1),
         new[0] = image[0], w1[0] = w[0],
         LaidOver(new[1], image[1], 14, NextRotation(0), NextCounter(0), val),
         w1[1] = Generation("full", n + 1, n + 1)
  PROVE  Standing(new, w1, f1, n + 1)
<1>1. NextRotation(0) = 1 /\ 1 \in Positions
  BY NextRotationIs, Ranges
<1>2. NextCounter(0) = 1 /\ 1 \in Counter /\ PhysicalSlotForCounter(1) = 1
  BY CounterModulusAssumption
  DEF NextCounter, WrappingAdd, Counter, PhysicalSlotForCounter
<1> DEFINE m == n + 1
           sn == new[1]
           so == image[1]
<1>3. m \in Nat /\ m \in 0 .. m OBVIOUS
<1>4. LaidOver(sn, so, 14, 1, 1, val) BY <1>1, <1>2
<1>5. Carries(val, m, m) OBVIOUS
<1> HIDE DEF m, sn, so
<1>6. Holds(sn, Positions, 1, 1, m, m) BY <1>1, <1>4, <1>5, LaidWhole
<1>7. FullAt(new, w1, 1, 1, 1, m, m) BY <1>1, <1>2, <1>6 DEF FullAt, sn, m
<1>8. NeverWritten(new, w1, 0)
  BY DEF NeverWritten, Fresh, Lone, Slots
<1>9. Beside(new, w1, f1, 1 - 1, 1, 1, m) BY <1>8 DEF Beside
<1>10. 1 \in Slots BY DEF Slots
<1>11. Standing(new, w1, f1, m)
  BY <1>1, <1>2, <1>3, <1>7, <1>9, <1>10 DEF Standing
<1> QED BY <1>11 DEF m

\* A torn write leaves the generation it was loaded from standing.
LEMMA StandingTorn ==
  ASSUME NEW image, NEW new, NEW w, NEW w1, NEW n \in Nat, NEW k \in 1 .. 13,
         NEW s \in Slots, NEW r \in Positions, NEW c \in Counter, NEW b \in 0 .. n,
         NEW v \in 0 .. b, NEW val,
         FullAt(image, w, s, r, c, b, v), Beside(image, w, 0, 1 - s, r, c, b),
         Carries(val, n + 1, n + 1),
         new[s] = image[s], w1[s] = w[s],
         LaidOver(new[1 - s], image[1 - s], k, NextRotation(r), NextCounter(c), val)
  PROVE  /\ ValidIds(new[1 - s]) # SectorIds
         /\ w1[1 - s] = NoGeneration("broken") => Standing(new, w1, 1, n + 1)
<1> DEFINE sn == new[1 - s]
           so == image[1 - s]
<1>1. ScanSlot(sn).integrity = "Error" /\ ValidIds(sn) # SectorIds
  <2>1. ASSUME NEW r1 \in Positions, NEW c1 \in Counter, NEW b1 \in Nat, NEW v1 \in 0 .. b1,
               FullAt(image, w, 1 - s, r1, c1, b1, v1),
               r = NextRotation(r1), c = NextCounter(c1)
        PROVE  ScanSlot(sn).integrity = "Error" /\ ValidIds(sn) # SectorIds
    <3>1. Holds(so, Positions, r1, c1, b1, v1) BY <2>1 DEF FullAt
    <3>2. LaidOver(sn, so, k, NextRotation(NextRotation(r1)), NextCounter(c), val)
      BY <2>1
    <3>3. NextCounter(c) # c1 BY <2>1, NextIsNewer
    <3>4. \A id \in SectorIds : val[id].id = id BY PayloadId DEF Carries
    <3> HIDE DEF sn, so
    <3> QED BY <3>1, <3>2, <3>3, <3>4, TornOverGeneration
  <2>2. ASSUME r = 1, NeverWritten(image, w, 1 - s)
        PROVE  ScanSlot(sn).integrity = "Error" /\ ValidIds(sn) # SectorIds
    <3>1. Blank(so, Positions) BY <2>2 DEF NeverWritten
    <3>2. NextRotation(1) = 2 BY NextRotationIs, Ranges
    <3>3. LaidOver(sn, so, k, 2, NextCounter(c), val) BY <2>2, <3>2
    <3> HIDE DEF sn, so
    <3> QED BY <3>1, <3>3, TornOverBlank
  <2> QED BY <2>1, <2>2 DEF Beside
<1>2. ASSUME w1[1 - s] = NoGeneration("broken")
      PROVE  Standing(new, w1, 1, n + 1)
  <2>1. Broken(new, w1, 1 - s) BY <1>1, <1>2 DEF Broken
  <2>2. FullAt(new, w1, s, r, c, b, v) BY DEF FullAt
  <2>3. Beside(new, w1, 1, 1 - s, r, c, b) BY <2>1 DEF Beside
  <2>4. b \in 0 .. n + 1 OBVIOUS
  <2> QED BY <2>2, <2>3, <2>4 DEF Standing
<1> QED BY <1>1, <1>2

\* A sector that fails its checksum or lost its signature breaks one slot.
LEMMA StandingHurt ==
  ASSUME NEW image, NEW new, NEW w, NEW w1, NEW n \in Nat,
         Standing(image, w, 0, n), NEW t \in Slots, NEW i \in Positions,
         image[t][i].signed, ~IsValid(new[t][i]),
         \A j \in Positions : j # i => new[t][j] = image[t][j],
         new[1 - t] = image[1 - t],
         w1[t] = NoGeneration("broken"), w1[1 - t] = w[1 - t]
  PROVE  Standing(new, w1, 1, n) \/ Lone(new, w1, 1)
<1>0. PICK s \in Slots, r \in Positions, c \in Counter, b \in 0 .. n : \E v \in 0 .. b :
        FullAt(image, w, s, r, c, b, v) /\ Beside(image, w, 0, 1 - s, r, c, b)
  BY DEF Standing
<1>1. PICK v \in 0 .. b :
        FullAt(image, w, s, r, c, b, v) /\ Beside(image, w, 0, 1 - s, r, c, b)
  BY <1>0
<1>2. ASSUME NEW r1 \in Positions, NEW c1, NEW b1, NEW v1,
             Holds(image[t], Positions, r1, c1, b1, v1)
      PROVE  Broken(new, w1, t)
  <2> DEFINE sn == new[t]
  <2>1. Holds(sn, Positions \ {i}, r1, c1, b1, v1) BY <1>2 DEF Holds
  <2>2. ~IsValid(sn[i]) OBVIOUS
  <2> HIDE DEF sn
  <2>3. ScanSlot(sn).integrity = "Error" BY <2>1, <2>2, HurtScan
  <2> QED BY <2>3 DEF Broken, sn
<1>3. ~NeverWritten(image, w, t) BY DEF NeverWritten, Blank, EmptySector
<1>4. ~(0 = 1) OBVIOUS
<1>5. CASE t = s
  <2>1. Broken(new, w1, s)
    BY <1>1, <1>2, <1>5 DEF FullAt
  <2>2. CASE NeverWritten(image, w, 1 - s) /\ c = 1
    <3>1. s = 1
      BY <1>1, <2>2 DEF FullAt, PhysicalSlotForCounter
    <3> QED BY <2>1, <2>2, <3>1, <1>5 DEF Lone, NeverWritten
  <2>3. ASSUME NEW r1 \in Positions, NEW c1 \in Counter, NEW b1 \in Nat, NEW v1 \in 0 .. b1,
               FullAt(image, w, 1 - s, r1, c1, b1, v1), b1 < b
        PROVE  Standing(new, w1, 1, n)
    <3>1. FullAt(new, w1, 1 - s, r1, c1, b1, v1) BY <1>5, <2>3 DEF FullAt
    <3>2. Beside(new, w1, 1, 1 - (1 - s), r1, c1, b1)
      BY <2>1, SlotPair DEF Beside
    <3>3. b1 \in 0 .. n BY <2>3
    <3> QED BY <3>1, <3>2, <3>3, SlotPair DEF Standing
  <2> QED BY <1>1, <1>4, <2>2, <2>3 DEF Beside
<1>6. CASE t = 1 - s
  <2>1. PICK r1 \in Positions, c1 \in Counter, b1 \in Nat : \E v1 \in 0 .. b1 :
          FullAt(image, w, t, r1, c1, b1, v1)
    BY <1>1, <1>3, <1>4, <1>6 DEF Beside
  <2>2. Broken(new, w1, 1 - s) BY <2>1, <1>2, <1>6 DEF FullAt
  <2>3. FullAt(new, w1, s, r, c, b, v) BY <1>1, <1>6, SlotPair DEF FullAt
  <2>4. Beside(new, w1, 1, 1 - s, r, c, b) BY <2>2 DEF Beside
  <2> QED BY <2>3, <2>4 DEF Standing
<1> QED BY <1>5, <1>6, SlotPair

LEMMA StampedIs ==
  ASSUME NEW base, NEW fresh, NEW id \in SectorIds
  PROVE  Stamped(base, fresh)[id] = IF id \in fresh THEN Chunk(clock + 1, id) ELSE base[id]
BY DEF Stamped

\* What a save stamps over a load of one generation is one generation again.
LEMMA StampedOver ==
  ASSUME NEW base, NEW b, NEW v, NEW n, n = clock + 1,
         Carries(base, b, v)
  PROVE  /\ Carries(Stamped(base, SaveBlockIds), n, v)
         /\ Carries(Stamped(base, SectorIds), n, n)
BY StampedIs DEF Payload, Carries

LEMMA TokenOf ==
  ASSUME NEW val, NEW b, NEW v, Carries(val, b, v)
  PROVE  StorageToken(val) = v
<1>1. \A id \in StorageIds : id \in SectorIds /\ Payload(b, v, id) = Chunk(v, id)
  BY Ranges DEF Payload
<1>2. \A id \in StorageIds : val[id] = Chunk(v, id) BY <1>1 DEF Carries
<1>3. 5 \in StorageIds BY Ranges
<1>4. val[5] = Chunk(v, 5) BY <1>2, <1>3
<1>5. val[5].val = v BY <1>4 DEF Chunk
<1> QED BY <1>2, <1>5 DEF StorageToken

\* What a write of the next generation leaves of the slots.
LEMMA LaidNow ==
  ASSUME TypeKept, NEW c \in Counter, NEW k \in 1 .. 14, NEW ids, ids = 0 .. k - 1,
         NEW r \in Positions, NEW val, NEW s \in Slots,
         PhysicalSlotForCounter(c) = 1 - s,
         flash' = LayGeneration(flash, ids, NUM_SECTORS_PER_SLOT, r, c, val)
  PROVE  /\ flash'[s] = flash[s]
         /\ LaidOver(flash'[1 - s], flash[1 - s], k, r, c, val)
<1> DEFINE new == LayGeneration(flash, FirstIds(k), NUM_SECTORS_PER_SLOT, r, c, val)
<1>1. flash' = new
  <2>1. \A x \in 0 .. k - 1 : x \in SectorIds /\ x < k BY Ranges
  <2>2. \A x \in SectorIds : x < k => x \in 0 .. k - 1 BY Ranges
  <2>3. 0 .. k - 1 = FirstIds(k)
    <3> DEFINE upto == 0 .. k - 1
    <3>1. \A x \in upto : x \in SectorIds /\ x < k BY <2>1
    <3>2. \A x \in SectorIds : x < k => x \in upto BY <2>2
    <3> HIDE DEF upto
    <3>3. upto = FirstIds(k) BY <3>1, <3>2 DEF FirstIds
    <3> QED BY <3>3 DEF upto
  <2> QED BY <2>3
<1>2. flash \in Images BY TypeIs
<1>3. PhysicalSlotForCounter(c) \in Slots BY Parity
<1>4. /\ \A t \in Slots : t # PhysicalSlotForCounter(c) => new[t] = flash[t]
      /\ LaidOver(new[PhysicalSlotForCounter(c)],
                  flash[PhysicalSlotForCounter(c)], k, r, c, val)
  BY <1>2, <1>3, Laid
<1> HIDE DEF new
<1>5. s # PhysicalSlotForCounter(c) BY SlotPair
<1> QED BY <1>1, <1>4, <1>5

LEMMA GaveOne ==
  ASSUME TypeKept, NEW s \in Slots, NEW g, Gave(s, g), whole[s].kind \notin Unclaimed
  PROVE  whole'[s] = g /\ whole'[1 - s] = whole[1 - s]
<1>1. whole' = [whole EXCEPT ![s] = g] BY DEF Gave
<1>2. DOMAIN whole = Slots BY TypeIs DEF Histories
<1>3. 1 - s \in Slots /\ 1 - s # s BY SlotPair
<1> HIDE DEF Gave
<1> QED BY <1>1, <1>2, <1>3

LEMMA StandingClaimed ==
  ASSUME NEW image, NEW w, NEW f, NEW s \in Slots, NEW r, NEW c, NEW b, NEW v,
         FullAt(image, w, s, r, c, b, v), Beside(image, w, f, 1 - s, r, c, b)
  PROVE  \A t \in Slots : w[t].kind \notin Unclaimed
<1>1. w[s].kind = "full" BY DEF FullAt, Generation
<1>2. w[1 - s].kind \in {"full", "empty", "broken"}
  <2>1. \A r1, c1, b1, v1 : FullAt(image, w, 1 - s, r1, c1, b1, v1)
          => w[1 - s].kind = "full"
    BY DEF FullAt, Generation
  <2>2. NeverWritten(image, w, 1 - s) => w[1 - s].kind = "empty"
    BY DEF NeverWritten, NoGeneration, Generation
  <2>3. Broken(image, w, 1 - s) => w[1 - s].kind = "broken"
    BY DEF Broken, NoGeneration, Generation
  <2> QED BY <2>1, <2>2, <2>3 DEF Beside
<1> QED BY <1>1, <1>2, SlotPair DEF Unclaimed

LEMMA NoneClaimedStays ==
  ASSUME TypeKept, NoneClaimed(whole), StoreNext
  PROVE  NoneClaimed(whole')
<1>1. \A s \in Slots : \A g : Gave(s, g) => NoneClaimed(whole')
  BY DEF NoneClaimed, Gave, NothingClaimed, NoGeneration, Generation, Unclaimed
<1>2. \A s \in Slots : \A k, all, g : Given(s, k, all, g) => NoneClaimed(whole')
  BY <1>1 DEF Given, NoneClaimed
<1>3. PhysicalSlotForCounter(NextCounter(Load(flash).counter)) \in Slots
  BY LoadNow, Parity
<1>4. ASSUME NEW new_game, PortSave(new_game) PROVE NoneClaimed(whole')
  BY <1>1, <1>3, <1>4 DEF PortSave
<1>5. ASSUME UpstreamSave PROVE NoneClaimed(whole')
  BY <1>2, <1>3, <1>5 DEF UpstreamSave
<1>6. ASSUME NEW q, LegacySave(q) PROVE NoneClaimed(whole')
  BY <1>2, <1>3, <1>6 DEF LegacySave
<1>7. ASSUME NEW s \in Slots, NEW i, NEW kind, NEW id, NEW c, Damage(s, i, kind, id, c)
      PROVE  NoneClaimed(whole')
  <2>1. whole' = whole BY <1>7 DEF NoneClaimed, Damage
  <2> QED BY <2>1
<1> QED BY <1>4, <1>5, <1>6, <1>7, DamageSteps

LEMMA PortSaveStands ==
  ASSUME TypeKept, LegacyRotations = {}, faults <= 1, OneFaultKept,
         ~NoneClaimed(whole), NEW new_game \in BOOLEAN, PortSave(new_game)
  PROVE  Standing(flash', whole', faults', clock + 1)
<1> DEFINE base == Load(flash).base
           counter == NextCounter(Load(flash).counter)
           rotation == NextRotation(Load(flash).last)
           fresh == IF new_game THEN SectorIds ELSE SaveBlockIds
           val == Stamped(base, fresh)
           m == clock + 1
<1>1. /\ flash' = LayGeneration(flash, SectorIds, NUM_SECTORS_PER_SLOT, rotation,
                                counter, val)
      /\ Gave(PhysicalSlotForCounter(counter),
              Generation("full", m, StorageToken(val)))
      /\ new_game \/ MenuShowsContinue(Load(flash).status)
  BY DEF PortSave
<1>2. clock \in Nat BY TypeIs, Bounds
<1>3. SectorIds = 0 .. 14 - 1 /\ 14 \in 1 .. 14 BY Ranges
<1>4. CASE Standing(flash, whole, faults, clock)
  <2>0. PICK s \in Slots, r \in Positions, c \in Counter, b \in 0 .. clock : \E v \in 0 .. b :
          /\ FullAt(flash, whole, s, r, c, b, v)
          /\ Beside(flash, whole, faults, 1 - s, r, c, b)
    BY <1>4 DEF Standing
  <2>1. PICK v \in 0 .. b : /\ FullAt(flash, whole, s, r, c, b, v)
                            /\ Beside(flash, whole, faults, 1 - s, r, c, b)
    BY <2>0
  <2>2. /\ Load(flash).counter = c /\ Load(flash).last = r
        /\ Carries(base, b, v)
    BY <2>1, LoadStanding
  <2>3. counter = NextCounter(c) /\ rotation = NextRotation(r) BY <2>2
  <2>4. PhysicalSlotForCounter(counter) = 1 - s /\ counter \in Counter
    BY <2>1, <2>3, Parity DEF FullAt
  <2> DEFINE v1 == IF new_game THEN m ELSE v
  <2>5. v1 \in 0 .. m BY <1>2
  <2>6. Carries(val, m, v1)
    <3>1. /\ Carries(Stamped(base, SaveBlockIds), m, v)
          /\ Carries(Stamped(base, SectorIds), m, m)
      <4> HIDE DEF base, m
      <4>1. m = clock + 1 BY DEF m
      <4> QED BY <2>2, <4>1, StampedOver
    <3>2. CASE new_game
      BY <3>1, <3>2
    <3>3. CASE ~new_game
      BY <3>1, <3>3
    <3> QED BY <3>2, <3>3
  <2> HIDE DEF base, counter, rotation, fresh, val, m, v1
  <2>7. StorageToken(val) = v1 BY <2>6, TokenOf
  <2>8. rotation \in Positions BY <2>3, NextRotationIs
  <2>9. flash'[s] = flash[s] /\ LaidOver(flash'[1 - s], flash[1 - s], 14, rotation, counter, val)
    BY <1>1, <1>3, <2>4, <2>8, LaidNow
  <2>10. whole'[1 - s] = Generation("full", m, v1) /\ whole'[s] = whole[s]
    <3>1. whole[1 - s].kind \notin Unclaimed BY <2>1, StandingClaimed, SlotPair
    <3>2. Gave(1 - s, Generation("full", m, v1)) BY <1>1, <2>4, <2>7
    <3> QED BY <3>1, <3>2, GaveOne, SlotPair
  <2>11. Carries(val, clock + 1, v1) BY <2>6 DEF m
  <2>12. v1 \in 0 .. clock + 1 /\ whole'[1 - s] = Generation("full", clock + 1, v1)
    BY <2>5, <2>10 DEF m
  <2> QED BY <1>2, <2>1, <2>3, <2>9, <2>10, <2>11, <2>12, StandingWritten
<1>5. CASE Fresh(flash, whole) \/ Lone(flash, whole, faults)
  <2>1. /\ ~MenuShowsContinue(Load(flash).status)
        /\ Load(flash).counter = 0 /\ Load(flash).last = 0
    BY <1>5, LoadFreshOrLone
  <2>2. new_game BY <1>1, <2>1
  <2>3. counter = NextCounter(0) /\ rotation = NextRotation(0) /\ fresh = SectorIds
    BY <2>1, <2>2
  <2>4. Carries(val, m, m)
    <3> HIDE DEF base
    <3> QED BY <2>2, StampedIs DEF Payload, Carries
  <2>5. /\ PhysicalSlotForCounter(counter) = 1 /\ counter \in Counter
        /\ 0 \in Positions /\ 0 \in Counter
    <3>1. 0 \in Counter /\ PhysicalSlotForCounter(0) = 0
      BY CounterModulusAssumption DEF Counter, PhysicalSlotForCounter
    <3> QED BY <3>1, <2>3, Parity, Ranges
  <2> HIDE DEF base, counter, rotation, fresh, val, m
  <2>6. StorageToken(val) = m BY <2>4, TokenOf
  <2>7. rotation \in Positions BY <2>3, <2>5, NextRotationIs
  <2>8. 0 \in Slots /\ 1 \in Slots /\ 1 - 0 = 1 /\ 1 - 1 = 0 BY DEF Slots
  <2>9. flash'[0] = flash[0] /\ LaidOver(flash'[1], flash[1], 14, rotation, counter, val)
    BY <1>1, <1>3, <2>5, <2>7, <2>8, LaidNow
  <2>10. whole'[1] = Generation("full", m, m) /\ whole'[0] = whole[0]
    <3>1. whole[1].kind \notin Unclaimed
      BY <1>5, <2>8
      DEF Unclaimed, Fresh, Lone, NeverWritten, Broken, NoGeneration, Generation
    <3>2. Gave(1, Generation("full", m, m)) BY <1>1, <2>5, <2>6
    <3> QED BY <3>1, <3>2, <2>8, GaveOne
  <2>11. Carries(val, clock + 1, clock + 1) BY <2>4 DEF m
  <2>12. whole'[1] = Generation("full", clock + 1, clock + 1) BY <2>10 DEF m
  <2> QED BY <1>2, <1>5, <2>3, <2>9, <2>10, <2>11, <2>12, FirstWritten
<1> QED BY <1>4, <1>5 DEF OneFaultKept

LEMMA UpstreamSaveStands ==
  ASSUME TypeKept, LegacyRotations = {}, faults' <= 1, OneFaultKept,
         ~NoneClaimed(whole), UpstreamSave
  PROVE  Standing(flash', whole', faults', clock + 1)
<1> DEFINE base == Load(flash).base
           counter == NextCounter(Load(flash).counter)
           rotation == NextRotation(Load(flash).last)
           val == Stamped(base, SectorIds)
           m == clock + 1
           half == PhysicalSlotForCounter(counter)
<1>1. PICK k \in 1 .. NUM_SECTORS_PER_SLOT :
        /\ CutOff(k, NUM_SECTORS_PER_SLOT)
        /\ flash' = LayGeneration(flash, 0 .. k - 1, NUM_SECTORS_PER_SLOT, rotation,
                                  counter, val)
        /\ Given(half, k, NUM_SECTORS_PER_SLOT, Generation("full", m, m))
        /\ MenuShowsContinue(Load(flash).status)
  BY DEF UpstreamSave
<1>2. /\ clock \in Nat /\ faults \in Nat /\ k \in 1 .. 14 /\ NUM_SECTORS_PER_SLOT = 14
      /\ faults' = IF k < 14 THEN faults + 1 ELSE faults
  BY <1>1, TypeIs, Bounds, Ranges DEF CutOff
<1>3. Standing(flash, whole, faults, clock)
  <2>1. faults <= 1 BY <1>2
  <2>2. ~(Fresh(flash, whole) \/ Lone(flash, whole, faults))
    BY <1>1, LoadFreshOrLone
  <2> QED BY <2>1, <2>2 DEF OneFaultKept
<1>4. PICK s \in Slots, r \in Positions, c \in Counter, b \in 0 .. clock : \E v \in 0 .. b :
        /\ FullAt(flash, whole, s, r, c, b, v)
        /\ Beside(flash, whole, faults, 1 - s, r, c, b)
  BY <1>3 DEF Standing
<1>5. PICK v \in 0 .. b : /\ FullAt(flash, whole, s, r, c, b, v)
                          /\ Beside(flash, whole, faults, 1 - s, r, c, b)
  BY <1>4
<1>6. /\ Load(flash).counter = c /\ Load(flash).last = r
      /\ Carries(base, b, v)
  BY <1>5, LoadStanding
<1>7. counter = NextCounter(c) /\ rotation = NextRotation(r) BY <1>6
<1>8. half = 1 - s /\ counter \in Counter
  BY <1>5, <1>7, Parity DEF FullAt
<1>9. Carries(val, m, m)
  <2> HIDE DEF base, m
  <2>1. m = clock + 1 BY DEF m
  <2> QED BY <1>6, <2>1, StampedOver
<1> HIDE DEF base, counter, rotation, val, m, half
<1>10. rotation \in Positions BY <1>7, NextRotationIs
<1>11. flash'[s] = flash[s] /\ LaidOver(flash'[1 - s], flash[1 - s], k, rotation, counter, val)
  BY <1>1, <1>2, <1>8, <1>10, LaidNow DEF half
<1>12. Carries(val, clock + 1, clock + 1) BY <1>9 DEF m
<1>13. whole[1 - s].kind \notin Unclaimed BY <1>5, StandingClaimed, SlotPair
<1>14. CASE k = 14
  <2>1. ~(k < NUM_SECTORS_PER_SLOT) BY <1>2, <1>14
  <2>2. Gave(1 - s, Generation("full", m, m)) BY <1>1, <1>8, <2>1 DEF Given
  <2>3. whole'[1 - s] = Generation("full", clock + 1, clock + 1) /\ whole'[s] = whole[s]
    BY <1>13, <2>2, GaveOne, SlotPair DEF m
  <2>4. clock + 1 \in 0 .. clock + 1 BY <1>2
  <2> QED BY <1>2, <1>5, <1>7, <1>11, <1>12, <1>14, <2>3, <2>4, StandingWritten
<1>15. CASE k \in 1 .. 13
  <2>1. faults = 0 /\ faults' = 1 BY <1>2, <1>15
  <2>2. Beside(flash, whole, 0, 1 - s, r, c, b) BY <1>5, <2>1
  <2>3. LaidOver(flash'[1 - s], flash[1 - s], k, NextRotation(r), NextCounter(c), val)
    BY <1>7, <1>11
  <2>4. ValidIds(flash'[1 - s]) # SectorIds
    BY <1>2, <1>5, <1>11, <1>12, <1>15, <2>2, <2>3, StandingTorn
  <2>5. ~HoldsEveryId(flash'[half])
    BY <1>8, <2>4 DEF HoldsEveryId, ValidIds
  <2>6. Gave(1 - s, NoGeneration("broken"))
    BY <1>1, <1>2, <1>8, <1>15, <2>5 DEF Given
  <2>7. whole'[1 - s] = NoGeneration("broken") /\ whole'[s] = whole[s]
    BY <1>13, <2>6, GaveOne, SlotPair
  <2> QED BY <1>2, <1>5, <1>11, <1>12, <1>15, <2>1, <2>2, <2>3, <2>7, StandingTorn
<1> QED BY <1>2, <1>14, <1>15

LEMMA DamageStands ==
  ASSUME TypeKept, LegacyRotations = {}, faults' <= 1, OneFaultKept,
         ~NoneClaimed(whole),
         NEW t \in Slots, NEW i \in Positions, NEW kind \in DamageKinds,
         NEW id \in SectorIds \union {NoId}, NEW c \in Counter,
         Damage(t, i, kind, id, c)
  PROVE  \/ Standing(flash', whole', faults', clock)
         \/ Lone(flash', whole', faults')
         \/ DamageKinds \intersect {"counter", "id"} # {} /\ NoneClaimed(whole')
<1>1. /\ faults \in Nat /\ faults' = faults + 1 /\ flash \in Images /\ clock \in Nat
      /\ whole \in Histories(clock)
  BY TypeIs, Bounds DEF Damage
<1>2. faults = 0 /\ faults' = 1 BY <1>1
<1>3. flash[t][i].signed BY DEF Damage
<1>4. Standing(flash, whole, 0, clock)
  <2>1. ~Fresh(flash, whole) BY <1>3 DEF Fresh, NeverWritten, Blank, EmptySector
  <2>2. ~Lone(flash, whole, 0) BY DEF Lone
  <2> QED BY <1>2, <2>1, <2>2 DEF OneFaultKept
<1>5. \A s \in Slots : whole[s].kind \in {"full", "empty", "broken"}
  <2>1. PICK s \in Slots, r \in Positions, d \in Counter, b \in 0 .. clock : \E v \in 0 .. b :
          /\ FullAt(flash, whole, s, r, d, b, v)
          /\ Beside(flash, whole, 0, 1 - s, r, d, b)
    BY <1>4 DEF Standing
  <2>2. whole[s].kind = "full" BY <2>1 DEF FullAt, Generation
  <2>3. \A r1, c1, b1, v1 : FullAt(flash, whole, 1 - s, r1, c1, b1, v1)
          => whole[1 - s].kind = "full"
    BY DEF FullAt, Generation
  <2>4. NeverWritten(flash, whole, 1 - s) => whole[1 - s].kind = "empty"
    BY DEF NeverWritten, NoGeneration, Generation
  <2>5. Broken(flash, whole, 1 - s) => whole[1 - s].kind = "broken"
    BY DEF Broken, NoGeneration, Generation
  <2>6. whole[1 - s].kind \in {"full", "empty", "broken"}
    BY <2>1, <2>3, <2>4, <2>5 DEF Beside
  <2> QED BY <2>2, <2>6, SlotPair
<1>6. CASE kind \in {"counter", "id"}
  <2>1. NothingClaimed("misfiled") BY <1>5, <1>6 DEF Damage, Unclaimed
  <2>2. NoneClaimed(whole')
    BY <2>1 DEF NothingClaimed, NoneClaimed, NoGeneration, Generation, Unclaimed
  <2> QED BY <1>6, <2>2
<1>7. CASE kind \in {"signature", "checksum"}
  <2> DEFINE hurt == Damaged(flash[t][i], kind, id, c)
  <2>1. flash' = [flash EXCEPT ![t][i] = hurt] BY DEF Damage
  <2>2. ~IsValid(hurt)
    <3>1. flash[t][i] \in Sector BY <1>1 DEF Images
    <3>2. CASE kind = "signature"
      <4>1. hurt = [flash[t][i] EXCEPT !.signed = FALSE] BY <3>2 DEF Damaged
      <4>2. hurt.signed = FALSE
        <5> HIDE DEF hurt
        <5> QED BY <3>1, <4>1 DEF Sector
      <4> QED BY <4>2 DEF IsValid
    <3>3. CASE kind = "checksum"
      <4>1. hurt = [flash[t][i] EXCEPT !.sum = FALSE] BY <3>3 DEF Damaged
      <4>2. hurt.sum = FALSE
        <5> HIDE DEF hurt
        <5> QED BY <3>1, <4>1 DEF Sector
      <4> QED BY <4>2 DEF IsValid
    <3> QED BY <1>7, <3>2, <3>3
  <2> HIDE DEF hurt
  <2>3. /\ flash'[t][i] = hurt /\ flash'[1 - t] = flash[1 - t]
        /\ \A j \in Positions : j # i => flash'[t][j] = flash[t][j]
    <3>1. 1 - t \in Slots /\ 1 - t # t BY SlotPair
    <3> QED BY <1>1, <2>1, <3>1 DEF Images
  <2>4. whole' = [whole EXCEPT ![t] = NoGeneration("broken")]
    BY <1>5, <1>7 DEF Damage, Unclaimed
  <2>5. whole'[t] = NoGeneration("broken") /\ whole'[1 - t] = whole[1 - t]
    BY <1>1, <2>4, SlotPair DEF Histories
  <2>6. ~IsValid(flash'[t][i]) BY <2>2, <2>3
  <2>7. Standing(flash', whole', 1, clock) \/ Lone(flash', whole', 1)
    BY <1>1, <1>3, <1>4, <2>3, <2>5, <2>6, StandingHurt
  <2> QED BY <1>2, <2>7
<1>8. kind \in {"signature", "checksum", "counter", "id"} BY StoreAssumption
<1> QED BY <1>6, <1>7, <1>8

LEMMA OneFaultKeptNext ==
  OneFaultKept' <=>
    (LegacyRotations = {} /\ faults' <= 1 =>
      \/ Standing(flash', whole', faults', clock')
      \/ Fresh(flash', whole')
      \/ Lone(flash', whole', faults')
      \/ DamageKinds \intersect {"counter", "id"} # {} /\ NoneClaimed(whole'))
BY DEF OneFaultKept, Standing, Fresh, Lone, NoneClaimed, FullAt, Beside, NeverWritten,
  Broken, Holds, Blank

LEMMA NextKeepsOneFault ==
  ASSUME TypeKept, OneFaultKept, StoreNext
  PROVE  OneFaultKept'
<1> SUFFICES ASSUME LegacyRotations = {}, faults' <= 1
             PROVE \/ Standing(flash', whole', faults', clock')
                   \/ Fresh(flash', whole')
                   \/ Lone(flash', whole', faults')
                   \/ DamageKinds \intersect {"counter", "id"} # {} /\ NoneClaimed(whole')
  BY OneFaultKeptNext
<1>1. faults \in Nat BY TypeIs, Bounds
<1>2. faults <= faults'
  <2>1. \A new_game : PortSave(new_game) => faults' = faults BY DEF PortSave
  <2>2. UpstreamSave => faults' \in {faults, faults + 1} BY DEF UpstreamSave, CutOff
  <2>3. \A s, i, kind, id, c : Damage(s, i, kind, id, c) => faults' = faults + 1
    BY DEF Damage
  <2> QED BY <1>1, <2>1, <2>2, <2>3, DamageSteps
<1>3. faults <= 1
  <2>1. faults' \in Int
    <3>1. TypeKept' BY NextType
    <3> QED BY <3>1, TypeIsNext, Bounds
  <2> QED BY <1>1, <1>2, <2>1
<1>4. CASE NoneClaimed(whole)
  <2>1. NoneClaimed(whole') BY <1>4, NoneClaimedStays
  <2>2. CASE DamageKinds \intersect {"counter", "id"} # {}
    BY <2>1, <2>2
  <2>3. CASE Standing(flash, whole, faults, clock)
    <3>1. PICK s \in Slots : whole[s].kind = "full"
      BY <2>3 DEF Standing, FullAt, Generation
    <3> QED BY <1>4, <3>1 DEF NoneClaimed, Unclaimed
  <2>4. CASE Fresh(flash, whole) \/ Lone(flash, whole, faults)
    <3>1. 0 \in Slots /\ whole[0].kind = "empty"
      BY <2>4 DEF Slots, Fresh, Lone, NeverWritten, NoGeneration, Generation
    <3> QED BY <1>4, <3>1 DEF NoneClaimed, Unclaimed
  <2> QED BY <1>3, <2>2, <2>3, <2>4 DEF OneFaultKept
<1>5. CASE ~NoneClaimed(whole)
  <2>1. ASSUME NEW new_game \in BOOLEAN, PortSave(new_game)
        PROVE  Standing(flash', whole', faults', clock')
    <3>1. clock' = clock + 1 BY <2>1 DEF PortSave
    <3>2. Standing(flash', whole', faults', clock + 1)
      BY <1>3, <1>5, <2>1, PortSaveStands
    <3> QED BY <3>1, <3>2
  <2>2. ASSUME UpstreamSave PROVE Standing(flash', whole', faults', clock')
    <3>1. clock' = clock + 1 BY <2>2 DEF UpstreamSave, CutOff
    <3>2. Standing(flash', whole', faults', clock + 1)
      BY <1>5, <2>2, UpstreamSaveStands
    <3> QED BY <3>1, <3>2
  <2>3. ASSUME NEW t \in Slots, NEW i \in Positions, NEW kind \in DamageKinds,
               NEW id \in SectorIds \union {NoId}, NEW c \in Counter,
               Damage(t, i, kind, id, c)
        PROVE \/ Standing(flash', whole', faults', clock')
              \/ Lone(flash', whole', faults')
              \/ DamageKinds \intersect {"counter", "id"} # {} /\ NoneClaimed(whole')
    <3>1. clock' = clock BY <2>3 DEF Damage
    <3>2. \/ Standing(flash', whole', faults', clock)
          \/ Lone(flash', whole', faults')
          \/ DamageKinds \intersect {"counter", "id"} # {} /\ NoneClaimed(whole')
      BY <1>5, <2>3, DamageStands
    <3> QED BY <3>1, <3>2
  <2> QED BY <2>1, <2>2, <2>3, DamageSteps
<1> QED BY <1>4, <1>5

\* The two generations a run may start from.
LEMMA ImportedIs ==
  ASSUME NEW c \in Counter, NEW r \in Positions
  PROVE  LET older == WrappingSub(c, 1)
             behind == (r + 14 - 1) % 14
             s == PhysicalSlotForCounter(c)
         IN /\ behind \in Positions /\ older \in Counter
            /\ r = NextRotation(behind) /\ c = NextCounter(older)
            /\ PhysicalSlotForCounter(older) = 1 - s
            /\ Holds(Imported(c, r)[s], Positions, r, c, 2, 2)
            /\ Holds(Imported(c, r)[1 - s], Positions, behind, older, 1, 1)
<1> DEFINE older == WrappingSub(c, 1)
           behind == (r + 14 - 1) % 14
           s == PhysicalSlotForCounter(c)
           first == LayGeneration(Erased, SectorIds, NUM_SECTORS_PER_SLOT, behind, older,
                                  [id \in SectorIds |-> Chunk(1, id)])
           second == LayGeneration(first, SectorIds, NUM_SECTORS_PER_SLOT, r, c,
                                   [id \in SectorIds |-> Chunk(2, id)])
<1>1. Imported(c, r) = second
  <2>1. (r + NUM_SECTORS_PER_SLOT - 1) % NUM_SECTORS_PER_SLOT = behind
    BY Ranges
  <2> QED BY <2>1, Zenon DEF Imported
<1>2. behind = IF r = 0 THEN 13 ELSE r - 1
  <2>1. r + 14 - 1 \in 0 .. 27 /\ r \in 0 .. 13 BY Ranges
  <2>2. (r + 14 - 1) % 14 = IF r + 14 - 1 < 14 THEN r + 14 - 1 ELSE (r + 14 - 1) - 14
    BY <2>1, OneTurn
  <2> QED BY <2>1, <2>2
<1>3. behind \in Positions BY <1>2, Ranges
<1>4. r = NextRotation(behind) BY <1>2, <1>3, NextRotationIs, Ranges
<1>5. older \in Counter /\ c = NextCounter(older)
  BY CounterModulusAssumption
  DEF Counter, WrappingSub, NextCounter, WrappingAdd
<1>6. PhysicalSlotForCounter(older) = 1 - s /\ s \in Slots /\ s # 1 - s
  <2>1. s = 1 - PhysicalSlotForCounter(older) /\ PhysicalSlotForCounter(older) \in Slots
    BY <1>5, Parity
  <2>2. s \in Slots BY Parity
  <2> HIDE DEF s, older
  <2> QED BY <2>1, <2>2 DEF Slots
<1>7. SectorIds = FirstIds(14) /\ 14 \in 1 .. 14
  BY Ranges DEF FirstIds
<1> DEFINE v1 == [id \in SectorIds |-> Chunk(1, id)]
           v2 == [id \in SectorIds |-> Chunk(2, id)]
<1>8. Carries(v1, 1, 1) /\ Carries(v2, 2, 2) BY DEF Carries, Payload
<1>9. \A id \in SectorIds : v1[id] \in Payloads(2) BY DEF Chunk, Payloads
<1>10. first = LayGeneration(Erased, FirstIds(14), NUM_SECTORS_PER_SLOT, behind, older, v1)
       /\ second = LayGeneration(first, FirstIds(14), NUM_SECTORS_PER_SLOT, r, c, v2)
  BY <1>7, Zenon
<1>11. first \in Images
  <2> HIDE DEF v1, behind, older
  <2>1. LayGeneration(Erased, SectorIds, NUM_SECTORS_PER_SLOT, behind, older, v1) \in Images
    BY <1>5, <1>9, ErasedType, LaidType
  <2>2. first = LayGeneration(Erased, SectorIds, NUM_SECTORS_PER_SLOT, behind, older, v1)
    BY DEF v1
  <2> QED BY <2>1, <2>2
<1> HIDE DEF first, second, behind, older, s, v1, v2
<1>12. LaidOver(first[1 - s], Erased[1 - s], 14, behind, older, v1)
  <2>1. PhysicalSlotForCounter(older) \in Slots BY <1>6, SlotPair
  <2>2. LaidOver(LayGeneration(Erased, FirstIds(14), NUM_SECTORS_PER_SLOT, behind, older, v1)
                   [PhysicalSlotForCounter(older)],
                 Erased[PhysicalSlotForCounter(older)], 14, behind, older, v1)
    BY <1>3, <1>5, <1>7, <2>1, ErasedType, Laid
  <2> QED BY <1>6, <1>10, <2>2
<1>13. second[1 - s] = first[1 - s] /\ LaidOver(second[s], first[s], 14, r, c, v2)
  <2> DEFINE new == LayGeneration(first, FirstIds(14), NUM_SECTORS_PER_SLOT, r, c, v2)
  <2>1. /\ \A t \in Slots : t # PhysicalSlotForCounter(c) => new[t] = first[t]
        /\ LaidOver(new[PhysicalSlotForCounter(c)], first[PhysicalSlotForCounter(c)],
                    14, r, c, v2)
    BY <1>6, <1>7, <1>11, Laid DEF s
  <2>2. second = new BY <1>10
  <2> HIDE DEF new
  <2> QED BY <1>6, <2>1, <2>2, SlotPair DEF s
<1>14. Holds(second[s], Positions, r, c, 2, 2) BY <1>8, <1>13, LaidWhole
<1>15. Holds(second[1 - s], Positions, behind, older, 1, 1)
  BY <1>3, <1>8, <1>12, <1>13, LaidWhole
<1>16. Holds(Imported(c, r)[s], Positions, r, c, 2, 2)
       /\ Holds(Imported(c, r)[1 - s], Positions, behind, older, 1, 1)
  BY <1>1, <1>14, <1>15
<1> QED BY <1>3, <1>4, <1>5, <1>6, <1>16 DEF behind, older, s

LEMMA InitKeepsOneFault == ASSUME StoreInit PROVE OneFaultKept
<1>1. clock = 2 /\ faults = 0 BY DEF StoreInit
<1>2. CASE flash = Erased /\ whole = [s \in Slots |-> NoGeneration("empty")]
  <2>1. Fresh(flash, whole) BY <1>2 DEF Fresh, NeverWritten, Blank, Erased
  <2> QED BY <2>1 DEF OneFaultKept
<1>3. ASSUME NEW c \in StartCounters, NEW r \in StartRotations,
             flash = Imported(c, r),
             whole = [s \in Slots |->
               IF s = PhysicalSlotForCounter(c) THEN Generation("full", 2, 2)
               ELSE Generation("full", 1, 1)]
      PROVE  Standing(flash, whole, faults, clock)
  <2> DEFINE older == WrappingSub(c, 1)
             behind == (r + 14 - 1) % 14
             s == PhysicalSlotForCounter(c)
  <2>1. c \in Counter /\ r \in Positions BY StoreAssumption
  <2>2. /\ behind \in Positions /\ older \in Counter
        /\ r = NextRotation(behind) /\ c = NextCounter(older)
        /\ PhysicalSlotForCounter(older) = 1 - s
        /\ Holds(Imported(c, r)[s], Positions, r, c, 2, 2)
        /\ Holds(Imported(c, r)[1 - s], Positions, behind, older, 1, 1)
    BY <2>1, ImportedIs
  <2>3. s \in Slots BY <2>1, Parity
  <2> HIDE DEF older, behind
  <2>4. FullAt(flash, whole, s, r, c, 2, 2) BY <1>3, <2>1, <2>2, <2>3 DEF FullAt
  <2>5. FullAt(flash, whole, 1 - s, behind, older, 1, 1)
    BY <1>3, <2>2, <2>3, SlotPair DEF FullAt
  <2>6. Beside(flash, whole, faults, 1 - s, r, c, 2)
    <3>1. 1 \in Nat /\ 1 \in 0 .. 1 /\ 1 < 2 OBVIOUS
    <3> QED BY <2>2, <2>5, <3>1 DEF Beside
  <2>7. 2 \in 0 .. clock /\ 2 \in 0 .. 2 BY <1>1
  <2> HIDE DEF s
  <2> QED BY <2>1, <2>3, <2>4, <2>6, <2>7 DEF Standing
<1>4. Standing(flash, whole, faults, clock) => OneFaultKept BY DEF OneFaultKept
<1> QED BY <1>2, <1>3, <1>4 DEF StoreInit

LEMMA StoreOneFaultKept == StoreSpec => [](TypeKept /\ OneFaultKept)
<1>1. StoreInit => TypeKept /\ OneFaultKept BY InitType, InitKeepsOneFault
<1>2. TypeKept /\ OneFaultKept /\ [StoreNext]_storeVars => (TypeKept /\ OneFaultKept)'
  <2> SUFFICES ASSUME TypeKept, OneFaultKept, [StoreNext]_storeVars
               PROVE  TypeKept' /\ OneFaultKept'
    OBVIOUS
  <2>1. TypeKept' BY NextType
  <2>2. CASE StoreNext
    BY <2>1, <2>2, NextKeepsOneFault
  <2>3. CASE UNCHANGED storeVars
    BY <2>1, <2>3, OneFaultKeptNext DEF storeVars, OneFaultKept
  <2> QED BY <2>1, <2>2, <2>3
<1> QED BY <1>1, <1>2, PTL DEF StoreSpec

\* Where no five-sector build writes, one fault, a write of the original game
\* torn after any sector or one damaged sector, at any moment, never costs more
\* than the save it hit: a load returns the newest generation held complete.
THEOREM StoreNewestLoads ==
  StoreSpec => [](LegacyRotations = {} /\ faults <= 1 => NewestWholeGenerationLoads)
<1>1. TypeKept /\ OneFaultKept =>
        (LegacyRotations = {} /\ faults <= 1 => NewestWholeGenerationLoads)
  BY OneFaultLoads
<1> QED BY <1>1, StoreOneFaultKept, PTL

\* There, what a torn write left is never taken for a generation: only a changed
\* footer, which no checksum covers, unmakes what the slots were given.
THEOREM StoreTearsTold ==
  StoreSpec => [](LegacyRotations = {} /\ faults <= 1
                  /\ DamageKinds \subseteq {"signature", "checksum"}
                  => \A s \in Slots : whole[s].kind \notin Unclaimed)
<1>1. TypeKept /\ OneFaultKept =>
        (LegacyRotations = {} /\ faults <= 1
         /\ DamageKinds \subseteq {"signature", "checksum"}
         => \A s \in Slots : whole[s].kind \notin Unclaimed)
  <2> SUFFICES ASSUME TypeKept, OneFaultKept, LegacyRotations = {}, faults <= 1,
                      DamageKinds \subseteq {"signature", "checksum"}
               PROVE  \A s \in Slots : whole[s].kind \notin Unclaimed
    OBVIOUS
  <2>1. DamageKinds \intersect {"counter", "id"} = {} OBVIOUS
  <2>2. CASE Standing(flash, whole, faults, clock)
    <3>1. PICK s \in Slots, r \in Positions, c \in Counter, b \in 0 .. clock : \E v \in 0 .. b :
            /\ FullAt(flash, whole, s, r, c, b, v)
            /\ Beside(flash, whole, faults, 1 - s, r, c, b)
      BY <2>2 DEF Standing
    <3> QED BY <3>1, StandingClaimed
  <2>3. CASE Fresh(flash, whole) \/ Lone(flash, whole, faults)
    BY <2>3 DEF Slots, Fresh, Lone, NeverWritten, Broken, NoGeneration, Generation, Unclaimed
  <2> QED BY <2>1, <2>2, <2>3 DEF OneFaultKept
<1> QED BY <1>1, StoreOneFaultKept, PTL

---------------------------------------------------------------------------
(* Any builds and no fault: five-sector heads over what full writes left,  *)
(* told from torn writes by the rotation and the counter of their tails.   *)

\* A generation an age d behind counter n, ordered by age.
LEMMA Ages ==
  ASSUME NEW n \in Counter, NEW d \in Nat, d + 1 < CounterModulus
  PROVE  /\ WrappingSub(n, d) \in Counter
         /\ WrappingSub(NextCounter(n), d + 1) = WrappingSub(n, d)
         /\ WrappingSub(n, 0) = n
         /\ NextCounter(WrappingSub(n, 1)) = n
<1>1. CounterModulus \in Nat /\ CounterModulus >= 4 BY CounterModulusAssumption
<1>2. n \in 0 .. CounterModulus - 1 BY DEF Counter
<1>3. NextCounter(n) = IF n + 1 < CounterModulus THEN n + 1 ELSE 0
  BY <1>1, <1>2 DEF NextCounter, WrappingAdd
<1>4. WrappingSub(n, d) \in Counter BY <1>1, <1>2 DEF WrappingSub, Counter
<1>5. WrappingSub(NextCounter(n), d + 1) = WrappingSub(n, d)
  <2>1. CASE n + 1 < CounterModulus
    <3>1. NextCounter(n) = n + 1 BY <2>1, <1>3
    <3> QED BY <1>1, <1>2, <3>1 DEF WrappingSub
  <2>2. CASE ~(n + 1 < CounterModulus)
    <3>1. NextCounter(n) = 0 /\ n + 1 = CounterModulus BY <2>2, <1>1, <1>2, <1>3
    <3> QED BY <1>1, <1>2, <3>1 DEF WrappingSub
  <2> QED BY <2>1, <2>2
<1>6. WrappingSub(n, 0) = n BY <1>1, <1>2 DEF WrappingSub
<1>7. NextCounter(WrappingSub(n, 1)) = n
  BY <1>1, <1>2 DEF WrappingSub, NextCounter, WrappingAdd
<1> QED BY <1>4, <1>5, <1>6, <1>7
LEMMA AgesOrdered ==
  ASSUME NEW n \in Counter, NEW d \in Nat, NEW e \in Nat,
         2 * d < CounterModulus, 2 * e < CounterModulus
  PROVE  OlderGenerationPrecedes(WrappingSub(n, d), WrappingSub(n, e)) <=> e < d
<1>1. CounterModulus \in Nat /\ CounterModulus >= 4 BY CounterModulusAssumption
<1>2. n \in 0 .. CounterModulus - 1 BY DEF Counter
<1> DEFINE a == WrappingSub(n, d)
           x == WrappingSub(n, e)
<1>3. a = (IF d <= n THEN n - d ELSE (n - d) + CounterModulus)
      /\ x = (IF e <= n THEN n - e ELSE (n - e) + CounterModulus)
  BY DEF WrappingSub
<1>4. a \in Int /\ x \in Int BY <1>1, <1>2, <1>3
<1>5. OlderGenerationPrecedes(a, x) <=>
        x # a /\ 2 * (IF a <= x THEN x - a ELSE (x - a) + CounterModulus) < CounterModulus
  BY <1>4 DEF OlderGenerationPrecedes, CounterIsAhead, WrappingSub
<1> SUFFICES OlderGenerationPrecedes(a, x) <=> e < d OBVIOUS
<1> HIDE DEF a, x
<1>6. CASE d <= n /\ e <= n
  BY <1>1, <1>2, <1>3, <1>4, <1>5, <1>6
<1>7. CASE d <= n /\ ~(e <= n)
  BY <1>1, <1>2, <1>3, <1>4, <1>5, <1>7
<1>8. CASE ~(d <= n) /\ e <= n
  BY <1>1, <1>2, <1>3, <1>4, <1>5, <1>8
<1>9. CASE ~(d <= n) /\ ~(e <= n)
  BY <1>1, <1>2, <1>3, <1>4, <1>5, <1>9
<1> QED BY <1>6, <1>7, <1>8, <1>9

\* What the survey of a slot finds of its one complete set of boxes.
StorageIn(half, valid) == {i \in valid : half[i].id \in StorageIds}
LEMMA StorageGenerationIs ==
  ASSUME NEW half, NEW valid,
         Cardinality(StorageIn(half, valid)) = 9,
         {half[i].id : i \in StorageIn(half, valid)} = StorageIds,
         NEW r \in Positions,
         \A i \in StorageIn(half, valid) : ImpliedRotation(half, i) = r,
         NEW c, \A i \in StorageIn(half, valid) : half[i].counter = c
  PROVE  StorageGeneration(half, valid) = c
<1> DEFINE storage == {i \in valid : half[i].id \in StorageIds}
           blocks == valid \ storage
           each_id_once ==
             /\ Cardinality(storage) = PKMN_STORAGE_CHUNKS
             /\ {half[i].id : i \in storage} = StorageIds
           coherent == \E x \in Positions :
             \A i \in storage : ImpliedRotation(half, i) = x
           block_ids(x) == {half[i].id : i \in {j \in blocks : half[j].counter = x}}
           next_write(generation, x) ==
             \E older \in {generation} \union {half[i].counter : i \in blocks} :
               WrappingAdd(older, 2) = x
           accepted(generation, x) ==
             \/ x = generation
             \/ block_ids(x) = {} /\ ~next_write(generation, x)
             \/ block_ids(x) = SaveBlockIds
           shared == {x \in {half[i].counter : i \in storage} :
             Cardinality({i \in storage : half[i].counter = x})
               >= PKMN_STORAGE_CHUNKS - 1}
           verified == {x \in shared :
             \A i \in storage : accepted(x, half[i].counter)}
<1>1. StorageGeneration(half, valid) =
        IF each_id_once /\ coherent /\ verified # {}
        THEN CHOOSE x \in verified : TRUE ELSE NoCounter
  BY Zenon DEF StorageGeneration
<1>0. storage = StorageIn(half, valid) BY DEF StorageIn
<1> HIDE DEF storage
<1>2. each_id_once /\ coherent BY <1>0, Ranges
<1>3. storage # {}
  <2>1. 5 \in StorageIds BY Ranges
  <2> QED BY <1>0, <2>1
<1>10. \A i \in storage : half[i].counter = c BY <1>0
<1>4. {half[i].counter : i \in storage} = {c} BY <1>3, <1>10
<1>5. {i \in storage : half[i].counter = c} = storage BY <1>10
<1>6. shared = {c}
  <2>1. Cardinality({i \in storage : half[i].counter = c}) >= PKMN_STORAGE_CHUNKS - 1
    <3>1. Cardinality({i \in storage : half[i].counter = c}) = 9
      BY <1>0, <1>5, Zenon
    <3> DEFINE size == Cardinality({i \in storage : half[i].counter = c})
    <3>2. size = 9 BY <3>1
    <3> HIDE DEF size
    <3>3. size >= PKMN_STORAGE_CHUNKS - 1 BY <3>2, Ranges
    <3> QED BY <3>3 DEF size
  <2> QED BY <1>4, <2>1
<1>7. \A i \in storage : accepted(c, half[i].counter) BY <1>10
<1>8. verified = {c}
  <2> HIDE DEF accepted, shared
  <2> QED BY <1>6, <1>7
<1> HIDE DEF verified, each_id_once, coherent
<1> QED BY <1>1, <1>2, <1>8
LEMMA NoStorageGeneration ==
  ASSUME NEW half, NEW valid, NEW m \in StorageIds,
         \A i \in valid : half[i].id # m
  PROVE  StorageGeneration(half, valid) = NoCounter
<1>1. ~({half[i].id : i \in {j \in valid : half[j].id \in StorageIds}} = StorageIds)
  OBVIOUS
<1> QED BY <1>1, Zenon DEF StorageGeneration

LEMMA NinePositions ==
  /\ IsFiniteSet(StorageIds) /\ Cardinality(StorageIds) = 9
  /\ IsFiniteSet(TailPositions) /\ Cardinality(TailPositions) = 9
<1>1. 5 \in Int /\ 13 \in Int OBVIOUS
<1>2. /\ IsFiniteSet(5 .. 13)
      /\ Cardinality(5 .. 13) = IF 5 > 13 THEN 0 ELSE 13 - 5 + 1
  BY <1>1, FS_Interval, Zenon
<1>3. Cardinality(5 .. 13) = 9 BY <1>2
<1> QED BY <1>2, <1>3, Ranges

LEMMA Implied ==
  ASSUME NEW half, NEW r \in Positions, NEW i \in Positions, half[i].id = IdAt(i, r)
  PROVE  ImpliedRotation(half, i) = r
<1>1. IdAt(i, r) \in SectorIds /\ ((i + 14) - IdAt(i, r)) % 14 = r BY Rotating
<1>2. ImpliedRotation(half, i) = ((i + 14) - IdAt(i, r)) % 14
  <2>1. i \in Int /\ IdAt(i, r) \in Int BY <1>1, Ranges
  <2>2. i + 14 - IdAt(i, r) = (i + 14) - IdAt(i, r) BY <2>1
  <2> QED BY <2>2, Ranges DEF ImpliedRotation
<1> QED BY <1>1, <1>2

\* A full generation's boxes are its own.
LEMMA FullStorage ==
  ASSUME NEW half, NEW r \in Positions, NEW c, NEW b, NEW v,
         Holds(half, Positions, r, c, b, v)
  PROVE  StorageGeneration(half, ValidIn(half)) = c
<1> DEFINE storage == StorageIn(half, ValidIn(half))
           at == [id \in StorageIds |-> (id + r) % 14]
<1>1. ValidIn(half) = Positions BY FullScan
<1>2. \A i \in Positions : half[i].id = IdAt(i, r) /\ half[i].counter = c
  BY DEF Holds, Reads
<1>3. \A id \in StorageIds : id \in SectorIds BY Ranges
<1>4. \A id \in StorageIds : at[id] \in Positions /\ half[at[id]].id = id
  <2> SUFFICES ASSUME NEW id \in StorageIds
               PROVE  (id + r) % 14 \in Positions /\ half[(id + r) % 14].id = id
    OBVIOUS
  <2>1. (id + r) % 14 \in Positions BY <1>3, Rotating
  <2>2. IdAt((id + r) % 14, r) = id BY <1>3, <2>1, Rotating
  <2> QED BY <1>2, <2>1, <2>2
<1>5. \A id \in StorageIds : at[id] \in storage BY <1>1, <1>4 DEF StorageIn
<1>6. \A i \in storage : half[i].id \in StorageIds /\ at[half[i].id] = i
  <2> SUFFICES ASSUME NEW i \in storage PROVE half[i].id \in StorageIds /\ (half[i].id + r) % 14 = i
    OBVIOUS
  <2> DEFINE d == half[i].id
  <2>1. /\ i \in Positions /\ d \in StorageIds /\ d \in SectorIds
        /\ IdAt(i, r) = d
    BY <1>1, <1>2, <1>3 DEF StorageIn
  <2>2. \A id \in SectorIds : IdAt(i, r) = id <=> i = (id + r) % 14
    BY <2>1, Rotating
  <2> HIDE DEF d
  <2>3. i = (d + r) % 14 BY <2>1, <2>2
  <2>4. d \in StorageIds /\ (d + r) % 14 = i BY <2>1, <2>3
  <2> QED BY <2>4 DEF d
<1>7. at \in Bijection(StorageIds, storage)
  <2>1. at \in [StorageIds -> storage]
    <3>1. at = [id \in StorageIds |-> at[id]] OBVIOUS
    <3> HIDE DEF at, storage
    <3> QED BY <1>5, <3>1
  <2>2. \A x \in StorageIds, y \in StorageIds : at[x] = at[y] => x = y BY <1>4
  <2>3. \A i \in storage : \E id \in StorageIds : at[id] = i BY <1>6
  <2> HIDE DEF at, storage
  <2> QED BY <2>1, <2>2, <2>3 DEF Bijection, Injection, Surjection, IsInjective
<1>8. Cardinality(storage) = 9
  <2> HIDE DEF at, storage
  <2> QED BY <1>7, NinePositions, FS_Bijection DEF ExistsBijection
<1>9. {half[i].id : i \in storage} = StorageIds
  <2> HIDE DEF at
  <2>1. \A id \in StorageIds : \E i \in storage : half[i].id = id BY <1>4, <1>5
  <2>2. \A i \in storage : half[i].id \in StorageIds BY DEF StorageIn
  <2> HIDE DEF storage
  <2> QED BY <2>1, <2>2
<1>10. \A i \in storage : ImpliedRotation(half, i) = r /\ half[i].counter = c
  BY <1>1, <1>2, Implied DEF StorageIn
<1> QED BY <1>8, <1>9, <1>10, StorageGenerationIs

\* What the survey of a five-sector head finds of the head.
LEMMA HeadRead ==
  ASSUME NEW half, NEW q \in HeadPositions, NEW c, NEW b, HoldsHead(half, q, c, b)
  PROVE  /\ \A i \in HeadPositions :
              i \in ValidIn(half) /\ half[i].id = HeadIdAt(i, q) /\ half[i].counter = c
         /\ Head(half) = HeadPositions
         /\ HeadIsComplete(half, Head(half))
         /\ HeadCounter(half) = c
         /\ (\A i \in HeadPositions : half[i].id = i) <=> q = 0
<1>1. ASSUME NEW i \in HeadPositions
      PROVE  /\ i \in Positions /\ HeadIdAt(i, q) \in SaveBlockIds
             /\ Reads(half[i], HeadIdAt(i, q), c, Chunk(b, HeadIdAt(i, q)))
             /\ IsValid(half[i])
  <2>1. i \in Positions /\ HeadIdAt(i, q) \in SaveBlockIds BY HeadRotating, Ranges
  <2>2. HeadIdAt(i, q) \in SectorIds BY <2>1, Ranges
  <2>3. Reads(half[i], HeadIdAt(i, q), c, Chunk(b, HeadIdAt(i, q))) BY DEF HoldsHead
  <2>4. Chunk(b, HeadIdAt(i, q)).id = HeadIdAt(i, q) BY DEF Chunk
  <2>5. IsValid(half[i]) BY <2>2, <2>3, <2>4, ReadsValid
  <2> QED BY <2>1, <2>3, <2>5
<1>2. \A i \in HeadPositions :
        i \in ValidIn(half) /\ half[i].id = HeadIdAt(i, q) /\ half[i].counter = c
        /\ half[i].id \in SaveBlockIds
  BY <1>1 DEF ValidIn, Reads
<1>3. Head(half) = HeadPositions BY <1>2 DEF Head, HeadIn
<1>4. HeadIsComplete(half, Head(half))
  <2>1. \A id \in SaveBlockIds : \E i \in HeadPositions : half[i].id = id
    <3> SUFFICES ASSUME NEW id \in SaveBlockIds
                 PROVE  \E i \in HeadPositions : half[i].id = id
      OBVIOUS
    <3>1. (id + q) % 5 \in HeadPositions BY HeadRotating
    <3>2. HeadIdAt((id + q) % 5, q) = id BY <3>1, HeadRotating
    <3> QED BY <1>2, <3>1, <3>2
  <2>2. {half[i].id : i \in HeadPositions} = SaveBlockIds BY <1>2, <2>1
  <2> QED BY <1>3, <2>2 DEF HeadIsComplete
<1>5. HeadCounter(half) = c
  <2>1. 0 \in HeadPositions /\ HeadPositions \in SUBSET Int
        /\ \A i \in HeadPositions : 0 <= i
    BY Ranges
  <2>2. MinPos(HeadPositions) = 0 BY <2>1, MinIs
  <2>3. HeadCounter(half) = half[0].counter BY <1>3, <2>1, <2>2 DEF HeadCounter, LegacyCounter
  <2> QED BY <1>2, <2>1, <2>3
<1>6. (\A i \in HeadPositions : half[i].id = i) <=> q = 0
  <2>1. q = 0 => \A i \in HeadPositions : HeadIdAt(i, q) = i BY HeadIdAtIs, Ranges
  <2>2. HeadIdAt(0, q) = 0 => q = 0 BY HeadIdAtIs, Ranges
  <2>3. 0 \in HeadPositions BY Ranges
  <2> QED BY <1>2, <2>1, <2>2, <2>3
<1> QED BY <1>2, <1>3, <1>4, <1>5, <1>6

\* A tail of one full generation is read as that generation.
LEMMA TailRead ==
  ASSUME NEW half, NEW r \in Positions, NEW c, NEW b, NEW v,
         Holds(half, TailPositions, r, c, b, v)
  PROVE  /\ \A i \in TailPositions :
              /\ i \in ValidIn(half) /\ half[i].signed
              /\ half[i].id = IdAt(i, r) /\ half[i].counter = c
              /\ ImpliedRotation(half, i) = r
         /\ Tail(half) # NoTail
         /\ Tail(half).rotation = r /\ Tail(half).counter = c
<1>1. ASSUME NEW i \in TailPositions
      PROVE  /\ i \in ValidIn(half) /\ half[i].signed
             /\ half[i].id = IdAt(i, r) /\ half[i].counter = c
             /\ ImpliedRotation(half, i) = r
  <2>1. i \in Positions /\ IdAt(i, r) \in SectorIds
    <3>1. i \in Positions BY Ranges
    <3> QED BY <3>1, Rotating
  <2>2. Reads(half[i], IdAt(i, r), c, Payload(b, v, IdAt(i, r))) BY DEF Holds
  <2>3. IsValid(half[i]) BY <2>1, <2>2, PayloadId, ReadsValid
  <2>4. half[i].id = IdAt(i, r) /\ half[i].counter = c /\ half[i].signed BY <2>2 DEF Reads
  <2>5. ImpliedRotation(half, i) = r BY <2>1, <2>4, Implied
  <2> QED BY <2>1, <2>3, <2>4, <2>5 DEF ValidIn
<1> DEFINE valid == ValidIn(half)
           legacy_counter == HeadCounter(half)
           unusable == {i \in TailPositions : half[i].signed /\ i \notin valid}
           usable == TailPositions \intersect valid
           rot == [i \in usable |-> ImpliedRotation(half, i)]
           ctr == [i \in usable |-> half[i].counter]
           outliers(g) ==
             {i \in usable : rot[i] # g.rotation \/ ctr[i] # g.counter}
           budget_kept(g) ==
             \/ unusable = {}
             \/ Cardinality(unusable) = 1
                /\ Cardinality(usable) = PKMN_STORAGE_CHUNKS - 1
                /\ outliers(g) = {}
           torn_past_the_head(g) ==
             unusable = {SECTOR_ID_PKMN_STORAGE_START} /\ g.rotation # 0
           outlier_is_the_heads(g) == \E i \in outliers(g) :
             rot[i] # g.rotation /\ ctr[i] = legacy_counter
           found == {g \in [rotation : Consensus(usable, rot),
                            counter : Consensus(usable, ctr)] :
             /\ budget_kept(g)
             /\ ~torn_past_the_head(g)
             /\ Cardinality(outliers(g)) <= 1
             /\ ~outlier_is_the_heads(g)}
           g0 == [rotation |-> r, counter |-> c]
<1>2. Tail(half) = IF found = {} THEN NoTail ELSE CHOOSE g \in found : TRUE
  BY Zenon DEF Tail, TailGeneration
<1>3. usable = TailPositions /\ unusable = {} BY <1>1
<1>4. \A i \in usable : rot[i] = r /\ ctr[i] = c BY <1>1
<1>5. 5 \in usable BY <1>3, Ranges
<1> HIDE DEF rot, ctr, usable, unusable
<1>6. \A f : \A x : (\A i \in usable : f[i] = x) => Consensus(usable, f) = {x}
  <2> SUFFICES ASSUME NEW f, NEW x, \A i \in usable : f[i] = x
               PROVE  Consensus(usable, f) = {x}
    OBVIOUS
  <2>1. {f[i] : i \in usable} = {x} BY <1>5
  <2>2. {i \in usable : f[i] = x} = usable OBVIOUS
  <2>3. Cardinality(usable) = 9 BY <1>3, NinePositions
  <2>4. Cardinality({i \in usable : f[i] = x}) = 9 BY <2>2, <2>3, Zenon
  <2> DEFINE size == Cardinality({i \in usable : f[i] = x})
             all == Cardinality(usable)
  <2>5. size + 1 >= all /\ 2 * size > all
    <3>1. size = 9 /\ all = 9 BY <2>3, <2>4
    <3> HIDE DEF size, all
    <3> QED BY <3>1
  <2>6. x \in Consensus(usable, f)
    <3>1. x \in {f[i] : i \in usable} BY <2>1
    <3> QED BY <2>5, <3>1, Zenon DEF Consensus
  <2>7. Consensus(usable, f) \subseteq {x} BY <2>1, Zenon DEF Consensus
  <2> QED BY <2>6, <2>7
<1>7. g0 \in [rotation : Consensus(usable, rot), counter : Consensus(usable, ctr)]
  <2>1. Consensus(usable, rot) = {r} /\ Consensus(usable, ctr) = {c} BY <1>4, <1>6
  <2> QED BY <2>1
<1>8. outliers(g0) = {} BY <1>4
<1>9. Cardinality(outliers(g0)) <= 1
  <2>1. Cardinality({}) = 0 BY FS_EmptySet
  <2>2. Cardinality(outliers(g0)) = 0
    <3> HIDE DEF outliers
    <3> QED BY <1>8, <2>1
  <2> HIDE DEF outliers
  <2> QED BY <2>2
<1>10. ~torn_past_the_head(g0) BY <1>3
<1>11. g0 \in found
  <2>1. ~outlier_is_the_heads(g0)
    <3> HIDE DEF outliers
    <3> QED BY <1>8
  <2>2. budget_kept(g0) BY <1>3
  <2> HIDE DEF outliers, g0, budget_kept, torn_past_the_head, outlier_is_the_heads
  <2> QED BY <1>7, <1>9, <1>10, <2>1, <2>2
<1>12. Tail(half) \in found
  <2> HIDE DEF found
  <2> QED BY <1>2, <1>11
<1>13. /\ Tail(half) \in [rotation : Consensus(usable, rot), counter : Consensus(usable, ctr)]
  BY <1>12
<1>14. Consensus(usable, rot) = {r} /\ Consensus(usable, ctr) = {c} BY <1>4, <1>6
<1>15. Tail(half).rotation = r /\ Tail(half).counter = c
  <2> HIDE DEF found
  <2> QED BY <1>13, <1>14
<1>16. Tail(half) # NoTail BY <1>15, Ranges DEF NoTail
<1> QED BY <1>1, <1>15, <1>16

\* Among the ids of a rotated generation's tail one box id is missing.
LEMMA TailLacks ==
  ASSUME NEW half, NEW r \in Positions, r # 0, NEW c, NEW b, NEW v,
         Holds(half, TailPositions, r, c, b, v)
  PROVE  \E m \in StorageIds : \A i \in TailPositions : half[i].id # m
<1>1. PICK j \in HeadPositions : IdAt(j, r) \notin SaveBlockIds BY HeadMeansUnrotated
<1>2. j \in Positions BY Ranges
<1>3. IdAt(j, r) \in SectorIds BY <1>2, Rotating
<1>4. IdAt(j, r) \in StorageIds BY <1>1, <1>3 DEF SectorIds
<1>5. ASSUME NEW i \in TailPositions PROVE half[i].id # IdAt(j, r)
  <2>1. half[i].id = IdAt(i, r) BY TailRead
  <2>2. i \in Positions /\ i # j BY Ranges
  <2> QED BY <1>2, <2>1, <2>2, IdOnce
<1> QED BY <1>4, <1>5

\* The boxes a slot with a five-sector head offers: its tail's, unrotated.
LEMMA HeadStorage ==
  ASSUME NEW half, NEW q \in HeadPositions, NEW c, NEW b, HoldsHead(half, q, c, b),
         NEW r \in Positions, NEW c1, NEW b1, NEW v1,
         Holds(half, TailPositions, r, c1, b1, v1)
  PROVE  StorageGeneration(half, ValidIn(half)) = IF r = 0 THEN c1 ELSE NoCounter
<1>1. ValidIn(half) = HeadPositions \union TailPositions
  <2>1. Positions = HeadPositions \union TailPositions BY Ranges
  <2>2. \A i \in HeadPositions : i \in ValidIn(half) BY HeadRead
  <2>3. \A i \in TailPositions : i \in ValidIn(half) BY TailRead
  <2> QED BY <2>1, <2>2, <2>3 DEF ValidIn
<1>2. \A i \in HeadPositions : half[i].id \in SaveBlockIds
  <2>1. \A i \in HeadPositions : half[i].id = HeadIdAt(i, q) BY HeadRead
  <2>2. \A i \in HeadPositions : HeadIdAt(i, q) \in SaveBlockIds BY HeadRotating
  <2> QED BY <2>1, <2>2
<1>3. \A id \in SaveBlockIds : id \notin StorageIds BY Ranges
<1>4. CASE r = 0
  <2>1. \A i \in TailPositions : half[i].id = i /\ half[i].counter = c1
                                 /\ ImpliedRotation(half, i) = r
    <3>1. \A i \in TailPositions : i \in Positions BY Ranges
    <3>2. \A i \in TailPositions : IdAt(i, r) = i BY <1>4, <3>1, Unrotated
    <3>3. \A i \in TailPositions : half[i].id = IdAt(i, r) /\ half[i].counter = c1
                                   /\ ImpliedRotation(half, i) = r
      BY TailRead
    <3> QED BY <3>2, <3>3
  <2>2. TailPositions = StorageIds BY Ranges
  <2>3. StorageIn(half, ValidIn(half)) = TailPositions
    BY <1>1, <1>2, <1>3, <2>1, <2>2 DEF StorageIn
  <2>4. {half[i].id : i \in TailPositions} = StorageIds BY <2>1, <2>2
  <2>5. Cardinality(StorageIn(half, ValidIn(half))) = 9 BY <2>3, NinePositions
  <2>6. {half[i].id : i \in StorageIn(half, ValidIn(half))} = StorageIds BY <2>3, <2>4
  <2>7. \A i \in StorageIn(half, ValidIn(half)) :
          ImpliedRotation(half, i) = r /\ half[i].counter = c1
    BY <2>1, <2>3
  <2> QED BY <1>4, <2>5, <2>6, <2>7, StorageGenerationIs
<1>5. CASE r # 0
  <2>1. PICK m \in StorageIds : \A i \in TailPositions : half[i].id # m BY <1>5, TailLacks
  <2>2. \A i \in ValidIn(half) : half[i].id # m BY <1>1, <1>2, <1>3, <2>1
  <2> QED BY <1>5, <2>2, NoStorageGeneration
<1> QED BY <1>4, <1>5

\* A five-sector head over an older tail is read, but for one shape.
LEMMA HeadScan ==
  ASSUME NEW half, NEW q \in HeadPositions, NEW c \in Counter, NEW b,
         HoldsHead(half, q, c, b),
         NEW r \in Positions, NEW c1, NEW b1, NEW v1,
         Holds(half, TailPositions, r, c1, b1, v1),
         OlderGenerationPrecedes(c1, c), ~(q = 0 /\ r = 12)
  PROVE  /\ IsLegacy(half)
         /\ ScanSlot(half).integrity = "Ok" /\ ScanSlot(half).counter = c
         /\ ScanSlot(half).legacy = IsLegacy(half)
         /\ ScanSlot(half).storage_counter = IF r = 0 THEN c1 ELSE NoCounter
<1>1. /\ Head(half) = HeadPositions /\ HeadIsComplete(half, Head(half))
      /\ HeadCounter(half) = c /\ \A i \in HeadPositions : half[i].counter = c
      /\ (\A i \in HeadPositions : half[i].id = i) <=> q = 0
  BY HeadRead
<1>2. Tail(half) # NoTail /\ Tail(half).rotation = r /\ Tail(half).counter = c1
      /\ \A i \in TailPositions : half[i].signed
  BY TailRead
<1>3. c # NoCounter BY CounterModulusAssumption DEF Counter, NoCounter
<1>4. TORN_WRITE_PREDECESSOR_ROTATION = 12 BY Ranges
<1>5. IsLegacy(half)
  BY <1>1, <1>2, <1>3, <1>4, Zenon DEF IsLegacy, LegacyIntact
<1>6. 5 \in TailPositions /\ 5 \in Positions BY Ranges
<1>7. StorageGeneration(half, ValidIn(half)) = IF r = 0 THEN c1 ELSE NoCounter
  BY HeadStorage
<1>8. /\ ScanSlot(half).integrity =
              IF \A i \in Positions : ~half[i].signed THEN "Empty"
              ELSE IF IsLegacy(half) \/ ValidIds(half) = SectorIds THEN "Ok"
              ELSE "Error"
      /\ ScanSlot(half).counter =
              IF IsLegacy(half) THEN HeadCounter(half)
              ELSE IF ValidIn(half) = {} THEN 0
              ELSE half[MaxPos(ValidIn(half))].counter
      /\ ScanSlot(half).legacy = IsLegacy(half)
      /\ ScanSlot(half).storage_counter = StorageGeneration(half, ValidIn(half))
  BY ScanIs
<1> QED BY <1>1, <1>2, <1>5, <1>6, <1>7, <1>8

\* The one shape: a torn full write at rotation 0 could have left it.
LEMMA HeadRefusedScan ==
  ASSUME NEW half, NEW c, NEW b, HoldsHead(half, 0, c, b),
         NEW c1, NEW b1, NEW v1, Holds(half, TailPositions, 12, c1, b1, v1)
  PROVE  /\ ScanSlot(half).integrity = "Error"
         /\ ScanSlot(half).storage_counter = NoCounter
<1>1. 0 \in HeadPositions /\ 12 \in Positions /\ 12 # 0 BY Ranges
<1>2. /\ Head(half) = HeadPositions
      /\ \A i \in HeadPositions : half[i].id = i
    BY <1>1, HeadRead
<1>3. /\ Tail(half).rotation = 12
      /\ \A i \in TailPositions : half[i].signed
  BY <1>1, TailRead
<1>4. 5 \in TailPositions /\ 5 \in Positions /\ TORN_WRITE_PREDECESSOR_ROTATION = 12
  BY Ranges
<1>5. ~IsLegacy(half) BY <1>2, <1>3, <1>4, NotLegacy
<1>6. PICK m \in StorageIds : \A i \in TailPositions : half[i].id # m
  BY <1>1, TailLacks
<1>7. ASSUME NEW i \in ValidIn(half) PROVE half[i].id # m
  <2>1. i \in HeadPositions \/ i \in TailPositions BY Ranges DEF ValidIn
  <2>2. m \notin HeadPositions BY Ranges
  <2> QED BY <1>2, <1>6, <2>1, <2>2
<1>8. ValidIds(half) # SectorIds
  <2>1. m \in SectorIds /\ m \notin ValidIds(half) BY <1>7 DEF SectorIds, ValidIds
  <2> QED BY <2>1
<1>9. StorageGeneration(half, ValidIn(half)) = IF 12 = 0 THEN c1 ELSE NoCounter
  BY <1>1, HeadStorage
<1> QED BY <1>3, <1>4, <1>5, <1>8, <1>9, ScanIs

\* A head over an erased tail.
LEMMA HeadAloneScan ==
  ASSUME NEW half, NEW q \in HeadPositions, NEW c, NEW b,
         HoldsHead(half, q, c, b), Blank(half, TailPositions)
  PROVE  /\ IsLegacy(half)
         /\ ScanSlot(half).integrity = "Ok" /\ ScanSlot(half).counter = c
         /\ ScanSlot(half).legacy = IsLegacy(half)
         /\ ScanSlot(half).storage_counter = NoCounter
<1>1. /\ Head(half) = HeadPositions /\ HeadIsComplete(half, Head(half))
      /\ HeadCounter(half) = c
      /\ \A i \in HeadPositions : half[i].counter = c /\ i \in ValidIn(half)
                                  /\ half[i].id = HeadIdAt(i, q)
  <2>1. Head(half) = HeadPositions /\ HeadIsComplete(half, Head(half)) BY HeadRead
  <2>2. HeadCounter(half) = c BY HeadRead
  <2>3. \A i \in HeadPositions : i \in ValidIn(half) /\ half[i].id = HeadIdAt(i, q)
                                  /\ half[i].counter = c
    BY HeadRead
  <2> QED BY <2>1, <2>2, <2>3
<1>2. \A i \in TailPositions : ~half[i].signed BY DEF Blank, EmptySector
<1>3. IsLegacy(half)
  BY <1>1, <1>2, Zenon DEF IsLegacy, LegacyIntact
<1>4. 0 \in HeadPositions /\ 0 \in Positions /\ 5 \in StorageIds BY Ranges
<1>5. ASSUME NEW i \in ValidIn(half) PROVE i \in HeadPositions /\ half[i].id # 5
  <2>1. i \in Positions /\ half[i].signed BY DEF ValidIn, IsValid
  <2>2. i \in HeadPositions BY <1>2, <2>1, Ranges
  <2>3. HeadIdAt(i, q) \in SaveBlockIds BY <2>2, HeadRotating
  <2> QED BY <1>1, <2>2, <2>3, Ranges
<1>6. half[0].signed BY <1>1, <1>4 DEF ValidIn, IsValid
<1>7. StorageGeneration(half, ValidIn(half)) = NoCounter
  BY <1>4, <1>5, NoStorageGeneration
<1> QED BY <1>1, <1>3, <1>4, <1>6, <1>7, ScanIs
LEMMA BlankStorage ==
  ASSUME NEW half, Blank(half, Positions)
  PROVE  ScanSlot(half).storage_counter = NoCounter
<1>1. ValidIn(half) = {} BY BlankScan
<1>2. 5 \in StorageIds BY Ranges
<1> QED BY <1>1, <1>2, NoStorageGeneration, ScanIs

\* The boxes of write v stand complete in a slot, whatever its footers say.
HoldsBoxes(half, v) ==
  \A id \in StorageIds : \E i \in Positions :
    half[i].signed /\ half[i].sum /\ half[i].data = Chunk(v, id)

LEMMA ChunkIs == \A v, w, id, jd : Chunk(v, id) = Chunk(w, jd) <=> v = w /\ id = jd
<1> SUFFICES ASSUME NEW v, NEW w, NEW id, NEW jd
             PROVE  Chunk(v, id) = Chunk(w, jd) <=> v = w /\ id = jd
  OBVIOUS
<1>1. /\ Chunk(v, id).val = v /\ Chunk(v, id).id = id
      /\ Chunk(w, jd).val = w /\ Chunk(w, jd).id = jd
  BY DEF Chunk
<1> QED BY <1>1
LEMMA PayloadIs ==
  \A b, v : /\ \A id \in SaveBlockIds : Payload(b, v, id) = Chunk(b, id)
            /\ \A id \in StorageIds : Payload(b, v, id) = Chunk(v, id)
<1>1. \A id \in StorageIds : id \notin SaveBlockIds BY Ranges
<1> QED BY <1>1 DEF Payload

LEMMA FullBoxes ==
  ASSUME NEW half, NEW r \in Positions, NEW c, NEW b, NEW v,
         Holds(half, Positions, r, c, b, v)
  PROVE  \A w : HoldsBoxes(half, w) <=> w = v
<1>1. \A i \in Positions : /\ half[i].signed /\ half[i].sum
                           /\ half[i].data = Payload(b, v, IdAt(i, r))
                           /\ IdAt(i, r) \in SectorIds
  BY Rotating DEF Holds, Reads
<1>2. HoldsBoxes(half, v)
  <2> SUFFICES ASSUME NEW id \in StorageIds
               PROVE  \E i \in Positions :
                        half[i].signed /\ half[i].sum /\ half[i].data = Chunk(v, id)
    BY DEF HoldsBoxes
  <2>1. id \in SectorIds BY Ranges
  <2>2. (id + r) % 14 \in Positions BY <2>1, Rotating
  <2>3. IdAt((id + r) % 14, r) = id BY <2>1, <2>2, Rotating
  <2>4. Payload(b, v, id) = Chunk(v, id) BY PayloadIs
  <2> QED BY <1>1, <2>2, <2>3, <2>4
<1>3. ASSUME NEW w, HoldsBoxes(half, w) PROVE w = v
  <2>1. 5 \in StorageIds BY Ranges
  <2>2. PICK i \in Positions : half[i].data = Chunk(w, 5) BY <1>3, <2>1 DEF HoldsBoxes
  <2> DEFINE m == IdAt(i, r)
  <2>3. m \in SectorIds /\ Payload(b, v, m) = Chunk(w, 5) BY <1>1, <2>2
  <2> HIDE DEF m
  <2>4. CASE m \in SaveBlockIds
    <3>1. Chunk(b, m) = Chunk(w, 5) BY <2>3, <2>4, PayloadIs
    <3>2. m = 5 BY <3>1, ChunkIs
    <3> QED BY <2>4, <3>2, Ranges
  <2>5. CASE m \in StorageIds
    <3>1. Chunk(v, m) = Chunk(w, 5) BY <2>3, <2>5, PayloadIs
    <3> QED BY <3>1, ChunkIs
  <2> QED BY <2>3, <2>4, <2>5 DEF SectorIds
<1> QED BY <1>2, <1>3

\* A head holds no box; its tail the whole set only unrotated.
LEMMA HeadBoxes ==
  ASSUME NEW half, NEW q \in HeadPositions, NEW c, NEW b, HoldsHead(half, q, c, b),
         NEW r \in Positions, NEW c1, NEW b1, NEW v1,
         Holds(half, TailPositions, r, c1, b1, v1)
  PROVE  \A w : HoldsBoxes(half, w) <=> r = 0 /\ w = v1
<1>1. \A i \in HeadPositions : /\ half[i].data = Chunk(b, HeadIdAt(i, q))
                               /\ HeadIdAt(i, q) \in SaveBlockIds
  <2>1. \A i \in HeadPositions : HeadIdAt(i, q) \in SaveBlockIds BY HeadRotating
  <2> QED BY <2>1 DEF HoldsHead, Reads
<1>2. \A i \in TailPositions : /\ half[i].signed /\ half[i].sum
                               /\ half[i].data = Payload(b1, v1, IdAt(i, r))
                               /\ IdAt(i, r) \in SectorIds /\ i \in Positions
                               /\ half[i].id = IdAt(i, r)
  <2>1. \A i \in TailPositions : i \in Positions BY Ranges
  <2>2. \A i \in Positions : IdAt(i, r) \in SectorIds BY Rotating
  <2> QED BY <2>1, <2>2 DEF Holds, Reads
<1>3. ASSUME NEW w, NEW id \in StorageIds, NEW i \in Positions,
             half[i].data = Chunk(w, id)
      PROVE  i \in TailPositions /\ IdAt(i, r) = id /\ w = v1
  <2>1. i \in TailPositions
    <3> SUFFICES ASSUME i \in HeadPositions PROVE FALSE BY Ranges
    <3>1. Chunk(b, HeadIdAt(i, q)) = Chunk(w, id) /\ HeadIdAt(i, q) \in SaveBlockIds
      BY <1>1, <1>3
    <3>2. HeadIdAt(i, q) = id BY <3>1, ChunkIs
    <3> QED BY <3>1, <3>2, Ranges
  <2> DEFINE m == IdAt(i, r)
  <2>2. m \in SectorIds /\ Payload(b1, v1, m) = Chunk(w, id) BY <1>2, <1>3, <2>1
  <2> SUFFICES m = id /\ w = v1 BY <2>1
  <2> HIDE DEF m
  <2>3. CASE m \in SaveBlockIds
    <3>1. Chunk(b1, m) = Chunk(w, id) BY <2>2, <2>3, PayloadIs
    <3>2. m = id BY <3>1, ChunkIs
    <3> QED BY <2>3, <3>2, Ranges
  <2>4. CASE m \in StorageIds
    <3>1. Chunk(v1, m) = Chunk(w, id) BY <2>2, <2>4, PayloadIs
    <3> QED BY <3>1, ChunkIs
  <2> QED BY <2>2, <2>3, <2>4 DEF SectorIds
<1>4. ASSUME NEW w, HoldsBoxes(half, w) PROVE r = 0 /\ w = v1
  <2>1. 5 \in StorageIds BY Ranges
  <2>2. w = v1
    <3>1. PICK i \in Positions : half[i].data = Chunk(w, 5) BY <1>4, <2>1 DEF HoldsBoxes
    <3> QED BY <1>3, <2>1, <3>1
  <2>3. ASSUME r # 0 PROVE FALSE
    <3>1. PICK m \in StorageIds : \A i \in TailPositions : half[i].id # m
      BY <2>3, TailLacks
    <3>2. PICK i \in Positions : half[i].data = Chunk(w, m) BY <1>4 DEF HoldsBoxes
    <3>3. i \in TailPositions /\ IdAt(i, r) = m BY <1>3, <3>2
    <3> QED BY <1>2, <3>1, <3>3
  <2> QED BY <2>2, <2>3
<1>5. ASSUME r = 0 PROVE HoldsBoxes(half, v1)
  <2> SUFFICES ASSUME NEW id \in StorageIds
               PROVE  \E i \in Positions :
                        half[i].signed /\ half[i].sum /\ half[i].data = Chunk(v1, id)
    BY DEF HoldsBoxes
  <2>1. id \in TailPositions /\ id \in Positions BY Ranges
  <2>2. IdAt(id, r) = id BY <1>5, <2>1, Unrotated
  <2>3. Payload(b1, v1, id) = Chunk(v1, id) BY PayloadIs
  <2> QED BY <1>2, <2>1, <2>2, <2>3
<1> QED BY <1>4, <1>5
LEMMA HeadAloneBoxes ==
  ASSUME NEW half, NEW q \in HeadPositions, NEW c, NEW b, HoldsHead(half, q, c, b),
         Blank(half, TailPositions)
  PROVE  \A w : ~HoldsBoxes(half, w)
<1> SUFFICES ASSUME NEW w, HoldsBoxes(half, w) PROVE FALSE OBVIOUS
<1>1. 5 \in StorageIds BY Ranges
<1>2. PICK i \in Positions : half[i].signed /\ half[i].data = Chunk(w, 5)
  BY <1>1 DEF HoldsBoxes
<1>3. i \notin TailPositions BY <1>2 DEF Blank, EmptySector
<1>4. i \in HeadPositions BY <1>3, Ranges
<1>5. Chunk(b, HeadIdAt(i, q)) = Chunk(w, 5) BY <1>2, <1>4 DEF HoldsHead, Reads
<1>6. HeadIdAt(i, q) = 5 BY <1>5, ChunkIs
<1>7. HeadIdAt(i, q) \in SaveBlockIds BY <1>4, HeadRotating
<1> QED BY <1>6, <1>7, Ranges
LEMMA BlankBoxes ==
  ASSUME NEW half, Blank(half, Positions)
  PROVE  \A w : ~HoldsBoxes(half, w)
<1>1. 5 \in StorageIds BY Ranges
<1>2. \A i \in Positions : ~half[i].signed BY DEF Blank, EmptySector
<1> QED BY <1>1, <1>2 DEF HoldsBoxes

\* What a load copies of a five-sector head, and of the boxes behind one.
CopyIs(copy, last, b, v) ==
  /\ copy.last = last
  /\ \A id \in SaveBlockIds : copy.payload[id] = Chunk(b, id)
  /\ \A id \in StorageIds : copy.payload[id] = Chunk(v, id)
LEMMA CopyOfHead ==
  ASSUME NEW half, NEW q \in HeadPositions, NEW c, NEW b, HoldsHead(half, q, c, b),
         NEW legacy \in BOOLEAN, legacy, NEW before
  PROVE  CopyIs(CopyValidSlotPayloads(half, legacy, before), q, b, 0)
<1> DEFINE valid == {i \in HeadPositions : IsValid(half[i])}
           of(id) == {i \in valid : half[i].id = id}
           ids0 == {i \in HeadPositions : half[i].id = SECTOR_ID_SAVEBLOCK2}
           payload == [id \in SectorIds |->
             IF of(id) = {} THEN Zeroed(id) ELSE half[MaxPos(of(id))].data]
           copy == CopyValidSlotPayloads(half, legacy, before)
<1>1. copy = [last |-> IF ids0 = {} THEN before ELSE MaxPos(ids0), payload |-> payload]
  BY DEF CopyValidSlotPayloads, ReadPositions
<1>2. \A i \in HeadPositions : half[i].id = HeadIdAt(i, q) /\ IsValid(half[i])
  <2>1. \A i \in HeadPositions : i \in ValidIn(half) /\ half[i].id = HeadIdAt(i, q)
    BY HeadRead
  <2> QED BY <2>1 DEF ValidIn
<1>3. ASSUME NEW id \in SaveBlockIds
      PROVE  /\ (id + q) % 5 \in HeadPositions
             /\ {i \in HeadPositions : half[i].id = id} = {(id + q) % 5}
             /\ half[(id + q) % 5].data = Chunk(b, id)
  <2>1. (id + q) % 5 \in HeadPositions BY HeadRotating
  <2>2. \A i \in HeadPositions : HeadIdAt(i, q) = id <=> i = (id + q) % 5 BY HeadRotating
  <2>3. \A i \in HeadPositions : half[i].data = Chunk(b, HeadIdAt(i, q))
    BY DEF HoldsHead, Reads
  <2> QED BY <1>2, <2>1, <2>2, <2>3
<1>4. ASSUME NEW p \in HeadPositions PROVE MaxPos({p}) = p
  <2>1. p \in Int /\ p <= p BY Ranges
  <2> QED BY <2>1, MaxIs
<1>5. ids0 = {q}
  <2>1. SECTOR_ID_SAVEBLOCK2 \in SaveBlockIds /\ SECTOR_ID_SAVEBLOCK2 = 0 BY Ranges
  <2>2. (0 + q) % 5 = q BY OneTurn, Ranges
  <2> QED BY <1>3, <2>1, <2>2
<1>6. copy.last = q
  <2> HIDE DEF payload, ids0, copy
  <2> QED BY <1>1, <1>4, <1>5
<1>7. valid = HeadPositions BY <1>2
<1>8. ASSUME NEW id \in SaveBlockIds PROVE payload[id] = Chunk(b, id)
  <2>1. of(id) = {(id + q) % 5} BY <1>3, <1>7
  <2>2. MaxPos(of(id)) = (id + q) % 5 BY <2>1, <1>3, <1>4
  <2>3. id \in SectorIds BY DEF SectorIds
  <2> HIDE DEF of
  <2> QED BY <2>1, <2>2, <2>3, <1>3
<1>9. ASSUME NEW id \in StorageIds PROVE payload[id] = Chunk(0, id)
  <2>1. \A i \in HeadPositions : HeadIdAt(i, q) \in SaveBlockIds BY HeadRotating
  <2>2. id \notin SaveBlockIds /\ id \in SectorIds BY Ranges
  <2>3. of(id) = {} BY <1>2, <2>1, <2>2
  <2> HIDE DEF of
  <2> QED BY <2>2, <2>3 DEF Zeroed
<1>10. copy.payload = payload
  <2> HIDE DEF payload, ids0, copy
  <2> QED BY <1>1
<1> HIDE DEF copy, payload
<1> QED BY <1>6, <1>8, <1>9, <1>10 DEF CopyIs, copy
LEMMA CopyOfTail ==
  ASSUME NEW half, NEW q \in HeadPositions, NEW c, NEW b, HoldsHead(half, q, c, b),
         NEW c1, NEW b1, NEW v1, Holds(half, TailPositions, 0, c1, b1, v1),
         NEW legacy \in BOOLEAN, ~legacy, NEW before
  PROVE  \A id \in StorageIds :
           CopyValidSlotPayloads(half, legacy, before).payload[id] = Chunk(v1, id)
<1> DEFINE valid == {i \in Positions : IsValid(half[i])}
           of(id) == {i \in valid : half[i].id = id}
           ids0 == {i \in Positions : half[i].id = SECTOR_ID_SAVEBLOCK2}
           payload == [id \in SectorIds |->
             IF of(id) = {} THEN Zeroed(id) ELSE half[MaxPos(of(id))].data]
           copy == CopyValidSlotPayloads(half, legacy, before)
<1>1. copy = [last |-> IF ids0 = {} THEN before ELSE MaxPos(ids0), payload |-> payload]
  BY DEF CopyValidSlotPayloads, ReadPositions
<1>2. \A i \in HeadPositions : half[i].id \in SaveBlockIds
  <2>1. \A i \in HeadPositions : half[i].id = HeadIdAt(i, q) BY HeadRead
  <2>2. \A i \in HeadPositions : HeadIdAt(i, q) \in SaveBlockIds BY HeadRotating
  <2> QED BY <2>1, <2>2
<1>3. 0 \in Positions BY Ranges
<1>4. \A i \in TailPositions : i \in ValidIn(half) /\ half[i].id = i
  <2>1. \A i \in TailPositions : i \in ValidIn(half) /\ half[i].id = IdAt(i, 0)
    BY <1>3, TailRead
  <2>2. \A i \in TailPositions : i \in Positions BY Ranges
  <2> QED BY <2>1, <2>2, Unrotated
<1>5. \A i \in TailPositions : half[i].data = Chunk(v1, i)
  <2>1. \A i \in TailPositions : half[i].data = Payload(b1, v1, IdAt(i, 0))
    BY DEF Holds, Reads
  <2>2. \A i \in TailPositions : i \in Positions /\ i \in StorageIds BY Ranges
  <2> QED BY <2>1, <2>2, Unrotated, PayloadIs
<1>6. ASSUME NEW id \in StorageIds PROVE payload[id] = Chunk(v1, id)
  <2>1. id \in TailPositions /\ id \in Positions /\ id \in SectorIds
        /\ (\A i \in Positions : i \in HeadPositions \/ i \in TailPositions)
        /\ id \notin SaveBlockIds
    BY Ranges
  <2>2. of(id) = {id} BY <1>2, <1>4, <2>1 DEF ValidIn
  <2>3. MaxPos({id}) = id
    <3>1. id \in Int /\ id <= id BY <2>1, Ranges
    <3> QED BY <3>1, MaxIs
  <2> HIDE DEF of
  <2> QED BY <1>5, <2>1, <2>2, <2>3
<1>7. copy.payload = payload
  <2> HIDE DEF payload, ids0, copy
  <2> QED BY <1>1
<1> QED BY <1>6, <1>7

---------------------------------------------------------------------------
(* What stands in a slot, by its age: how many generations behind the newest. *)

\* A five-sector generation of an age, and the full one behind it: told apart
\* because it is older and not the one shape a torn write leaves; its boxes are
\* offered where they are all nine.
HeadStands(half, n, age, q, b) ==
  q \in HeadPositions /\ HoldsHead(half, q, WrappingSub(n, age), b)
TailHolds(half, n, r, d, v) ==
  \E b1 \in Nat : Holds(half, TailPositions, r, WrappingSub(n, d), b1, v)
TailStands(half, n, age, q, offers, oa, v, limit) ==
  \E r \in Positions, d \in Nat, v1 \in Nat :
    /\ TailHolds(half, n, r, d, v1)
    /\ age < d /\ d <= limit
    /\ ~(q = 0 /\ r = 12)
    /\ offers <=> r = 0
    /\ offers => oa = d /\ v = v1
Stands(half, n, age, last, b, offers, oa, v, limit) ==
  /\ offers \in BOOLEAN
  /\ \/ /\ offers /\ oa = age /\ last \in Positions
        /\ Holds(half, Positions, last, WrappingSub(n, age), b, v)
     \/ /\ ~offers
        /\ HeadStands(half, n, age, last, b) /\ Blank(half, TailPositions)
     \/ /\ HeadStands(half, n, age, last, b)
        /\ TailStands(half, n, age, last, offers, oa, v, limit)

\* What a load is told of such a slot, and copies of it.
Copied(half, before) == CopyValidSlotPayloads(half, IsLegacy(half), before)
Lent(half) == CopyValidSlotPayloads(half, FALSE, 0)
Told(half, c, last, b, offers, oc, v) ==
  /\ offers \in BOOLEAN /\ IsLegacy(half) \in BOOLEAN
  /\ ScanSlot(half).integrity = "Ok" /\ ScanSlot(half).counter = c
  /\ ScanSlot(half).legacy = IsLegacy(half)
  /\ ScanSlot(half).storage_counter = IF offers THEN oc ELSE NoCounter
  /\ ~IsLegacy(half) => offers /\ oc = c
  /\ last \in Positions
  /\ \A before : /\ Copied(half, before).last = last
                 /\ \A id \in SaveBlockIds : Copied(half, before).payload[id] = Chunk(b, id)
                 /\ \A id \in StorageIds : Copied(half, before).payload[id]
                      = IF IsLegacy(half) THEN Chunk(0, id) ELSE Chunk(v, id)
  /\ offers => \A id \in StorageIds : Lent(half).payload[id] = Chunk(v, id)
  /\ \A w : HoldsBoxes(half, w) <=> offers /\ w = v
Untold(half) ==
  /\ ScanSlot(half).integrity \in {"Empty", "Error"}
  /\ ScanSlot(half).storage_counter = NoCounter
  /\ \A w : ~HoldsBoxes(half, w)

LEMMA LegacyOrNot == \A half : IsLegacy(half) \in BOOLEAN
<1> SUFFICES ASSUME NEW half PROVE IsLegacy(half) \in BOOLEAN OBVIOUS
<1> QED BY Zenon DEF IsLegacy, LegacyIntact

LEMMA FullTold ==
  ASSUME NEW half, NEW r \in Positions, NEW c, NEW b, NEW v,
         Holds(half, Positions, r, c, b, v)
  PROVE  Told(half, c, r, b, TRUE, c, v)
<1>1. /\ ScanSlot(half).integrity = "Ok" /\ ScanSlot(half).counter = c
      /\ ScanSlot(half).legacy = FALSE
  BY FullScan
<1>2. ScanSlot(half).legacy = IsLegacy(half)
      /\ ScanSlot(half).storage_counter = StorageGeneration(half, ValidIn(half))
  BY ScanIs
<1>3. IsLegacy(half) \in BOOLEAN /\ ~IsLegacy(half) BY <1>1, <1>2, LegacyOrNot
<1>4. ScanSlot(half).storage_counter = c BY <1>2, FullStorage
<1>5. \A w : HoldsBoxes(half, w) <=> w = v BY FullBoxes
<1>6. ASSUME NEW legacy \in BOOLEAN, ~legacy, NEW before
      PROVE  LET copy == CopyValidSlotPayloads(half, legacy, before)
             IN /\ copy.last = r
                /\ \A id \in SaveBlockIds : copy.payload[id] = Chunk(b, id)
                /\ \A id \in StorageIds : copy.payload[id] = Chunk(v, id)
  <2> DEFINE copy == CopyValidSlotPayloads(half, legacy, before)
  <2>1. copy.last = r /\ Carries(copy.payload, b, v) BY <1>6, CopyOfFull
  <2>2. \A id \in SaveBlockIds : id \in SectorIds BY DEF SectorIds
  <2>3. \A id \in StorageIds : id \in SectorIds BY DEF SectorIds
  <2> HIDE DEF copy
  <2>4. \A id \in SaveBlockIds : copy.payload[id] = Chunk(b, id)
    BY <2>1, <2>2, PayloadIs DEF Carries
  <2>5. \A id \in StorageIds : copy.payload[id] = Chunk(v, id)
    BY <2>1, <2>3, PayloadIs DEF Carries
  <2> QED BY <2>1, <2>4, <2>5 DEF copy
<1>7. ASSUME NEW before
      PROVE  /\ Copied(half, before).last = r
             /\ \A id \in SaveBlockIds : Copied(half, before).payload[id] = Chunk(b, id)
             /\ \A id \in StorageIds : Copied(half, before).payload[id] = Chunk(v, id)
  BY <1>3, <1>6 DEF Copied
<1>8. \A id \in StorageIds : Lent(half).payload[id] = Chunk(v, id)
  <2>1. FALSE \in BOOLEAN /\ ~FALSE OBVIOUS
  <2> QED BY <1>6, <2>1 DEF Lent
<1> QED BY <1>1, <1>2, <1>3, <1>4, <1>5, <1>7, <1>8 DEF Told

LEMMA HeadTold ==
  ASSUME NEW half, NEW q \in HeadPositions, NEW c \in Counter, NEW b,
         HoldsHead(half, q, c, b),
         NEW r \in Positions, NEW c1, NEW b1, NEW v1,
         Holds(half, TailPositions, r, c1, b1, v1),
         OlderGenerationPrecedes(c1, c), ~(q = 0 /\ r = 12)
  PROVE  Told(half, c, q, b, r = 0, c1, v1)
<1>1. /\ IsLegacy(half)
      /\ ScanSlot(half).integrity = "Ok" /\ ScanSlot(half).counter = c
      /\ ScanSlot(half).legacy = IsLegacy(half)
      /\ ScanSlot(half).storage_counter = IF r = 0 THEN c1 ELSE NoCounter
  BY HeadScan
<1>2. IsLegacy(half) \in BOOLEAN BY LegacyOrNot
<1>3. \A w : HoldsBoxes(half, w) <=> r = 0 /\ w = v1 BY HeadBoxes
<1>4. ASSUME NEW before
      PROVE  /\ Copied(half, before).last = q
             /\ \A id \in SaveBlockIds : Copied(half, before).payload[id] = Chunk(b, id)
             /\ \A id \in StorageIds : Copied(half, before).payload[id] = Chunk(0, id)
  <2> DEFINE lg == IsLegacy(half)
             copy == CopyValidSlotPayloads(half, lg, before)
  <2>1. lg \in BOOLEAN /\ lg BY <1>1, <1>2
  <2> HIDE DEF lg
  <2>2. CopyIs(copy, q, b, 0) BY <2>1, CopyOfHead
  <2>3. Copied(half, before) = copy BY DEF Copied, lg
  <2> HIDE DEF copy
  <2> QED BY <2>2, <2>3 DEF CopyIs
<1>5. ASSUME r = 0
      PROVE  \A id \in StorageIds : Lent(half).payload[id] = Chunk(v1, id)
  <2>1. FALSE \in BOOLEAN /\ ~FALSE OBVIOUS
  <2>2. Holds(half, TailPositions, 0, c1, b1, v1) BY <1>5
  <2> QED BY <2>1, <2>2, CopyOfTail DEF Lent
<1>6. q \in Positions BY Ranges
<1> QED BY <1>1, <1>2, <1>3, <1>4, <1>5, <1>6 DEF Told

LEMMA HeadAloneTold ==
  ASSUME NEW half, NEW q \in HeadPositions, NEW c, NEW b,
         HoldsHead(half, q, c, b), Blank(half, TailPositions), NEW c1, NEW v1
  PROVE  Told(half, c, q, b, FALSE, c1, v1)
<1>1. /\ IsLegacy(half)
      /\ ScanSlot(half).integrity = "Ok" /\ ScanSlot(half).counter = c
      /\ ScanSlot(half).legacy = IsLegacy(half)
      /\ ScanSlot(half).storage_counter = NoCounter
  BY HeadAloneScan
<1>2. IsLegacy(half) \in BOOLEAN BY LegacyOrNot
<1>3. \A w : ~HoldsBoxes(half, w) BY HeadAloneBoxes
<1>4. ASSUME NEW before
      PROVE  /\ Copied(half, before).last = q
             /\ \A id \in SaveBlockIds : Copied(half, before).payload[id] = Chunk(b, id)
             /\ \A id \in StorageIds : Copied(half, before).payload[id] = Chunk(0, id)
  <2> DEFINE lg == IsLegacy(half)
             copy == CopyValidSlotPayloads(half, lg, before)
  <2>1. lg \in BOOLEAN /\ lg BY <1>1, <1>2
  <2> HIDE DEF lg
  <2>2. CopyIs(copy, q, b, 0) BY <2>1, CopyOfHead
  <2>3. Copied(half, before) = copy BY DEF Copied, lg
  <2> HIDE DEF copy
  <2> QED BY <2>2, <2>3 DEF CopyIs
<1>6. q \in Positions BY Ranges
<1> QED BY <1>1, <1>2, <1>3, <1>4, <1>6 DEF Told

LEMMA StandsTold ==
  ASSUME NEW half, NEW n \in Counter, NEW age \in Nat, NEW last, NEW b, NEW offers,
         NEW oa, NEW v, NEW limit \in Nat, age <= limit, 2 * limit < CounterModulus,
         Stands(half, n, age, last, b, offers, oa, v, limit)
  PROVE  Told(half, WrappingSub(n, age), last, b, offers, WrappingSub(n, oa), v)
<1> DEFINE c == WrappingSub(n, age)
<1>1. CounterModulus \in Nat /\ CounterModulus >= 4 BY CounterModulusAssumption
<1>2. c \in Counter
  <2>1. age + 1 < CounterModulus BY <1>1
  <2> QED BY <2>1, Ages
<1>3. offers \in BOOLEAN BY DEF Stands
<1>4. CASE /\ offers /\ oa = age /\ last \in Positions
           /\ Holds(half, Positions, last, WrappingSub(n, age), b, v)
  <2>1. Told(half, c, last, b, TRUE, c, v) BY <1>4, FullTold
  <2> QED BY <1>3, <1>4, <2>1
<1>5. CASE ~offers /\ HeadStands(half, n, age, last, b) /\ Blank(half, TailPositions)
  <2>1. last \in HeadPositions /\ HoldsHead(half, last, c, b) BY <1>5 DEF HeadStands
  <2> HIDE DEF c
  <2>2. Told(half, c, last, b, FALSE, WrappingSub(n, oa), v) BY <1>5, <2>1, HeadAloneTold
  <2>3. offers = FALSE BY <1>3, <1>5
  <2> QED BY <2>2, <2>3 DEF c
<1>6. CASE HeadStands(half, n, age, last, b)
           /\ TailStands(half, n, age, last, offers, oa, v, limit)
  <2>1. PICK r \in Positions, d \in Nat, v1 \in Nat :
          /\ TailHolds(half, n, r, d, v1)
          /\ age < d /\ d <= limit
          /\ ~(last = 0 /\ r = 12)
          /\ offers <=> r = 0
          /\ offers => oa = d /\ v = v1
    BY <1>6 DEF TailStands
  <2>2. PICK b1 \in Nat : Holds(half, TailPositions, r, WrappingSub(n, d), b1, v1)
    BY <2>1 DEF TailHolds
  <2>3. last \in HeadPositions /\ HoldsHead(half, last, c, b) BY <1>6 DEF HeadStands
  <2> DEFINE c1 == WrappingSub(n, d)
  <2>4. OlderGenerationPrecedes(c1, c)
    <3>1. 2 * d < CounterModulus /\ 2 * age < CounterModulus BY <2>1, <1>1
    <3> QED BY <2>1, <3>1, AgesOrdered
  <2>5. Holds(half, TailPositions, r, c1, b1, v1) BY <2>2
  <2> HIDE DEF c, c1
  <2>6. Told(half, c, last, b, r = 0, c1, v1)
    BY <1>2, <2>1, <2>3, <2>4, <2>5, HeadTold
  <2>7. (r = 0) = offers BY <1>3, <2>1
  <2>8. Told(half, c, last, b, offers, c1, v1) BY <2>6, <2>7
  <2>9. CASE offers
    BY <2>1, <2>8, <2>9 DEF c1, c
  <2>10. CASE ~offers
    BY <2>8, <2>10 DEF Told, c
  <2> QED BY <2>9, <2>10
<1> QED BY <1>4, <1>5, <1>6 DEF Stands

LEMMA BlankUntold == ASSUME NEW half, Blank(half, Positions) PROVE Untold(half)
BY BlankScan, BlankStorage, BlankBoxes DEF Untold
LEMMA RefusedUntold ==
  ASSUME NEW half, NEW c, NEW b, HoldsHead(half, 0, c, b),
         NEW c1, NEW b1, NEW v1, Holds(half, TailPositions, 12, c1, b1, v1)
  PROVE  Untold(half)
<1>1. 0 \in HeadPositions /\ 12 \in Positions /\ 12 # 0 BY Ranges
<1>2. /\ ScanSlot(half).integrity = "Error"
      /\ ScanSlot(half).storage_counter = NoCounter
  BY HeadRefusedScan
<1>3. \A w : HoldsBoxes(half, w) <=> 12 = 0 /\ w = v1 BY <1>1, HeadBoxes
<1> QED BY <1>1, <1>2, <1>3 DEF Untold

---------------------------------------------------------------------------
(* What a load adopts where a five-sector head may stand, and the boxes it   *)
(* takes: the newest ones either slot offers.                               *)

Offer(half, n, offers, oa, v) ==
  /\ offers \in BOOLEAN
  /\ ScanSlot(half).storage_counter = IF offers THEN WrappingSub(n, oa) ELSE NoCounter
  /\ offers => \A id \in StorageIds : Lent(half).payload[id] = Chunk(v, id)
  /\ \A w : HoldsBoxes(half, w) <=> offers /\ w = v
Ordered(f0, a0, v0, f1, a1, v1) ==
  f0 /\ f1 => \/ a0 < a1 /\ v1 <= v0
              \/ a1 < a0 /\ v0 <= v1

Held(image, w) == \E t \in Slots : HoldsBoxes(image[t], w)
BestBoxes(image, x) ==
  /\ \A w : Held(image, w) => w <= x
  /\ Held(image, x) \/ (x = 0 /\ \A w : ~Held(image, w))

Donor(image) == NewestStorageSet(ScanSlot(image[0]).storage_counter,
                                 ScanSlot(image[1]).storage_counter)

LEMMA DonorIs ==
  ASSUME NEW n \in Counter, NEW f0 \in BOOLEAN, NEW f1 \in BOOLEAN,
         NEW a0 \in Nat, NEW a1 \in Nat,
         2 * a0 < CounterModulus, 2 * a1 < CounterModulus
  PROVE  NewestStorageSet(IF f0 THEN WrappingSub(n, a0) ELSE NoCounter,
                          IF f1 THEN WrappingSub(n, a1) ELSE NoCounter)
         = IF ~f1 THEN IF ~f0 THEN NoSlot ELSE 0
           ELSE IF ~f0 \/ a1 < a0 THEN 1 ELSE 0
<1> DEFINE x0 == WrappingSub(n, a0)
           x1 == WrappingSub(n, a1)
<1>1. x0 # NoCounter /\ x1 # NoCounter
  <2>1. CounterModulus \in Nat /\ CounterModulus >= 4 BY CounterModulusAssumption
  <2>2. x0 \in Counter /\ x1 \in Counter BY <2>1, Ages
  <2> QED BY <2>1, <2>2 DEF Counter, NoCounter
<1>2. OlderGenerationPrecedes(x0, x1) <=> a1 < a0 BY AgesOrdered
<1> HIDE DEF x0, x1
<1>3. NewestStorageSet(IF f0 THEN x0 ELSE NoCounter, IF f1 THEN x1 ELSE NoCounter)
         = IF ~f1 THEN IF ~f0 THEN NoSlot ELSE 0
           ELSE IF ~f0 \/ a1 < a0 THEN 1 ELSE 0
  BY <1>1, <1>2 DEF NewestStorageSet
<1> QED BY <1>3 DEF x0, x1

\* The donor holds the newest boxes.
LEMMA DonorBest ==
  ASSUME NEW image, NEW n \in Counter, NEW f0, NEW f1,
         NEW a0 \in Nat, NEW a1 \in Nat, NEW v0 \in Nat, NEW v1 \in Nat,
         2 * a0 < CounterModulus, 2 * a1 < CounterModulus,
         Offer(image[0], n, f0, a0, v0), Offer(image[1], n, f1, a1, v1),
         Ordered(f0, a0, v0, f1, a1, v1)
  PROVE  \E x \in Nat :
           /\ BestBoxes(image, x)
           /\ Donor(image) = NoSlot <=> \A w : ~Held(image, w)
           /\ Donor(image) = NoSlot => x = 0
           /\ Donor(image) # NoSlot =>
                \A id \in StorageIds : Lent(image[Donor(image)]).payload[id] = Chunk(x, id)
<1>1. f0 \in BOOLEAN /\ f1 \in BOOLEAN BY DEF Offer
<1>2. Donor(image) = IF ~f1 THEN IF ~f0 THEN NoSlot ELSE 0
                     ELSE IF ~f0 \/ a1 < a0 THEN 1 ELSE 0
  <2>1. Donor(image) = NewestStorageSet(IF f0 THEN WrappingSub(n, a0) ELSE NoCounter,
                                        IF f1 THEN WrappingSub(n, a1) ELSE NoCounter)
    BY DEF Donor, Offer
  <2> QED BY <1>1, <2>1, DonorIs
<1>3. \A w : Held(image, w) <=> (f0 /\ w = v0) \/ (f1 /\ w = v1)
  <2>1. \A w : Held(image, w) <=> HoldsBoxes(image[0], w) \/ HoldsBoxes(image[1], w)
    BY DEF Held, Slots
  <2> QED BY <2>1 DEF Offer
<1>4. NoSlot # 0 /\ NoSlot # 1 BY Ranges
<1>5. CASE ~f0 /\ ~f1
  <2>1. Donor(image) = NoSlot BY <1>2, <1>5
  <2>2. \A w : ~Held(image, w) BY <1>3, <1>5
  <2>3. BestBoxes(image, 0) BY <2>2 DEF BestBoxes
  <2> QED BY <2>1, <2>2, <2>3
<1>6. CASE f0 /\ (f1 => v1 <= v0) /\ Donor(image) = 0
  <2>1. Held(image, v0) BY <1>3, <1>6
  <2>2. \A w : Held(image, w) => w <= v0 BY <1>3, <1>6
  <2>3. BestBoxes(image, v0) BY <2>1, <2>2, Zenon DEF BestBoxes
  <2>4. \A id \in StorageIds : Lent(image[0]).payload[id] = Chunk(v0, id)
    BY <1>6 DEF Offer
  <2>5. \A id \in StorageIds : Lent(image[Donor(image)]).payload[id] = Chunk(v0, id)
    BY <1>6, <2>4
  <2> QED BY <1>4, <1>6, <2>1, <2>3, <2>5
<1>7. CASE f1 /\ (f0 => v0 <= v1) /\ Donor(image) = 1
  <2>1. Held(image, v1) BY <1>3, <1>7
  <2>2. \A w : Held(image, w) => w <= v1 BY <1>3, <1>7
  <2>3. BestBoxes(image, v1) BY <2>1, <2>2, Zenon DEF BestBoxes
  <2>4. \A id \in StorageIds : Lent(image[1]).payload[id] = Chunk(v1, id)
    BY <1>7 DEF Offer
  <2>5. \A id \in StorageIds : Lent(image[Donor(image)]).payload[id] = Chunk(v1, id)
    BY <1>7, <2>4
  <2> QED BY <1>4, <1>7, <2>1, <2>3, <2>5
<1> QED BY <1>1, <1>2, <1>5, <1>6, <1>7 DEF Ordered

\* A slot that reads as generation c, and one that yields to the generation n.
Adoptable(half, c) ==
  /\ ScanSlot(half).integrity = "Ok" /\ ScanSlot(half).counter = c
  /\ ScanSlot(half).legacy = IsLegacy(half) /\ IsLegacy(half) \in BOOLEAN
  /\ ~IsLegacy(half) => ScanSlot(half).storage_counter # NoCounter
Lesser(half, n) ==
  \/ ScanSlot(half).integrity \in {"Empty", "Error"}
  \/ \E c \in Counter : n = NextCounter(c) /\ Adoptable(half, c)

LEMMA VerdictIs ==
  ASSUME NEW image, NEW s \in Slots, NEW n \in Counter,
         s = PhysicalSlotForCounter(n),
         Adoptable(image[s], n), Lesser(image[1 - s], n)
  PROVE  /\ Verdict(image).status \in {"Ok", "Error"}
         /\ Verdict(image).counter = n
         /\ Verdict(image).legacy = IsLegacy(image[s])
         /\ Verdict(image).storage_from_slot =
              IF IsLegacy(image[s]) THEN Donor(image) ELSE NoSlot
<1> DEFINE scan == Scans(image)
           intact == {t \in {0, 1} : scan[t].integrity = "Ok"}
           only == CHOOSE t \in intact : TRUE
           lg == IsLegacy(image[s])
<1>1. /\ Slots = {0, 1} /\ s \in {0, 1} /\ 1 - s \in {0, 1} /\ s # 1 - s
      /\ {s, 1 - s} = {0, 1} /\ 1 - (1 - s) = s
  BY DEF Slots
<1>2. /\ scan[s] = ScanSlot(image[s]) /\ scan[1 - s] = ScanSlot(image[1 - s])
      /\ scan[0] = ScanSlot(image[0]) /\ scan[1] = ScanSlot(image[1])
  BY <1>1 DEF Scans
<1>3. Verdict(image) = Resolve(scan) BY DEF Verdict, Scans
<1>4. Resolve(scan) =
     IF intact = {0, 1} THEN ResolveBothOk(scan)
     ELSE IF intact # {}
     THEN Resolution(IF scan[1 - only].integrity = "Error"
                     THEN "Error" ELSE "Ok",
                     scan[only].counter,
                     StorageDonor(scan[only].legacy, scan),
                     scan[only].legacy)
     ELSE Resolution(IF \A t \in {0, 1} : scan[t].integrity = "Empty"
                     THEN "Empty" ELSE "Corrupt",
                     0, NoSlot, FALSE)
  BY DEF Resolve
<1>5. /\ scan[s].integrity = "Ok" /\ scan[s].counter = n /\ scan[s].legacy = lg
      /\ lg \in BOOLEAN
      /\ ~lg => scan[s].storage_counter # NoCounter
  BY <1>2 DEF Adoptable
<1>6. Donor(image) = NewestStorageSet(scan[0].storage_counter, scan[1].storage_counter)
  BY <1>2 DEF Donor
<1>7. StorageDonor(lg, scan) = IF lg THEN Donor(image) ELSE NoSlot
  BY <1>5, <1>6 DEF StorageDonor
<1> HIDE DEF scan, lg
<1>8. CASE scan[1 - s].integrity \in {"Empty", "Error"}
  <2>1. scan[1 - s].integrity # "Ok" BY <1>8
  <2>2. intact = {s} BY <2>1, <1>1, <1>5
  <2>3. only = s
    <3> HIDE DEF intact
    <3> QED BY <2>2
  <2>4. intact # {0, 1} /\ intact # {} BY <2>2, <1>1
  <2>5. Resolve(scan) = Resolution(IF scan[1 - s].integrity = "Error"
                     THEN "Error" ELSE "Ok",
                     scan[s].counter,
                     StorageDonor(scan[s].legacy, scan),
                     scan[s].legacy)
    <3> HIDE DEF intact, only
    <3> QED BY <2>3, <2>4, <1>4, Zenon
  <2>6. Resolve(scan) = Resolution(IF scan[1 - s].integrity = "Error"
                     THEN "Error" ELSE "Ok", n, StorageDonor(lg, scan), lg)
    BY <1>5, <2>5
  <2> QED BY <1>3, <1>7, <2>6 DEF Resolution, lg
<1>9. ASSUME NEW c \in Counter, n = NextCounter(c), Adoptable(image[1 - s], c)
      PROVE  Resolve(scan) = Resolution("Ok", n, IF lg THEN Donor(image) ELSE NoSlot, lg)
  <2> DEFINE og == IsLegacy(image[1 - s])
  <2>1. /\ scan[1 - s].integrity = "Ok" /\ scan[1 - s].counter = c
        /\ scan[1 - s].legacy = og /\ og \in BOOLEAN
        /\ ~og => scan[1 - s].storage_counter # NoCounter
    BY <1>2, <1>9 DEF Adoptable
  <2> HIDE DEF og
  <2>2. intact = {0, 1} BY <2>1, <1>1, <1>5
  <2>3. Resolve(scan) = ResolveBothOk(scan) BY <2>2, <1>4
  <2>4. SecondCounterIsNewer(c, n) /\ ~SecondCounterIsNewer(n, c) BY <1>9, NextIsNewer
  <2>5. CASE lg = og
    <3>1. scan[0].legacy = lg /\ scan[1].legacy = lg BY <1>1, <1>5, <2>1, <2>5
    <3>2. ResolveBothOk(scan) = Resolution("Ok",
         IF SecondCounterIsNewer(scan[0].counter, scan[1].counter)
         THEN scan[1].counter ELSE scan[0].counter,
         StorageDonor(lg, scan), lg)
      BY <3>1 DEF ResolveBothOk
    <3>3. (IF SecondCounterIsNewer(scan[0].counter, scan[1].counter)
         THEN scan[1].counter ELSE scan[0].counter) = n
      BY <1>1, <1>5, <2>1, <2>4
    <3> QED BY <1>7, <2>3, <3>2, <3>3
  <2>6. CASE lg # og
    <3> DEFINE legacy == IF scan[0].legacy THEN 0 ELSE 1
               full == 1 - legacy
               offered == [t \in {0, 1} |->
                 IF t = full THEN FullStorageCounter(scan[t])
                 ELSE scan[t].storage_counter]
    <3>1. ~(scan[0].legacy = scan[1].legacy) BY <1>1, <1>5, <2>1, <2>6
    <3>2. ResolveBothOk(scan) =
            IF SecondCounterIsNewer(scan[full].counter, scan[legacy].counter)
            THEN Resolution("Ok", scan[legacy].counter,
                   NewestStorageSet(offered[0], offered[1]), TRUE)
            ELSE Resolution("Ok", scan[full].counter, NoSlot, FALSE)
      BY <3>1, Zenon DEF ResolveBothOk
    <3>3. CASE lg
      <4>1. lg = TRUE /\ og = FALSE BY <1>5, <2>1, <2>6, <3>3
      <4>2. legacy = s /\ full = 1 - s BY <1>1, <1>5, <2>1, <4>1
      <4>3. FullStorageCounter(scan[1 - s]) = scan[1 - s].storage_counter
        BY <2>1, <4>1 DEF FullStorageCounter
      <4>4. offered[0] = scan[0].storage_counter /\ offered[1] = scan[1].storage_counter
        <5> HIDE DEF legacy, full
        <5>1. \A t \in {0, 1} : offered[t] = IF t = full THEN FullStorageCounter(scan[t])
                                            ELSE scan[t].storage_counter
          OBVIOUS
        <5> HIDE DEF offered
        <5> QED BY <4>2, <4>3, <5>1, <1>1
      <4> HIDE DEF legacy, full, offered
      <4>5. ResolveBothOk(scan) = Resolution("Ok", n, Donor(image), TRUE)
        BY <1>5, <1>6, <2>1, <2>4, <3>2, <4>2, <4>4
      <4> QED BY <2>3, <4>1, <4>5
    <3>4. CASE ~lg
      <4>1. lg = FALSE /\ og = TRUE BY <1>5, <2>1, <2>6, <3>4
      <4>2. legacy = 1 - s /\ full = s BY <1>1, <1>5, <2>1, <4>1
      <4> HIDE DEF legacy, full, offered
      <4>3. ResolveBothOk(scan) = Resolution("Ok", n, NoSlot, FALSE)
        BY <1>5, <2>1, <2>4, <3>2, <4>2
      <4> QED BY <2>3, <4>1, <4>3
    <3> QED BY <3>3, <3>4
  <2> QED BY <2>5, <2>6
<1>10. CASE \E c \in Counter : n = NextCounter(c) /\ Adoptable(image[1 - s], c)
  <2>1. Resolve(scan) = Resolution("Ok", n, IF lg THEN Donor(image) ELSE NoSlot, lg)
    BY <1>9, <1>10
  <2> QED BY <1>3, <2>1 DEF Resolution, lg
<1> QED BY <1>2, <1>8, <1>10 DEF Lesser

\* What a load returns: the newest generation's blocks, and the newest boxes.
Loaded(image, s, n, last, b, x) ==
  /\ Load(image).status \in {"Ok", "Error"}
  /\ Load(image).counter = n
  /\ Load(image).last = last
  /\ Load(image).source = "Own" <=> ~IsLegacy(image[s])
  /\ IsLegacy(image[s]) =>
       (Load(image).source = "LegacyWithoutDonor" <=> \A w : ~Held(image, w))
  /\ Verdict(image).legacy = IsLegacy(image[s])
  /\ Carries(Load(image).base, b, x)
  /\ BestBoxes(image, x)

LEMMA ToldOffers ==
  ASSUME NEW half, NEW n, NEW c, NEW last, NEW b, NEW offers, NEW oa, NEW v,
         c # NoCounter, Told(half, c, last, b, offers, WrappingSub(n, oa), v)
  PROVE  Offer(half, n, offers, oa, v) /\ Adoptable(half, c)
BY DEF Told, Offer, Adoptable

LEMMA LoadIs ==
  ASSUME NEW image, NEW s \in Slots, NEW n \in Counter, s = PhysicalSlotForCounter(n),
         NEW last, NEW b, NEW fs, NEW as \in Nat, NEW vs \in Nat,
         NEW fo, NEW ao \in Nat, NEW vo \in Nat,
         2 * as < CounterModulus, 2 * ao < CounterModulus,
         Told(image[s], n, last, b, fs, WrappingSub(n, as), vs),
         Offer(image[1 - s], n, fo, ao, vo), Lesser(image[1 - s], n),
         Ordered(fs, as, vs, fo, ao, vo),
         fs /\ fo /\ ~IsLegacy(image[s]) => vo <= vs
  PROVE  \E x \in Nat : Loaded(image, s, n, last, b, x)
<1> DEFINE lg == IsLegacy(image[s])
           res == Verdict(image)
           donor == res.storage_from_slot
           donated == IF donor = NoSlot THEN [last |-> 0]
                      ELSE CopyValidSlotPayloads(image[donor], FALSE, 0)
           copied == CopyValidSlotPayloads(image[PhysicalSlotForCounter(res.counter)],
                                           res.legacy, donated.last)
<1>1. n # NoCounter BY CounterModulusAssumption DEF Counter, NoCounter
<1>2. Offer(image[s], n, fs, as, vs) /\ Adoptable(image[s], n) BY <1>1, ToldOffers
<1>3. /\ res.status \in {"Ok", "Error"} /\ res.counter = n
      /\ res.legacy = lg /\ lg \in BOOLEAN
      /\ donor = IF lg THEN Donor(image) ELSE NoSlot
  BY <1>2, VerdictIs DEF Told
<1>4. PICK x \in Nat :
        /\ BestBoxes(image, x)
        /\ Donor(image) = NoSlot <=> \A w : ~Held(image, w)
        /\ Donor(image) = NoSlot => x = 0
        /\ Donor(image) # NoSlot =>
             \A id \in StorageIds : Lent(image[Donor(image)]).payload[id] = Chunk(x, id)
  <2>1. CASE s = 0
    <3>1. 1 - s = 1 BY <2>1
    <3> QED BY <1>2, <2>1, <3>1, DonorBest
  <2>2. CASE s = 1
    <3>1. 1 - s = 0 BY <2>2
    <3>2. Ordered(fo, ao, vo, fs, as, vs) BY DEF Ordered
    <3>3. Offer(image[0], n, fo, ao, vo) /\ Offer(image[1], n, fs, as, vs)
      BY <1>2, <2>2, <3>1
    <3> QED BY <3>2, <3>3, DonorBest
  <2> QED BY <2>1, <2>2 DEF Slots
<1>5. Load(image) = Rebuilt(res, donated, copied)
  <2>1. Load(image) = CopyAdopted(image, res, donated)
    <3> HIDE DEF donated
    <3> QED BY Zenon DEF Load, CopyAfterDonor, res, donated, donor
  <2> QED BY <2>1 DEF CopyAdopted
<1>6. /\ copied.last = last
      /\ \A id \in SaveBlockIds : copied.payload[id] = Chunk(b, id)
      /\ \A id \in StorageIds : copied.payload[id]
           = IF lg THEN Chunk(0, id) ELSE Chunk(vs, id)
  <2> DEFINE bf == donated.last
  <2>1. copied = Copied(image[s], bf)
    <3> HIDE DEF donated, lg, res
    <3> QED BY <1>3 DEF Copied, lg
  <2> HIDE DEF copied, bf, donated
  <2>2. \A before : /\ Copied(image[s], before).last = last
                    /\ \A id \in SaveBlockIds : Copied(image[s], before).payload[id] = Chunk(b, id)
                    /\ \A id \in StorageIds : Copied(image[s], before).payload[id]
                         = IF lg THEN Chunk(0, id) ELSE Chunk(vs, id)
    BY DEF Told
  <2> HIDE DEF lg
  <2> QED BY <2>1, <2>2
<1>7. donor # NoSlot => \A id \in SectorIds : donated.payload[id] = Lent(image[donor]).payload[id]
  <2> SUFFICES ASSUME donor # NoSlot PROVE donated = Lent(image[donor]) OBVIOUS
  <2> HIDE DEF donor, res
  <2> QED BY DEF Lent
<1> HIDE DEF copied, donated, res
<1>8. /\ Rebuilt(res, donated, copied).status = res.status
      /\ Rebuilt(res, donated, copied).counter = res.counter
      /\ Rebuilt(res, donated, copied).last = copied.last
      /\ Rebuilt(res, donated, copied).source =
           IF ~res.legacy THEN "Own"
           ELSE IF donor = NoSlot THEN "LegacyWithoutDonor" ELSE "LegacyDonor"
      /\ \A id \in SectorIds : Rebuilt(res, donated, copied).base[id]
           = IF id \in StorageIds /\ donor # NoSlot
             THEN donated.payload[id] ELSE copied.payload[id]
  BY DEF Rebuilt
<1>9. /\ \A id \in SaveBlockIds : id \in SectorIds /\ id \notin StorageIds
      /\ \A id \in StorageIds : id \in SectorIds
  BY Ranges
<1>10. /\ Load(image).status \in {"Ok", "Error"}
       /\ Load(image).counter = n
       /\ Load(image).last = last
       /\ Load(image).source = "Own" <=> ~lg
       /\ lg => (Load(image).source = "LegacyWithoutDonor" <=> \A w : ~Held(image, w))
       /\ res.legacy = lg
       /\ \A id \in SaveBlockIds : Load(image).base[id] = Chunk(b, id)
  <2>1. \A id \in SaveBlockIds : Load(image).base[id] = Chunk(b, id)
    BY <1>5, <1>6, <1>8, <1>9
  <2> DEFINE none == \A w : ~Held(image, w)
  <2>2. Donor(image) = NoSlot <=> none BY <1>4
  <2> HIDE DEF none, lg
  <2>3. /\ Load(image).source = "Own" <=> ~lg
        /\ lg => (Load(image).source = "LegacyWithoutDonor" <=> none)
    BY <1>3, <1>5, <1>8, <2>2
  <2>4. /\ Load(image).status \in {"Ok", "Error"}
        /\ Load(image).counter = n /\ Load(image).last = last
    BY <1>3, <1>5, <1>6, <1>8
  <2> QED BY <1>3, <2>1, <2>3, <2>4 DEF none
<1>11. ASSUME NEW y, BestBoxes(image, y), \A id \in StorageIds : Load(image).base[id] = Chunk(y, id)
       PROVE  Loaded(image, s, n, last, b, y)
  <2>1. Carries(Load(image).base, b, y)
    <3>1. \A id \in SectorIds : id \in SaveBlockIds \/ id \in StorageIds BY DEF SectorIds
    <3> QED BY <1>10, <1>11, <3>1, PayloadIs DEF Carries
  <2> QED BY <1>10, <1>11, <2>1 DEF Loaded, res, lg
<1>12. CASE lg /\ Donor(image) # NoSlot
  <2>1. donor = Donor(image) BY <1>3, <1>12
  <2>2. \A id \in StorageIds : donated.payload[id] = Chunk(x, id)
    BY <1>4, <1>7, <1>9, <1>12, <2>1
  <2>3. \A id \in StorageIds : Load(image).base[id] = Chunk(x, id)
    BY <1>5, <1>8, <1>9, <1>12, <2>1, <2>2
  <2> QED BY <1>4, <1>11, <2>3
<1>13. CASE lg /\ Donor(image) = NoSlot
  <2>1. donor = NoSlot /\ x = 0 BY <1>3, <1>4, <1>13
  <2>2. \A id \in StorageIds : Load(image).base[id] = Chunk(x, id)
    BY <1>5, <1>6, <1>8, <1>9, <1>13, <2>1
  <2> QED BY <1>4, <1>11, <2>2
<1>14. CASE ~lg
  <2>1. donor = NoSlot BY <1>3, <1>14
  <2>2. \A id \in StorageIds : Load(image).base[id] = Chunk(vs, id)
    BY <1>5, <1>6, <1>8, <1>9, <1>14, <2>1
  <2>3. fs BY <1>14 DEF Told
  <2>4. BestBoxes(image, vs)
    <3>1. \A w : Held(image, w) <=> HoldsBoxes(image[s], w) \/ HoldsBoxes(image[1 - s], w)
      BY SlotPair DEF Held
    <3>2. \A w : Held(image, w) <=> w = vs \/ (fo /\ w = vo)
      BY <1>2, <2>3, <3>1 DEF Offer
    <3>3. fo => vo <= vs BY <1>14, <2>3
    <3>4. Held(image, vs) BY <3>2
    <3>5. \A w : Held(image, w) => w <= vs BY <3>2, <3>3
    <3> QED BY <3>4, <3>5, Zenon DEF BestBoxes
  <2> QED BY <1>11, <2>2, <2>4
<1> QED BY <1>3, <1>12, <1>13, <1>14

---------------------------------------------------------------------------
(* How a write moves what stands in the slots.                             *)

LEMMA LaidHead ==
  ASSUME NEW image \in Images, NEW q \in HeadPositions, NEW c \in Counter, NEW val, NEW b,
         \A id \in SaveBlockIds : val[id] = Chunk(b, id),
         PhysicalSlotForCounter(c) \in Slots
  PROVE  LET new == LayGeneration(image, SaveBlockIds, SECTOR_ID_PKMN_STORAGE_START, q, c, val)
             half == PhysicalSlotForCounter(c)
         IN /\ \A s \in Slots : s # half => new[s] = image[s]
            /\ HoldsHead(new[half], q, c, b)
            /\ \A i \in TailPositions : new[half][i] = image[half][i]
<1> DEFINE half == PhysicalSlotForCounter(c)
           ids == SaveBlockIds
           at == [id \in ids |-> (id + q) % SECTOR_ID_PKMN_STORAGE_START]
           put(i) == CHOOSE id \in ids : at[id] = i
           laid == [i \in Positions |->
              IF \E id \in ids : at[id] = i
              THEN [WriteSector(put(i), 0, c) EXCEPT !.data = val[put(i)]]
              ELSE image[half][i]]
           new == LayGeneration(image, ids, SECTOR_ID_PKMN_STORAGE_START, q, c, val)
<1>1. new = [image EXCEPT ![half] = laid]
  BY Zenon DEF LayGeneration
<1>2. /\ \A s \in Slots : s # half => new[s] = image[s]
      /\ new[half] = laid
  <2> HIDE DEF laid, half, new
  <2>1. half \in Slots BY DEF half
  <2>2. DOMAIN image = Slots BY DEF Images
  <2> QED BY <1>1, <2>1, <2>2
<1>3. \A id \in ids : at[id] = (id + q) % 5 /\ at[id] \in HeadPositions
  <2>1. \A id \in ids : (id + q) % 5 \in HeadPositions BY HeadRotating
  <2>2. SECTOR_ID_PKMN_STORAGE_START = 5 BY Ranges
  <2> QED BY <2>1, <2>2
<1>4. ASSUME NEW i \in HeadPositions
      PROVE  Reads(laid[i], HeadIdAt(i, q), c, Chunk(b, HeadIdAt(i, q)))
  <2> DEFINE m == HeadIdAt(i, q)
  <2>1. m \in ids /\ i \in Positions BY HeadRotating, Ranges
  <2>2. \A id \in ids : m = id <=> i = (id + q) % 5 BY HeadRotating
  <2> HIDE DEF m
  <2>3. \A id \in ids : at[id] = i <=> m = id
    <3> SUFFICES ASSUME NEW id \in ids PROVE at[id] = i <=> m = id OBVIOUS
    <3>1. at[id] = (id + q) % 5 BY <1>3
    <3>2. m = id <=> i = (id + q) % 5 BY <2>2
    <3> HIDE DEF at, ids
    <3> QED BY <3>1, <3>2
  <2>4. put(i) = m
    <3> HIDE DEF at
    <3> QED BY <2>1, <2>3
  <2>5. laid[i] = [WriteSector(put(i), 0, c) EXCEPT !.data = val[put(i)]]
    <3> HIDE DEF at, put
    <3> QED BY <2>1, <2>3
  <2>6. val[m] = Chunk(b, m) BY <2>1
  <2> HIDE DEF laid, put, at
  <2>7. Reads(laid[i], m, c, Chunk(b, m)) BY <2>4, <2>5, <2>6 DEF WriteSector, Reads
  <2> QED BY <2>7 DEF m
<1>5. ASSUME NEW i \in TailPositions PROVE laid[i] = image[half][i]
  <2>1. i \in Positions /\ i \notin HeadPositions BY Ranges
  <2> HIDE DEF at, put
  <2>2. ~\E id \in ids : at[id] = i BY <1>3, <2>1
  <2> QED BY <2>1, <2>2
<1>6. HoldsHead(laid, q, c, b)
  <2> HIDE DEF laid
  <2> QED BY <1>4 DEF HoldsHead
<1> HIDE DEF laid, new, half
<1>7. /\ HoldsHead(new[half], q, c, b)
      /\ \A i \in TailPositions : new[half][i] = image[half][i]
  BY <1>2, <1>5, <1>6
<1> QED BY <1>2, <1>7 DEF new, half

\* Only a full generation is not a five-sector one.
LEMMA FullStands ==
  ASSUME NEW half, NEW n \in Counter, NEW age \in Nat, NEW last, NEW b, NEW offers,
         NEW oa, NEW v, NEW limit \in Nat, age <= limit, 2 * limit < CounterModulus,
         Stands(half, n, age, last, b, offers, oa, v, limit),
         ~IsLegacy(half)
  PROVE  oa = age
<1> DEFINE c == WrappingSub(n, age)
<1>1. CounterModulus \in Nat /\ CounterModulus >= 4 BY CounterModulusAssumption
<1>2. c \in Counter
  <2>1. age + 1 < CounterModulus BY <1>1
  <2> QED BY <2>1, Ages
<1>3. ASSUME HeadStands(half, n, age, last, b), Blank(half, TailPositions)
      PROVE  FALSE
  <2>1. last \in HeadPositions /\ HoldsHead(half, last, c, b) BY <1>3 DEF HeadStands
  <2> HIDE DEF c
  <2> QED BY <1>3, <2>1, HeadAloneScan
<1>4. ASSUME HeadStands(half, n, age, last, b),
             TailStands(half, n, age, last, offers, oa, v, limit)
      PROVE  FALSE
  <2>1. PICK r \in Positions, d \in Nat, v1 \in Nat :
          /\ TailHolds(half, n, r, d, v1)
          /\ age < d /\ d <= limit
          /\ ~(last = 0 /\ r = 12)
    BY <1>4 DEF TailStands
  <2>2. PICK b1 \in Nat : Holds(half, TailPositions, r, WrappingSub(n, d), b1, v1)
    BY <2>1 DEF TailHolds
  <2>3. last \in HeadPositions /\ HoldsHead(half, last, c, b) BY <1>4 DEF HeadStands
  <2> DEFINE c1 == WrappingSub(n, d)
  <2>4. OlderGenerationPrecedes(c1, c)
    <3>1. 2 * d < CounterModulus /\ 2 * age < CounterModulus BY <2>1, <1>1
    <3> QED BY <2>1, <3>1, AgesOrdered
  <2>5. Holds(half, TailPositions, r, c1, b1, v1) BY <2>2
  <2> HIDE DEF c, c1
  <2> QED BY <1>2, <2>1, <2>3, <2>4, <2>5, HeadScan
<1> QED BY <1>3, <1>4 DEF Stands

\* One write later everything a slot holds is one generation older.
LEMMA TailAges ==
  ASSUME NEW half, NEW n \in Counter, NEW r, NEW d \in Nat, NEW v, NEW limit \in Nat,
         d <= limit, 2 * limit < CounterModulus, TailHolds(half, n, r, d, v)
  PROVE  TailHolds(half, NextCounter(n), r, d + 1, v)
<1>1. CounterModulus \in Nat /\ CounterModulus >= 4 BY CounterModulusAssumption
<1>2. d + 1 < CounterModulus BY <1>1
<1>3. WrappingSub(NextCounter(n), d + 1) = WrappingSub(n, d) BY <1>2, Ages
<1> QED BY <1>3 DEF TailHolds

LEMMA StandsAges ==
  ASSUME NEW half, NEW n \in Counter, NEW age \in Nat, NEW last, NEW b, NEW offers,
         NEW oa \in Nat, NEW v, NEW limit \in Nat, age <= limit,
         2 * limit < CounterModulus,
         Stands(half, n, age, last, b, offers, oa, v, limit)
  PROVE  Stands(half, NextCounter(n), age + 1, last, b, offers, oa + 1, v, limit + 1)
<1>1. CounterModulus \in Nat /\ CounterModulus >= 4 BY CounterModulusAssumption
<1>2. age + 1 < CounterModulus BY <1>1
<1>3. WrappingSub(NextCounter(n), age + 1) = WrappingSub(n, age) BY <1>2, Ages
<1>4. HeadStands(half, n, age, last, b) => HeadStands(half, NextCounter(n), age + 1, last, b)
  BY <1>3 DEF HeadStands
<1>5. ASSUME TailStands(half, n, age, last, offers, oa, v, limit)
      PROVE  TailStands(half, NextCounter(n), age + 1, last, offers, oa + 1, v, limit + 1)
  <2>1. PICK r \in Positions, d \in Nat, v1 \in Nat :
          /\ TailHolds(half, n, r, d, v1)
          /\ age < d /\ d <= limit
          /\ ~(last = 0 /\ r = 12)
          /\ offers <=> r = 0
          /\ offers => oa = d /\ v = v1
    BY <1>5 DEF TailStands
  <2>2. TailHolds(half, NextCounter(n), r, d + 1, v1) BY <2>1, TailAges
  <2>3. d + 1 \in Nat /\ age + 1 < d + 1 /\ d + 1 <= limit + 1 BY <2>1
  <2>4. offers => oa + 1 = d + 1 /\ v = v1 BY <2>1
  <2> QED BY <2>1, <2>2, <2>3, <2>4 DEF TailStands
<1> QED BY <1>3, <1>4, <1>5 DEF Stands

LEMMA StandsLonger ==
  ASSUME NEW half, NEW n, NEW age, NEW last, NEW b, NEW offers,
         NEW oa, NEW v, NEW limit \in Nat,
         Stands(half, n, age, last, b, offers, oa, v, limit)
  PROVE  Stands(half, n, age, last, b, offers, oa, v, limit + 1)
<1>1. \A d \in Nat : d <= limit => d <= limit + 1 OBVIOUS
<1>2. TailStands(half, n, age, last, offers, oa, v, limit)
        => TailStands(half, n, age, last, offers, oa, v, limit + 1)
  BY <1>1 DEF TailStands
<1> QED BY <1>2 DEF Stands

LEMMA StandsFresh ==
  ASSUME NEW half, NEW n \in Counter, NEW r \in Positions, NEW b, NEW v, NEW limit,
         Holds(half, Positions, r, n, b, v)
  PROVE  Stands(half, n, 0, r, b, TRUE, 0, v, limit)
<1>1. CounterModulus \in Nat /\ CounterModulus >= 4 BY CounterModulusAssumption
<1>2. WrappingSub(n, 0) = n BY <1>1, Ages
<1> QED BY <1>2 DEF Stands

\* A head written over the remains of older writes is told or refused.
Rejected(half, n, limit) ==
  \E d \in Nat, b, v \in Nat :
    /\ 0 < d /\ d <= limit
    /\ HoldsHead(half, 0, NextCounter(n), b)
    /\ TailHolds(half, n, 12, d, v)
SameTail(new, half) == \A i \in TailPositions : new[i] = half[i]
HeadTaken(new, n, q, b, f, a, v, limit) ==
  IsLegacy(new) /\ Stands(new, NextCounter(n), 0, q, b, f, a, v, limit)

LEMMA HeadOverTail ==
  ASSUME NEW new, NEW n \in Counter, NEW q \in HeadPositions, NEW b \in Nat, NEW r \in Positions,
         NEW d \in Nat, NEW v \in Nat, NEW limit \in Nat, 0 < d, d <= limit,
         2 * (limit + 1) < CounterModulus,
         HoldsHead(new, q, NextCounter(n), b), TailHolds(new, n, r, d, v)
  PROVE  \/ Rejected(new, n, limit)
         \/ HeadTaken(new, n, q, b, r = 0, d + 1, v, limit + 1)
<1>1. CounterModulus \in Nat /\ CounterModulus >= 4 BY CounterModulusAssumption
<1>2. CASE q = 0 /\ r = 12
  BY <1>2 DEF Rejected
<1>3. CASE ~(q = 0 /\ r = 12)
  <2>1. NextCounter(n) \in Counter BY Parity
  <2>2. WrappingSub(NextCounter(n), 0) = NextCounter(n) BY <1>1, <2>1, Ages
  <2>3. HeadStands(new, NextCounter(n), 0, q, b) BY <2>2 DEF HeadStands
  <2>4. TailHolds(new, NextCounter(n), r, d + 1, v)
    <3>1. 2 * limit < CounterModulus BY <1>1
    <3> QED BY <3>1, TailAges
  <2>5. d + 1 \in Nat /\ 0 < d + 1 /\ d + 1 <= limit + 1 OBVIOUS
  <2>6. TailStands(new, NextCounter(n), 0, q, r = 0, d + 1, v, limit + 1)
    BY <1>3, <2>4, <2>5 DEF TailStands
  <2>7. (r = 0) \in BOOLEAN OBVIOUS
  <2>8. IsLegacy(new)
    <3> DEFINE c == NextCounter(n)
               c1 == WrappingSub(c, d + 1)
    <3>1. PICK b1 \in Nat : Holds(new, TailPositions, r, c1, b1, v)
      BY <2>4 DEF TailHolds
    <3>2. OlderGenerationPrecedes(c1, c)
      <4>1. 2 * (d + 1) < CounterModulus /\ 2 * 0 < CounterModulus /\ 0 \in Nat BY <1>1
      <4>2. OlderGenerationPrecedes(c1, WrappingSub(c, 0)) <=> 0 < d + 1
        BY <2>1, <2>5, <4>1, AgesOrdered
      <4> QED BY <2>2, <2>5, <4>2
    <3> HIDE DEF c1
    <3> QED BY <1>3, <2>1, <3>1, <3>2, HeadScan
  <2> QED BY <2>3, <2>6, <2>7, <2>8 DEF Stands, HeadTaken
<1> QED BY <1>2, <1>3

LEMMA HeadOverBlank ==
  ASSUME NEW new, NEW n \in Counter, NEW q \in HeadPositions, NEW b \in Nat, NEW limit,
         HoldsHead(new, q, NextCounter(n), b), Blank(new, TailPositions)
  PROVE  HeadTaken(new, n, q, b, FALSE, 0, 0, limit)
<1>1. CounterModulus \in Nat /\ CounterModulus >= 4 BY CounterModulusAssumption
<1>2. NextCounter(n) \in Counter BY Parity
<1>3. WrappingSub(NextCounter(n), 0) = NextCounter(n) BY <1>1, <1>2, Ages
<1>4. IsLegacy(new) BY HeadAloneScan
<1> QED BY <1>3, <1>4 DEF HeadTaken, HeadStands, Stands

\* Over a slot that stood one generation behind, boxes are at most lost.
LEMMA HeadOverStands ==
  ASSUME NEW new, NEW half, NEW n \in Counter, NEW q \in HeadPositions, NEW b \in Nat,
         NEW last, NEW b1 \in Nat, NEW f, NEW a \in Nat, NEW v \in Nat, NEW limit \in Nat,
         1 <= limit, 2 * (limit + 1) < CounterModulus,
         HoldsHead(new, q, NextCounter(n), b), SameTail(new, half),
         Stands(half, n, 1, last, b1, f, a, v, limit)
  PROVE  \/ Rejected(new, n, limit)
         \/ HeadTaken(new, n, q, b, FALSE, 0, 0, limit + 1)
         \/ f /\ HeadTaken(new, n, q, b, TRUE, a + 1, v, limit + 1)
<1>1. ASSUME NEW r \in Positions, NEW d \in Nat, NEW v1 \in Nat, 0 < d, d <= limit,
             TailHolds(half, n, r, d, v1), r = 0 => f /\ a = d /\ v = v1
      PROVE  \/ Rejected(new, n, limit)
             \/ HeadTaken(new, n, q, b, FALSE, 0, 0, limit + 1)
             \/ f /\ HeadTaken(new, n, q, b, TRUE, a + 1, v, limit + 1)
  <2>1. TailHolds(new, n, r, d, v1) BY <1>1 DEF TailHolds, Holds, SameTail
  <2>2. \/ Rejected(new, n, limit)
        \/ HeadTaken(new, n, q, b, r = 0, d + 1, v1, limit + 1)
    BY <1>1, <2>1, HeadOverTail
  <2>3. CASE r = 0
    <3>1. (r = 0) = TRUE BY <2>3
    <3> QED BY <1>1, <2>2, <2>3, <3>1
  <2>4. CASE r # 0 /\ HeadTaken(new, n, q, b, r = 0, d + 1, v1, limit + 1)
    <3>1. (r = 0) = FALSE BY <2>4
    <3>2. HeadTaken(new, n, q, b, FALSE, d + 1, v1, limit + 1) BY <2>4, <3>1
    <3>3. HeadTaken(new, n, q, b, FALSE, 0, 0, limit + 1)
      BY <3>2 DEF HeadTaken, Stands, TailStands
    <3> QED BY <3>3
  <2> QED BY <2>2, <2>3, <2>4
<1>2. CASE /\ f /\ a = 1 /\ last \in Positions
           /\ Holds(half, Positions, last, WrappingSub(n, 1), b1, v)
  <2>1. TailPositions \subseteq Positions BY Ranges
  <2>2. Holds(half, TailPositions, last, WrappingSub(n, 1), b1, v)
    BY <1>2, <2>1 DEF Holds
  <2>3. TailHolds(half, n, last, 1, v) BY <2>2 DEF TailHolds
  <2>4. 1 \in Nat /\ 0 < 1 OBVIOUS
  <2> QED BY <1>1, <1>2, <2>3, <2>4
<1>3. CASE Blank(half, TailPositions)
  <2>1. Blank(new, TailPositions) BY <1>3 DEF Blank, SameTail
  <2> QED BY <2>1, HeadOverBlank
<1>4. CASE TailStands(half, n, 1, last, f, a, v, limit)
  <2>1. PICK r \in Positions, d \in Nat, v1 \in Nat :
          /\ TailHolds(half, n, r, d, v1)
          /\ 1 < d /\ d <= limit
          /\ f <=> r = 0
          /\ f => a = d /\ v = v1
    BY <1>4 DEF TailStands
  <2>2. r = 0 => f /\ a = d /\ v = v1 BY <2>1
  <2>3. 0 < d BY <2>1
  <2> QED BY <1>1, <2>1, <2>2, <2>3
<1> QED BY <1>2, <1>3, <1>4 DEF Stands
LEMMA HeadOverRejected ==
  ASSUME NEW new, NEW half, NEW n \in Counter, NEW q \in HeadPositions, NEW b \in Nat,
         NEW limit \in Nat, 2 * (limit + 1) < CounterModulus,
         HoldsHead(new, q, NextCounter(n), b), SameTail(new, half),
         Rejected(half, n, limit)
  PROVE  \/ Rejected(new, n, limit)
         \/ HeadTaken(new, n, q, b, FALSE, 0, 0, limit + 1)
<1>1. PICK d \in Nat, v \in Nat : 0 < d /\ d <= limit /\ TailHolds(half, n, 12, d, v)
  BY DEF Rejected
<1>2. TailHolds(new, n, 12, d, v) BY <1>1 DEF TailHolds, Holds, SameTail
<1>3. 12 \in Positions /\ (12 = 0) = FALSE BY Ranges
<1>4. \/ Rejected(new, n, limit)
      \/ HeadTaken(new, n, q, b, 12 = 0, d + 1, v, limit + 1)
  BY <1>1, <1>2, <1>3, HeadOverTail
<1>5. HeadTaken(new, n, q, b, FALSE, d + 1, v, limit + 1)
        => HeadTaken(new, n, q, b, FALSE, 0, 0, limit + 1)
  BY DEF HeadTaken, Stands, TailStands
<1> QED BY <1>3, <1>4, <1>5

---------------------------------------------------------------------------
(* The two slots while nothing has failed.                                 *)

\* What the history recorded of a slot that stands.
Recorded(image, w, s, b, v) ==
  w[s] = IF IsLegacy(image[s]) THEN Generation("legacy", b, 0)
         ELSE Generation("full", b, v)
Within(k, last, b, f, a, v) ==
  last \in Positions /\ b \in 0 .. k /\ f \in BOOLEAN /\ a \in 0 .. k - 1 /\ v \in 0 .. k

\* The newest generation, and what stands beside it: nothing yet, a head taken
\* for a torn write, or the generation before.
Top(image, w, s, n, k, last, b, f, a, v) ==
  /\ Within(k, last, b, f, a, v)
  /\ Stands(image[s], n, 0, last, b, f, a, v, k - 1)
  /\ Recorded(image, w, s, b, v)
Former(image, w, o, n, k, b, f, a, v, last1, b1, f1, a1, v1) ==
  /\ Within(k, last1, b1, f1, a1, v1) /\ b1 <= b
  /\ Stands(image[o], n, 1, last1, b1, f1, a1, v1, k - 1)
  /\ Recorded(image, w, o, b1, v1)
  /\ Ordered(f, a, v, f1, a1, v1)
Under(image, w, o, n, k, b, f, a, v) ==
  \/ NeverWritten(image, w, o)
  \/ /\ Rejected(image[o], n, k - 1)
     /\ \E b1 : w[o] = Generation("legacy", b1, 0)
  \/ \E last1, b1, f1, a1, v1 : Former(image, w, o, n, k, b, f, a, v, last1, b1, f1, a1, v1)
Paired(image, w, n, k) ==
  /\ n \in Counter /\ k \in Nat /\ 2 <= k /\ 2 * (k - 1) < CounterModulus
  /\ \E last, b, f, a, v :
       /\ Top(image, w, PhysicalSlotForCounter(n), n, k, last, b, f, a, v)
       /\ Under(image, w, 1 - PhysicalSlotForCounter(n), n, k, b, f, a, v)

LEMMA FormerTold ==
  ASSUME NEW half, NEW n \in Counter, NEW k \in Nat, 2 <= k, 2 * (k - 1) < CounterModulus,
         NEW last, NEW b, NEW f, NEW a \in 0 .. k - 1, NEW v,
         Stands(half, n, 1, last, b, f, a, v, k - 1)
  PROVE  Offer(half, n, f, a, v) /\ Lesser(half, n)
<1>1. CounterModulus \in Nat /\ CounterModulus >= 4 BY CounterModulusAssumption
<1>2. k - 1 \in Nat /\ 1 \in Nat /\ 1 <= k - 1 /\ a \in Nat OBVIOUS
<1> DEFINE c == WrappingSub(n, 1)
           limit == k - 1
<1>3. limit \in Nat /\ 1 <= limit /\ 2 * limit < CounterModulus BY <1>2
<1>4. Stands(half, n, 1, last, b, f, a, v, limit) OBVIOUS
<1> HIDE DEF limit
<1>5. Told(half, WrappingSub(n, 1), last, b, f, WrappingSub(n, a), v)
  BY <1>2, <1>3, <1>4, StandsTold
<1>6. c \in Counter /\ NextCounter(c) = n
  <2>1. 1 + 1 < CounterModulus BY <1>1
  <2> QED BY <1>2, <2>1, Ages
<1>7. c # NoCounter BY <1>1, <1>6 DEF Counter, NoCounter
<1> HIDE DEF c
<1>8. Told(half, c, last, b, f, WrappingSub(n, a), v) BY <1>5 DEF c
<1>9. Offer(half, n, f, a, v) /\ Adoptable(half, c) BY <1>7, <1>8, ToldOffers
<1> QED BY <1>6, <1>9 DEF Lesser

LEMMA UntoldOffers ==
  ASSUME NEW half, NEW n, Untold(half)
  PROVE  Offer(half, n, FALSE, 0, 0) /\ Lesser(half, n)
BY DEF Untold, Offer, Lesser

LEMMA RejectedUntold ==
  ASSUME NEW half, NEW n, NEW limit, Rejected(half, n, limit)
  PROVE  Untold(half)
<1>1. PICK d \in Nat, b \in Nat, v \in Nat :
        /\ HoldsHead(half, 0, NextCounter(n), b)
        /\ TailHolds(half, n, 12, d, v)
  BY DEF Rejected
<1>2. PICK b1 \in Nat : Holds(half, TailPositions, 12, WrappingSub(n, d), b1, v)
  BY <1>1 DEF TailHolds
<1> QED BY <1>1, <1>2, RefusedUntold

\* What stands beside the newest yields to it, and its boxes keep the order.
LEMMA UnderYields ==
  ASSUME NEW image, NEW w, NEW o, NEW n \in Counter, NEW k \in Nat, 2 <= k,
         2 * (k - 1) < CounterModulus, NEW b, NEW f \in BOOLEAN, NEW a, NEW v,
         Under(image, w, o, n, k, b, f, a, v)
  PROVE  /\ Lesser(image[o], n)
         /\ \E f1, a1, v1 :
              /\ a1 \in 0 .. k - 1 /\ v1 \in 0 .. k
              /\ Offer(image[o], n, f1, a1, v1)
              /\ Ordered(f, a, v, f1, a1, v1)
<1> DEFINE sl == image[o]
<1>1. 0 \in 0 .. k - 1 /\ 0 \in 0 .. k OBVIOUS
<1>2. Ordered(f, a, v, FALSE, 0, 0) BY DEF Ordered
<1>3. Untold(sl) => Lesser(sl, n) /\ Offer(sl, n, FALSE, 0, 0) BY UntoldOffers
<1>4. CASE NeverWritten(image, w, o)
  <2>1. Blank(sl, Positions) BY <1>4 DEF NeverWritten
  <2> HIDE DEF sl
  <2>2. Untold(sl) BY <2>1, BlankUntold
  <2> QED BY <1>1, <1>2, <1>3, <2>2 DEF sl
<1>5. CASE Rejected(image[o], n, k - 1)
  <2>1. Rejected(sl, n, k - 1) BY <1>5
  <2> HIDE DEF sl
  <2>2. Untold(sl) BY <2>1, RejectedUntold
  <2> QED BY <1>1, <1>2, <1>3, <2>2 DEF sl
<1>6. ASSUME NEW last1, NEW b1, NEW f1, NEW a1, NEW v1,
             Former(image, w, o, n, k, b, f, a, v, last1, b1, f1, a1, v1)
      PROVE  /\ Lesser(sl, n) /\ Offer(sl, n, f1, a1, v1)
             /\ a1 \in 0 .. k - 1 /\ v1 \in 0 .. k
             /\ Ordered(f, a, v, f1, a1, v1)
  <2>1. /\ a1 \in 0 .. k - 1 /\ v1 \in 0 .. k
        /\ Stands(sl, n, 1, last1, b1, f1, a1, v1, k - 1)
        /\ Ordered(f, a, v, f1, a1, v1)
    BY <1>6 DEF Former, Within
  <2> HIDE DEF sl
  <2> QED BY <2>1, FormerTold
<1> HIDE DEF sl
<1>7. CASE \E last1, b1, f1, a1, v1 : Former(image, w, o, n, k, b, f, a, v, last1, b1, f1, a1, v1)
  BY <1>6, <1>7 DEF sl
<1> QED BY <1>4, <1>5, <1>7 DEF Under

\* The newest generation is what a load returns.
LEMMA LoadTop ==
  ASSUME NEW image, NEW w, NEW s \in Slots, NEW n \in Counter, NEW k \in Nat, 2 <= k,
         2 * (k - 1) < CounterModulus, s = PhysicalSlotForCounter(n),
         NEW last, NEW b, NEW f, NEW a, NEW v,
         Top(image, w, s, n, k, last, b, f, a, v),
         Under(image, w, 1 - s, n, k, b, f, a, v)
  PROVE  \E x \in 0 .. k : Loaded(image, s, n, last, b, x)
<1> DEFINE limit == k - 1
           sl == image[s]
           so == image[1 - s]
<1>1. CounterModulus \in Nat /\ CounterModulus >= 4 BY CounterModulusAssumption
<1>2. limit \in Nat /\ 1 <= limit /\ 2 * limit < CounterModulus OBVIOUS
<1>3. /\ Stands(sl, n, 0, last, b, f, a, v, limit)
      /\ f \in BOOLEAN /\ a \in 0 .. limit /\ v \in 0 .. k
  BY DEF Top, Within
<1>4. Under(image, w, 1 - s, n, k, b, f, a, v) OBVIOUS
<1>5. PICK f1, a1, v1 :
        /\ Lesser(so, n)
        /\ a1 \in 0 .. limit /\ v1 \in 0 .. k
        /\ Offer(so, n, f1, a1, v1)
        /\ Ordered(f, a, v, f1, a1, v1)
  BY <1>3, <1>4, UnderYields
<1> HIDE DEF limit
<1>6. a \in Nat /\ a1 \in Nat /\ v \in Nat /\ v1 \in Nat /\ 0 <= limit /\ 0 \in Nat
      /\ 2 * a < CounterModulus /\ 2 * a1 < CounterModulus
  BY <1>1, <1>2, <1>3, <1>5
<1>7. WrappingSub(n, 0) = n
  <2>1. 0 + 1 < CounterModulus BY <1>1
  <2> QED BY <1>6, <2>1, Ages
<1> HIDE DEF sl, so
<1>8. Told(sl, WrappingSub(n, 0), last, b, f, WrappingSub(n, a), v)
  BY <1>2, <1>3, <1>6, StandsTold
<1>9. ~IsLegacy(sl) => a = 0 BY <1>2, <1>3, <1>6, FullStands
<1>10. f /\ f1 /\ ~IsLegacy(sl) => v1 <= v
  BY <1>5, <1>6, <1>9 DEF Ordered
<1>11. PICK x \in Nat : Loaded(image, s, n, last, b, x)
  <2>1. Told(image[s], n, last, b, f, WrappingSub(n, a), v) BY <1>7, <1>8 DEF sl
  <2>2. Offer(image[1 - s], n, f1, a1, v1) /\ Lesser(image[1 - s], n) BY <1>5 DEF so
  <2>3. f /\ f1 /\ ~IsLegacy(image[s]) => v1 <= v BY <1>10 DEF sl
  <2> QED BY <1>5, <1>6, <2>1, <2>2, <2>3, LoadIs
<1>12. x \in 0 .. k
  <2>1. BestBoxes(image, x) BY <1>11 DEF Loaded
  <2>2. CASE x = 0
    BY <2>2
  <2>3. CASE Held(image, x)
    <3>1. HoldsBoxes(sl, x) \/ HoldsBoxes(so, x) BY <2>3, SlotPair DEF Held, sl, so
    <3>2. HoldsBoxes(sl, x) => x = v BY <1>8 DEF Told
    <3>3. HoldsBoxes(so, x) => x = v1 BY <1>5 DEF Offer
    <3> QED BY <1>3, <1>5, <3>1, <3>2, <3>3
  <2> QED BY <2>1, <2>2, <2>3 DEF BestBoxes
<1> QED BY <1>11, <1>12

LEMMA WithinLonger ==
  ASSUME NEW k \in Nat, NEW last, NEW b, NEW f, NEW a, NEW v, Within(k, last, b, f, a, v)
  PROVE  Within(k + 1, last, b, f, a, v) /\ Within(k + 1, last, b, f, a + 1, v)
BY DEF Within

LEMMA FullNotLegacy ==
  ASSUME NEW half, NEW r \in Positions, NEW c, NEW b, NEW v,
         Holds(half, Positions, r, c, b, v)
  PROVE  ~IsLegacy(half)
<1>1. ScanSlot(half).legacy = FALSE BY FullScan
<1> QED BY <1>1, ScanIs

\* The newest slot is the former one after the next write.
LEMMA TopAges ==
  ASSUME NEW image, NEW new, NEW w, NEW w1, NEW s, NEW n \in Counter, NEW k \in Nat,
         2 <= k, 2 * k < CounterModulus,
         NEW last, NEW b, NEW f, NEW a, NEW v,
         Top(image, w, s, n, k, last, b, f, a, v),
         new[s] = image[s], w1[s] = w[s],
         NEW f1, NEW a1, NEW v1, Ordered(f1, a1, v1, f, a + 1, v)
  PROVE  Under(new, w1, s, NextCounter(n), k + 1, k + 1, f1, a1, v1)
<1> DEFINE limit == k - 1
           sl == image[s]
<1>1. CounterModulus \in Nat /\ CounterModulus >= 4 BY CounterModulusAssumption
<1>2. /\ limit \in Nat /\ 0 <= limit /\ 2 * limit < CounterModulus
      /\ limit + 1 = k /\ (k + 1) - 1 = k
  BY <1>1
<1>3. /\ Within(k, last, b, f, a, v) /\ Stands(sl, n, 0, last, b, f, a, v, limit)
      /\ a \in Nat /\ b \in 0 .. k /\ Recorded(image, w, s, b, v)
  BY DEF Top, Within
<1>4. Within(k + 1, last, b, f, a + 1, v) /\ b <= k + 1 BY <1>3, WithinLonger
<1> HIDE DEF limit, sl
<1>5. 0 \in Nat OBVIOUS
<1>6. Stands(sl, NextCounter(n), 0 + 1, last, b, f, a + 1, v, limit + 1)
  BY <1>2, <1>3, <1>5, StandsAges
<1>7. Stands(new[s], NextCounter(n), 1, last, b, f, a + 1, v, (k + 1) - 1)
  <2>1. 0 + 1 = 1 OBVIOUS
  <2>2. Stands(sl, NextCounter(n), 1, last, b, f, a + 1, v, k) BY <1>2, <1>6, <2>1
  <2>3. new[s] = sl BY DEF sl
  <2> QED BY <1>2, <2>2, <2>3
<1>8. Recorded(new, w1, s, b, v) BY <1>3 DEF Recorded
<1>9. Former(new, w1, s, NextCounter(n), k + 1, k + 1, f1, a1, v1, last, b, f, a + 1, v)
  BY <1>4, <1>7, <1>8 DEF Former
<1> QED BY <1>9 DEF Under

\* A complete full write is the newest generation.
LEMMA FullWritten ==
  ASSUME NEW image, NEW new, NEW w, NEW w1, NEW s \in Slots, NEW n \in Counter,
         NEW k \in Nat, 2 <= k, 2 * k < CounterModulus, s = PhysicalSlotForCounter(n),
         NEW last, NEW b, NEW f, NEW a, NEW v,
         Top(image, w, s, n, k, last, b, f, a, v),
         new[s] = image[s], w1[s] = w[s],
         NEW r \in Positions, NEW x \in 0 .. k + 1,
         \A y \in Nat : HoldsBoxes(image[s], y) => y <= x,
         Holds(new[1 - s], Positions, r, NextCounter(n), k + 1, x),
         w1[1 - s] = Generation("full", k + 1, x)
  PROVE  Paired(new, w1, NextCounter(n), k + 1)
<1> DEFINE c == NextCounter(n)
           m == k + 1
           o == 1 - s
           sn == new[o]
           sl == image[s]
<1>1. CounterModulus \in Nat /\ CounterModulus >= 4 BY CounterModulusAssumption
<1>2. c \in Counter /\ o = PhysicalSlotForCounter(c) /\ 1 - o = s BY Parity, SlotPair
<1>3. m \in Nat /\ 2 <= m /\ 2 * (m - 1) < CounterModulus /\ m - 1 = k OBVIOUS
<1>4. Within(m, r, m, TRUE, 0, x) BY DEF Within
<1>5. Stands(sn, c, 0, r, m, TRUE, 0, x, m - 1)
  <2>1. Holds(sn, Positions, r, c, m, x) OBVIOUS
  <2> HIDE DEF sn, c, m
  <2> QED BY <1>2, <2>1, StandsFresh
<1>6. ~IsLegacy(sn)
  <2>1. Holds(sn, Positions, r, c, m, x) OBVIOUS
  <2> HIDE DEF sn, c, m
  <2> QED BY <2>1, FullNotLegacy
<1>7. Recorded(new, w1, o, m, x) BY <1>6 DEF Recorded
<1>8. f => v <= x
  <2> DEFINE limit == k - 1
  <2>1. limit \in Nat /\ 0 <= limit /\ 2 * limit < CounterModulus /\ 0 \in Nat BY <1>1
  <2>2. Stands(sl, n, 0, last, b, f, a, v, limit) /\ a \in Nat BY DEF Top, Within
  <2> HIDE DEF limit, sl
  <2>3. Told(sl, WrappingSub(n, 0), last, b, f, WrappingSub(n, a), v)
    BY <2>1, <2>2, StandsTold
  <2>4. f => HoldsBoxes(sl, v) BY <2>3 DEF Told
  <2>5. v \in Nat BY DEF Top, Within
  <2> QED BY <2>4, <2>5 DEF sl
<1>9. Ordered(TRUE, 0, x, f, a + 1, v)
  <2>1. a \in Nat BY DEF Top, Within
  <2>2. 0 < a + 1 BY <2>1
  <2> QED BY <1>8, <2>2 DEF Ordered
<1>10. Under(new, w1, s, c, m, m, TRUE, 0, x) BY <1>9, TopAges
<1> HIDE DEF c, m, sl
<1>11. Top(new, w1, o, c, m, r, m, TRUE, 0, x) BY <1>4, <1>5, <1>7 DEF Top
<1> HIDE DEF o, sn
<1>12. Paired(new, w1, c, m) BY <1>2, <1>3, <1>10, <1>11 DEF Paired
<1> QED BY <1>12 DEF c, m

\* A five-sector write is the newest generation, or taken for a torn write.
LEMMA HeadWritten ==
  ASSUME NEW image, NEW new, NEW w, NEW w1, NEW s \in Slots, NEW n \in Counter,
         NEW k \in Nat, 2 <= k, 2 * k < CounterModulus, s = PhysicalSlotForCounter(n),
         NEW last, NEW b, NEW f, NEW a, NEW v,
         Top(image, w, s, n, k, last, b, f, a, v),
         Under(image, w, 1 - s, n, k, b, f, a, v),
         new[s] = image[s], w1[s] = w[s],
         NEW q \in HeadPositions,
         HoldsHead(new[1 - s], q, NextCounter(n), k + 1),
         SameTail(new[1 - s], image[1 - s]),
         w1[1 - s] = Generation("legacy", k + 1, 0)
  PROVE  Paired(new, w1, n, k + 1) \/ Paired(new, w1, NextCounter(n), k + 1)
<1> DEFINE c == NextCounter(n)
           m == k + 1
           o == 1 - s
           sn == new[o]
           so == image[o]
           sl == image[s]
           limit == k - 1
<1>1. CounterModulus \in Nat /\ CounterModulus >= 4 BY CounterModulusAssumption
<1>2. c \in Counter /\ o = PhysicalSlotForCounter(c) /\ 1 - o = s BY Parity, SlotPair
<1>3. m \in Nat /\ 2 <= m /\ 2 * (m - 1) < CounterModulus /\ m - 1 = k OBVIOUS
<1>4. /\ limit \in Nat /\ 1 <= limit /\ 2 * (limit + 1) < CounterModulus
      /\ limit + 1 = k
  OBVIOUS
<1>5. HoldsHead(sn, q, c, m) /\ SameTail(sn, so) OBVIOUS
<1>6. q \in Positions BY Ranges
<1>7. /\ Within(k, last, b, f, a, v)
      /\ Stands(sl, n, 0, last, b, f, a, v, limit)
      /\ Recorded(image, w, s, b, v)
      /\ a \in Nat
  BY DEF Top, Within
<1>8. ASSUME Rejected(sn, n, limit) PROVE Paired(new, w1, n, m)
  <2> HIDE DEF limit, sl, sn, c
  <2>1. Rejected(sn, n, m - 1)
    <3>1. \A d \in Nat : d <= limit => d <= m - 1 BY <1>3, <1>4
    <3> QED BY <1>8, <3>1 DEF Rejected
  <2>2. Under(new, w1, o, n, m, b, f, a, v) BY <2>1 DEF Under, sn
  <2>3. Stands(sl, n, 0, last, b, f, a, v, m - 1)
    <3>1. Stands(sl, n, 0, last, b, f, a, v, limit + 1) BY <1>4, <1>7, StandsLonger
    <3> QED BY <1>3, <1>4, <3>1
  <2>4. Within(m, last, b, f, a, v) BY <1>7, WithinLonger
  <2>5. Recorded(new, w1, s, b, v) BY <1>7 DEF Recorded
  <2>6. new[s] = sl BY DEF sl
  <2>7. Top(new, w1, s, n, m, last, b, f, a, v) BY <2>3, <2>4, <2>5, <2>6 DEF Top
  <2> HIDE DEF m
  <2> QED BY <1>3, <2>2, <2>7 DEF Paired
<1>9. ASSUME NEW f1 \in BOOLEAN, NEW a1 \in 0 .. k, NEW v1 \in 0 .. k,
             HeadTaken(sn, n, q, m, f1, a1, v1, limit + 1),
             Ordered(f1, a1, v1, f, a + 1, v)
      PROVE  Paired(new, w1, c, m)
  <2>1. Under(new, w1, s, c, m, m, f1, a1, v1) BY <1>9, TopAges
  <2>2. Within(m, q, m, f1, a1, v1) BY <1>6 DEF Within
  <2> HIDE DEF limit, sl, c
  <2>3. Stands(sn, c, 0, q, m, f1, a1, v1, m - 1) /\ IsLegacy(sn)
    BY <1>3, <1>4, <1>9 DEF HeadTaken, c
  <2>4. Recorded(new, w1, o, m, v1) BY <2>3 DEF Recorded
  <2> HIDE DEF m
  <2>5. Top(new, w1, o, c, m, q, m, f1, a1, v1) BY <2>2, <2>3, <2>4 DEF Top
  <2> HIDE DEF o, sn
  <2> QED BY <1>2, <1>3, <2>1, <2>5 DEF Paired
<1>10. Ordered(FALSE, 0, 0, f, a + 1, v) /\ 0 \in 0 .. k BY DEF Ordered
<1>11. HeadTaken(sn, n, q, m, FALSE, 0, 0, limit + 1) => Paired(new, w1, c, m)
  BY <1>9, <1>10
<1>12. ASSUME NeverWritten(image, w, o)
       PROVE  Paired(new, w1, n, m) \/ Paired(new, w1, c, m)
  <2>1. Blank(so, Positions) BY <1>12 DEF NeverWritten
  <2> HIDE DEF so, sn, limit, c, m
  <2>2. \A i \in TailPositions : i \in Positions BY Ranges
  <2>3. Blank(sn, TailPositions) BY <1>5, <2>1, <2>2 DEF Blank, SameTail
  <2>4. HeadTaken(sn, n, q, m, FALSE, 0, 0, limit + 1)
    BY <1>3, <1>5, <2>3, HeadOverBlank DEF c
  <2> QED BY <1>11, <2>4 DEF c, m
<1>13. ASSUME Rejected(image[o], n, k - 1)
       PROVE  Paired(new, w1, n, m) \/ Paired(new, w1, c, m)
  <2>1. Rejected(so, n, limit) BY <1>13
  <2> HIDE DEF so, sn, limit, c, m
  <2>2. Rejected(sn, n, limit) \/ HeadTaken(sn, n, q, m, FALSE, 0, 0, limit + 1)
    BY <1>3, <1>4, <1>5, <2>1, HeadOverRejected DEF c
  <2> QED BY <1>8, <1>11, <2>2 DEF c, m
<1>14. ASSUME NEW last1, NEW b1, NEW f1, NEW a1, NEW v1,
              Former(image, w, o, n, k, b, f, a, v, last1, b1, f1, a1, v1)
       PROVE  Paired(new, w1, n, m) \/ Paired(new, w1, c, m)
  <2>1. /\ b1 \in Nat /\ a1 \in Nat /\ v1 \in Nat /\ a1 + 1 \in 0 .. k /\ v1 \in 0 .. k
        /\ Stands(so, n, 1, last1, b1, f1, a1, v1, limit)
        /\ Ordered(f, a, v, f1, a1, v1)
    BY <1>14 DEF Former, Within
  <2>2. Ordered(TRUE, a1 + 1, v1, f, a + 1, v) \/ ~f1
    BY <1>7, <2>1 DEF Ordered
  <2> HIDE DEF so, sn, limit, c, m
  <2>3. \/ Rejected(sn, n, limit)
        \/ HeadTaken(sn, n, q, m, FALSE, 0, 0, limit + 1)
        \/ f1 /\ HeadTaken(sn, n, q, m, TRUE, a1 + 1, v1, limit + 1)
    BY <1>3, <1>4, <1>5, <2>1, HeadOverStands DEF c
  <2>4. CASE f1 /\ HeadTaken(sn, n, q, m, TRUE, a1 + 1, v1, limit + 1)
    <3>1. Ordered(TRUE, a1 + 1, v1, f, a + 1, v) BY <2>2, <2>4
    <3> QED BY <1>9, <2>1, <2>4, <3>1
  <2> QED BY <1>8, <1>11, <2>3, <2>4
<1> HIDE DEF c, m, so, sn, limit, o
<1>15. ASSUME \E last1, b1, f1, a1, v1 :
              Former(image, w, o, n, k, b, f, a, v, last1, b1, f1, a1, v1)
       PROVE  Paired(new, w1, n, m) \/ Paired(new, w1, c, m)
  BY <1>14, <1>15
<1>16. Under(image, w, o, n, k, b, f, a, v) BY DEF o
<1>17. Paired(new, w1, n, m) \/ Paired(new, w1, c, m)
  BY <1>12, <1>13, <1>15, <1>16 DEF Under
<1> QED BY <1>17 DEF c, m

NoFaultKept ==
  faults = 0 => /\ 2 <= clock
                /\ \/ Fresh(flash, whole)
                   \/ \E n \in Counter : Paired(flash, whole, n, clock)

Standard == {"full", "legacy", "empty"}

LEMMA PairedLoads ==
  ASSUME NEW image, NEW w, NEW n \in Counter, NEW k, Paired(image, w, n, k)
  PROVE  LET s == PhysicalSlotForCounter(n)
         IN \E last, b, f, a, v :
              /\ Top(image, w, s, n, k, last, b, f, a, v)
              /\ Under(image, w, 1 - s, n, k, b, f, a, v)
              /\ \E x \in 0 .. k : Loaded(image, s, n, last, b, x)
<1> DEFINE s == PhysicalSlotForCounter(n)
<1>1. s \in Slots /\ s = PhysicalSlotForCounter(n) BY Parity
<1>2. k \in Nat /\ 2 <= k /\ 2 * (k - 1) < CounterModulus BY DEF Paired
<1>3. PICK last, b, f, a, v :
         /\ Top(image, w, s, n, k, last, b, f, a, v)
         /\ Under(image, w, 1 - s, n, k, b, f, a, v)
  BY DEF Paired
<1> HIDE DEF s
<1>4. \E x \in 0 .. k : Loaded(image, s, n, last, b, x) BY <1>1, <1>2, <1>3, LoadTop
<1> QED BY <1>3, <1>4 DEF s

LEMMA PairedKinds ==
  ASSUME NEW image, NEW w, NEW s \in Slots, NEW n, NEW k, NEW last, NEW b, NEW f,
         NEW a, NEW v,
         Top(image, w, s, n, k, last, b, f, a, v),
         Under(image, w, 1 - s, n, k, b, f, a, v)
  PROVE  \A t \in Slots : w[t].kind \in Standard
<1>1. \A t, x, y : Recorded(image, w, t, x, y) => w[t].kind \in Standard
  BY DEF Recorded, Generation, Standard
<1>2. w[s].kind \in Standard BY <1>1 DEF Top
<1>3. w[1 - s].kind \in Standard
  <2>1. NeverWritten(image, w, 1 - s) => w[1 - s].kind \in Standard
    BY DEF NeverWritten, NoGeneration, Generation, Standard
  <2>2. \A b1 : w[1 - s] = Generation("legacy", b1, 0) => w[1 - s].kind \in Standard
    BY DEF Generation, Standard
  <2>3. \A last1, b1, f1, a1, v1 :
          Former(image, w, 1 - s, n, k, b, f, a, v, last1, b1, f1, a1, v1)
            => w[1 - s].kind \in Standard
    BY <1>1 DEF Former
  <2> QED BY <2>1, <2>2, <2>3 DEF Under
<1> QED BY <1>2, <1>3, SlotPair

\* A complete write of all fourteen sectors over what a load returned.
LEMMA FullSaved ==
  ASSUME TypeKept, MayWrite, NEW n \in Counter, Paired(flash, whole, n, clock),
         NEW fresh, fresh \in {SectorIds, SaveBlockIds},
         NEW counter, counter = NextCounter(Load(flash).counter),
         NEW rotation, rotation = NextRotation(Load(flash).last),
         NEW val, val = Stamped(Load(flash).base, fresh),
         flash' = LayGeneration(flash, SectorIds, NUM_SECTORS_PER_SLOT, rotation, counter, val),
         Gave(PhysicalSlotForCounter(counter),
              Generation("full", clock + 1, StorageToken(val)))
  PROVE  Paired(flash', whole', NextCounter(n), clock + 1)
<1> DEFINE s == PhysicalSlotForCounter(n)
           m == clock + 1
           base == Load(flash).base
<1>1. clock \in Nat /\ 2 <= clock /\ 2 * clock < CounterModulus
  <2>1. clock \in Nat /\ MaxWrites \in Nat /\ clock <= MaxWrites + 1
    BY TypeIs, Bounds DEF MayWrite
  <2>2. 2 * (MaxWrites + 1) < CounterModulus BY WritesAssumption
  <2>3. CounterModulus \in Nat BY CounterModulusAssumption
  <2>4. 2 <= clock BY DEF Paired
  <2> QED BY <2>1, <2>2, <2>3, <2>4
<1>2. s \in Slots /\ s = PhysicalSlotForCounter(n) BY Parity
<1>3. PICK last, b, f, a, v :
        /\ Top(flash, whole, s, n, clock, last, b, f, a, v)
        /\ Under(flash, whole, 1 - s, n, clock, b, f, a, v)
        /\ \E x \in 0 .. clock : Loaded(flash, s, n, last, b, x)
  BY PairedLoads
<1>4. PICK x \in 0 .. clock : Loaded(flash, s, n, last, b, x) BY <1>3
<1>5. /\ Load(flash).counter = n /\ Load(flash).last = last
      /\ Carries(base, b, x) /\ BestBoxes(flash, x)
  BY <1>4 DEF Loaded
<1>6. last \in Positions BY <1>3 DEF Top, Within
<1>7. /\ counter = NextCounter(n) /\ counter \in Counter
      /\ PhysicalSlotForCounter(counter) = 1 - s
      /\ rotation \in Positions
  BY <1>5, <1>6, Parity, NextRotationIs
<1> DEFINE y == IF fresh = SectorIds THEN m ELSE x
<1>8. Carries(val, m, y)
  <2>1. /\ Carries(Stamped(base, SaveBlockIds), m, x)
        /\ Carries(Stamped(base, SectorIds), m, m)
    <3> HIDE DEF base, m
    <3>1. m = clock + 1 BY DEF m
    <3> QED BY <1>5, <3>1, StampedOver
  <2>2. val = Stamped(base, fresh) OBVIOUS
  <2> HIDE DEF base, m
  <2>3. CASE fresh = SectorIds
    BY <2>1, <2>2, <2>3
  <2>4. CASE fresh # SectorIds
    <3>1. fresh = SaveBlockIds BY <2>4
    <3> QED BY <2>1, <2>2, <2>4, <3>1
  <2> QED BY <2>3, <2>4
<1>9. y \in 0 .. m /\ x <= y BY <1>1
<1>10. \A u \in Nat : HoldsBoxes(flash[s], u) => u <= y
  <2> HIDE DEF y
  <2>1. \A u : HoldsBoxes(flash[s], u) => Held(flash, u) BY <1>2 DEF Held
  <2>2. \A u : Held(flash, u) => u <= x BY <1>5 DEF BestBoxes
  <2>3. y \in Nat BY <1>1, <1>9
  <2> QED BY <1>9, <2>1, <2>2, <2>3
<1> HIDE DEF y, m, base, s
<1>11. StorageToken(val) = y BY <1>8, TokenOf
<1>12. flash'[s] = flash[s] /\ LaidOver(flash'[1 - s], flash[1 - s], 14, rotation, counter, val)
  <2>1. SectorIds = 0 .. 14 - 1 /\ 14 \in 1 .. 14 BY Ranges
  <2> QED BY <1>2, <1>7, <2>1, LaidNow
<1>13. Holds(flash'[1 - s], Positions, rotation, counter, m, y)
  BY <1>7, <1>8, <1>12, LaidWhole
<1>14. whole'[1 - s] = Generation("full", m, y) /\ whole'[s] = whole[s]
  <2>1. whole[1 - s].kind \notin Unclaimed
    <3>1. 1 - s \in Slots BY <1>2, SlotPair
    <3>2. whole[1 - s].kind \in Standard BY <1>2, <1>3, <3>1, PairedKinds
    <3> QED BY <3>2 DEF Standard, Unclaimed
  <2>2. Gave(1 - s, Generation("full", m, y)) BY <1>7, <1>11 DEF m
  <2> QED BY <1>2, <2>1, <2>2, GaveOne, SlotPair
<1>15. /\ Holds(flash'[1 - s], Positions, rotation, NextCounter(n), clock + 1, y)
       /\ whole'[1 - s] = Generation("full", clock + 1, y)
       /\ y \in 0 .. clock + 1
  BY <1>7, <1>9, <1>13, <1>14 DEF m
<1> QED BY <1>1, <1>2, <1>3, <1>7, <1>10, <1>12, <1>14, <1>15, FullWritten

\* The first save, over an erased image.
LEMMA FirstSaved ==
  ASSUME TypeKept, MayWrite, Fresh(flash, whole),
         NEW counter, counter = NextCounter(Load(flash).counter),
         NEW rotation, rotation = NextRotation(Load(flash).last),
         NEW val, val = Stamped(Load(flash).base, SectorIds),
         flash' = LayGeneration(flash, SectorIds, NUM_SECTORS_PER_SLOT, rotation, counter, val),
         Gave(PhysicalSlotForCounter(counter),
              Generation("full", clock + 1, StorageToken(val))),
         2 <= clock
  PROVE  Paired(flash', whole', counter, clock + 1)
<1> DEFINE m == clock + 1
           base == Load(flash).base
<1>1. clock \in Nat /\ 2 * clock < CounterModulus
  <2>1. clock \in Nat /\ MaxWrites \in Nat /\ clock <= MaxWrites + 1
    BY TypeIs, Bounds DEF MayWrite
  <2>2. 2 * (MaxWrites + 1) < CounterModulus BY WritesAssumption
  <2>3. CounterModulus \in Nat BY CounterModulusAssumption
  <2> QED BY <2>1, <2>2, <2>3
<1>2. Load(flash).counter = 0 /\ Load(flash).last = 0 BY LoadFreshOrLone
<1>3. /\ PhysicalSlotForCounter(counter) = 1 /\ counter \in Counter
      /\ rotation \in Positions
  <2>1. 0 \in Counter /\ PhysicalSlotForCounter(0) = 0
    BY CounterModulusAssumption DEF Counter, PhysicalSlotForCounter
  <2>2. 0 \in Positions BY Ranges
  <2> QED BY <1>2, <2>1, <2>2, Parity, NextRotationIs
<1>4. Carries(val, m, m)
  <2>1. val = Stamped(base, SectorIds) OBVIOUS
  <2> HIDE DEF base
  <2> QED BY <2>1, StampedIs DEF Payload, Carries
<1> HIDE DEF m, base
<1>5. StorageToken(val) = m BY <1>4, TokenOf
<1>6. 0 \in Slots /\ 1 \in Slots /\ 1 - 0 = 1 /\ 1 - 1 = 0 BY DEF Slots
<1>7. flash'[0] = flash[0] /\ LaidOver(flash'[1], flash[1], 14, rotation, counter, val)
  <2>1. SectorIds = 0 .. 14 - 1 /\ 14 \in 1 .. 14 BY Ranges
  <2> QED BY <1>3, <1>6, <2>1, LaidNow
<1>8. Holds(flash'[1], Positions, rotation, counter, m, m)
  BY <1>3, <1>4, <1>7, LaidWhole
<1>9. whole'[1] = Generation("full", m, m) /\ whole'[0] = whole[0]
  <2>1. whole[1].kind \notin Unclaimed
    BY <1>6 DEF Unclaimed, Fresh, NeverWritten, NoGeneration, Generation
  <2>2. Gave(1, Generation("full", m, m)) BY <1>3, <1>5 DEF m
  <2> QED BY <1>6, <2>1, <2>2, GaveOne
<1>10. m \in Nat /\ 2 <= m /\ 2 * (m - 1) < CounterModulus BY <1>1 DEF m
<1> DEFINE sn == flash'[1]
<1>11. Stands(sn, counter, 0, rotation, m, TRUE, 0, m, m - 1)
  <2>1. Holds(sn, Positions, rotation, counter, m, m) BY <1>8
  <2> HIDE DEF sn
  <2> QED BY <1>3, <2>1, StandsFresh
<1>12. ~IsLegacy(sn)
  <2>1. Holds(sn, Positions, rotation, counter, m, m) BY <1>8
  <2> HIDE DEF sn
  <2> QED BY <1>3, <2>1, FullNotLegacy
<1>13. Top(flash', whole', 1, counter, m, rotation, m, TRUE, 0, m)
  <2>1. Within(m, rotation, m, TRUE, 0, m) BY <1>3, <1>10 DEF Within
  <2>2. Recorded(flash', whole', 1, m, m) BY <1>9, <1>12 DEF Recorded
  <2> QED BY <1>11, <2>1, <2>2 DEF Top
<1>14. Under(flash', whole', 0, counter, m, m, TRUE, 0, m)
  <2>1. NeverWritten(flash, whole, 0) BY <1>6 DEF Fresh
  <2>2. NeverWritten(flash', whole', 0) BY <1>7, <1>9, <2>1 DEF NeverWritten, Blank
  <2> QED BY <2>2 DEF Under
<1>15. Paired(flash', whole', counter, m)
  <2> HIDE DEF sn
  <2> QED BY <1>3, <1>6, <1>10, <1>13, <1>14 DEF Paired
<1> QED BY <1>15 DEF m

\* A complete write of the five sectors of an older build.
LEMMA HeadSaved ==
  ASSUME TypeKept, MayWrite, NEW n \in Counter, Paired(flash, whole, n, clock),
         NEW q \in HeadPositions,
         NEW counter, counter = NextCounter(Load(flash).counter),
         NEW val, val = Stamped(Load(flash).base, SaveBlockIds),
         flash' = LayGeneration(flash, SaveBlockIds, SECTOR_ID_PKMN_STORAGE_START,
                                q, counter, val),
         NEW kind, kind = IF whole[PhysicalSlotForCounter(counter)].kind
                               \in {"broken", "doubtful"}
                          THEN "doubtful" ELSE "legacy",
         Gave(PhysicalSlotForCounter(counter), Generation(kind, clock + 1, 0))
  PROVE  \E c \in Counter : Paired(flash', whole', c, clock + 1)
<1> DEFINE s == PhysicalSlotForCounter(n)
           m == clock + 1
<1>1. clock \in Nat /\ 2 <= clock /\ 2 * clock < CounterModulus
  <2>1. clock \in Nat /\ MaxWrites \in Nat /\ clock <= MaxWrites + 1
    BY TypeIs, Bounds DEF MayWrite
  <2>2. 2 * (MaxWrites + 1) < CounterModulus BY WritesAssumption
  <2>3. CounterModulus \in Nat BY CounterModulusAssumption
  <2>4. 2 <= clock BY DEF Paired
  <2> QED BY <2>1, <2>2, <2>3, <2>4
<1>2. s \in Slots /\ s = PhysicalSlotForCounter(n) BY Parity
<1>3. PICK last, b, f, a, v :
        /\ Top(flash, whole, s, n, clock, last, b, f, a, v)
        /\ Under(flash, whole, 1 - s, n, clock, b, f, a, v)
        /\ \E x \in 0 .. clock : Loaded(flash, s, n, last, b, x)
  BY PairedLoads
<1>4. Load(flash).counter = n BY <1>3 DEF Loaded
<1>5. /\ counter = NextCounter(n) /\ counter \in Counter
      /\ PhysicalSlotForCounter(counter) = 1 - s /\ 1 - s \in Slots /\ s # 1 - s
  BY <1>2, <1>4, Parity, SlotPair
<1>6. \A id \in SaveBlockIds : val[id] = Chunk(m, id)
  <2>1. \A id \in SaveBlockIds : id \in SectorIds BY DEF SectorIds
  <2> QED BY <2>1, StampedIs
<1> HIDE DEF m, s
<1> DEFINE new == LayGeneration(flash, SaveBlockIds, SECTOR_ID_PKMN_STORAGE_START,
                                q, counter, val)
<1>7. flash \in Images BY TypeIs
<1>8. /\ \A t \in Slots : t # PhysicalSlotForCounter(counter) => new[t] = flash[t]
      /\ HoldsHead(new[PhysicalSlotForCounter(counter)], q, counter, m)
      /\ \A i \in TailPositions : new[PhysicalSlotForCounter(counter)][i]
           = flash[PhysicalSlotForCounter(counter)][i]
  <2>1. PhysicalSlotForCounter(counter) \in Slots BY <1>5
  <2> QED BY <1>5, <1>6, <1>7, <2>1, LaidHead
<1>9. flash' = new OBVIOUS
<1> HIDE DEF new
<1>10. /\ flash'[s] = flash[s] /\ HoldsHead(flash'[1 - s], q, counter, m)
       /\ SameTail(flash'[1 - s], flash[1 - s])
  <2>1. new[s] = flash[s] BY <1>2, <1>5, <1>8
  <2>2. HoldsHead(new[1 - s], q, counter, m) BY <1>5, <1>8
  <2>3. SameTail(new[1 - s], flash[1 - s]) BY <1>5, <1>8 DEF SameTail
  <2> QED BY <1>9, <2>1, <2>2, <2>3
<1>11. whole'[1 - s] = Generation("legacy", m, 0) /\ whole'[s] = whole[s]
  <2>1. whole[1 - s].kind \in Standard BY <1>2, <1>3, <1>5, PairedKinds
  <2>2. kind = "legacy" /\ whole[1 - s].kind \notin Unclaimed
    BY <1>5, <2>1 DEF Standard, Unclaimed
  <2>3. Gave(1 - s, Generation("legacy", m, 0)) BY <1>5, <2>2 DEF m
  <2> QED BY <1>2, <2>2, <2>3, GaveOne, SlotPair
<1>12. /\ HoldsHead(flash'[1 - s], q, NextCounter(n), clock + 1)
       /\ whole'[1 - s] = Generation("legacy", clock + 1, 0)
  BY <1>5, <1>10, <1>11 DEF m
<1>13. Paired(flash', whole', n, clock + 1) \/ Paired(flash', whole', NextCounter(n), clock + 1)
  BY <1>1, <1>2, <1>3, <1>10, <1>11, <1>12, HeadWritten
<1>14. NextCounter(n) \in Counter BY Parity
<1> QED BY <1>13, <1>14

LEMMA InitKeepsNoFault == ASSUME StoreInit PROVE NoFaultKept
<1>1. clock = 2 /\ faults = 0 BY DEF StoreInit
<1>2. CASE flash = Erased /\ whole = [s \in Slots |-> NoGeneration("empty")]
  <2>1. Fresh(flash, whole) BY <1>2 DEF Fresh, NeverWritten, Blank, Erased
  <2> QED BY <1>1, <2>1 DEF NoFaultKept
<1>3. ASSUME NEW c \in StartCounters, NEW r \in StartRotations,
             flash = Imported(c, r),
             whole = [s \in Slots |->
               IF s = PhysicalSlotForCounter(c) THEN Generation("full", 2, 2)
               ELSE Generation("full", 1, 1)]
      PROVE  Paired(flash, whole, c, 2) /\ c \in Counter
  <2> DEFINE older == WrappingSub(c, 1)
             behind == (r + 14 - 1) % 14
             s == PhysicalSlotForCounter(c)
             sn == flash[s]
             so == flash[1 - s]
  <2>1. c \in Counter /\ r \in Positions BY StoreAssumption
  <2>2. /\ behind \in Positions /\ older \in Counter
        /\ r = NextRotation(behind) /\ c = NextCounter(older)
        /\ PhysicalSlotForCounter(older) = 1 - s
        /\ Holds(Imported(c, r)[s], Positions, r, c, 2, 2)
        /\ Holds(Imported(c, r)[1 - s], Positions, behind, older, 1, 1)
    BY <2>1, ImportedIs
  <2>3. s \in Slots /\ 1 - s \in Slots /\ s # 1 - s BY <2>1, Parity, SlotPair
  <2>4. 2 * 1 < CounterModulus /\ CounterModulus \in Nat BY CounterModulusAssumption
  <2>5. whole[s] = Generation("full", 2, 2) /\ whole[1 - s] = Generation("full", 1, 1)
    BY <1>3, <2>3
  <2>6. Holds(sn, Positions, r, c, 2, 2) /\ Holds(so, Positions, behind, older, 1, 1)
    BY <1>3, <2>2
  <2> HIDE DEF sn, so, behind, s
  <2>7. ~IsLegacy(sn) /\ ~IsLegacy(so)
    BY <2>1, <2>2, <2>6, FullNotLegacy
  <2>8. Stands(sn, c, 0, r, 2, TRUE, 0, 2, 1) BY <2>1, <2>6, StandsFresh
  <2>9. Stands(so, c, 1, behind, 1, TRUE, 1, 1, 1)
    <3>1. TRUE \in BOOLEAN OBVIOUS
    <3>2. Holds(so, Positions, behind, WrappingSub(c, 1), 1, 1) BY <2>6
    <3> QED BY <2>2, <3>1, <3>2 DEF Stands
  <2>10. Top(flash, whole, s, c, 2, r, 2, TRUE, 0, 2)
    <3>1. Within(2, r, 2, TRUE, 0, 2) BY <2>1 DEF Within
    <3>2. Recorded(flash, whole, s, 2, 2) BY <2>5, <2>7 DEF Recorded, sn
    <3>3. 2 - 1 = 1 OBVIOUS
    <3> QED BY <2>8, <3>1, <3>2, <3>3 DEF Top, sn
  <2>11. Former(flash, whole, 1 - s, c, 2, 2, TRUE, 0, 2, behind, 1, TRUE, 1, 1)
    <3>1. Within(2, behind, 1, TRUE, 1, 1) /\ 1 <= 2 BY <2>2 DEF Within
    <3>2. Recorded(flash, whole, 1 - s, 1, 1) BY <2>5, <2>7 DEF Recorded, so
    <3>3. 2 - 1 = 1 OBVIOUS
    <3>4. Ordered(TRUE, 0, 2, TRUE, 1, 1) BY DEF Ordered
    <3> QED BY <2>9, <3>1, <3>2, <3>3, <3>4 DEF Former, so
  <2>12. Under(flash, whole, 1 - s, c, 2, 2, TRUE, 0, 2) BY <2>11 DEF Under
  <2>13. 2 \in Nat /\ 2 <= 2 /\ 2 * (2 - 1) < CounterModulus BY <2>4
  <2>14. /\ Top(flash, whole, PhysicalSlotForCounter(c), c, 2, r, 2, TRUE, 0, 2)
         /\ Under(flash, whole, 1 - PhysicalSlotForCounter(c), c, 2, 2, TRUE, 0, 2)
    BY <2>10, <2>12 DEF s
  <2> QED BY <2>1, <2>13, <2>14 DEF Paired
<1>4. CASE \E c \in StartCounters, r \in StartRotations :
        /\ flash = Imported(c, r)
        /\ whole = [s \in Slots |->
             IF s = PhysicalSlotForCounter(c) THEN Generation("full", 2, 2)
             ELSE Generation("full", 1, 1)]
  <2>1. \E c \in Counter : Paired(flash, whole, c, 2) BY <1>3, <1>4
  <2> QED BY <1>1, <2>1 DEF NoFaultKept
<1> QED BY <1>2, <1>4 DEF StoreInit

LEMMA NoFaultKeptNext ==
  NoFaultKept' <=>
    (faults' = 0 => /\ 2 <= clock'
                    /\ \/ Fresh(flash', whole')
                       \/ \E n \in Counter : Paired(flash', whole', n, clock'))
BY DEF NoFaultKept, Fresh, NeverWritten, Blank, Paired, Top, Under, Former, Within,
  Stands, HeadStands, TailStands, TailHolds, Holds, HoldsHead, Recorded, Rejected

\* Over an erased image only a new game saves.
LEMMA NothingContinues ==
  ASSUME NEW image, NEW w, Fresh(image, w)
  PROVE  /\ ~MenuShowsContinue(Load(image).status)
         /\ Load(image).source = "Own"
         /\ Verdict(image).legacy \in BOOLEAN /\ ~Verdict(image).legacy
<1> DEFINE scan == Scans(image)
           intact == {t \in {0, 1} : scan[t].integrity = "Ok"}
           res == Verdict(image)
           donated == IF res.storage_from_slot = NoSlot THEN [last |-> 0]
                      ELSE CopyValidSlotPayloads(image[res.storage_from_slot], FALSE, 0)
           copied == CopyValidSlotPayloads(image[PhysicalSlotForCounter(res.counter)],
                                           res.legacy, donated.last)
<1>1. ScanSlot(image[0]).integrity = "Empty" /\ ScanSlot(image[1]).integrity = "Empty"
  <2>1. Blank(image[0], Positions) /\ Blank(image[1], Positions)
    BY DEF Fresh, NeverWritten, Slots
  <2> QED BY <2>1, BlankScan
<1>2. scan[0] = ScanSlot(image[0]) /\ scan[1] = ScanSlot(image[1])
  BY DEF Scans, Slots
<1>3. intact = {} BY <1>1, <1>2
<1>4. Verdict(image) = Resolve(scan) BY DEF Verdict, Scans
<1> HIDE DEF scan
<1>5. Resolve(scan) = Resolution(IF \A t \in {0, 1} : scan[t].integrity = "Empty"
                     THEN "Empty" ELSE "Corrupt", 0, NoSlot, FALSE)
  <2>1. intact # {0, 1} BY <1>3
  <2> QED BY <1>3, <2>1 DEF Resolve
<1>6. res.legacy \in BOOLEAN /\ ~res.legacy BY <1>4, <1>5 DEF Resolution
<1>7. Load(image) = Rebuilt(res, donated, copied)
  <2>1. Load(image) = CopyAdopted(image, res, donated)
    <3> HIDE DEF donated
    <3> QED BY Zenon DEF Load, CopyAfterDonor, res, donated
  <2> QED BY <2>1 DEF CopyAdopted
<1> HIDE DEF copied, donated, res
<1>8. Rebuilt(res, donated, copied).source = "Own" BY <1>6 DEF Rebuilt
<1> QED BY <1>6, <1>7, <1>8, LoadFreshOrLone DEF res

LEMMA PortSaveKept ==
  ASSUME TypeKept, NoFaultKept, faults = 0, NEW new_game \in BOOLEAN, PortSave(new_game)
  PROVE  \E c \in Counter : Paired(flash', whole', c, clock + 1)
<1> DEFINE counter == NextCounter(Load(flash).counter)
           rotation == NextRotation(Load(flash).last)
           fresh == IF new_game THEN SectorIds ELSE SaveBlockIds
           val == Stamped(Load(flash).base, fresh)
<1>1. /\ MayWrite
      /\ flash' = LayGeneration(flash, SectorIds, NUM_SECTORS_PER_SLOT, rotation,
                                counter, val)
      /\ Gave(PhysicalSlotForCounter(counter),
              Generation("full", clock + 1, StorageToken(val)))
      /\ new_game \/ MenuShowsContinue(Load(flash).status)
  BY DEF PortSave
<1>2. fresh \in {SectorIds, SaveBlockIds} /\ (new_game => fresh = SectorIds) OBVIOUS
<1>3. counter \in Counter
  <2>1. Load(flash).counter \in Counter BY TypeIs, Bounds, LoadType
  <2> QED BY <2>1, Parity
<1>4. /\ counter = NextCounter(Load(flash).counter)
      /\ rotation = NextRotation(Load(flash).last)
      /\ val = Stamped(Load(flash).base, fresh)
  OBVIOUS
<1> HIDE DEF counter, rotation, fresh, val
<1>5. CASE Fresh(flash, whole)
  <2>1. ~MenuShowsContinue(Load(flash).status) BY <1>5, NothingContinues
  <2>2. fresh = SectorIds BY <1>1, <1>2, <2>1
  <2>3. val = Stamped(Load(flash).base, SectorIds) BY <1>4, <2>2
  <2>4. 2 <= clock BY DEF NoFaultKept
  <2>5. Paired(flash', whole', counter, clock + 1)
    BY <1>1, <1>4, <1>5, <2>3, <2>4, FirstSaved
  <2> QED BY <1>3, <2>5
<1>6. CASE \E n \in Counter : Paired(flash, whole, n, clock)
  <2>1. PICK n \in Counter : Paired(flash, whole, n, clock) BY <1>6
  <2>2. Paired(flash', whole', NextCounter(n), clock + 1)
    BY <1>1, <1>2, <1>4, <2>1, FullSaved
  <2>3. NextCounter(n) \in Counter BY Parity
  <2> QED BY <2>2, <2>3
<1> QED BY <1>5, <1>6 DEF NoFaultKept

\* What continues was not an erased image.
LEMMA ContinuesPaired ==
  ASSUME NoFaultKept, faults = 0, MenuShowsContinue(Load(flash).status)
  PROVE  \E n \in Counter : Paired(flash, whole, n, clock)
BY NothingContinues DEF NoFaultKept

LEMMA UpstreamSaveKept ==
  ASSUME TypeKept, NoFaultKept, faults = 0, faults' = 0, UpstreamSave
  PROVE  \E c \in Counter : Paired(flash', whole', c, clock + 1)
<1> DEFINE base == Load(flash).base
           counter == NextCounter(Load(flash).counter)
           rotation == NextRotation(Load(flash).last)
           val == Stamped(base, SectorIds)
           m == clock + 1
<1>1. PICK k \in 1 .. NUM_SECTORS_PER_SLOT :
        /\ CutOff(k, NUM_SECTORS_PER_SLOT)
        /\ flash' = LayGeneration(flash, 0 .. k - 1, NUM_SECTORS_PER_SLOT, rotation,
                                  counter, val)
        /\ Given(PhysicalSlotForCounter(counter), k, NUM_SECTORS_PER_SLOT,
                 Generation("full", m, m))
        /\ MenuShowsContinue(Load(flash).status)
        /\ MayWrite
  BY DEF UpstreamSave
<1>2. k = 14 /\ ~(k < NUM_SECTORS_PER_SLOT) BY <1>1, Ranges DEF CutOff
<1>3. 0 .. k - 1 = SectorIds BY <1>2, Ranges
<1>4. PICK n \in Counter : Paired(flash, whole, n, clock) BY <1>1, ContinuesPaired
<1>5. StorageToken(val) = m
  <2>1. Carries(val, m, m)
    <3>1. val = Stamped(base, SectorIds) OBVIOUS
    <3> HIDE DEF base
    <3> QED BY <3>1, StampedIs DEF Payload, Carries
  <2> HIDE DEF val, m
  <2> QED BY <2>1, TokenOf
<1>6. Gave(PhysicalSlotForCounter(counter), Generation("full", m, m))
  BY <1>1, <1>2 DEF Given
<1>7. /\ counter = NextCounter(Load(flash).counter)
      /\ rotation = NextRotation(Load(flash).last)
      /\ val = Stamped(Load(flash).base, SectorIds)
  OBVIOUS
<1>8. /\ flash' = LayGeneration(flash, SectorIds, NUM_SECTORS_PER_SLOT, rotation,
                                counter, val)
      /\ Gave(PhysicalSlotForCounter(counter),
              Generation("full", clock + 1, StorageToken(val)))
  <2>1. Gave(PhysicalSlotForCounter(counter), Generation("full", m, StorageToken(val)))
    BY <1>5, <1>6
  <2> HIDE DEF val, counter, rotation
  <2> QED BY <1>1, <1>3, <2>1 DEF m
<1> HIDE DEF base, counter, rotation, val, m
<1>9. SectorIds \in {SectorIds, SaveBlockIds} OBVIOUS
<1>10. Paired(flash', whole', NextCounter(n), clock + 1)
  BY <1>1, <1>4, <1>7, <1>8, <1>9, FullSaved
<1>11. NextCounter(n) \in Counter BY Parity
<1> QED BY <1>10, <1>11

LEMMA LegacySaveKept ==
  ASSUME TypeKept, NoFaultKept, faults = 0, faults' = 0,
         NEW q \in LegacyRotations, LegacySave(q)
  PROVE  \E c \in Counter : Paired(flash', whole', c, clock + 1)
<1> DEFINE counter == NextCounter(Load(flash).counter)
           val == Stamped(Load(flash).base, SaveBlockIds)
           half == PhysicalSlotForCounter(counter)
           kind == IF whole[half].kind \in {"broken", "doubtful"}
                   THEN "doubtful" ELSE "legacy"
<1>1. PICK k \in 1 .. SECTOR_ID_PKMN_STORAGE_START :
        /\ CutOff(k, SECTOR_ID_PKMN_STORAGE_START)
        /\ flash' = LayGeneration(flash, 0 .. k - 1, SECTOR_ID_PKMN_STORAGE_START, q,
                                  counter, val)
        /\ Given(half, k, SECTOR_ID_PKMN_STORAGE_START, Generation(kind, clock + 1, 0))
        /\ MenuShowsContinue(Load(flash).status)
        /\ MayWrite
  BY DEF LegacySave
<1>2. k = 5 /\ ~(k < SECTOR_ID_PKMN_STORAGE_START) BY <1>1, Ranges DEF CutOff
<1>3. 0 .. k - 1 = SaveBlockIds BY <1>2, Ranges
<1>4. PICK n \in Counter : Paired(flash, whole, n, clock) BY <1>1, ContinuesPaired
<1>5. q \in HeadPositions BY StoreAssumption
<1>6. Gave(half, Generation(kind, clock + 1, 0)) BY <1>1, <1>2 DEF Given
<1>7. /\ counter = NextCounter(Load(flash).counter)
      /\ val = Stamped(Load(flash).base, SaveBlockIds)
      /\ kind = IF whole[PhysicalSlotForCounter(counter)].kind \in {"broken", "doubtful"}
                THEN "doubtful" ELSE "legacy"
      /\ Gave(PhysicalSlotForCounter(counter), Generation(kind, clock + 1, 0))
  BY <1>6
<1>8. flash' = LayGeneration(flash, SaveBlockIds, SECTOR_ID_PKMN_STORAGE_START, q,
                             counter, val)
  <2> HIDE DEF val, counter
  <2> QED BY <1>1, <1>3
<1> HIDE DEF counter, val, kind, half
<1> QED BY <1>1, <1>4, <1>5, <1>7, <1>8, HeadSaved

LEMMA NextKeepsNoFault ==
  ASSUME TypeKept, NoFaultKept, StoreNext
  PROVE  NoFaultKept'
<1> SUFFICES ASSUME faults' = 0
             PROVE  /\ 2 <= clock'
                    /\ \/ Fresh(flash', whole')
                       \/ \E n \in Counter : Paired(flash', whole', n, clock')
  BY NoFaultKeptNext
<1>1. faults \in Nat /\ clock \in Nat BY TypeIs, Bounds
<1>2. faults = 0
  <2>1. \A new_game : PortSave(new_game) => faults' = faults BY DEF PortSave
  <2>2. UpstreamSave => faults' \in {faults, faults + 1} BY DEF UpstreamSave, CutOff
  <2>3. \A q : LegacySave(q) => faults' \in {faults, faults + 1} BY DEF LegacySave, CutOff
  <2>4. \A s, i, kind, id, c : Damage(s, i, kind, id, c) => faults' = faults + 1
    BY DEF Damage
  <2> QED BY <1>1, <2>1, <2>2, <2>3, <2>4, DamageSteps
<1>3. 2 <= clock BY <1>2 DEF NoFaultKept
<1>4. ASSUME clock' = clock + 1, \E c \in Counter : Paired(flash', whole', c, clock + 1)
      PROVE  /\ 2 <= clock'
             /\ \E n \in Counter : Paired(flash', whole', n, clock')
  BY <1>1, <1>3, <1>4
<1>5. ASSUME NEW new_game \in BOOLEAN, PortSave(new_game)
      PROVE  clock' = clock + 1 /\ \E c \in Counter : Paired(flash', whole', c, clock + 1)
  <2>1. clock' = clock + 1 BY <1>5 DEF PortSave
  <2> QED BY <1>2, <1>5, <2>1, PortSaveKept
<1>6. ASSUME UpstreamSave
      PROVE  clock' = clock + 1 /\ \E c \in Counter : Paired(flash', whole', c, clock + 1)
  <2>1. clock' = clock + 1 BY <1>6 DEF UpstreamSave, CutOff
  <2> QED BY <1>2, <1>6, <2>1, UpstreamSaveKept
<1>7. ASSUME NEW q \in LegacyRotations, LegacySave(q)
      PROVE  clock' = clock + 1 /\ \E c \in Counter : Paired(flash', whole', c, clock + 1)
  <2>1. clock' = clock + 1 BY <1>7 DEF LegacySave, CutOff
  <2> QED BY <1>2, <1>7, <2>1, LegacySaveKept
<1>8. \A s, i, kind, id, c : ~Damage(s, i, kind, id, c)
  BY <1>2 DEF Damage
<1> QED BY <1>4, <1>5, <1>6, <1>7, <1>8, DamageSteps

LEMMA StoreNoFaultKept == StoreSpec => [](TypeKept /\ NoFaultKept)
<1>1. StoreInit => TypeKept /\ NoFaultKept BY InitType, InitKeepsNoFault
<1>2. TypeKept /\ NoFaultKept /\ [StoreNext]_storeVars => (TypeKept /\ NoFaultKept)'
  <2> SUFFICES ASSUME TypeKept, NoFaultKept, [StoreNext]_storeVars
               PROVE  TypeKept' /\ NoFaultKept'
    OBVIOUS
  <2>1. TypeKept' BY NextType
  <2>2. CASE StoreNext
    BY <2>1, <2>2, NextKeepsNoFault
  <2>3. CASE UNCHANGED storeVars
    BY <2>1, <2>3, NoFaultKeptNext DEF storeVars, NoFaultKept
  <2> QED BY <2>1, <2>2, <2>3
<1> QED BY <1>1, <1>2, PTL DEF StoreSpec

---------------------------------------------------------------------------
(* What a load returns while nothing has failed.                           *)

\* A full generation, when it is the newest, holds the newest boxes.
LEMMA TopHoldsNewest ==
  ASSUME NEW image, NEW w, NEW s \in Slots, NEW n \in Counter, NEW k \in Nat, 2 <= k,
         2 * (k - 1) < CounterModulus,
         NEW last, NEW b, NEW f, NEW a, NEW v, NEW x \in Nat,
         Top(image, w, s, n, k, last, b, f, a, v),
         Under(image, w, 1 - s, n, k, b, f, a, v),
         BestBoxes(image, x), ~IsLegacy(image[s])
  PROVE  x = v
<1> DEFINE limit == k - 1
           sl == image[s]
<1>1. limit \in Nat /\ 0 <= limit /\ 2 * limit < CounterModulus /\ 0 \in Nat OBVIOUS
<1>2. /\ Stands(sl, n, 0, last, b, f, a, v, limit) /\ ~IsLegacy(sl)
      /\ a \in 0 .. k - 1 /\ v \in 0 .. k /\ f \in BOOLEAN
  BY DEF Top, Within
<1> HIDE DEF limit, sl
<1>3. a = 0 BY <1>1, <1>2, FullStands
<1>4. Told(sl, WrappingSub(n, 0), last, b, f, WrappingSub(n, a), v)
  BY <1>1, <1>2, StandsTold
<1>5. f /\ \A u : HoldsBoxes(sl, u) <=> u = v
  <2>1. f BY <1>2, <1>4 DEF Told
  <2>2. \A u : HoldsBoxes(sl, u) <=> f /\ u = v BY <1>4 DEF Told
  <2> QED BY <2>1, <2>2
<1>6. PICK f1, a1, v1 :
        /\ a1 \in 0 .. k - 1 /\ v1 \in 0 .. k
        /\ Offer(image[1 - s], n, f1, a1, v1)
        /\ Ordered(f, a, v, f1, a1, v1)
  BY <1>2, UnderYields
<1>7. f1 => v1 <= v BY <1>2, <1>3, <1>5, <1>6 DEF Ordered
<1>8. \A u : HoldsBoxes(image[1 - s], u) <=> f1 /\ u = v1 BY <1>6 DEF Offer
<1>9. \A u : Held(image, u) <=> u = v \/ HoldsBoxes(image[1 - s], u)
  <2>1. sl = image[s] BY DEF sl
  <2> QED BY <1>5, <2>1, SlotPair DEF Held
<1>10. v <= x BY <1>9 DEF BestBoxes
<1>11. Held(image, x) BY <1>9 DEF BestBoxes
<1>12. x = v \/ x <= v BY <1>7, <1>8, <1>9, <1>11
<1> QED BY <1>2, <1>10, <1>12

\* A head taken for a torn write has the shape of one.
LEMMA RejectedShape ==
  ASSUME NEW half, NEW n, NEW limit, Rejected(half, n, limit)
  PROVE  TornShaped(half)
<1>1. PICK d, b, v : /\ HoldsHead(half, 0, NextCounter(n), b)
                     /\ TailHolds(half, n, 12, d, v)
  BY DEF Rejected
<1>2. PICK b1 : Holds(half, TailPositions, 12, WrappingSub(n, d), b1, v)
  BY <1>1 DEF TailHolds
<1>3. \A i \in HeadPositions : half[i].data.id = i
  <2>1. \A i \in HeadPositions : HeadIdAt(i, 0) = i
    <3>1. 0 \in HeadPositions BY Ranges
    <3> QED BY <3>1, HeadIdAtIs, Ranges
  <2>2. \A i \in HeadPositions : half[i].data = Chunk(b, HeadIdAt(i, 0))
    BY <1>1 DEF HoldsHead, Reads
  <2>3. \A id : Chunk(b, id).id = id BY DEF Chunk
  <2> QED BY <2>1, <2>2, <2>3
<1>4. half[6].data.id = 8 /\ half[6].signed
  <2>1. 6 \in TailPositions /\ 6 \in Positions /\ 12 \in Positions BY Ranges
  <2>2. IdAt(6, 12) = 8 BY <2>1, IdAtIs
  <2>3. half[6].data = Payload(b1, v, 8) /\ half[6].signed
    BY <1>2, <2>1, <2>2 DEF Holds, Reads
  <2> QED BY <2>3, PayloadId
<1>5. (6 - half[6].data.id) % NUM_SECTORS_PER_SLOT = TORN_WRITE_PREDECESSOR_ROTATION
  <2>1. (6 - 8) % 14 = 12
    <3>1. \A x \in -13 .. -1 : x % 14 = x + 14 OBVIOUS
    <3>2. 6 - 8 \in -13 .. -1 /\ (6 - 8) + 14 = 12 OBVIOUS
    <3> QED BY <3>1, <3>2
  <2> QED BY <1>4, <2>1, Ranges
<1>6. \E i \in TailPositions : half[i].signed BY <1>4, Ranges
<1> QED BY <1>3, <1>5, <1>6 DEF TornShaped

\* Nothing beside the newest generation is newer.
LEMMA UnderOlder ==
  ASSUME NEW t \in Slots, NEW n, NEW k, NEW b \in Nat, NEW f, NEW a, NEW v,
         Under(flash, whole, t, n, k, b, f, a, v), t \in WholeSlots
  PROVE  whole[t].blocks <= b
<1>1. whole[t].kind = "full" \/ (whole[t].kind = "legacy" /\ ~TornShaped(flash[t]))
  BY DEF WholeSlots
<1>2. ~NeverWritten(flash, whole, t)
  BY <1>1 DEF NeverWritten, NoGeneration, Generation
<1>3. ASSUME Rejected(flash[t], n, k - 1), NEW b1, whole[t] = Generation("legacy", b1, 0)
      PROVE  FALSE
  <2> DEFINE half == flash[t]
             limit == k - 1
  <2>1. Rejected(half, n, limit) BY <1>3
  <2> HIDE DEF half, limit
  <2>2. TornShaped(half) BY <2>1, RejectedShape
  <2>3. whole[t].kind = "legacy" BY <1>3 DEF Generation
  <2> QED BY <1>1, <2>2, <2>3 DEF half
<1>4. PICK last1, b1, f1, a1, v1 :
        Former(flash, whole, t, n, k, b, f, a, v, last1, b1, f1, a1, v1)
  BY <1>2, <1>3 DEF Under
<1>5. b1 <= b /\ whole[t].blocks = b1 BY <1>4 DEF Former, Recorded, Generation
<1> QED BY <1>5

LEMMA PairedKeeps ==
  ASSUME TypeKept, NEW n \in Counter, Paired(flash, whole, n, clock)
  PROVE  /\ NewestWholeGenerationLoads
         /\ VerifiedBoxesNeverSpliced
         /\ LegacyHeadKeepsNewestBoxes
<1> DEFINE s == PhysicalSlotForCounter(n)
<1>1. s \in Slots /\ s = PhysicalSlotForCounter(n) /\ 1 - s \in Slots BY Parity, SlotPair
<1>2. clock \in Nat /\ 2 <= clock /\ 2 * (clock - 1) < CounterModulus
  BY TypeIs, Bounds DEF Paired
<1>3. PICK last, b, f, a, v :
        /\ Top(flash, whole, s, n, clock, last, b, f, a, v)
        /\ Under(flash, whole, 1 - s, n, clock, b, f, a, v)
        /\ \E x \in 0 .. clock : Loaded(flash, s, n, last, b, x)
  BY PairedLoads
<1>4. PICK x \in 0 .. clock : Loaded(flash, s, n, last, b, x) BY <1>3
<1> HIDE DEF s
<1> DEFINE legacy == IsLegacy(flash[s])
           store == Load(flash)
<1>5. b \in 0 .. clock /\ Recorded(flash, whole, s, b, v) BY <1>3 DEF Top, Within
<1>6. legacy \in BOOLEAN BY LegacyOrNot
<1>7. /\ store.status \in {"Ok", "Error"}
      /\ store.source = "Own" <=> ~legacy
      /\ legacy => (store.source = "LegacyWithoutDonor" <=> \A w : ~Held(flash, w))
      /\ Verdict(flash).legacy = legacy
      /\ Carries(store.base, b, x) /\ BestBoxes(flash, x)
  BY <1>4 DEF Loaded
<1>8. whole[s].blocks = b /\ whole[s].kind = IF legacy THEN "legacy" ELSE "full"
  <2> HIDE DEF store
  <2> QED BY <1>5, <1>6 DEF Recorded, Generation
<1>9. ~legacy => whole[s].storage = x
  <2> SUFFICES ASSUME ~legacy PROVE whole[s].storage = x OBVIOUS
  <2>1. x = v BY <1>1, <1>2, <1>3, <1>7, TopHoldsNewest
  <2> QED BY <1>5, <2>1 DEF Recorded, Generation
<1> HIDE DEF legacy, store
<1>10. /\ \A id \in SaveBlockIds : store.base[id] = Chunk(b, id)
       /\ \A id \in StorageIds : store.base[id] = Chunk(x, id)
  <2>1. \A id \in SaveBlockIds : id \in SectorIds BY DEF SectorIds
  <2>2. \A id \in StorageIds : id \in SectorIds BY DEF SectorIds
  <2> QED BY <1>7, <2>1, <2>2, PayloadIs DEF Carries
<1>11. NewestWholeGenerationLoads
  <2>1. s \in WholeSlots \union DoubtfulSlots
    BY <1>1, <1>6, <1>8 DEF WholeSlots, DoubtfulSlots
  <2>2. \A t \in WholeSlots : whole[t].blocks <= whole[s].blocks
    <3> SUFFICES ASSUME NEW t \in WholeSlots PROVE whole[t].blocks <= b BY <1>8
    <3>1. t \in Slots BY DEF WholeSlots
    <3>2. CASE t = s BY <1>2, <1>5, <1>8, <3>2
    <3>3. CASE t = 1 - s
      <4>1. b \in Nat BY <1>2, <1>5
      <4> QED BY <1>3, <3>1, <3>3, <4>1, UnderOlder
    <3> QED BY <1>1, <3>1, <3>2, <3>3, SlotPair
  <2>3. LoadsBlocksOf(store, s)
    <3>1. \A id \in SaveBlockIds : store.base[id] = Chunk(whole[s].blocks, id)
      BY <1>8, <1>10
    <3>2. whole[s].kind = "full" =>
            \A id \in StorageIds : store.base[id] = Chunk(whole[s].storage, id)
      BY <1>6, <1>8, <1>9, <1>10
    <3> QED BY <1>7, <3>1, <3>2 DEF LoadsBlocksOf, MenuShowsContinue
  <2> QED BY <2>1, <2>2, <2>3 DEF NewestWholeGenerationLoads, store
<1>12. OfOneWrite(store, SaveBlockIds) /\ OfOneWrite(store, StorageIds)
  BY <1>5, <1>10 DEF OfOneWrite
<1>13. VerifiedBoxesNeverSpliced
  <2>1. store = CopyAfterDonor(flash, Verdict(flash)) BY DEF store, Load
  <2> QED BY <1>12, <2>1 DEF VerifiedBoxesNeverSpliced
<1>14. LegacyHeadKeepsNewestBoxes
  <2> DEFINE held == StorageHeld
  <2>1. \A u : u \in held <=> u \in 0 .. clock /\ Held(flash, u)
    BY DEF StorageHeld, Held, HoldsBoxes
  <2> HIDE DEF held
  <2>2. held = {} => \A u : ~Held(flash, u) BY <1>4, <1>7, <2>1 DEF BestBoxes
  <2>3. held = {} => x = 0 BY <1>7, <2>2 DEF BestBoxes
  <2>4. held # {} => MaxPos(held) = x
    <3> SUFFICES ASSUME held # {} PROVE MaxPos(held) = x OBVIOUS
    <3>1. PICK u \in held : TRUE OBVIOUS
    <3>2. Held(flash, u) BY <2>1, <3>1
    <3>3. Held(flash, x) BY <1>7, <3>2 DEF BestBoxes
    <3>4. x \in held BY <1>4, <2>1, <3>3
    <3>5. \A y \in held : y <= x BY <1>7, <2>1 DEF BestBoxes
    <3>6. held \in SUBSET Int BY <1>2, <2>1
    <3> QED BY <3>4, <3>5, <3>6, MaxIs
  <2>5. x = IF held = {} THEN 0 ELSE MaxPos(held) BY <2>3, <2>4
  <2>6. \A id \in StorageIds :
          store.base[id] = Chunk(IF held = {} THEN 0 ELSE MaxPos(held), id)
    BY <1>10, <2>5
  <2>7. (\A u : ~Held(flash, u)) => held = {} BY <2>1
  <2>8. store.source # "Own" => (held = {} <=> store.source = "LegacyWithoutDonor")
    BY <1>6, <1>7, <2>2, <2>7
  <2> QED BY <2>6, <2>8 DEF LegacyHeadKeepsNewestBoxes, held, store
<1> QED BY <1>11, <1>13, <1>14

LEMMA FreshKeeps ==
  ASSUME Fresh(flash, whole)
  PROVE  /\ NewestWholeGenerationLoads
         /\ VerifiedBoxesNeverSpliced
         /\ LegacyHeadKeepsNewestBoxes
<1>1. /\ ~MenuShowsContinue(Load(flash).status) /\ Load(flash).source = "Own"
      /\ ~Verdict(flash).legacy
  BY NothingContinues
<1>2. WholeSlots = {}
  BY DEF WholeSlots, Fresh, NeverWritten, NoGeneration, Generation
<1>3. NewestWholeGenerationLoads BY <1>1, <1>2 DEF NewestWholeGenerationLoads
<1>4. VerifiedBoxesNeverSpliced BY <1>1 DEF VerifiedBoxesNeverSpliced
<1>5. LegacyHeadKeepsNewestBoxes BY <1>1 DEF LegacyHeadKeepsNewestBoxes
<1> QED BY <1>3, <1>4, <1>5

\* While nothing is torn or damaged, whatever builds write, five-sector ones
\* included, and in whatever order: a load returns the newest generation held
\* complete, and under a five-sector head the newest complete set of boxes either
\* slot holds, none only when neither does; never a mix of two writes.
THEOREM StoreWithoutFaults ==
  StoreSpec => [](faults = 0 => NewestWholeGenerationLoads /\ StoreInv)
<1>1. TypeKept /\ NoFaultKept =>
        (faults = 0 => NewestWholeGenerationLoads /\ StoreInv)
  <2> SUFFICES ASSUME TypeKept, NoFaultKept, faults = 0
               PROVE  NewestWholeGenerationLoads /\ StoreInv
    OBVIOUS
  <2>1. StoreTypeOK BY DEF TypeKept
  <2>2. /\ NewestWholeGenerationLoads /\ VerifiedBoxesNeverSpliced
        /\ LegacyHeadKeepsNewestBoxes
    BY PairedKeeps, FreshKeeps DEF NoFaultKept
  <2> QED BY <2>1, <2>2 DEF StoreInv
<1> QED BY <1>1, StoreNoFaultKept, PTL

====
