---- MODULE SaveFile ----
(***************************************************************************)
(* Guarded access to one save path by several processes: `SaveFile::lock`, *)
(* `read` and `write` on a Unix host, one step per system call.  The path  *)
(* leads to a directory by links another program may retarget between any  *)
(* two calls, and every call resolves it anew.  The lock is an advisory    *)
(* one on the file in the directory's lock slot; a write fills a staged    *)
(* file beside the save and renames it over the save.                      *)
(*                                                                         *)
(* Crashes of a process and power losses are included, and so are programs *)
(* that retarget the path, take the lock file away or replace a staged     *)
(* file.  Images are told apart by the directory's count of saves; what is *)
(* inside an image is the subject of SaveStore, what a game does with the  *)
(* lock that of SaveSession.                                               *)
(***************************************************************************)
EXTENDS Integers, FiniteSets

CONSTANTS
  Processes, Dirs,
  Home,                \* the directory the path leads to at first
  MaxSaves,            \* bound on saves in a directory
  MaxUpsets            \* bound on retargets, taken or spoilt slots, replaced
                       \* staged files, crashes and power losses

ASSUME SaveFileAssumption ==
  /\ IsFiniteSet(Processes) /\ IsFiniteSet(Dirs) /\ Home \in Dirs
  /\ MaxSaves \in Nat /\ MaxUpsets \in Nat

VARIABLES
  parent,              \* the directory the save path leads to
  slot,                \* each directory's lock slot: a file, or none, or spoilt
  files,               \* how many lock files were ever made
  holder,              \* who holds the lock of each of them
  save, survivors,     \* each directory's save, and what a power loss may leave
  pc,                  \* where a process is, and after the check it is making
  identity, lock_file, \* the directory it recorded, the file it locked
  staged,              \* its staged file
  upsets,
  seen,                \* history variables: the save it read under its guard,
  raced                \* and whether an upset fell between a check and its use

diskVars == <<slot, files, save, survivors>>
procVars == <<pc, identity, lock_file, staged>>
vars == <<parent, diskVars, holder, procVars, upsets, seen, raced>>

Nobody == "nobody"
ASSUME NobodyAssumption == Nobody \notin Processes

Free == 0              \* no lock file in the slot
Spoilt == -1           \* a symlink or something that is no plain file
MaxFiles == Cardinality(Dirs) + MaxUpsets
LockFiles == 1..MaxFiles

\* A save, by its number in the directory it was made for; "synced" data is on
\* the disk, "filling" data is not, and "foreign" data is somebody else's file.
Image(d, n, data) == [dir |-> d, number |-> n, data |-> data]
Data == {"filling", "synced", "foreign"}
NoDir == "no directory"
NoImage == Image(NoDir, 0, "synced")

At(place) == [at |-> place, next |-> place]
\* The check before place: the parent's identity first, the slot's second.
CheckBefore(place) == [at |-> "parent", next |-> place]

Init ==
  /\ parent = Home
  /\ slot = [d \in Dirs |-> Free] /\ files = 0
  /\ holder = [f \in LockFiles |-> Nobody]
  /\ save = [d \in Dirs |-> Image(d, 0, "synced")]
  /\ survivors = [d \in Dirs |-> {Image(d, 0, "synced")}]
  /\ pc = [p \in Processes |-> At("idle")]
  /\ identity = [p \in Processes |-> NoDir] /\ lock_file = [p \in Processes |-> Free]
  /\ staged = [p \in Processes |-> NoImage]
  /\ upsets = 0
  /\ seen = [p \in Processes |-> NoImage] /\ raced = [p \in Processes |-> FALSE]

Goto(p, where) == pc' = [pc EXCEPT ![p] = where]

---------------------------------------------------------------------------
(* `lock`.                                                                 *)

\* The parent's identity is recorded in one resolution of the path,
Begin(p) ==
  /\ pc[p] = At("idle")
  /\ identity' = [identity EXCEPT ![p] = parent]
  /\ Goto(p, At("open"))
  /\ UNCHANGED <<parent, diskVars, holder, lock_file, staged, upsets, seen, raced>>

Opened(p) ==
  /\ slot[parent] \in LockFiles
  /\ lock_file' = [lock_file EXCEPT ![p] = slot[parent]]
  /\ Goto(p, At("flock"))

\* and the slot is opened in another, or made if it is free: whoever links a
\* fresh file into the slot first wins, and the other opens what it finds.
OpenSlot(p) ==
  /\ pc[p] = At("open")
  /\ \/ Opened(p)
     \/ slot[parent] = Free /\ Goto(p, At("create")) /\ UNCHANGED lock_file
     \/ slot[parent] = Spoilt /\ Goto(p, At("release")) /\ UNCHANGED lock_file
  /\ UNCHANGED <<parent, diskVars, holder, identity, staged, upsets, seen, raced>>

CreateSlot(p) ==
  /\ pc[p] = At("create")
  /\ \/ /\ slot[parent] = Free
        /\ files' = files + 1
        /\ slot' = [slot EXCEPT ![parent] = files + 1]
        /\ lock_file' = [lock_file EXCEPT ![p] = files + 1]
        /\ Goto(p, At("flock"))
     \/ /\ slot[parent] # Free
        /\ Goto(p, At("reopen"))
        /\ UNCHANGED <<slot, files, lock_file>>
  /\ UNCHANGED <<parent, save, survivors, holder, identity, staged, upsets, seen, raced>>

ReopenSlot(p) ==
  /\ pc[p] = At("reopen")
  /\ \/ Opened(p)
     \/ slot[parent] \notin LockFiles /\ Goto(p, At("release")) /\ UNCHANGED lock_file
  /\ UNCHANGED <<parent, diskVars, holder, identity, staged, upsets, seen, raced>>

\* Blocks while another process holds the file.
Flock(p) ==
  /\ pc[p] = At("flock") /\ holder[lock_file[p]] = Nobody
  /\ holder' = [holder EXCEPT ![lock_file[p]] = p]
  /\ Goto(p, At("own"))
  /\ UNCHANGED <<parent, diskVars, identity, lock_file, staged, upsets, seen, raced>>

\* `names_its_own_entry`: the slot may have been replaced while it was awaited.
OwnEntry(p) ==
  /\ pc[p] = At("own")
  /\ Goto(p, IF slot[parent] = lock_file[p] THEN CheckBefore("locked") ELSE At("release"))
  /\ UNCHANGED <<parent, diskVars, holder, identity, lock_file, staged, upsets, seen, raced>>

\* `refuse_a_retargeted_parent`, two resolutions of the path.
CheckParent(p) ==
  /\ pc[p].at = "parent"
  /\ Goto(p, IF parent = identity[p] THEN [pc[p] EXCEPT !.at = "slot"] ELSE At("release"))
  /\ UNCHANGED <<parent, diskVars, holder, identity, lock_file, staged, upsets, seen, raced>>

\* The lock makes the check twice, before and after the ancestors are
\* synchronised; the read that follows makes it again.
Passed(place) ==
  CASE place = "locked" -> CheckBefore("guarded")
    [] place = "guarded" -> CheckBefore("read")
    [] OTHER -> At(place)

\* Mutant: any file in the slot will do.
CheckAnySlot(p) ==
  /\ pc[p].at = "slot"
  /\ Goto(p, IF slot[parent] \in LockFiles THEN Passed(pc[p].next) ELSE At("release"))
  /\ UNCHANGED <<parent, diskVars, holder, identity, lock_file, staged, upsets, seen, raced>>
CheckSlot(p) ==
  /\ pc[p].at = "slot"
  /\ Goto(p, IF slot[parent] = lock_file[p] THEN Passed(pc[p].next) ELSE At("release"))
  /\ UNCHANGED <<parent, diskVars, holder, identity, lock_file, staged, upsets, seen, raced>>

---------------------------------------------------------------------------
(* Under the guard: `read`, then perhaps `write`, then the guard is        *)
(* dropped.                                                                *)

Read(p) ==
  /\ pc[p] = At("read")
  /\ seen' = [seen EXCEPT ![p] = save[parent]]
  /\ Goto(p, CheckBefore("loaded"))
  /\ UNCHANGED <<parent, diskVars, holder, identity, lock_file, staged, upsets, raced>>

StartWrite(p) ==
  /\ pc[p] = At("loaded") /\ save[identity[p]].number < MaxSaves
  /\ Goto(p, CheckBefore("stage"))
  /\ UNCHANGED <<parent, diskVars, holder, identity, lock_file, staged, upsets, seen, raced>>

\* The staged file is created under a free name and is this process's own.
Stage(p) ==
  /\ pc[p] = At("stage")
  /\ staged' = [staged EXCEPT ![p] = Image(parent, save[parent].number + 1, "filling")]
  /\ Goto(p, At("fill"))
  /\ UNCHANGED <<parent, diskVars, holder, identity, lock_file, upsets, seen, raced>>

\* Written and synchronised through the handle (not synchronised in the mutant);
\* a failure leaves it behind.
FillUnsynced(p) ==
  /\ pc[p] = At("fill")
  /\ Goto(p, CheckBefore("ours"))
  /\ UNCHANGED <<parent, diskVars, holder, identity, lock_file, staged, upsets, seen, raced>>
Fill(p) ==
  /\ pc[p] = At("fill")
  /\ \/ /\ staged' = [staged EXCEPT ![p].data = IF @ = "filling" THEN "synced" ELSE @]
        /\ Goto(p, CheckBefore("ours"))
     \/ Goto(p, At("release")) /\ UNCHANGED staged
  /\ UNCHANGED <<parent, diskVars, holder, identity, lock_file, upsets, seen, raced>>

\* `still_ours`: does the staging path still name the file that was filled?  Its
\* mutant asks only whether something is there.
StillThere(p) == staged[p].dir = parent
StillSomething(p) ==
  /\ pc[p] = At("ours")
  /\ Goto(p, IF StillThere(p) THEN CheckBefore("rename") ELSE At("release"))
  /\ UNCHANGED <<parent, diskVars, holder, identity, lock_file, staged, upsets, seen, raced>>
StillOurs(p) ==
  /\ pc[p] = At("ours")
  /\ Goto(p, IF StillThere(p) /\ staged[p].data # "foreign" THEN CheckBefore("rename")
             ELSE At("release"))
  /\ UNCHANGED <<parent, diskVars, holder, identity, lock_file, staged, upsets, seen, raced>>

\* A rename out of place is an upset to everyone at work.
Rename(p) ==
  /\ pc[p] = At("rename")
  /\ IF StillThere(p)
     THEN /\ save' = [save EXCEPT ![parent] = staged[p]]
          /\ survivors' = [survivors EXCEPT ![parent] = @ \cup {staged[p]}]
          /\ staged' = [staged EXCEPT ![p] = NoImage]
          /\ raced' = [q \in Processes |-> raced[q] \/ (raced[p] /\ pc[q] # At("idle"))]
          /\ Goto(p, At("sync"))
     ELSE Goto(p, At("release")) /\ UNCHANGED <<save, survivors, staged, raced>>
  /\ UNCHANGED <<parent, slot, files, holder, identity, lock_file, upsets, seen>>

\* The directory is synchronised if that can be done.
SyncDirectory(p) ==
  /\ pc[p] = At("sync")
  /\ survivors' \in {survivors, [survivors EXCEPT ![parent] = {save[parent]}]}
  /\ Goto(p, At("release"))
  /\ UNCHANGED <<parent, slot, files, save, holder, identity, lock_file, staged, upsets,
                 seen, raced>>

\* Every way out drops the lock file's handle and with it the lock; a staged
\* file that was not renamed is left where it is.  The mutant of Release keeps
\* the lock when the path has moved on.
Forget(p) ==
  /\ identity' = [identity EXCEPT ![p] = NoDir]
  /\ lock_file' = [lock_file EXCEPT ![p] = Free]
  /\ staged' = [staged EXCEPT ![p] = NoImage]
  /\ seen' = [seen EXCEPT ![p] = NoImage] /\ raced' = [raced EXCEPT ![p] = FALSE]
  /\ Goto(p, At("idle"))
Unlocked(gone) == [f \in LockFiles |-> IF holder[f] \in gone THEN Nobody ELSE holder[f]]

ReleaseGuardOnly(p) ==
  /\ pc[p] \in {At("release"), At("loaded")}
  /\ Forget(p)
  /\ holder' = IF identity[p] = parent THEN Unlocked({p}) ELSE holder
  /\ UNCHANGED <<parent, diskVars, upsets>>
Release(p) ==
  /\ pc[p] \in {At("release"), At("loaded")}
  /\ Forget(p)
  /\ holder' = Unlocked({p})
  /\ UNCHANGED <<parent, diskVars, upsets>>

Step(p) ==
  \/ OpenSlot(p) \/ CreateSlot(p) \/ ReopenSlot(p) \/ Flock(p)
  \/ OwnEntry(p) \/ CheckParent(p) \/ CheckSlot(p)
  \/ Read(p) \/ StartWrite(p) \/ Stage(p) \/ Fill(p)
  \/ StillOurs(p) \/ Rename(p) \/ SyncDirectory(p) \/ Release(p)

---------------------------------------------------------------------------
(* What the processes do not control.                                      *)

Upset == upsets < MaxUpsets /\ upsets' = upsets + 1

\* Nothing joins the last check to the call that relies on it.
Exposed(p) == pc[p] \in {At("read"), At("rename")}
Race == raced' = [p \in Processes |-> raced[p] \/ Exposed(p)]

Retarget ==
  /\ Upset /\ Race
  /\ parent' \in Dirs \ {parent}
  /\ UNCHANGED <<diskVars, holder, procVars, seen>>

TakeSlot(d) ==
  /\ Upset /\ Race
  /\ slot[d] # Free
  /\ slot' = [slot EXCEPT ![d] = Free]
  /\ UNCHANGED <<parent, files, save, survivors, holder, procVars, seen>>

SpoilSlot(d) ==
  /\ Upset /\ Race
  /\ slot[d] # Spoilt
  /\ slot' = [slot EXCEPT ![d] = Spoilt]
  /\ UNCHANGED <<parent, files, save, survivors, holder, procVars, seen>>

\* `still_ours` is followed by a check of the parent before the rename.
ReplaceStaged(p) ==
  /\ Upset
  /\ raced' = [raced EXCEPT ![p] = @ \/ pc[p].next = "rename"]
  /\ staged[p].dir # NoDir /\ staged[p].data # "foreign"
  /\ staged' = [staged EXCEPT ![p].data = "foreign"]
  /\ UNCHANGED <<parent, diskVars, holder, pc, identity, lock_file, seen>>

Crash(p) ==
  /\ Upset /\ pc[p] # At("idle")
  /\ Forget(p)
  /\ holder' = Unlocked({p})
  /\ UNCHANGED <<parent, diskVars>>

\* Every process is gone, and of the renames since the last synchronisation the
\* disk holds the effect of some.
PowerLoss ==
  /\ Upset
  /\ \E left \in [Dirs -> UNION {survivors[d] : d \in Dirs}] :
       /\ \A d \in Dirs : left[d] \in survivors[d]
       /\ save' = left /\ survivors' = [d \in Dirs |-> {left[d]}]
  /\ holder' = [f \in LockFiles |-> Nobody]
  /\ pc' = [p \in Processes |-> At("idle")]
  /\ identity' = [p \in Processes |-> NoDir] /\ lock_file' = [p \in Processes |-> Free]
  /\ staged' = [p \in Processes |-> NoImage]
  /\ seen' = [p \in Processes |-> NoImage] /\ raced' = [p \in Processes |-> FALSE]
  /\ UNCHANGED <<parent, slot, files>>

Next ==
  \/ \E p \in Processes : Begin(p) \/ Step(p) \/ ReplaceStaged(p) \/ Crash(p)
  \/ \E d \in Dirs : TakeSlot(d) \/ SpoilSlot(d)
  \/ Retarget \/ PowerLoss

Spec == Init /\ [][Next]_vars

\* A process runs on, and what it asks of the host returns.
FairSpec == Spec /\ \A p \in Processes : WF_vars(Step(p))

---------------------------------------------------------------------------
(* Properties.                                                             *)

TypeOK ==
  /\ parent \in Dirs
  /\ slot \in [Dirs -> LockFiles \cup {Free, Spoilt}] /\ files \in 0..MaxFiles
  /\ holder \in [LockFiles -> Processes \cup {Nobody}]
  /\ \A p \in Processes :
       /\ identity[p] \in Dirs \cup {NoDir}
       /\ lock_file[p] \in 0..files
       /\ staged[p].data \in Data /\ seen[p].data \in Data
  /\ \A d \in Dirs : save[d] \in survivors[d]
  /\ upsets \in 0..MaxUpsets

Renames(p) == pc[p] = At("rename") /\ pc'[p] = At("sync")

\* However the path is retargeted, there and back included, and whatever becomes
\* of the lock file and the staged one: a guarded write replaces the very save its
\* process read, in the directory it locked, by the image it staged, unless an
\* upset fell right between a last check and the call that relies on it.
OnlyOwnUpdate ==
  [][\A p \in Processes : Renames(p) /\ ~raced[p] =>
       save[parent] = seen[p] /\ save'[parent].data # "foreign"]_vars

\* Whatever renames a power loss undoes, the save it leaves was on the disk whole
\* before it got its name.
PowerLossLeavesWhole ==
  \A d \in Dirs : \A image \in survivors[d] : image.data # "filling"

\* The disk never holds a save that was not written whole, and its bookkeeping
\* is sound: a directory's save is among those a power loss may leave.
FileInv == TypeOK /\ PowerLossLeavesWhole

\* Whoever gets the lock lets go of it, whichever call fails in between.
LockLetGo ==
  \A p \in Processes :
    (\E f \in LockFiles : holder[f] = p) ~> (\A f \in LockFiles : holder[f] # p)
====
