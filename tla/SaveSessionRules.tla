---- MODULE SaveSessionRules ----
(***************************************************************************)
(* What one game session decides about the save file, as operators: what a *)
(* load of the image on disk recovers, whether a store over that image is  *)
(* refused, and the image a store that is not refused leaves.              *)
(*                                                                         *)
(* A slot of the image is abstracted to the scan SaveSurvey draws from its *)
(* sectors, with the payloads behind it: `blocks` names the save that      *)
(* stamped the save blocks and `boxes` the one that stamped the storage.   *)
(***************************************************************************)
EXTENDS SaveResolve

CONSTANT Stamps              \* names of saves; 0 is no save

ASSUME StampsAssumption == Stamps \subseteq Nat /\ 0 \notin Stamps

Slots == {0, 1}
NoStamp == 0
Payload == Stamps \union {NoStamp}

Slot == [integrity : {"Empty", "Ok", "Error"}, counter : Counter,
         legacy : BOOLEAN, box_counter : Counter \union {NoCounter},
         blocks : Payload, boxes : Payload]
Image == [Slots -> Slot]
Base == [blocks : Payload, boxes : Payload]

EmptySlot == [integrity |-> "Empty", counter |-> 0, legacy |-> FALSE,
              box_counter |-> NoCounter, blocks |-> NoStamp, boxes |-> NoStamp]
ErasedImage == [s \in Slots |-> EmptySlot]

FullSlot(counter, blocks, boxes) ==
  [integrity |-> "Ok", counter |-> counter, legacy |-> FALSE,
   box_counter |-> counter, blocks |-> blocks, boxes |-> boxes]

----------------------------------------------------------------------------
ScanOf(slot) ==
  [integrity |-> slot.integrity, counter |-> slot.counter,
   legacy |-> slot.legacy, storage_counter |-> slot.box_counter,
   majority_counter |-> slot.counter]

\* `SaveStore::load`: status, counter, provenance of the boxes and the base
\* the next save keeps. A corrupt or empty image leaves nothing of a save.
DiskLoad(image) ==
  LET res == Resolve([s \in Slots |-> ScanOf(image[s])])
      slot == image[PhysicalSlotForCounter(res.counter)]
      donor == res.storage_from_slot
      shown == MenuShowsContinue(res.status)
  IN [status |-> res.status,
      counter |-> res.counter,
      source |-> IF ~res.legacy THEN "Own"
                 ELSE IF donor = NoSlot THEN "LegacyWithoutDonor"
                 ELSE "LegacyDonor",
      base |-> [blocks |-> IF shown THEN slot.blocks ELSE NoStamp,
                boxes |-> IF ~shown THEN NoStamp
                          ELSE IF ~res.legacy THEN slot.boxes
                          ELSE IF donor = NoSlot THEN NoStamp
                          ELSE image[donor].boxes]]

\* A save-block sector of slot s stops verifying: the slot's generation
\* is gone.
WithoutBlocks(slot) ==
  [slot EXCEPT !.integrity = "Error", !.legacy = FALSE, !.blocks = NoStamp]

\* A storage sector stops verifying: no donor set, and no full generation.
WithoutBoxes(slot) ==
  [slot EXCEPT !.integrity = IF slot.legacy THEN @ ELSE "Error",
               !.blocks = IF slot.legacy THEN @ ELSE NoStamp,
               !.box_counter = NoCounter, !.boxes = NoStamp]

DamagedImages(image, s) ==
  {[image EXCEPT ![s] = WithoutBlocks(@)], [image EXCEPT ![s] = WithoutBoxes(@)]}

----------------------------------------------------------------------------
\* What a session remembers of the file between two of its stores.
Session == [file : BOOLEAN,          \* FALSE: unreadable at boot, never saves
            counter : Counter, base : Base, merged_donor : BOOLEAN,
            status : {"Empty", "Ok", "Corrupt", "Error", "NoFlash"},
            new_game : BOOLEAN,      \* SaveLineage::NewGame
            different : BOOLEAN]     \* `different_save_file`

Booted(image) ==
  LET load == DiskLoad(image)
  IN [file |-> TRUE, counter |-> load.counter, base |-> load.base,
      merged_donor |-> load.source = "LegacyDonor", status |-> load.status,
      new_game |-> FALSE, different |-> FALSE]

NoFlashSession ==
  [file |-> FALSE, counter |-> 0, base |-> [blocks |-> NoStamp, boxes |-> NoStamp],
   merged_donor |-> FALSE, status |-> "NoFlash",
   new_game |-> FALSE, different |-> FALSE]

\* Mutant: any mismatch over a legacy head without a donor is donor loss.
DonorLostAnyHead(s, load) == s.merged_donor /\ load.base # s.base

\* The same five-sector head, now without the donor this session merged.
DonorWasLost(s, load) ==
  /\ s.merged_donor
  /\ load.source = "LegacyWithoutDonor"
  /\ load.base.blocks = s.base.blocks

\* Mutant: equal counters are taken for equal contents.
ReconcileTrustsCounters(s, load) ==
  IF CounterIsAhead(load.counter, s.counter) THEN "Restore" ELSE "Keep"

\* What a continued session does with the base a reread found.
ReconcileBase(s, load) ==
  IF CounterIsAhead(load.counter, s.counter) THEN "Restore"
  ELSE IF load.counter # s.counter \/ load.base = s.base THEN "Keep"
  ELSE IF DonorWasLost(s, load) THEN "Restore"
  ELSE "Refuse"

\* Mutant: newer progress on disk is not looked at.
StoreVerdictIgnoresProgress(s, confirmed, load) ==
  IF s.different /\ ~confirmed /\ MenuShowsContinue(load.status)
  THEN "RefusedExistingSave"
  ELSE IF ~s.new_game /\ ReconcileBase(s, load) = "Refuse"
  THEN "RefusedConflictingSave"
  ELSE "Written"

\* Mutant: a save that appeared after boot is overwritten without asking.
StoreVerdictNeverAsks(s, confirmed, load) ==
  IF CounterIsAhead(s.counter, load.counter) /\ MenuShowsContinue(load.status)
  THEN "RefusedStaleSession"
  ELSE IF ~s.new_game /\ ReconcileBase(s, load) = "Refuse"
  THEN "RefusedConflictingSave"
  ELSE "Written"

\* The store's verdict over the image it reread; `confirmed` is the answer the
\* dialog that asked for this store got.
StoreVerdict(s, confirmed, load) ==
  LET shown == MenuShowsContinue(load.status)
  IN IF CounterIsAhead(s.counter, load.counter) /\ shown
     THEN "RefusedStaleSession"
     ELSE IF s.different /\ ~confirmed /\ shown THEN "RefusedExistingSave"
     ELSE IF ~s.new_game /\ ReconcileBase(s, load) = "Refuse"
     THEN "RefusedConflictingSave"
     ELSE "Written"

\* Mutant: a new game keeps the boxes of the save it replaces.
BoxesKeptByNewGame(s, load, stamp) ==
  IF ReconcileBase(s, load) = "Restore" THEN s.base.boxes ELSE load.base.boxes

\* Mutant: a continued session always writes over what it reread.
BoxesAsReread(s, load, stamp) ==
  IF s.new_game THEN stamp ELSE load.base.boxes

\* The boxes a store writes: fresh for a new game, else the reread base's or
\* this session's own.
BoxesToWrite(s, load, stamp) ==
  CASE s.new_game -> stamp
    [] ~s.new_game /\ ReconcileBase(s, load) = "Restore" -> s.base.boxes
    [] OTHER -> load.base.boxes

SavedBase(s, load, stamp) ==
  [blocks |-> stamp, boxes |-> BoxesToWrite(s, load, stamp)]

\* The image the store leaves: a full generation in the next counter's slot.
SavedImage(s, image, stamp) ==
  LET load == DiskLoad(image)
      counter == WrappingAdd(load.counter, 1)
  IN [image EXCEPT ![PhysicalSlotForCounter(counter)] =
       FullSlot(counter, stamp, BoxesToWrite(s, load, stamp))]

\* What the session remembers once its store is on disk.
AfterWritten(s, image, stamp) ==
  LET load == DiskLoad(image)
  IN [s EXCEPT !.counter = WrappingAdd(load.counter, 1),
               !.base = SavedBase(s, load, stamp),
               !.merged_donor = FALSE,
               !.different = FALSE]

\* Any attempt in the overwrite mode clears the mode, failed ones too.
AfterAttempt(s) == [s EXCEPT !.different = FALSE]
====
