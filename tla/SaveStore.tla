---- MODULE SaveStore ----
(***************************************************************************)
(* The two-slot rotating save store: `SaveStore::load` and                 *)
(* `SaveStore::save` over a flash image, and the writers and faults the    *)
(* image has to survive.  This port replaces the image atomically          *)
(* (SaveFile), so a save of its own is one step; the original game and the *)
(* five-sector builds write sector by sector and can be cut off anywhere.  *)
(***************************************************************************)
EXTENDS SaveSurvey

CONSTANTS
  StartCounters,       \* newest counter of the images a run starts from
  StartRotations,      \* rotation of that newest generation
  StartErased,         \* whether a run may also start from erased flash
  MaxWrites,           \* bound on writes, torn ones included
  MaxFaults,           \* bound on torn writes and damaged sectors together
  LegacyRotations,     \* rotations five-sector builds write at; {}: none do
  DamageKinds          \* subset of {"signature", "checksum", "counter", "id"}

ASSUME StoreAssumption ==
  /\ StartCounters \subseteq Counter
  /\ StartRotations \subseteq Positions
  /\ StartErased \in BOOLEAN
  /\ LegacyRotations \subseteq HeadPositions
  /\ MaxWrites \in Nat /\ MaxFaults \in Nat
  /\ DamageKinds \subseteq {"signature", "checksum", "counter", "id"}

\* No run counts past half the range of the counter, 2^31 in the code, from the
\* older of the two generations it starts from.
ASSUME WritesAssumption == 2 * (MaxWrites + 1) < CounterModulus

VARIABLES
  flash,               \* slot -> position -> sector: `SaveStore::buffer`
  clock,               \* writes so far; stamps the payloads of the next one
  faults,              \* torn writes and damaged sectors so far
  whole                \* history: what each slot was last completely given

storeVars == <<flash, clock, faults, whole>>

Slots == {0, 1}
Chunk(val, id) == [val |-> val, id |-> id]
Zeroed(id) == Chunk(0, id)

----------------------------------------------------------------------------
\* Positions a copy reads: a five-sector head never reads behind itself.
ReadPositions(legacy) == IF legacy THEN HeadPositions ELSE Positions

\* Payloads of `slot`'s valid sectors by id, a later position overriding an
\* earlier one; the rotation is recovered from id 0 before any validation.
CopyValidSlotPayloads(slot, legacy, last_before) ==
  LET read == ReadPositions(legacy)
      valid == {i \in read : IsValid(slot[i])}
      of(id) == {i \in valid : slot[i].id = id}
      ids0 == {i \in read : slot[i].id = SECTOR_ID_SAVEBLOCK2}
  IN [last |-> IF ids0 = {} THEN last_before ELSE MaxPos(ids0),
      payload |-> [id \in SectorIds |->
        IF of(id) = {} THEN Zeroed(id) ELSE slot[MaxPos(of(id))].data]]

\* The store the copies behind a verdict rebuild, and what it reports.
Rebuilt(res, donated, copied) ==
  [status |-> res.status,
   counter |-> res.counter,
   last |-> copied.last,
   source |-> IF ~res.legacy THEN "Own"
              ELSE IF res.storage_from_slot = NoSlot THEN "LegacyWithoutDonor"
              ELSE "LegacyDonor",
   base |-> [id \in SectorIds |->
     IF id \in StorageIds /\ res.storage_from_slot # NoSlot
     THEN donated.payload[id] ELSE copied.payload[id]]]

CopyAdopted(image, res, donated) ==
  Rebuilt(res, donated, CopyValidSlotPayloads(
    image[PhysicalSlotForCounter(res.counter)], res.legacy, donated.last))

CopyAfterDonor(image, res) ==
  CopyAdopted(image, res,
    IF res.storage_from_slot = NoSlot THEN [last |-> 0]
    ELSE CopyValidSlotPayloads(image[res.storage_from_slot], FALSE, 0))

\* The verdict over both slots, and the store a fresh process rebuilds by it.
Verdict(image) == Resolve([s \in Slots |-> ScanSlot(image[s])])

Load(image) == CopyAfterDonor(image, Verdict(image))

NextRotation(last) == (last + 1) % NUM_SECTORS_PER_SLOT

NextCounter(counter) == WrappingAdd(counter, 1)

\* `image` after the sectors `ids` of a generation laid at `rotation`, of the
\* `n` positions a generation of its era has.
LayGeneration(image, ids, n, rotation, counter, val) ==
  LET slot == PhysicalSlotForCounter(counter)
      at == [id \in ids |-> (id + rotation) % n]
  IN [image EXCEPT ![slot] = [i \in Positions |->
       IF \E id \in ids : at[id] = i
       THEN LET id == CHOOSE id \in ids : at[id] = i
            IN [WriteSector(id, 0, counter) EXCEPT !.data = val[id]]
       ELSE image[slot][i]]]

\* What a save stamps: its own blocks over storage carried from the base.
Stamped(base, fresh) ==
  [id \in SectorIds |-> IF id \in fresh THEN Chunk(clock + 1, id)
                        ELSE base[id]]

----------------------------------------------------------------------------
Generation(kind, blocks, storage) ==
  [kind |-> kind, blocks |-> blocks, storage |-> storage]
NoGeneration(kind) == Generation(kind, 0, 0)

\* No generation is claimed of any slot once they cannot be told apart: a footer
\* changed, which no checksum covers, or the remains behind a torn write supply
\* the sector it lacked.  What is saved over such an image is "carried" on.
Unclaimed == {"misfiled", "carried"}
NothingClaimed(kind) == whole' = [s \in Slots |-> NoGeneration(kind)]

\* `slot` was given a generation.
Gave(slot, generation) ==
  IF whole[slot].kind \in Unclaimed THEN NothingClaimed("carried")
  ELSE whole' = [whole EXCEPT ![slot] = generation]

Erased == [s \in Slots |-> [i \in Positions |-> EmptySector]]

\* Two adjacent full generations, as any two saves in a row leave them; the
\* older one was stamped by write 1 and the newer by write 2.
Imported(counter, rotation) ==
  LET older == LayGeneration(Erased, SectorIds, NUM_SECTORS_PER_SLOT,
                 (rotation + NUM_SECTORS_PER_SLOT - 1) % NUM_SECTORS_PER_SLOT,
                 WrappingSub(counter, 1), [id \in SectorIds |-> Chunk(1, id)])
  IN LayGeneration(older, SectorIds, NUM_SECTORS_PER_SLOT, rotation, counter,
       [id \in SectorIds |-> Chunk(2, id)])

StoreInit ==
  /\ faults = 0
  /\ clock = 2
  /\ \/ /\ StartErased
        /\ flash = Erased
        /\ whole = [s \in Slots |-> NoGeneration("empty")]
     \/ \E c \in StartCounters, r \in StartRotations :
        /\ flash = Imported(c, r)
        /\ whole = [s \in Slots |->
             IF s = PhysicalSlotForCounter(c) THEN Generation("full", 2, 2)
             ELSE Generation("full", 1, 1)]

MayWrite == clock < 2 + MaxWrites

\* The one storage token a base carries, or 0 when its chunks disagree.
StorageToken(base) ==
  IF \A id \in StorageIds : base[id] = Chunk(base[5].val, id)
  THEN base[5].val ELSE 0

\* This port's save: reread, keep or clear the base, save, replace the image.
PortSave(new_game) ==
  /\ MayWrite
  /\ \E store \in {Load(flash)} : \E counter \in {NextCounter(store.counter)} :
     \E val \in {Stamped(store.base,
                   IF new_game THEN SectorIds ELSE SaveBlockIds)} :
       /\ new_game \/ MenuShowsContinue(store.status)
       /\ flash' = LayGeneration(flash, SectorIds, NUM_SECTORS_PER_SLOT,
                     NextRotation(store.last), counter, val)
       /\ Gave(PhysicalSlotForCounter(counter),
            Generation("full", clock + 1, StorageToken(val)))
  /\ clock' = clock + 1
  /\ UNCHANGED faults

\* A write of `all` sectors reaches the end, or a fault cuts it off after `k`.
CutOff(k, all) ==
  /\ k \in IF faults < MaxFaults THEN 1 .. all ELSE {all}
  /\ faults' = IF k < all THEN faults + 1 ELSE faults
  /\ clock' = clock + 1

HoldsEveryId(slot) == {slot[i].id : i \in ValidIn(slot)} = SectorIds

\* What the slot of a write of `all` sectors, cut off after `k`, was given.
Given(slot, k, all, generation) ==
  IF k < all /\ HoldsEveryId(flash'[slot]) /\ whole[slot].kind \notin Unclaimed
    THEN NothingClaimed("misfiled")
  ELSE Gave(slot, IF k < all THEN NoGeneration("broken") ELSE generation)

\* The original game saving over the same image, cut off after `k` sectors.
UpstreamSave ==
  /\ MayWrite
  /\ \E store \in {Load(flash)} : \E counter \in {NextCounter(store.counter)} :
     \E k \in 1 .. NUM_SECTORS_PER_SLOT :
       /\ MenuShowsContinue(store.status) /\ store.source = "Own"
       /\ CutOff(k, NUM_SECTORS_PER_SLOT)
       /\ flash' = LayGeneration(flash, 0 .. k - 1, NUM_SECTORS_PER_SLOT,
                     NextRotation(store.last), counter,
                     Stamped(store.base, SectorIds))
       /\ Given(PhysicalSlotForCounter(counter), k, NUM_SECTORS_PER_SLOT,
            Generation("full", clock + 1, clock + 1))

\* A build from before the storage sectors existed, cut off after `k` sectors:
\* five sectors rotating within the first five positions of the slot.
LegacySave(rotation) ==
  /\ MayWrite
  /\ \E store \in {Load(flash)} : \E counter \in {NextCounter(store.counter)} :
     \E slot \in {PhysicalSlotForCounter(counter)} :
     \E k \in 1 .. SECTOR_ID_PKMN_STORAGE_START :
       /\ MenuShowsContinue(store.status)
       /\ CutOff(k, SECTOR_ID_PKMN_STORAGE_START)
       /\ flash' = LayGeneration(flash, 0 .. k - 1,
                     SECTOR_ID_PKMN_STORAGE_START, rotation, counter,
                     Stamped(store.base, SaveBlockIds))
       /\ Given(slot, k, SECTOR_ID_PKMN_STORAGE_START,
            Generation(IF whole[slot].kind \in {"broken", "doubtful"}
                       THEN "doubtful" ELSE "legacy", clock + 1, 0))

\* One written sector changes underneath its checksum, or fails it.
Damaged(sector, kind, id, counter) ==
  IF kind = "signature" THEN [sector EXCEPT !.signed = FALSE]
  ELSE IF kind = "checksum" THEN [sector EXCEPT !.sum = FALSE]
  ELSE IF kind = "counter" THEN [sector EXCEPT !.counter = counter]
  ELSE [sector EXCEPT !.id = id]

Damage(s, i, kind, id, counter) ==
  /\ faults < MaxFaults
  /\ flash[s][i].signed
  /\ kind \in DamageKinds
  /\ flash' = [flash EXCEPT ![s][i] = Damaged(@, kind, id, counter)]
  /\ flash' # flash
  /\ faults' = faults + 1
  /\ IF whole[s].kind \in Unclaimed THEN UNCHANGED whole
     ELSE IF kind \in {"counter", "id"} THEN NothingClaimed("misfiled")
     ELSE IF whole[s].kind \in {"legacy", "doubtful"} /\ i \in TailPositions
     THEN UNCHANGED whole
     ELSE whole' = [whole EXCEPT ![s] = NoGeneration("broken")]
  /\ UNCHANGED clock

StoreNext ==
  \/ \E new_game \in BOOLEAN : PortSave(new_game)
  \/ UpstreamSave
  \/ \E rotation \in LegacyRotations : LegacySave(rotation)
  \/ \E s \in Slots, i \in Positions, kind \in DamageKinds :
       \E id \in IF kind = "id" THEN SectorIds \union {NoId} ELSE {NoId} :
       \E c \in IF kind = "counter" THEN Counter ELSE {0} :
         Damage(s, i, kind, id, c)

StoreSpec == StoreInit /\ [][StoreNext]_storeVars
----------------------------------------------------------------------------
Sector == [signed : BOOLEAN, sum : BOOLEAN, id : SectorIds \union {NoId},
           counter : Counter,
           data : [val : Nat, id : SectorIds \union {NoId}]]

\* Every sector is well formed and the counters stay within their bounds.
StoreTypeOK ==
  /\ flash \in [Slots -> [Positions -> Sector]]
  /\ clock \in 0 .. 2 + MaxWrites
  /\ faults \in 0 .. MaxFaults
  /\ whole \in [Slots -> [kind : {"empty", "full", "legacy", "doubtful", "broken",
                                  "misfiled", "carried"},
                          blocks : 0 .. clock, storage : 0 .. clock]]

\* A head at rotation 0 whose tail could be a torn full write's: it stands at
\* that write's predecessor rotation, or the first position past the head is
\* unreadable over a rotated tail.
TornShaped(slot) ==
  LET tail_rotation == (6 - slot[6].data.id) % NUM_SECTORS_PER_SLOT
  IN /\ \A i \in HeadPositions : slot[i].data.id = i
     /\ \E i \in TailPositions : slot[i].signed
     /\ \/ tail_rotation = TORN_WRITE_PREDECESSOR_ROTATION
        \/ tail_rotation # 0 /\ ~(slot[5].signed /\ slot[5].sum)

\* A tail that does not read as older than the head over it: the counters
\* began again at 1 when neither slot could be read, and the tail is from before.
Undated(slot) == \E i \in TailPositions :
  slot[i].signed /\ ~OlderGenerationPrecedes(slot[i].counter, slot[0].counter)

\* Slots whose generation a load owes, and the five-sector heads over the
\* remains of a torn write that it may or may not tell from another tear.
WholeSlots == {s \in Slots :
  \/ whole[s].kind = "full"
  \/ whole[s].kind = "legacy" /\ ~TornShaped(flash[s]) /\ ~Undated(flash[s])}
DoubtfulSlots == {s \in Slots \ WholeSlots :
  whole[s].kind \in {"legacy", "doubtful"}}

LoadsBlocksOf(store, s) ==
  /\ MenuShowsContinue(store.status)
  /\ \A id \in SaveBlockIds : store.base[id] = Chunk(whole[s].blocks, id)
  /\ whole[s].kind = "full" =>
       \A id \in StorageIds : store.base[id] = Chunk(whole[s].storage, id)

\* A load returns the newest generation some slot was completely given and
\* still holds: never an older one, a torn one, or a mix of two. An image with
\* a changed footer, which no checksum covers, and one whose torn write was
\* completed by the remains behind it are left to the next property.
NewestWholeGenerationLoads == \E store \in {Load(flash)} :
  LET newer(s) == \A t \in WholeSlots : whole[t].blocks <= whole[s].blocks
  IN \/ \E s \in WholeSlots \union DoubtfulSlots :
          newer(s) /\ LoadsBlocksOf(store, s)
     \/ WholeSlots = {} /\ ~MenuShowsContinue(store.status)
     \/ \A s \in Slots : whole[s].kind \in Unclaimed

OfOneWrite(store, ids) ==
  \E v \in 0 .. clock : \A id \in ids : store.base[id] = Chunk(v, id)

\* Whatever one torn write, one damaged sector or one changed footer left
\* behind, a five-sector head loads with save blocks of one write; and with
\* boxes of one write, each chunk at its own id, when the survey verified the
\* donor's set (all zeroed without a donor).  A mix that was loaded from a
\* changed footer or a completed tear and saved again verifies like any other.
VerifiedBoxesNeverSpliced ==
  \E verdict \in {Verdict(flash)} : \E store \in {CopyAfterDonor(flash, verdict)} :
    verdict.legacy /\ (\E s \in Slots : whole[s].kind # "carried") =>
      /\ OfOneWrite(store, SaveBlockIds)
      /\ \/ OfOneWrite(store, StorageIds)
         \/ LET donor == flash[verdict.storage_from_slot]
            IN StorageGeneration(donor, ValidIn(donor)) = NoCounter

\* The same for every donor a load takes: no sector of another kind, however
\* its footer came to read, is loaded as a box chunk.
LegacyLoadNeverSpliced == \E store \in {Load(flash)} :
  store.source # "Own" => OfOneWrite(store, SaveBlockIds) /\ OfOneWrite(store, StorageIds)

\* The complete box sets some slot physically holds, footers aside.
StorageHeld == {v \in 0 .. clock : \E s \in Slots : \A id \in StorageIds :
  \E i \in Positions : flash[s][i].signed /\ flash[s][i].sum
                       /\ flash[s][i].data = Chunk(v, id)}

\* Without damage, a five-sector head loads with the newest boxes either slot
\* still holds complete, and with none only when neither holds any.
LegacyHeadKeepsNewestBoxes ==
  \E store \in {Load(flash)}, held \in {StorageHeld} :
    faults = 0 /\ store.source # "Own" =>
      /\ \A id \in StorageIds :
           store.base[id] = Chunk(IF held = {} THEN 0 ELSE MaxPos(held), id)
      /\ held = {} <=> store.source = "LegacyWithoutDonor"
\* What every reachable image and its load keep: well formed sectors, save
\* blocks of one write under a five-sector head, and with them the newest boxes
\* held, all of one write when the survey verified them.
StoreInv == StoreTypeOK /\ VerifiedBoxesNeverSpliced /\ LegacyHeadKeepsNewestBoxes
====
