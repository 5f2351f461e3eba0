---- MODULE SaveSurvey ----
(***************************************************************************)
(* The per-slot survey of the save store: what the fourteen physical       *)
(* sectors of one slot say about the generation the slot holds.  A slot is *)
(* a function from physical positions to sectors.                          *)
(*                                                                         *)
(* A payload is abstracted to a record naming the write it was stamped by  *)
(* (`val`) and the logical chunk it is (`id`); a footer keeps its id and   *)
(* its save counter, neither of which the checksum protects.               *)
(***************************************************************************)
EXTENDS SaveResolve, FiniteSets

NUM_SECTORS_PER_SLOT == 14
SECTOR_ID_SAVEBLOCK2 == 0
SECTOR_ID_PKMN_STORAGE_START == 5
PKMN_STORAGE_CHUNKS == 9

Positions == 0 .. NUM_SECTORS_PER_SLOT - 1
SaveBlockIds == 0 .. SECTOR_ID_PKMN_STORAGE_START - 1
StorageIds == SECTOR_ID_PKMN_STORAGE_START .. NUM_SECTORS_PER_SLOT - 1
SectorIds == SaveBlockIds \union StorageIds
HeadPositions == SaveBlockIds
TailPositions == StorageIds
NoId == -1                   \* a footer id outside 0-13 (0xFFFF when erased)

\* Bytes the checksum covers for each logical id.
SectorPayloadLen(id) ==
  IF id = SECTOR_ID_SAVEBLOCK2 THEN 3884
  ELSE IF id = 4 THEN 3848
  ELSE IF id = 13 THEN 2000
  ELSE 3968

EmptySector == [signed |-> FALSE, sum |-> FALSE, id |-> NoId, counter |-> 0,
                data |-> [val |-> 0, id |-> NoId]]

WriteSector(id, val, counter) ==
  [signed |-> TRUE, sum |-> TRUE, id |-> id, counter |-> counter,
   data |-> [val |-> val, id |-> id]]

\* Mutant: a sector verifies whatever its checksum says.
IsValidBySignature(sector) == sector.signed /\ sector.id \in SectorIds

\* The checksum sums words and payloads are zero-padded, so a relabelled
\* sector still verifies at any length that covers its own payload.
IsValid(sector) ==
  /\ sector.signed /\ sector.sum
  /\ sector.id \in SectorIds
  /\ SectorPayloadLen(sector.data.id) <= SectorPayloadLen(sector.id)

----------------------------------------------------------------------------
\* The rotation a sector's position implies for its id.
ImpliedRotation(slot, i) ==
  (i + NUM_SECTORS_PER_SLOT - slot[i].id) % NUM_SECTORS_PER_SLOT

MaxPos(S) == CHOOSE i \in S : \A j \in S : j <= i
MinPos(S) == CHOOSE i \in S : \A j \in S : i <= j

\* The value all but at most one of f's values over S share, and a majority.
Consensus(S, f) == {v \in {f[i] : i \in S} :
  LET agreeing == Cardinality({i \in S : f[i] = v})
  IN agreeing + 1 >= Cardinality(S) /\ 2 * agreeing > Cardinality(S)}

NoTail == [rotation |-> -1, counter |-> NoCounter]

\* Rotation and counter of the stale tail behind a legacy head: at most one
\* sector unusable or out of step, and never the shape a torn write leaves.
TailGeneration(slot, valid, legacy_counter) ==
  LET unusable == {i \in TailPositions : slot[i].signed /\ i \notin valid}
      usable == TailPositions \intersect valid
      rot == [i \in usable |-> ImpliedRotation(slot, i)]
      ctr == [i \in usable |-> slot[i].counter]
      outliers(g) ==
        {i \in usable : rot[i] # g.rotation \/ ctr[i] # g.counter}
      budget_kept(g) ==
        \/ unusable = {}
        \/ Cardinality(unusable) = 1
           /\ Cardinality(usable) = PKMN_STORAGE_CHUNKS - 1
           /\ outliers(g) = {}
      torn_past_the_head(g) ==
        unusable = {SECTOR_ID_PKMN_STORAGE_START} /\ g.rotation # 0
      outlier_is_the_heads(g) == \E i \in outliers(g) :
        rot[i] # g.rotation /\ ctr[i] = legacy_counter
      found == {g \in [rotation : Consensus(usable, rot),
                       counter : Consensus(usable, ctr)] :
        /\ budget_kept(g)
        /\ ~torn_past_the_head(g)
        /\ Cardinality(outliers(g)) <= 1
        /\ ~outlier_is_the_heads(g)}
  IN IF found = {} THEN NoTail ELSE CHOOSE g \in found : TRUE

\* Mutant: any complete storage set is a donor, however its footers read.
StorageGenerationUnverified(slot, valid) ==
  IF \A id \in StorageIds : \E i \in valid : slot[i].id = id
  THEN slot[MaxPos({i \in valid : slot[i].id \in StorageIds})].counter
  ELSE NoCounter

\* Generation of the one complete storage set of a slot: eight of its nine
\* footers agree, and an outlier is neither a partial save-block generation
\* nor this slot's next write.
StorageGeneration(slot, valid) ==
  LET storage == {i \in valid : slot[i].id \in StorageIds}
      blocks == valid \ storage
      each_id_once ==
        /\ Cardinality(storage) = PKMN_STORAGE_CHUNKS
        /\ {slot[i].id : i \in storage} = StorageIds
      coherent == \E r \in Positions :
        \A i \in storage : ImpliedRotation(slot, i) = r
      block_ids(c) == {slot[i].id : i \in {j \in blocks : slot[j].counter = c}}
      next_write(generation, c) ==
        \E older \in {generation} \union {slot[i].counter : i \in blocks} :
          WrappingAdd(older, 2) = c
      accepted(generation, c) ==
        \/ c = generation
        \/ block_ids(c) = {} /\ ~next_write(generation, c)
        \/ block_ids(c) = SaveBlockIds
      shared == {c \in {slot[i].counter : i \in storage} :
        Cardinality({i \in storage : slot[i].counter = c})
          >= PKMN_STORAGE_CHUNKS - 1}
      verified == {c \in shared :
        \A i \in storage : accepted(c, slot[i].counter)}
  IN IF each_id_once /\ coherent /\ verified # {}
     THEN CHOOSE c \in verified : TRUE ELSE NoCounter

\* The counter more than half of the valid sectors carry; a storage id held
\* twice counts once, at its last position.
MajorityCounter(slot, valid) ==
  LET counted == {i \in valid :
        \/ slot[i].id \in SaveBlockIds
        \/ \A j \in valid : slot[j].id = slot[i].id => j <= i}
      majority == {c \in {slot[i].counter : i \in counted} :
        2 * Cardinality({i \in counted : slot[i].counter = c})
          > Cardinality(counted)}
  IN IF majority = {} THEN NoCounter ELSE CHOOSE c \in majority : TRUE

\* Mutant: the predecessor of a rotation-zero write is taken one save behind.
TornPredecessorOneBehind == NUM_SECTORS_PER_SLOT - 1

\* Only a rotation-zero write torn after five sectors leaves this shape.
TORN_WRITE_PREDECESSOR_ROTATION == NUM_SECTORS_PER_SLOT - 2

\* What a scan reports once the legacy verdict is in.
ScanOf(slot, valid, legacy, legacy_counter) ==
  [integrity |->
     IF \A i \in Positions : ~slot[i].signed THEN "Empty"
     ELSE IF legacy \/ {slot[i].id : i \in valid} = SectorIds THEN "Ok"
     ELSE "Error",
   counter |-> IF legacy THEN legacy_counter
               ELSE IF valid = {} THEN 0
               ELSE slot[MaxPos(valid)].counter,
   legacy |-> legacy,
   storage_counter |-> StorageGeneration(slot, valid),
   majority_counter |-> MajorityCounter(slot, valid)]

ValidIn(slot) == {i \in Positions : IsValid(slot[i])}

\* The positions of the head that hold a save-block sector.
HeadIn(slot, valid) ==
  {i \in HeadPositions : i \in valid /\ slot[i].id \in SaveBlockIds}

HeadIsComplete(slot, head) == {slot[i].id : i \in head} = SaveBlockIds

LegacyCounter(slot, head) ==
  IF head = {} THEN NoCounter ELSE slot[MinPos(head)].counter

\* Whether the head is a five-sector generation standing over an older tail.
LegacyIntact(slot, valid, head, legacy_counter, tail) ==
  LET head_is_identity == \A i \in head : slot[i].id = i
      tail_is_older ==
        /\ tail # NoTail /\ legacy_counter # NoCounter
        /\ OlderGenerationPrecedes(tail.counter, legacy_counter)
      torn_full_write ==
        head_is_identity /\ tail.rotation = TORN_WRITE_PREDECESSOR_ROTATION
      tail_shares_head_generation ==
        /\ \E i \in TailPositions \intersect valid :
             slot[i].counter = legacy_counter
        /\ ~tail_is_older
  IN /\ HeadIsComplete(slot, head)
     /\ \A i \in head : slot[i].counter = legacy_counter
     /\ \/ \A i \in TailPositions : ~slot[i].signed
        \/ tail_is_older /\ ~torn_full_write
        \/ ~head_is_identity /\ ~tail_shares_head_generation

ScanValid(slot, valid, head, legacy_counter) ==
  ScanOf(slot, valid,
    LegacyIntact(slot, valid, head, legacy_counter,
      TailGeneration(slot, valid, legacy_counter)),
    legacy_counter)

ScanHead(slot, valid, head) ==
  ScanValid(slot, valid, head, LegacyCounter(slot, head))

ScanSlot(slot) == ScanHead(slot, ValidIn(slot), HeadIn(slot, ValidIn(slot)))
====
