---- MODULE AudioRing ----
(***************************************************************************)
(* The sample ring between the threads that push rendered audio, the       *)
(* device callback that takes it without ever locking, and the transport   *)
(* worker that hands the consumer from one stream to the next. Every       *)
(* access to a shared atomic is a step of its own; what one thread alone   *)
(* touches moves with its next shared access.                              *)
(*                                                                         *)
(* Samples are numbered from 1 as they are accepted, and `accepted` and    *)
(* `taken` count them without wrapping: `Position` is the wrapping total   *)
(* the code compares.                                                      *)
(***************************************************************************)
EXTENDS Integers, Sequences, FiniteSets

CONSTANTS
  Capacity,            \* slots of the ring
  Producers,           \* threads that push
  Game,                \* the one of them that also stops playback
  Worker, Nobody,      \* other values of the lock on the write index
  MaxPush, MaxFill,    \* longest push, longest callback buffer
  MaxAccepted,         \* bound: pushes stop after this many samples
  PositionModulus,     \* u64 totals wrap here
  FirstPosition        \* where the totals stood before the run

ASSUME RingAssumption ==
  /\ Capacity \in Nat \ {0}
  /\ Game \in Producers
  /\ Worker \notin Producers /\ Nobody \notin Producers /\ Worker # Nobody
  /\ MaxPush \in Nat \ {0} /\ MaxFill \in Nat \ {0} /\ MaxAccepted \in Nat
  /\ PositionModulus \in Nat /\ PositionModulus >= 4
  /\ FirstPosition \in 0 .. PositionModulus - 1

\* The totals are u64: no two marks a run compares are half their range apart.
ASSUME PositionsAssumption == 2 * (MaxAccepted + 2) < PositionModulus

VARIABLES
  buffer,              \* the slots
  occupied,            \* samples published and not taken
  pending,             \* the discard the next read applies
  headLock,            \* holder of the mutex on the write index
  head, accepted,      \* what that mutex guards: write index, samples accepted
  batch, stored,       \* the pusher's locals: samples that fit, samples stored
  pc,                  \* where each producer is
  stoppedAt,           \* `accepted` as the latest stop read it
  tail, taken,         \* the consumer's own: read index, samples taken
  want, count, out,    \* locals of one fill
  cpc,                 \* where the consumer is
  played,              \* history: the buffer the last callback returned
  owed,                \* history: what the first read must not play
  spared               \* history: the first stop since the discard was asked

producerVars == <<headLock, head, accepted, batch, stored, pc>>
consumerVars == <<tail, taken, want, count, out, cpc, played>>
stopVars == <<stoppedAt, owed, spared>>
vars == <<buffer, occupied, pending, producerVars, consumerVars, stopVars>>

Silence == 0
NoStop == -1
Lesser(a, b) == IF a <= b THEN a ELSE b

\* An index is reduced on every advance.
Slot(index) == index % Capacity

\* The wrapping totals, and the two values of `pending` that are no mark.
Position(total) == (FirstPosition + total) % PositionModulus
NO_DISCARD == PositionModulus - 1
DISCARD_ALL == PositionModulus - 2

\* Mutant: a mark is not kept clear of the two reserved values.
MarkUnclamped(total) == Position(total)

\* The mark a stop leaves in a pending discard.
Mark(total) == Lesser(Position(total), DISCARD_ALL - 1)

\* Mutant: the distance to a mark is read as unsigned.
StaleBeforeUnsigned(mark, consumed, queued) ==
  Lesser((mark - consumed) % PositionModulus, queued)

\* How many of the queued samples were pushed before the mark; the distance
\* is signed, so a mark already passed counts none.
StaleBefore(mark, consumed, queued) ==
  LET ahead == (mark - consumed) % PositionModulus
  IN IF 2 * ahead >= PositionModulus THEN 0 ELSE Lesser(ahead, queued)

Init ==
  /\ buffer = [i \in 0 .. Capacity - 1 |-> Silence]
  /\ occupied = 0 /\ pending = NO_DISCARD
  /\ headLock = Nobody /\ head = 0 /\ accepted = 0 /\ batch = 0 /\ stored = 0
  /\ pc = [p \in Producers |-> "idle"]
  /\ tail = 0 /\ taken = 0 /\ want = 1 /\ count = 0 /\ out = <<>>
  /\ cpc \in {"idle", "gone"}
  /\ played = <<>>
  /\ stoppedAt = 0 /\ owed = 0 /\ spared = NoStop

----------------------------------------------------------------------------
\* `Producer::push`, from taking the mutex to dropping it.
BeginPush(p, len) ==
  /\ pc[p] = "idle" /\ headLock = Nobody
  /\ accepted + len <= MaxAccepted
  /\ headLock' = p /\ batch' = len
  /\ pc' = [pc EXCEPT ![p] = "load"]
  /\ UNCHANGED <<buffer, occupied, pending, head, accepted, stored,
                 consumerVars, stopVars>>

\* Mutant: the free space is overstated by one slot.
LoadSpaceOneOver(p) ==
  /\ pc[p] = "load"
  /\ batch' = Lesser(batch, (Capacity - occupied) + 1) /\ stored' = 0
  /\ pc' = [pc EXCEPT ![p] = "store"]
  /\ UNCHANGED <<buffer, occupied, pending, headLock, head, accepted,
                 consumerVars, stopVars>>

LoadSpace(p) ==
  /\ pc[p] = "load"
  /\ batch' = Lesser(batch, Capacity - occupied) /\ stored' = 0
  /\ pc' = [pc EXCEPT ![p] = "store"]
  /\ UNCHANGED <<buffer, occupied, pending, headLock, head, accepted,
                 consumerVars, stopVars>>

StoreSample(p) ==
  /\ pc[p] = "store" /\ stored < batch
  /\ buffer' = [buffer EXCEPT ![Slot(head + stored)] = accepted + stored + 1]
  /\ stored' = stored + 1
  /\ UNCHANGED <<occupied, pending, headLock, head, accepted, batch, pc,
                 consumerVars, stopVars>>

\* A full ring drops the whole push.
DropPush(p) ==
  /\ pc[p] = "store" /\ batch = 0
  /\ headLock' = Nobody
  /\ pc' = [pc EXCEPT ![p] = "idle"]
  /\ UNCHANGED <<buffer, occupied, pending, head, accepted, batch, stored,
                 consumerVars, stopVars>>

CountPushed(p) ==
  /\ pc[p] = "store" /\ stored = batch /\ batch > 0
  /\ head' = Slot(head + batch) /\ accepted' = accepted + batch
  /\ pc' = [pc EXCEPT ![p] = "publish"]
  /\ UNCHANGED <<buffer, occupied, pending, headLock, batch, stored,
                 consumerVars, stopVars>>

Publish(p) ==
  /\ pc[p] = "publish"
  /\ occupied' = occupied + batch
  /\ headLock' = Nobody
  /\ pc' = [pc EXCEPT ![p] = "idle"]
  /\ UNCHANGED <<buffer, pending, head, accepted, batch, stored,
                 consumerVars, stopVars>>

----------------------------------------------------------------------------
\* `Shared::set_running(false)`: mark where the stop landed, without the
\* mutex, then narrow a discard still pending to what was pushed before it.
MarkStop ==
  /\ pc[Game] = "idle"
  /\ stoppedAt' = accepted
  /\ pc' = [pc EXCEPT ![Game] = "narrow"]
  /\ UNCHANGED <<buffer, occupied, pending, headLock, head, accepted, batch,
                 stored, consumerVars, owed, spared>>

\* What a mark at `total` drops at least, once it is kept clear of the
\* reserved values.
MarkedTotal(total) ==
  total - (Position(total) - Lesser(Position(total), DISCARD_ALL - 1))

NarrowDiscard ==
  /\ pc[Game] = "narrow"
  /\ pc' = [pc EXCEPT ![Game] = "idle"]
  /\ \/ /\ pending = DISCARD_ALL
        /\ pending' = Mark(stoppedAt)
        /\ owed' = Lesser(owed, MarkedTotal(stoppedAt))
     \/ pending # DISCARD_ALL /\ UNCHANGED <<pending, owed>>
  /\ spared' = IF spared = NoStop THEN accepted ELSE spared
  /\ UNCHANGED <<buffer, occupied, headLock, head, accepted, batch, stored,
                 consumerVars, stoppedAt>>

----------------------------------------------------------------------------
\* `Consumer::fill`: the pending discard first, then what is published, then
\* silence. `try_pop` is a fill of one sample.
BeginFill(len) ==
  /\ cpc = "idle"
  /\ cpc' = "settle" /\ want' = len /\ out' = <<>>
  /\ UNCHANGED <<buffer, occupied, pending, producerVars, tail, taken, count,
                 played, stopVars>>

NothingPending ==
  /\ cpc = "settle" /\ pending = NO_DISCARD
  /\ cpc' = "load"
  /\ UNCHANGED <<buffer, occupied, pending, producerVars, tail, taken, want,
                 count, out, played, stopVars>>

\* The queue is counted before the discard is claimed.
ClaimQueue ==
  /\ cpc = "settle" /\ pending # NO_DISCARD
  /\ count' = occupied
  /\ cpc' = "claimed"
  /\ UNCHANGED <<buffer, occupied, pending, producerVars, tail, taken, want,
                 out, played, stopVars>>

TakeDiscard ==
  /\ cpc = "claimed"
  /\ pending' = NO_DISCARD
  /\ count' = IF pending = DISCARD_ALL THEN count
              ELSE StaleBefore(pending, Position(taken), count)
  /\ cpc' = "drop"
  /\ UNCHANGED <<buffer, occupied, producerVars, tail, taken, want, out,
                 played, stopVars>>

\* Mutant: the queue is counted after the discard was claimed.
DropStaleCountedLate ==
  /\ cpc = "drop"
  /\ LET n == IF count = 0 THEN 0 ELSE occupied
     IN /\ tail' = Slot(tail + n) /\ taken' = taken + n
        /\ occupied' = occupied - n
  /\ cpc' = "load"
  /\ UNCHANGED <<buffer, pending, producerVars, want, count, out, played,
                 stopVars>>

DropStale ==
  /\ cpc = "drop"
  /\ tail' = Slot(tail + count) /\ taken' = taken + count
  /\ occupied' = occupied - count
  /\ cpc' = "load"
  /\ UNCHANGED <<buffer, pending, producerVars, want, count, out, played,
                 stopVars>>

\* Mutant: the callback waits for a push under way.
LoadQueuedLocking ==
  /\ cpc = "load" /\ headLock = Nobody
  /\ count' = Lesser(want, occupied)
  /\ cpc' = "read"
  /\ UNCHANGED <<buffer, occupied, pending, producerVars, tail, taken, want,
                 out, played, stopVars>>

LoadQueued ==
  /\ cpc = "load"
  /\ count' = Lesser(want, occupied)
  /\ cpc' = "read"
  /\ UNCHANGED <<buffer, occupied, pending, producerVars, tail, taken, want,
                 out, played, stopVars>>

ReadSample ==
  /\ cpc = "read" /\ Len(out) < count
  /\ out' = Append(out, buffer[Slot(tail + Len(out))])
  /\ UNCHANGED <<buffer, occupied, pending, producerVars, tail, taken, want,
                 count, cpc, played, stopVars>>

\* The slots are freed only after the last of them was read.
FreeSlots ==
  /\ cpc = "read" /\ Len(out) = count
  /\ tail' = Slot(tail + count) /\ taken' = taken + count
  /\ occupied' = occupied - count
  /\ played' = [i \in 1 .. want |-> IF i <= count THEN out[i] ELSE Silence]
  /\ out' = <<>>
  /\ cpc' = "idle"
  /\ UNCHANGED <<buffer, pending, producerVars, want, count, stopVars>>

Callback == NothingPending \/ ClaimQueue \/ TakeDiscard \/ DropStale
            \/ LoadQueued \/ ReadSample \/ FreeSlots

----------------------------------------------------------------------------
\* The stream that owned the consumer is dropped, between two callbacks or
\* before its first.
DropConsumer ==
  /\ cpc \in {"idle", "owned", "decided", "building"}
  /\ cpc' = "gone"
  /\ UNCHANGED <<buffer, occupied, pending, producerVars, tail, taken, want,
                 count, out, played, stopVars>>

\* Mutant: the read index restarts at the write index.
ReclaimAtHead ==
  /\ cpc = "gone" /\ headLock = Nobody
  /\ tail' = head
  /\ pending' = NO_DISCARD
  /\ owed' = 0 /\ spared' = NoStop
  /\ cpc' = "owned"
  /\ UNCHANGED <<buffer, occupied, producerVars, taken, want, count, out,
                 played, stoppedAt>>

\* `Producer::reclaim_consumer`: under the mutex, the read index is rebuilt
\* from the write index, and the discard of the last stream is forgotten.
ReclaimConsumer ==
  /\ cpc = "gone" /\ headLock = Nobody
  /\ tail' = Slot(head + Capacity - occupied)
  /\ pending' = NO_DISCARD
  /\ owed' = 0 /\ spared' = NoStop
  /\ cpc' = "owned"
  /\ UNCHANGED <<buffer, occupied, producerVars, taken, want, count, out,
                 played, stoppedAt>>

\* `Consumer::hold_pushes`: the worker keeps producers off while it decides.
HoldPushes ==
  /\ cpc = "owned" /\ headLock = Nobody
  /\ headLock' = Worker
  /\ cpc' = "held"
  /\ UNCHANGED <<buffer, occupied, pending, head, accepted, batch, stored, pc,
                 tail, taken, want, count, out, played, stopVars>>

\* A held queue is dropped whole, up to the latest stop, or not at all.
DiscardAll ==
  /\ cpc = "held"
  /\ tail' = head /\ taken' = taken + occupied /\ occupied' = 0
  /\ headLock' = Nobody
  /\ cpc' = "decided"
  /\ UNCHANGED <<buffer, pending, head, accepted, batch, stored, pc, want,
                 count, out, played, stopVars>>

DiscardPushedBefore ==
  /\ cpc = "held"
  /\ LET stale == StaleBefore(Position(stoppedAt), Position(taken), occupied)
     IN /\ tail' = Slot(tail + stale) /\ taken' = taken + stale
        /\ occupied' = occupied - stale
  /\ headLock' = Nobody
  /\ cpc' = "decided"
  /\ UNCHANGED <<buffer, pending, head, accepted, batch, stored, pc, want,
                 count, out, played, stopVars>>

KeepQueue ==
  /\ cpc = "held"
  /\ headLock' = Nobody
  /\ cpc' = "decided"
  /\ UNCHANGED <<buffer, occupied, pending, head, accepted, batch, stored, pc,
                 tail, taken, want, count, out, played, stopVars>>

\* What is queued while the stream is built is dropped at its first callback.
DiscardAtFirstRead ==
  /\ cpc = "decided"
  /\ pending' = DISCARD_ALL
  /\ owed' = taken + occupied /\ spared' = NoStop
  /\ cpc' = "building"
  /\ UNCHANGED <<buffer, occupied, producerVars, tail, taken, want, count, out,
                 played, stoppedAt>>

Attach ==
  /\ cpc \in {"decided", "building"}
  /\ cpc' = "idle"
  /\ UNCHANGED <<buffer, occupied, pending, producerVars, tail, taken, want,
                 count, out, played, stopVars>>

Transport == DropConsumer \/ ReclaimConsumer \/ HoldPushes \/ DiscardAll
             \/ DiscardPushedBefore \/ KeepQueue \/ DiscardAtFirstRead \/ Attach

Push(p) == LoadSpace(p) \/ StoreSample(p) \/ DropPush(p) \/ CountPushed(p)
           \/ Publish(p)

Next ==
  \/ \E p \in Producers : Push(p) \/ \E len \in 1 .. MaxPush : BeginPush(p, len)
  \/ MarkStop \/ NarrowDiscard
  \/ \E len \in 1 .. MaxFill : BeginFill(len)
  \/ Callback
  \/ Transport

Spec == Init /\ [][Next]_vars

\* Only the callback is scheduled fairly: producers may stall anywhere.
CallbackSpec == Spec /\ WF_vars(Callback)

----------------------------------------------------------------------------
Places == {"gone", "owned", "held", "decided", "building", "idle", "settle",
           "claimed", "drop", "load", "read"}

\* Every variable stays within its type; the ring is never overfull.
TypeOK ==
  /\ buffer \in [0 .. Capacity - 1 -> Nat]
  /\ occupied \in 0 .. Capacity
  /\ pending \in 0 .. NO_DISCARD
  /\ headLock \in Producers \union {Worker, Nobody}
  /\ head \in 0 .. Capacity - 1 /\ tail \in 0 .. Capacity - 1
  /\ accepted \in Nat /\ taken \in Nat /\ stoppedAt \in Nat
  /\ batch \in Nat /\ stored \in Nat
  /\ pc \in [Producers -> {"idle", "load", "store", "publish", "narrow"}]
  /\ want \in 1 .. MaxFill /\ count \in 0 .. Capacity
  /\ out \in Seq(Nat)
  /\ cpc \in Places
  /\ played \in Seq(Nat)
  /\ owed \in Int /\ spared \in Nat \union {NoStop}

\* What the callback reads is, sample for sample, what was accepted next:
\* nothing is repeated, reordered, skipped or read before it is stored, over
\* wrapping indices, discards and a consumer handed to a new stream.
PlaysInOrder == \A i \in 1 .. Len(out) : out[i] = taken + i

\* A slot a push has still to store is not one the callback may read: the
\* slots need no ordering of their own.
SlotsApart ==
  \A p \in Producers : pc[p] = "store" =>
    {Slot(head + i) : i \in stored .. batch - 1}
      \intersect {Slot(tail + i) : i \in 0 .. occupied - 1} = {}

\* A started stream never plays what was queued when its discard was asked,
\* or, once a stop landed, the part of it pushed before that stop.
HistoryNotPlayed == cpc = "read" => taken >= owed

\* What is pushed after a stop survives the first read's discard, however
\* the stop falls between that read's own steps, and survives a held discard
\* decided by that stop, though playback has moved past its mark since.
StopSparesLaterPushes ==
  [][/\ cpc = "drop" /\ taken' > taken /\ spared # NoStop => taken' <= spared
     /\ DiscardPushedBefore /\ taken' > taken => taken' <= stoppedAt]_vars

\* The callback finishes its buffer though every producer stalls, with the
\* mutex held or not.
FillReturns == cpc = "settle" ~> cpc = "idle"

----------------------------------------------------------------------------
\* The ring is one bounded queue: a push joins it when its count is published
\* and a fill leaves it when its slots are freed.
Queue == INSTANCE AudioQueue WITH
  queue <- [i \in 1 .. occupied |-> buffer[Slot(tail + i - 1)]],
  sent <- taken + occupied
QueueSpec == Queue!QueueSpec
====
