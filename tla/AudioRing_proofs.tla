---- MODULE AudioRing_proofs ----
(***************************************************************************)
(* Theorems of AudioRing for any capacity, any producers and any lengths:  *)
(* the ring is well typed and never overfull, a push never stores into a   *)
(* slot still to be read, the callback plays what was accepted in order,   *)
(* and the ring implements the bounded queue of AudioQueue.                *)
(***************************************************************************)
EXTENDS AudioRing, TLAPS

Indices == 0 .. Capacity - 1

\* Samples accepted whose push has not published its count yet.
InFlight == IF \E p \in Producers : pc[p] = "publish" THEN batch ELSE 0

Pushing(p) == pc[p] \in {"load", "store", "publish"}

\* The mutex belongs to whoever is between its two ends.
LockHeld ==
  /\ \A p \in Producers : Pushing(p) <=> headLock = p
  /\ cpc = "held" <=> headLock = Worker

\* A push reserves room the callback can only enlarge.
RoomReserved == \A p \in Producers :
  /\ pc[p] = "store" => occupied + batch <= Capacity /\ stored <= batch
  /\ pc[p] = "publish" => occupied + batch <= Capacity /\ batch > 0

\* The write index stands where the queued samples end, in slots and in total.
EndsMeet ==
  /\ head = Slot(tail + occupied + InFlight)
  /\ accepted = taken + occupied + InFlight

\* The slots hold the queued samples in order, then those of a push under way.
SlotsFilled ==
  /\ \A k \in 0 .. occupied + InFlight - 1 :
       buffer[Slot(tail + k)] = taken + k + 1
  /\ \A p \in Producers : pc[p] = "store" =>
       \A i \in 0 .. stored - 1 : buffer[Slot(head + i)] = accepted + i + 1

\* A fill takes no more than it saw published, and reads before it frees.
FillWithinQueue ==
  /\ cpc \in {"claimed", "drop", "read"} => count <= occupied
  /\ cpc = "read" => count <= want /\ Len(out) <= count
  /\ cpc # "read" => out = <<>>

RingInv ==
  /\ TypeOK
  /\ LockHeld
  /\ RoomReserved
  /\ EndsMeet
  /\ SlotsFilled
  /\ FillWithinQueue
  /\ PlaysInOrder

----------------------------------------------------------------------------
\* An index less than one lap past the end is reduced by one capacity at most.
LEMMA SlotValue ==
  \A i \in 0 .. 2 * Capacity - 1 :
    Slot(i) = IF i < Capacity THEN i ELSE i - Capacity
<1> TAKE i \in 0 .. 2 * Capacity - 1
<1>1. Capacity \in Nat \ {0}
  BY RingAssumption
<1>2. CASE i < Capacity
  BY <1>1, <1>2, SMT DEF Slot
<1>3. CASE i >= Capacity
  BY <1>1, <1>3, SMT DEF Slot
<1> QED
  BY <1>2, <1>3, <1>1

\* Advancing an index and then counting on from it is one advance.
LEMMA SlotSum ==
  \A a, b \in Nat : a + b < 2 * Capacity => Slot(Slot(a) + b) = Slot(a + b)
<1> TAKE a, b \in Nat
<1> HAVE a + b < 2 * Capacity
<1>1. Capacity \in Nat \ {0}
  BY RingAssumption
<1>2. /\ Slot(a) = IF a < Capacity THEN a ELSE a - Capacity
      /\ Slot(a + b) = IF a + b < Capacity THEN a + b ELSE a + b - Capacity
  BY <1>1, SlotValue
<1>3. CASE a < Capacity
  BY <1>2, <1>3
<1>4. CASE a >= Capacity
  <2>1. a - Capacity + b \in 0 .. Capacity - 1
    BY <1>1, <1>4
  <2> QED
    BY <1>1, <1>2, <1>4, <2>1, SlotValue
<1> QED
  BY <1>1, <1>3, <1>4

\* A remainder lies below its divisor.
LEMMA ModuloRange ==
  \A a \in Int, m \in Nat \ {0} : a % m \in 0 .. m - 1
BY SMT

LEMMA StaleBeforeRange ==
  \A mark, consumed \in Int, queued \in Nat :
    StaleBefore(mark, consumed, queued) \in 0 .. queued
<1> TAKE mark, consumed \in Int, queued \in Nat
<1> DEFINE ahead == (mark - consumed) % PositionModulus
<1>1. ahead \in Nat
  BY RingAssumption, ModuloRange
<1>2. StaleBefore(mark, consumed, queued) =
        IF 2 * ahead >= PositionModulus THEN 0 ELSE Lesser(ahead, queued)
  BY DEF StaleBefore
<1> HIDE DEF ahead
<1> QED
  BY <1>1, <1>2, RingAssumption DEF Lesser

LEMMA PositionRange ==
  ASSUME NEW total \in Int
  PROVE  Position(total) \in Int /\ Position(total) \in 0 .. PositionModulus - 1
BY RingAssumption, ModuloRange DEF Position

\* Only the pusher of a batch has one in flight.
LEMMA InFlightValue ==
  ASSUME LockHeld, TypeOK
  PROVE  /\ InFlight \in Nat
         /\ headLock \notin Producers => InFlight = 0
         /\ \A p \in Producers :
              /\ pc[p] = "publish" => InFlight = batch
              /\ pc[p] \in {"load", "store"} => InFlight = 0
BY DEF LockHeld, TypeOK, InFlight, Pushing

\* The two unlocked ends of the queue, for the bounds of the indices.
LEMMA EndsBounded ==
  ASSUME RingInv
  PROVE  /\ occupied + InFlight \in 0 .. Capacity
         /\ \A k \in 0 .. occupied + InFlight : tail + k \in 0 .. 2 * Capacity - 1
<1>1. InFlight \in Nat
  BY InFlightValue DEF RingInv
<1>2. CASE \E p \in Producers : pc[p] = "publish"
  BY <1>1, <1>2, InFlightValue, RingAssumption DEF RingInv, RoomReserved, TypeOK
<1>3. CASE ~ \E p \in Producers : pc[p] = "publish"
  BY <1>3, RingAssumption DEF InFlight, RingInv, TypeOK
<1> QED
  BY <1>2, <1>3

LEMMA RingInit == Init => RingInv
<1> SUFFICES ASSUME Init PROVE RingInv
  OBVIOUS
<1> USE RingAssumption DEF Init
<1>1. TypeOK
  BY DEF TypeOK, Indices, NO_DISCARD, Places, Silence, NoStop
<1>2. InFlight = 0
  BY DEF InFlight
<1>3. LockHeld /\ RoomReserved
  BY DEF LockHeld, RoomReserved, Pushing
<1>4. EndsMeet
  BY <1>2, SlotValue DEF EndsMeet
<1>5. SlotsFilled /\ FillWithinQueue /\ PlaysInOrder
  BY <1>2 DEF SlotsFilled, FillWithinQueue, PlaysInOrder
<1> QED
  BY <1>1, <1>3, <1>4, <1>5 DEF RingInv

----------------------------------------------------------------------------
\* The consumer's steps between its shared accesses disturb only its locals.
LEMMA ConsumerOnly ==
  ASSUME RingInv,
         UNCHANGED <<buffer, occupied, producerVars, tail, taken>>,
         cpc' = "held" <=> cpc = "held"
  PROVE  LockHeld' /\ RoomReserved' /\ EndsMeet' /\ SlotsFilled'
<1>1. InFlight' = InFlight
  BY DEF InFlight, producerVars
<1>2. LockHeld' /\ RoomReserved'
  BY DEF RingInv, LockHeld, RoomReserved, Pushing, producerVars
<1>3. EndsMeet' /\ SlotsFilled'
  BY <1>1 DEF RingInv, EndsMeet, SlotsFilled, Slot, producerVars
<1> QED
  BY <1>2, <1>3

LEMMA CallbackReads ==
  ASSUME RingInv,
         \/ \E len \in 1 .. MaxFill : BeginFill(len)
         \/ NothingPending \/ ClaimQueue \/ TakeDiscard \/ LoadQueued
         \/ DropConsumer \/ DiscardAtFirstRead \/ Attach
  PROVE  RingInv'
<1> USE RingAssumption DEF RingInv, TypeOK, FillWithinQueue, PlaysInOrder,
        Places, consumerVars, producerVars, stopVars
<1>1. CASE \E len \in 1 .. MaxFill : BeginFill(len)
  <2> PICK len \in 1 .. MaxFill : BeginFill(len)
    BY <1>1
  <2>1. TypeOK' /\ FillWithinQueue' /\ PlaysInOrder'
    BY DEF BeginFill
  <2> QED
    BY <2>1, ConsumerOnly DEF BeginFill
<1>2. CASE NothingPending
  <2>1. TypeOK' /\ FillWithinQueue' /\ PlaysInOrder'
    BY <1>2 DEF NothingPending
  <2> QED
    BY <1>2, <2>1, ConsumerOnly DEF NothingPending
<1>3. CASE ClaimQueue
  <2>1. TypeOK' /\ FillWithinQueue' /\ PlaysInOrder'
    BY <1>3 DEF ClaimQueue
  <2> QED
    BY <1>3, <2>1, ConsumerOnly DEF ClaimQueue
<1>4. CASE TakeDiscard
  <2>1. count' \in 0 .. count
    <3>1. Position(taken) \in Int
      BY PositionRange
    <3>2. pending \in Int /\ count \in Nat
      BY DEF NO_DISCARD
    <3>3. StaleBefore(pending, Position(taken), count) \in 0 .. count
      BY <3>1, <3>2, StaleBeforeRange
    <3> QED
      BY <1>4, <3>2, <3>3 DEF TakeDiscard
  <2>2. NO_DISCARD \in 0 .. NO_DISCARD
    BY DEF NO_DISCARD
  <2>3. TypeOK' /\ FillWithinQueue' /\ PlaysInOrder'
    BY <1>4, <2>1, <2>2 DEF TakeDiscard
  <2> QED
    BY <1>4, <2>3, ConsumerOnly DEF TakeDiscard
<1>5. CASE LoadQueued
  <2>1. TypeOK' /\ FillWithinQueue' /\ PlaysInOrder'
    BY <1>5 DEF LoadQueued, Lesser
  <2> QED
    BY <1>5, <2>1, ConsumerOnly DEF LoadQueued
<1>6. CASE DropConsumer
  <2>1. TypeOK' /\ FillWithinQueue' /\ PlaysInOrder'
    BY <1>6 DEF DropConsumer
  <2> QED
    BY <1>6, <2>1, ConsumerOnly DEF DropConsumer
<1>7. CASE DiscardAtFirstRead
  <2>1. TypeOK' /\ FillWithinQueue' /\ PlaysInOrder'
    BY <1>7 DEF DiscardAtFirstRead, DISCARD_ALL, NO_DISCARD, NoStop
  <2> QED
    BY <1>7, <2>1, ConsumerOnly DEF DiscardAtFirstRead
<1>8. CASE Attach
  <2>1. TypeOK' /\ FillWithinQueue' /\ PlaysInOrder'
    BY <1>8 DEF Attach
  <2> QED
    BY <1>8, <2>1, ConsumerOnly DEF Attach
<1> QED
  BY <1>1, <1>2, <1>3, <1>4, <1>5, <1>6, <1>7, <1>8

LEMMA SampleRead ==
  ASSUME RingInv, ReadSample
  PROVE  RingInv'
<1> USE RingAssumption DEF RingInv, ReadSample
<1>1. LockHeld' /\ RoomReserved' /\ EndsMeet' /\ SlotsFilled'
  BY ConsumerOnly DEF producerVars
<1>2. Len(out) \in Nat /\ Len(out) < occupied
  BY DEF TypeOK, FillWithinQueue
<1>3. buffer[Slot(tail + Len(out))] = taken + Len(out) + 1
  <2>1. InFlight \in Nat
    BY InFlightValue
  <2>2. Len(out) \in 0 .. occupied + InFlight - 1
    BY <1>2, <2>1 DEF TypeOK
  <2> QED
    BY <2>2 DEF SlotsFilled
<1>4. TypeOK'
  BY <1>2, <1>3 DEF TypeOK, stopVars, producerVars
<1>5. FillWithinQueue'
  BY <1>2 DEF FillWithinQueue, TypeOK
<1>6. PlaysInOrder'
  <2>1. /\ Len(out') = Len(out) + 1
        /\ \A i \in 1 .. Len(out) : out'[i] = out[i]
        /\ out'[Len(out) + 1] = buffer[Slot(tail + Len(out))]
    <3>1. out \in Seq(Nat) /\ buffer[Slot(tail + Len(out))] \in Nat
      BY <1>2, <1>3 DEF TypeOK
    <3> HIDE DEF RingInv
    <3> QED
      BY <3>1
  <2>2. taken' = taken
    OBVIOUS
  <2> QED
    BY <1>2, <1>3, <2>1, <2>2 DEF PlaysInOrder, TypeOK
<1> QED
  BY <1>1, <1>4, <1>5, <1>6

\* Freeing the first n queued samples moves the read index and nothing else.
LEMMA Advance ==
  ASSUME RingInv, NEW n \in 0 .. occupied,
         tail' = Slot(tail + n), taken' = taken + n, occupied' = occupied - n,
         UNCHANGED <<buffer, head, accepted, batch, stored, pc>>
  PROVE  /\ RoomReserved' /\ EndsMeet' /\ SlotsFilled'
         /\ tail' \in 0 .. Capacity - 1 /\ taken' \in Nat
         /\ occupied' \in 0 .. Capacity
<1> USE RingAssumption
<1>1. InFlight' = InFlight /\ InFlight \in Nat
  BY InFlightValue DEF InFlight, RingInv
<1>2. /\ occupied \in 0 .. Capacity /\ tail \in 0 .. Capacity - 1
      /\ taken \in Nat /\ accepted \in Nat /\ batch \in Nat
  BY DEF RingInv, TypeOK
<1>3. occupied + InFlight \in 0 .. Capacity
  BY EndsBounded
<1>4. \A k \in Nat : n + k <= occupied + InFlight =>
        Slot(tail' + k) = Slot(tail + (n + k))
  <2> TAKE k \in Nat
  <2> HAVE n + k <= occupied + InFlight
  <2>1. tail + n \in Nat /\ tail + n + k < 2 * Capacity
    BY <1>1, <1>2, <1>3
  <2>2. Slot(Slot(tail + n) + k) = Slot(tail + n + k)
    BY <2>1, SlotSum
  <2>3. tail + n + k = tail + (n + k)
    BY <1>2
  <2> QED
    BY <2>2, <2>3
<1>5. RoomReserved'
  BY <1>2 DEF RingInv, RoomReserved
<1>6. EndsMeet'
  <2>1. Slot(tail' + (occupied - n + InFlight)) = Slot(tail + (occupied + InFlight))
    BY <1>1, <1>2, <1>4
  <2>2. tail' + (occupied - n + InFlight) = tail' + occupied' + InFlight'
    <3>1. tail' \in Int
      BY <1>2, SlotValue
    <3> QED
      BY <1>1, <1>2, <3>1
  <2>3. tail + (occupied + InFlight) = tail + occupied + InFlight
    BY <1>1, <1>2
  <2>4. accepted' = taken' + occupied' + InFlight'
    BY <1>1, <1>2 DEF RingInv, EndsMeet
  <2>5. head' = Slot(tail' + occupied' + InFlight')
    BY <2>1, <2>2, <2>3 DEF RingInv, EndsMeet
  <2> QED
    BY <2>4, <2>5 DEF EndsMeet
<1>7. \A k \in 0 .. occupied' + InFlight' - 1 :
        buffer'[Slot(tail' + k)] = taken' + k + 1
  <2> TAKE k \in 0 .. occupied' + InFlight' - 1
  <2>1. n + k \in 0 .. occupied + InFlight - 1
    BY <1>1, <1>2
  <2>2. buffer[Slot(tail + (n + k))] = taken + (n + k) + 1
    BY <2>1 DEF RingInv, SlotsFilled
  <2>3. Slot(tail' + k) = Slot(tail + (n + k))
    BY <1>1, <1>2, <1>4, <2>1
  <2> QED
    BY <1>2, <2>2, <2>3
<1>8. SlotsFilled'
  BY <1>7 DEF RingInv, SlotsFilled, Slot
<1>9. tail' \in 0 .. Capacity - 1
  BY <1>2, SlotValue
<1> QED
  BY <1>2, <1>5, <1>6, <1>8, <1>9

LEMMA StaleDropped ==
  ASSUME RingInv, DropStale
  PROVE  RingInv'
<1> USE RingAssumption DEF DropStale
<1>1. count \in 0 .. occupied
  BY DEF RingInv, TypeOK, FillWithinQueue
<1>2. /\ RoomReserved' /\ EndsMeet' /\ SlotsFilled'
      /\ tail' \in 0 .. Capacity - 1 /\ taken' \in Nat
      /\ occupied' \in 0 .. Capacity
  BY <1>1, Advance DEF producerVars
<1>3. LockHeld'
  BY DEF RingInv, LockHeld, Pushing, producerVars
<1>4. TypeOK'
  BY <1>2 DEF RingInv, TypeOK, Places, producerVars, stopVars
<1>5. FillWithinQueue' /\ PlaysInOrder'
  BY DEF RingInv, FillWithinQueue, PlaysInOrder
<1> QED
  BY <1>2, <1>3, <1>4, <1>5 DEF RingInv

LEMMA FillEnds ==
  ASSUME RingInv, FreeSlots
  PROVE  RingInv'
<1> USE RingAssumption DEF FreeSlots
<1>1. count \in 0 .. occupied /\ out \in Seq(Nat) /\ Len(out) = count
  BY DEF RingInv, TypeOK, FillWithinQueue
<1>2. /\ RoomReserved' /\ EndsMeet' /\ SlotsFilled'
      /\ tail' \in 0 .. Capacity - 1 /\ taken' \in Nat
      /\ occupied' \in 0 .. Capacity
  BY <1>1, Advance DEF producerVars
<1>3. LockHeld'
  BY DEF RingInv, LockHeld, Pushing, producerVars
<1>4. played' \in Seq(Nat)
  <2>1. want \in Nat
    BY DEF RingInv, TypeOK
  <2>2. \A i \in 1 .. want : (IF i <= count THEN out[i] ELSE Silence) \in Nat
    BY <1>1, <2>1 DEF Silence
  <2> QED
    BY <2>1, <2>2
<1>5. TypeOK'
  BY <1>2, <1>4 DEF RingInv, TypeOK, Places, producerVars, stopVars
<1>6. FillWithinQueue' /\ PlaysInOrder'
  BY DEF RingInv, FillWithinQueue, PlaysInOrder
<1> QED
  BY <1>2, <1>3, <1>5, <1>6 DEF RingInv

\* No push is under way while the worker holds the mutex or nobody does.
LEMMA NoPushUnderway ==
  ASSUME RingInv, headLock \in {Worker, Nobody}
  PROVE  /\ InFlight = 0 /\ \A p \in Producers : ~Pushing(p)
         /\ head = Slot(tail + occupied) /\ accepted = taken + occupied
<1>1. headLock \notin Producers
  BY RingAssumption
<1>2. InFlight = 0
  BY <1>1, InFlightValue DEF RingInv
<1>3. tail + occupied + 0 = tail + occupied /\ taken + occupied + 0 = taken + occupied
  BY DEF RingInv, TypeOK
<1> QED
  BY <1>1, <1>2, <1>3 DEF RingInv, LockHeld, EndsMeet

\* A held discard of the first n queued samples.
LEMMA HeldDiscard ==
  ASSUME RingInv, cpc = "held", NEW n \in 0 .. occupied,
         tail' = Slot(tail + n), taken' = taken + n, occupied' = occupied - n,
         headLock' = Nobody, cpc' = "decided",
         UNCHANGED <<buffer, pending, head, accepted, batch, stored, pc, want,
                     count, out, played, stopVars>>
  PROVE  RingInv'
<1> USE RingAssumption
<1>1. headLock = Worker
  BY DEF RingInv, LockHeld
<1>2. /\ RoomReserved' /\ EndsMeet' /\ SlotsFilled'
      /\ tail' \in 0 .. Capacity - 1 /\ taken' \in Nat
      /\ occupied' \in 0 .. Capacity
  BY Advance
<1>3. LockHeld'
  BY <1>1, NoPushUnderway DEF LockHeld, Pushing
<1>4. TypeOK'
  BY <1>2 DEF RingInv, TypeOK, Places, stopVars
<1>5. FillWithinQueue' /\ PlaysInOrder'
  BY DEF RingInv, FillWithinQueue, PlaysInOrder
<1> QED
  BY <1>2, <1>3, <1>4, <1>5 DEF RingInv

LEMMA HeldSteps ==
  ASSUME RingInv, DiscardAll \/ DiscardPushedBefore \/ KeepQueue
  PROVE  RingInv'
<1>1. occupied \in Nat /\ taken \in Nat /\ tail \in 0 .. Capacity - 1
  BY DEF RingInv, TypeOK
<1>2. CASE DiscardAll
  <2>1. head = Slot(tail + occupied)
    BY <1>2, NoPushUnderway DEF DiscardAll, RingInv, LockHeld
  <2>2. occupied \in 0 .. occupied /\ occupied' = occupied - occupied
    BY <1>1, <1>2 DEF DiscardAll
  <2> QED
    BY <1>2, <2>1, <2>2, HeldDiscard DEF DiscardAll
<1>3. CASE DiscardPushedBefore
  <2> DEFINE stale == StaleBefore(Position(stoppedAt), Position(taken), occupied)
  <2>1. Position(stoppedAt) \in Int /\ Position(taken) \in Int
    <3>1. stoppedAt \in Int /\ taken \in Int
      BY DEF RingInv, TypeOK
    <3> QED
      BY <3>1, PositionRange
  <2>2. stale \in 0 .. occupied
    BY <1>1, <2>1, StaleBeforeRange
  <2>3. /\ cpc = "held" /\ tail' = Slot(tail + stale)
        /\ taken' = taken + stale /\ occupied' = occupied - stale
        /\ headLock' = Nobody /\ cpc' = "decided"
        /\ UNCHANGED <<buffer, pending, head, accepted, batch, stored, pc, want,
                       count, out, played, stopVars>>
    BY <1>3 DEF DiscardPushedBefore
  <2> HIDE DEF stale
  <2> QED
    BY <2>2, <2>3, HeldDiscard
<1>4. CASE KeepQueue
  <2>1. /\ 0 \in 0 .. occupied /\ tail' = Slot(tail + 0)
        /\ taken' = taken + 0 /\ occupied' = occupied - 0
    BY <1>1, <1>4, RingAssumption, SlotValue DEF KeepQueue
  <2> QED
    BY <1>4, <2>1, HeldDiscard DEF KeepQueue
<1> QED
  BY <1>2, <1>3, <1>4

LEMMA ConsumerHandedOver ==
  ASSUME RingInv, ReclaimConsumer
  PROVE  RingInv' /\ tail' = tail
<1> USE RingAssumption DEF ReclaimConsumer
<1>1. /\ occupied \in 0 .. Capacity /\ tail \in 0 .. Capacity - 1
      /\ head \in 0 .. Capacity - 1
  BY DEF RingInv, TypeOK
<1>2. head = Slot(tail + occupied)
  BY NoPushUnderway
<1>3. tail' = tail
  <2>1. CASE tail + occupied < Capacity
    <3>1. head + Capacity - occupied = tail + Capacity
      BY <1>1, <1>2, <2>1, SlotValue
    <3>2. Slot(tail + Capacity) = tail
      BY <1>1, SlotValue
    <3> QED
      BY <3>1, <3>2
  <2>2. CASE tail + occupied >= Capacity
    <3>1. head + Capacity - occupied = tail
      BY <1>1, <1>2, <2>2, SlotValue
    <3> QED
      BY <1>1, <3>1, SlotValue
  <2> QED
    BY <1>1, <2>1, <2>2
<1>4. LockHeld' /\ RoomReserved' /\ EndsMeet' /\ SlotsFilled'
  BY <1>3, ConsumerOnly DEF producerVars
<1>5. TypeOK'
  BY <1>3 DEF RingInv, TypeOK, Places, producerVars, NO_DISCARD, NoStop
<1>6. FillWithinQueue' /\ PlaysInOrder'
  BY <1>3 DEF RingInv, FillWithinQueue, PlaysInOrder
<1> QED
  BY <1>3, <1>4, <1>5, <1>6 DEF RingInv

LEMMA PushesHeld ==
  ASSUME RingInv, HoldPushes
  PROVE  RingInv'
<1> USE RingAssumption DEF HoldPushes
<1>1. InFlight' = InFlight
  BY DEF InFlight
<1>2. LockHeld'
  BY NoPushUnderway DEF LockHeld, Pushing
<1>3. RoomReserved' /\ EndsMeet' /\ SlotsFilled'
  BY <1>1 DEF RingInv, RoomReserved, EndsMeet, SlotsFilled, Slot, consumerVars
<1>4. TypeOK'
  BY DEF RingInv, TypeOK, Places, stopVars, consumerVars
<1>5. FillWithinQueue' /\ PlaysInOrder'
  BY DEF RingInv, FillWithinQueue, PlaysInOrder, consumerVars
<1> QED
  BY <1>2, <1>3, <1>4, <1>5 DEF RingInv

\* A stop takes no lock and touches no count.
LEMMA StopMarks ==
  ASSUME RingInv, MarkStop \/ NarrowDiscard
  PROVE  RingInv'
<1> USE RingAssumption DEF MarkStop, NarrowDiscard
<1>1. /\ \A p \in Producers : Pushing(p)' <=> Pushing(p)
      /\ \A p \in Producers : \A w \in {"store", "publish"} :
           pc'[p] = w <=> pc[p] = w
  BY DEF RingInv, TypeOK, Pushing
<1>2. InFlight' = InFlight
  BY <1>1 DEF InFlight
<1>3. LockHeld' /\ RoomReserved'
  BY <1>1 DEF RingInv, LockHeld, RoomReserved, consumerVars
<1>4. EndsMeet' /\ SlotsFilled'
  BY <1>1, <1>2 DEF RingInv, EndsMeet, SlotsFilled, Slot, consumerVars
<1>5. pending' \in 0 .. NO_DISCARD /\ owed' \in Int
  <2>1. stoppedAt \in Int
    BY DEF RingInv, TypeOK
  <2>2. Position(stoppedAt) \in 0 .. PositionModulus - 1
    BY <2>1, PositionRange
  <2>3. Mark(stoppedAt) \in 0 .. NO_DISCARD /\ MarkedTotal(stoppedAt) \in Int
    BY <2>1, <2>2 DEF Mark, MarkedTotal, Lesser, DISCARD_ALL, NO_DISCARD
  <2> QED
    BY <2>3 DEF Lesser, RingInv, TypeOK
<1>6. TypeOK'
  BY <1>5 DEF RingInv, TypeOK, consumerVars
<1>7. FillWithinQueue' /\ PlaysInOrder'
  BY DEF RingInv, FillWithinQueue, PlaysInOrder, consumerVars
<1> QED
  BY <1>3, <1>4, <1>6, <1>7 DEF RingInv

----------------------------------------------------------------------------
\* Every step of a push leaves the consumer alone.
LEMMA PushBegins ==
  ASSUME RingInv, NEW p \in Producers, NEW len \in 1 .. MaxPush,
         BeginPush(p, len)
  PROVE  RingInv'
<1> USE RingAssumption DEF BeginPush
<1>1. InFlight = 0 /\ \A q \in Producers : ~Pushing(q)
  BY NoPushUnderway
<1>2. \A q \in Producers : pc'[q] = IF q = p THEN "load" ELSE pc[q]
  BY DEF RingInv, TypeOK
<1>3. InFlight' = 0
  BY <1>1, <1>2 DEF InFlight, Pushing
<1>4. LockHeld' /\ RoomReserved'
  BY <1>1, <1>2 DEF RingInv, LockHeld, RoomReserved, Pushing, consumerVars
<1>5. EndsMeet' /\ SlotsFilled'
  BY <1>1, <1>2, <1>3
  DEF RingInv, EndsMeet, SlotsFilled, Slot, Pushing, consumerVars
<1>6. TypeOK'
  BY DEF RingInv, TypeOK, consumerVars, stopVars
<1>7. FillWithinQueue' /\ PlaysInOrder'
  BY DEF RingInv, FillWithinQueue, PlaysInOrder, consumerVars
<1> QED
  BY <1>4, <1>5, <1>6, <1>7 DEF RingInv

\* While p pushes nobody else does.
LEMMA OnlyPusher ==
  ASSUME RingInv, NEW p \in Producers, Pushing(p)
  PROVE  /\ headLock = p /\ \A q \in Producers : Pushing(q) => q = p
         /\ cpc # "held"
         /\ pc[p] \in {"load", "store"} => InFlight = 0
         /\ pc[p] = "publish" => InFlight = batch
BY RingAssumption, InFlightValue DEF RingInv, LockHeld

LEMMA SpaceLoaded ==
  ASSUME RingInv, NEW p \in Producers, LoadSpace(p)
  PROVE  RingInv'
<1> USE RingAssumption DEF LoadSpace
<1>1. /\ InFlight = 0 /\ headLock = p /\ cpc # "held"
      /\ \A q \in Producers : Pushing(q) => q = p
  BY OnlyPusher DEF Pushing
<1>2. \A q \in Producers : pc'[q] = IF q = p THEN "store" ELSE pc[q]
  BY DEF RingInv, TypeOK
<1>3. InFlight' = 0
  BY <1>1, <1>2 DEF InFlight, Pushing
<1>4. LockHeld'
  BY <1>1, <1>2 DEF RingInv, LockHeld, Pushing, consumerVars
<1>5. batch' \in Nat /\ occupied + batch' <= Capacity
  BY DEF Lesser, RingInv, TypeOK
<1>6. RoomReserved'
  BY <1>1, <1>2, <1>5 DEF RoomReserved, Pushing
<1>7. EndsMeet' /\ SlotsFilled'
  BY <1>1, <1>2, <1>3
  DEF RingInv, EndsMeet, SlotsFilled, Slot, Pushing, consumerVars
<1>8. TypeOK'
  BY <1>5 DEF RingInv, TypeOK, consumerVars, stopVars
<1>9. FillWithinQueue' /\ PlaysInOrder'
  BY DEF RingInv, FillWithinQueue, PlaysInOrder, consumerVars
<1> QED
  BY <1>4, <1>6, <1>7, <1>8, <1>9 DEF RingInv

LEMMA PushDropped ==
  ASSUME RingInv, NEW p \in Producers, DropPush(p)
  PROVE  RingInv'
<1> USE RingAssumption DEF DropPush
<1>1. /\ InFlight = 0 /\ headLock = p /\ cpc # "held"
      /\ \A q \in Producers : Pushing(q) => q = p
  BY OnlyPusher DEF Pushing
<1>2. \A q \in Producers : pc'[q] = IF q = p THEN "idle" ELSE pc[q]
  BY DEF RingInv, TypeOK
<1>3. InFlight' = 0
  BY <1>1, <1>2 DEF InFlight, Pushing
<1>4. LockHeld' /\ RoomReserved'
  BY <1>1, <1>2 DEF RingInv, LockHeld, RoomReserved, Pushing, consumerVars
<1>5. EndsMeet' /\ SlotsFilled'
  BY <1>1, <1>2, <1>3
  DEF RingInv, EndsMeet, SlotsFilled, Slot, Pushing, consumerVars
<1>6. TypeOK'
  BY DEF RingInv, TypeOK, consumerVars, stopVars
<1>7. FillWithinQueue' /\ PlaysInOrder'
  BY DEF RingInv, FillWithinQueue, PlaysInOrder, consumerVars
<1> QED
  BY <1>4, <1>5, <1>6, <1>7 DEF RingInv

\* Within one lap no two indices share a slot.
LEMMA SlotsDistinct ==
  \A a, k, l \in 0 .. Capacity - 1 : k # l => Slot(a + k) # Slot(a + l)
<1> TAKE a, k, l \in 0 .. Capacity - 1
<1> HAVE k # l
<1>1. a + k \in 0 .. 2 * Capacity - 1 /\ a + l \in 0 .. 2 * Capacity - 1
  BY RingAssumption
<1>2. /\ Slot(a + k) = IF a + k < Capacity THEN a + k ELSE a + k - Capacity
      /\ Slot(a + l) = IF a + l < Capacity THEN a + l ELSE a + l - Capacity
  BY <1>1, SlotValue, RingAssumption
<1>3. /\ a \in Int /\ k \in Int /\ l \in Int /\ Capacity \in Int
      /\ 0 <= k /\ k < Capacity /\ 0 <= l /\ l < Capacity
  BY RingAssumption
<1>4. CASE a + k < Capacity
  BY <1>2, <1>3, <1>4
<1>5. CASE ~(a + k < Capacity)
  BY <1>2, <1>3, <1>5
<1> QED
  BY <1>4, <1>5

\* Where a push stores: past the queued samples, each sample at its own slot.
LEMMA StoresPastTheQueue ==
  ASSUME RingInv, NEW p \in Producers, pc[p] = "store"
  PROVE  /\ \A i \in 0 .. batch - 1 :
              /\ occupied + i \in 0 .. Capacity - 1
              /\ Slot(head + i) = Slot(tail + (occupied + i))
              /\ Slot(head + i) \in 0 .. Capacity - 1
         /\ Slot(head + batch) = Slot(tail + (occupied + batch))
<1>1. InFlight = 0
  BY OnlyPusher DEF Pushing
<1>2. /\ occupied \in Nat /\ batch \in Nat /\ occupied + batch <= Capacity
      /\ tail \in 0 .. Capacity - 1 /\ Capacity \in Nat
  BY RingAssumption DEF RingInv, TypeOK, RoomReserved
<1>3. head = Slot(tail + occupied)
  <2>1. tail + occupied + 0 = tail + occupied
    BY <1>2
  <2> QED
    BY <1>1, <2>1 DEF RingInv, EndsMeet
<1>4. \A i \in 0 .. batch : Slot(head + i) = Slot(tail + (occupied + i))
  <2> TAKE i \in 0 .. batch
  <2>1. tail + occupied \in Nat /\ i \in Nat /\ tail + occupied + i < 2 * Capacity
    BY <1>2
  <2>2. Slot(Slot(tail + occupied) + i) = Slot(tail + occupied + i)
    BY <2>1, SlotSum
  <2>3. tail + occupied + i = tail + (occupied + i)
    BY <1>2
  <2> QED
    BY <1>3, <2>2, <2>3
<1>5. \A i \in 0 .. batch - 1 :
        occupied + i \in 0 .. Capacity - 1 /\ Slot(head + i) \in 0 .. Capacity - 1
  <2> TAKE i \in 0 .. batch - 1
  <2>1. occupied + i \in 0 .. Capacity - 1
    BY <1>2
  <2>2. tail + (occupied + i) \in 0 .. 2 * Capacity - 1
    BY <1>2, <2>1
  <2>3. Slot(tail + (occupied + i)) \in 0 .. Capacity - 1
    BY <1>2, <2>2, SlotValue
  <2>4. Slot(head + i) = Slot(tail + (occupied + i))
    BY <1>2, <1>4
  <2> QED
    BY <2>1, <2>3, <2>4
<1> QED
  BY <1>2, <1>4, <1>5

LEMMA SampleStored ==
  ASSUME RingInv, NEW p \in Producers, StoreSample(p)
  PROVE  /\ RingInv'
         /\ \A k \in 0 .. occupied - 1 : Slot(tail + k) # Slot(head + stored)
<1> USE RingAssumption DEF StoreSample
<1>1. /\ InFlight = 0 /\ \A q \in Producers : Pushing(q) => q = p
  BY OnlyPusher DEF Pushing
<1>2. /\ occupied \in Nat /\ batch \in Nat /\ stored \in 0 .. batch - 1
      /\ accepted \in Nat /\ taken \in Nat /\ tail \in 0 .. Capacity - 1
      /\ buffer \in [0 .. Capacity - 1 -> Nat]
  BY DEF RingInv, TypeOK
<1>3. InFlight' = InFlight
  BY DEF InFlight
<1>4. /\ Slot(head + stored) \in 0 .. Capacity - 1
      /\ Slot(head + stored) = Slot(tail + (occupied + stored))
      /\ occupied + stored \in 0 .. Capacity - 1
  BY <1>2, StoresPastTheQueue
<1>5. \A k \in 0 .. occupied + stored - 1 : Slot(tail + k) # Slot(head + stored)
  <2> TAKE k \in 0 .. occupied + stored - 1
  <2>1. k \in 0 .. Capacity - 1 /\ k # occupied + stored
    BY <1>2, <1>4
  <2>2. Slot(tail + k) # Slot(tail + (occupied + stored))
    BY <1>2, <1>4, <2>1, SlotsDistinct
  <2> QED
    BY <1>4, <2>2
<1>6. \A k \in 0 .. occupied - 1 : Slot(tail + k) # Slot(head + stored)
  BY <1>2, <1>5
<1>7. \A i \in 0 .. stored - 1 : Slot(head + i) # Slot(head + stored)
  <2> TAKE i \in 0 .. stored - 1
  <2>1. i \in 0 .. batch - 1 /\ occupied + i \in 0 .. occupied + stored - 1
    BY <1>2
  <2>2. Slot(head + i) = Slot(tail + (occupied + i))
    BY <2>1, StoresPastTheQueue
  <2>3. Slot(tail + (occupied + i)) # Slot(head + stored)
    BY <2>1, <1>5
  <2> QED
    BY <2>2, <2>3
<1>8. \A j \in 0 .. Capacity - 1 : j # Slot(head + stored) => buffer'[j] = buffer[j]
  BY <1>2
<1>9. buffer'[Slot(head + stored)] = accepted + stored + 1
  BY <1>2, <1>4
<1>10. \A k \in 0 .. occupied - 1 : buffer'[Slot(tail + k)] = taken + k + 1
  <2> TAKE k \in 0 .. occupied - 1
  <2>1. k \in 0 .. Capacity - 1 /\ tail + k \in 0 .. 2 * Capacity - 1
    BY <1>2, <1>4
  <2>2. Slot(tail + k) \in 0 .. Capacity - 1
    BY <2>1, SlotValue
  <2>3. buffer'[Slot(tail + k)] = buffer[Slot(tail + k)]
    BY <1>6, <1>8, <2>2
  <2>4. k \in 0 .. occupied + InFlight - 1
    BY <1>1, <1>2
  <2> QED
    BY <2>3, <2>4 DEF RingInv, SlotsFilled
<1>11. \A i \in 0 .. stored' - 1 : buffer'[Slot(head + i)] = accepted + i + 1
  <2> TAKE i \in 0 .. stored' - 1
  <2>1. CASE i = stored
    BY <1>9, <2>1
  <2>2. CASE i # stored
    <3>1. i \in 0 .. stored - 1 /\ i \in 0 .. batch - 1
      BY <1>2, <2>2
    <3>2. buffer'[Slot(head + i)] = buffer[Slot(head + i)]
      BY <1>7, <1>8, <3>1, StoresPastTheQueue
    <3> QED
      BY <3>1, <3>2 DEF RingInv, SlotsFilled
  <2> QED
    BY <2>1, <2>2
<1>12. SlotsFilled'
  <2>1. /\ occupied' + InFlight' - 1 = occupied - 1
        /\ taken' = taken /\ accepted' = accepted
    BY <1>1, <1>2, <1>3 DEF consumerVars
  <2>2. tail' = tail /\ head' = head /\ pc' = pc
    BY DEF consumerVars
  <2>3. \A k \in 0 .. occupied' + InFlight' - 1 :
          buffer'[Slot(tail' + k)] = taken' + k + 1
    <3> TAKE k \in 0 .. occupied' + InFlight' - 1
    <3>1. k \in 0 .. occupied - 1
      BY <2>1, Zenon
    <3> QED
      BY <1>10, <2>1, <2>2, <3>1
  <2>4. \A i \in 0 .. stored' - 1 :
          buffer'[Slot(head' + i)] = accepted' + i + 1
    BY <1>11, <2>1, <2>2
  <2> QED
    BY <2>3, <2>4 DEF SlotsFilled, Slot
<1>13. LockHeld' /\ RoomReserved'
  BY <1>1, <1>2 DEF RingInv, LockHeld, RoomReserved, Pushing, consumerVars
<1>14. EndsMeet'
  BY <1>3 DEF RingInv, EndsMeet, Slot, consumerVars
<1>15. TypeOK'
  BY <1>2, <1>4 DEF RingInv, TypeOK, consumerVars, stopVars
<1>16. FillWithinQueue' /\ PlaysInOrder'
  BY DEF RingInv, FillWithinQueue, PlaysInOrder, consumerVars
<1> QED
  BY <1>6, <1>12, <1>13, <1>14, <1>15, <1>16 DEF RingInv

LEMMA PushCounted ==
  ASSUME RingInv, NEW p \in Producers, CountPushed(p)
  PROVE  RingInv'
<1> USE RingAssumption DEF CountPushed
<1>1. /\ InFlight = 0 /\ headLock = p /\ cpc # "held"
      /\ \A q \in Producers : Pushing(q) => q = p
  BY OnlyPusher DEF Pushing
<1>2. \A q \in Producers : pc'[q] = IF q = p THEN "publish" ELSE pc[q]
  BY DEF RingInv, TypeOK
<1>3. InFlight' = batch
  BY <1>2 DEF InFlight
<1>4. /\ occupied \in Nat /\ batch \in Nat /\ stored = batch
      /\ occupied + batch <= Capacity /\ tail \in 0 .. Capacity - 1
      /\ accepted \in Nat /\ taken \in Nat /\ Capacity \in Nat
  BY DEF RingInv, TypeOK, RoomReserved
<1>5. accepted = taken + occupied
  BY <1>1, <1>4 DEF RingInv, EndsMeet
<1>6. LockHeld' /\ RoomReserved'
  BY <1>1, <1>2, <1>4 DEF RingInv, LockHeld, RoomReserved, Pushing, consumerVars
<1>7. head' = Slot(tail + occupied + batch)
  <2>1. tail + (occupied + batch) = tail + occupied + batch
    BY <1>4
  <2> QED
    BY <2>1, StoresPastTheQueue
<1>8. EndsMeet'
  BY <1>3, <1>4, <1>5, <1>7 DEF EndsMeet, Slot, consumerVars
<1>9. \A k \in 0 .. occupied + batch - 1 : buffer[Slot(tail + k)] = taken + k + 1
  <2> TAKE k \in 0 .. occupied + batch - 1
  <2>1. CASE k < occupied
    <3>1. k \in 0 .. occupied + InFlight - 1
      BY <1>1, <1>4, <2>1
    <3> QED
      BY <3>1 DEF RingInv, SlotsFilled
  <2>2. CASE k >= occupied
    <3> DEFINE i == k - occupied
    <3>1. i \in 0 .. stored - 1 /\ i \in 0 .. batch - 1 /\ occupied + i = k
      BY <1>4, <2>2
    <3>2. buffer[Slot(head + i)] = accepted + i + 1
      BY <3>1 DEF RingInv, SlotsFilled
    <3>3. Slot(head + i) = Slot(tail + k)
      BY <3>1, StoresPastTheQueue
    <3>4. accepted + i + 1 = taken + k + 1
      BY <1>4, <1>5
    <3> QED
      BY <3>2, <3>3, <3>4
  <2> QED
    BY <1>4, <2>1, <2>2
<1>10. SlotsFilled'
  <2>1. /\ occupied' = occupied /\ buffer' = buffer /\ tail' = tail
        /\ taken' = taken
    BY DEF consumerVars
  <2>2. \A q \in Producers : pc'[q] # "store"
    BY <1>1, <1>2 DEF Pushing
  <2> QED
    BY <1>3, <1>9, <2>1, <2>2 DEF SlotsFilled, Slot
<1>11. TypeOK'
  <2>1. head' \in 0 .. Capacity - 1
    BY <1>4, <1>7, SlotValue
  <2> QED
    BY <1>4, <2>1 DEF RingInv, TypeOK, consumerVars, stopVars
<1>12. FillWithinQueue' /\ PlaysInOrder'
  BY DEF RingInv, FillWithinQueue, PlaysInOrder, consumerVars
<1> QED
  BY <1>6, <1>8, <1>10, <1>11, <1>12 DEF RingInv

LEMMA PushPublished ==
  ASSUME RingInv, NEW p \in Producers, Publish(p)
  PROVE  RingInv'
<1> USE RingAssumption DEF Publish
<1>1. /\ InFlight = batch /\ headLock = p /\ cpc # "held"
      /\ \A q \in Producers : Pushing(q) => q = p
  BY OnlyPusher DEF Pushing
<1>2. \A q \in Producers : pc'[q] = IF q = p THEN "idle" ELSE pc[q]
  BY DEF RingInv, TypeOK
<1>3. InFlight' = 0
  BY <1>1, <1>2 DEF InFlight, Pushing
<1>4. /\ occupied \in Nat /\ batch \in Nat /\ occupied + batch <= Capacity
      /\ tail \in Nat /\ taken \in Nat
  BY DEF RingInv, TypeOK, RoomReserved
<1>5. LockHeld' /\ RoomReserved'
  BY <1>1, <1>2 DEF RingInv, LockHeld, RoomReserved, Pushing, consumerVars
<1>6. /\ occupied' + InFlight' - 1 = occupied + InFlight - 1
      /\ tail' + occupied' + InFlight' = tail + occupied + InFlight
      /\ taken' + occupied' + InFlight' = taken + occupied + InFlight
  BY <1>1, <1>3, <1>4 DEF consumerVars
<1>7. EndsMeet'
  BY <1>6 DEF RingInv, EndsMeet, Slot
<1>8. SlotsFilled'
  <2>1. buffer' = buffer /\ tail' = tail /\ taken' = taken
    BY DEF consumerVars
  <2>2. \A q \in Producers : pc'[q] # "store"
    BY <1>1, <1>2 DEF Pushing
  <2> QED
    BY <1>6, <2>1, <2>2 DEF RingInv, SlotsFilled, Slot
<1>9. TypeOK'
  BY <1>4 DEF RingInv, TypeOK, consumerVars, stopVars
<1>10. FillWithinQueue' /\ PlaysInOrder'
  BY <1>4 DEF RingInv, FillWithinQueue, PlaysInOrder, consumerVars, TypeOK
<1> QED
  BY <1>5, <1>7, <1>8, <1>9, <1>10 DEF RingInv

----------------------------------------------------------------------------
LEMMA RingStep ==
  ASSUME RingInv, [Next]_vars
  PROVE  RingInv'
<1>1. CASE UNCHANGED vars
  <2> USE <1>1 DEF vars, producerVars, consumerVars, stopVars
  <2>1. TypeOK' /\ FillWithinQueue' /\ PlaysInOrder'
    BY DEF RingInv, TypeOK, FillWithinQueue, PlaysInOrder
  <2> QED
    BY <2>1, ConsumerOnly DEF RingInv
<1>2. ASSUME NEW p \in Producers, Push(p)
      PROVE  RingInv'
  BY <1>2, SpaceLoaded, SampleStored, PushDropped, PushCounted, PushPublished
  DEF Push
<1>3. ASSUME NEW p \in Producers, NEW len \in 1 .. MaxPush, BeginPush(p, len)
      PROVE  RingInv'
  BY <1>3, PushBegins
<1>4. CASE MarkStop \/ NarrowDiscard
  BY <1>4, StopMarks
<1>5. CASE \E len \in 1 .. MaxFill : BeginFill(len)
  BY <1>5, CallbackReads
<1>6. CASE Callback
  BY <1>6, CallbackReads, StaleDropped, SampleRead, FillEnds DEF Callback
<1>7. CASE Transport
  BY <1>7, CallbackReads, ConsumerHandedOver, PushesHeld, HeldSteps DEF Transport
<1> QED
  BY <1>1, <1>2, <1>3, <1>4, <1>5, <1>6, <1>7 DEF Next

LEMMA RingAlways == Spec => []RingInv
<1>1. Init => RingInv
  BY RingInit
<1>2. RingInv /\ [Next]_vars => RingInv'
  BY RingStep
<1> QED
  BY <1>1, <1>2, PTL DEF Spec

\* The ring stays well typed: no index leaves the buffer, and no interleaving
\* of pushes, fills, discards and hand-overs publishes more than it holds.
THEOREM RingTypeCorrect == Spec => []TypeOK
<1>1. RingInv => TypeOK
  BY DEF RingInv
<1> QED
  BY <1>1, RingAlways, PTL

\* For any capacity and any lengths, the callback plays the accepted samples
\* in their order, none repeated, skipped or read before it was stored.
THEOREM PlaysInOrderAlways == Spec => []PlaysInOrder
<1>1. RingInv => PlaysInOrder
  BY DEF RingInv
<1> QED
  BY <1>1, RingAlways, PTL

\* The slots of a push under way and those a callback may read never meet.
THEOREM SlotsStayApart == Spec => []SlotsApart
<1>1. RingInv => SlotsApart
  <2> SUFFICES ASSUME RingInv, NEW p \in Producers, pc[p] = "store",
                      NEW i \in stored .. batch - 1,
                      NEW k \in 0 .. occupied - 1
               PROVE  Slot(head + i) # Slot(tail + k)
    BY DEF SlotsApart
  <2>1. /\ occupied \in Nat /\ batch \in Nat /\ stored \in Nat
        /\ occupied + batch <= Capacity /\ tail \in 0 .. Capacity - 1
        /\ Capacity \in Nat
    BY RingAssumption DEF RingInv, TypeOK, RoomReserved
  <2>2. i \in 0 .. batch - 1 /\ k \in 0 .. Capacity - 1
    BY <2>1
  <2>3. /\ Slot(head + i) = Slot(tail + (occupied + i))
        /\ occupied + i \in 0 .. Capacity - 1 /\ occupied + i # k
    BY <2>1, <2>2, StoresPastTheQueue
  <2> QED
    BY <2>1, <2>2, <2>3, SlotsDistinct
<1> QED
  BY <1>1, RingAlways, PTL

----------------------------------------------------------------------------
\* The ring implements AudioQueue: under the invariant the queued samples are
\* the numbers after the last one taken, so each step moves only the two ends of
\* the queue.

Queued == [i \in 1 .. occupied |-> buffer[Slot(tail + i - 1)]]
Numbered(first, n) == [i \in 1 .. n |-> first + i]

LEMMA NumberedIsSeq ==
  ASSUME NEW first \in Nat, NEW n \in Nat
  PROVE  Numbered(first, n) \in Seq(Nat) /\ Len(Numbered(first, n)) = n
BY DEF Numbered

LEMMA QueuedIsNumbered ==
  ASSUME RingInv
  PROVE  Queued = Numbered(taken, occupied)
<1>1. InFlight \in Nat
  BY InFlightValue DEF RingInv
<1>2. occupied \in Nat /\ tail \in Nat /\ taken \in Nat
  BY DEF RingInv, TypeOK
<1>3. \A i \in 1 .. occupied : buffer[Slot(tail + i - 1)] = taken + i
  <2> TAKE i \in 1 .. occupied
  <2>1. i - 1 \in 0 .. occupied + InFlight - 1
    BY <1>1, <1>2
  <2>2. tail + (i - 1) = tail + i - 1 /\ taken + (i - 1) + 1 = taken + i
    BY <1>2
  <2> QED
    BY <2>1, <2>2 DEF RingInv, SlotsFilled
<1> QED
  BY <1>3 DEF Queued, Numbered

LEMMA QueuedIsNumberedNext ==
  ASSUME RingInv'
  PROVE  Queued' = Numbered(taken', occupied')
<1>1. (RingInv => Queued = Numbered(taken, occupied))'
  BY QueuedIsNumbered, PTL
<1> QED
  BY <1>1 DEF Numbered

----------------------------------------------------------------------------
\* Steps that free the first n queued samples without a callback's buffer.
LEMMA FreesDiscard ==
  ASSUME RingInv, RingInv', NEW n \in 0 .. occupied,
         taken' = taken + n, occupied' = occupied - n, played' = played
  PROVE  [Queue!Next]_(Queue!queueVars)
<1>1. /\ occupied \in 0 .. Capacity /\ taken \in Nat /\ Capacity \in Nat
      /\ n \in Nat /\ occupied - n \in Nat
  BY RingAssumption DEF RingInv, TypeOK
<1>2. /\ Queued = Numbered(taken, occupied)
      /\ Queued' = Numbered(taken + n, occupied - n)
  BY QueuedIsNumbered, QueuedIsNumberedNext
<1>3. taken' + occupied' = taken + occupied
  BY <1>1
<1>4. CASE n = 0
  <2>1. Queued' = Queued
    BY <1>1, <1>2, <1>4
  <2> QED
    BY <1>3, <2>1 DEF Queue!queueVars, Queued
<1>5. CASE n > 0
  <2>1. Len(Queued) = occupied
    BY <1>1, <1>2, NumberedIsSeq
  <2>2. Queued' = [i \in 1 .. Len(Queued) - n |-> Queued[i + n]]
    BY <1>1, <1>2, <2>1 DEF Numbered
  <2>3. n \in 1 .. Capacity /\ n <= Len(Queued)
    BY <1>1, <1>5, <2>1
  <2>4. Queue!Discard(n)
    BY <1>3, <2>2, <2>3 DEF Queue!Discard, Queue!WithoutFirst, Queued
  <2> QED
    BY <2>3, <2>4 DEF Queue!Next
<1> QED
  BY <1>1, <1>4, <1>5

LEMMA FreesNothing ==
  ASSUME RingInv, RingInv', taken' = taken, occupied' = occupied,
         played' = played
  PROVE  [Queue!Next]_(Queue!queueVars)
<1>1. occupied \in Nat /\ taken \in Nat
  BY DEF RingInv, TypeOK
<1>2. 0 \in 0 .. occupied /\ taken' = taken + 0 /\ occupied' = occupied - 0
  BY <1>1
<1> QED
  BY <1>2, FreesDiscard

LEMMA PublishPushes ==
  ASSUME RingInv, RingInv', NEW p \in Producers, Publish(p)
  PROVE  Queue!Next
<1>1. /\ occupied \in Nat /\ taken \in Nat /\ Capacity \in Nat
      /\ batch \in 1 .. Capacity /\ occupied + batch <= Capacity
      /\ occupied' = occupied + batch /\ taken' = taken /\ played' = played
  BY RingAssumption DEF RingInv, TypeOK, RoomReserved, Publish, consumerVars
<1>2. /\ Queued = Numbered(taken, occupied)
      /\ Queued' = Numbered(taken, occupied + batch)
  BY <1>1, QueuedIsNumbered, QueuedIsNumberedNext
<1>3. Len(Queued) = occupied
  BY <1>1, <1>2, NumberedIsSeq
<1>4. Queued' = [i \in 1 .. Len(Queued) + batch |->
                  IF i <= Len(Queued) THEN Queued[i]
                  ELSE (taken + occupied) + (i - Len(Queued))]
  <2>1. \A i \in 1 .. occupied + batch :
          taken + i = IF i <= occupied THEN Queued[i]
                      ELSE (taken + occupied) + (i - occupied)
    BY <1>1, <1>2 DEF Numbered
  <2> QED
    BY <1>2, <1>3, <2>1 DEF Numbered
<1>5. taken' + occupied' = taken + occupied + batch
  BY <1>1
<1>6. Queue!Push(batch)
  BY <1>1, <1>3, <1>4, <1>5 DEF Queue!Push, Queued
<1> QED
  BY <1>1, <1>6 DEF Queue!Next

LEMMA FillTakes ==
  ASSUME RingInv, RingInv', FreeSlots
  PROVE  Queue!Next
<1>1. /\ occupied \in Nat /\ taken \in Nat /\ Capacity \in Nat
      /\ count \in 0 .. occupied /\ occupied <= Capacity
      /\ want \in 1 .. MaxFill /\ count <= want /\ Len(out) = count
      /\ occupied' = occupied - count /\ taken' = taken + count
  BY RingAssumption DEF RingInv, TypeOK, FillWithinQueue, FreeSlots
<1>2. /\ Queued = Numbered(taken, occupied)
      /\ Queued' = Numbered(taken + count, occupied - count)
  BY <1>1, QueuedIsNumbered, QueuedIsNumberedNext
<1>3. Len(Queued) = occupied
  BY <1>1, <1>2, NumberedIsSeq
<1>4. Queued' = [i \in 1 .. Len(Queued) - count |-> Queued[i + count]]
  BY <1>1, <1>2, <1>3 DEF Numbered
<1>5. \A i \in 1 .. count : out[i] = Queued[i]
  BY <1>1, <1>2 DEF RingInv, PlaysInOrder, Numbered
<1>6. played' = [i \in 1 .. want |-> IF i <= count THEN Queued[i] ELSE Silence]
  <2>1. played' = [i \in 1 .. want |-> IF i <= count THEN out[i] ELSE Silence]
    BY DEF FreeSlots
  <2>2. \A i \in 1 .. want : (IF i <= count THEN out[i] ELSE Silence)
                           = (IF i <= count THEN Queued[i] ELSE Silence)
    BY <1>1, <1>5
  <2> QED
    BY <2>1, <2>2
<1>7. taken' + occupied' = taken + occupied
  BY <1>1
<1>8. Queue!Fill(count, want)
  <2>1. played' = Queue!Padded(Queued, count, want)
    BY <1>6 DEF Queue!Padded, Queue!Silence, Silence
  <2>2. Queued' = Queue!WithoutFirst(Queued, count)
    BY <1>4 DEF Queue!WithoutFirst
  <2>3. count <= Len(Queued) /\ count <= want
    BY <1>1, <1>3
  <2> QED
    BY <1>7, <2>1, <2>2, <2>3 DEF Queue!Fill, Queued
<1>9. count \in 0 .. Capacity
  BY <1>1
<1> QED
  BY <1>1, <1>8, <1>9 DEF Queue!Next

LEMMA DiscardsTake ==
  ASSUME RingInv, RingInv', DropStale \/ DiscardAll \/ DiscardPushedBefore
  PROVE  [Queue!Next]_(Queue!queueVars)
<1>1. occupied \in Nat /\ taken \in Int /\ stoppedAt \in Int
  BY DEF RingInv, TypeOK
<1>2. CASE DropStale
  <2>1. count \in 0 .. occupied
    BY <1>2 DEF RingInv, TypeOK, FillWithinQueue, DropStale
  <2> QED
    BY <1>2, <2>1, FreesDiscard DEF DropStale
<1>3. CASE DiscardAll
  <2>1. occupied \in 0 .. occupied /\ occupied' = occupied - occupied
    BY <1>1, <1>3 DEF DiscardAll
  <2> QED
    BY <1>3, <2>1, FreesDiscard DEF DiscardAll
<1>4. CASE DiscardPushedBefore
  <2> DEFINE stale == StaleBefore(Position(stoppedAt), Position(taken), occupied)
  <2>1. Position(stoppedAt) \in Int /\ Position(taken) \in Int
    BY <1>1, PositionRange
  <2>2. stale \in 0 .. occupied
    BY <1>1, <2>1, StaleBeforeRange
  <2>3. /\ taken' = taken + stale /\ occupied' = occupied - stale
        /\ played' = played
    BY <1>4 DEF DiscardPushedBefore
  <2> HIDE DEF stale
  <2> QED
    BY <2>2, <2>3, FreesDiscard
<1> QED
  BY <1>2, <1>3, <1>4

----------------------------------------------------------------------------
\* Every interleaving of the lock-free steps is, to the two sides of the ring,
\* a sequence of whole pushes, fills and discards of one bounded queue.
THEOREM RingImplementsQueue == Spec => QueueSpec
<1>1. Init => Queue!Init
  BY DEF Init, Queue!Init
<1>2. RingInv /\ RingInv' /\ [Next]_vars => [Queue!Next]_(Queue!queueVars)
  <2> SUFFICES ASSUME RingInv, RingInv', [Next]_vars
               PROVE  [Queue!Next]_(Queue!queueVars)
    OBVIOUS
  <2>1. CASE UNCHANGED vars
    BY <2>1, FreesNothing DEF vars, consumerVars
  <2>2. ASSUME NEW p \in Producers, Push(p)
        PROVE  [Queue!Next]_(Queue!queueVars)
    <3>1. CASE LoadSpace(p) \/ StoreSample(p) \/ DropPush(p) \/ CountPushed(p)
      BY <3>1, FreesNothing
      DEF LoadSpace, StoreSample, DropPush, CountPushed, consumerVars
    <3>2. CASE Publish(p)
      BY <3>2, PublishPushes
    <3> QED
      BY <2>2, <3>1, <3>2 DEF Push
  <2>3. ASSUME NEW p \in Producers, NEW len \in 1 .. MaxPush, BeginPush(p, len)
        PROVE  [Queue!Next]_(Queue!queueVars)
    BY <2>3, FreesNothing DEF BeginPush, consumerVars
  <2>4. CASE MarkStop \/ NarrowDiscard
    BY <2>4, FreesNothing DEF MarkStop, NarrowDiscard, consumerVars
  <2>5. CASE \E len \in 1 .. MaxFill : BeginFill(len)
    BY <2>5, FreesNothing DEF BeginFill
  <2>6. CASE Callback
    <3>1. CASE NothingPending \/ ClaimQueue \/ TakeDiscard \/ LoadQueued \/ ReadSample
      BY <3>1, FreesNothing
      DEF NothingPending, ClaimQueue, TakeDiscard, LoadQueued, ReadSample
    <3> QED
      BY <2>6, <3>1, DiscardsTake, FillTakes DEF Callback
  <2>7. CASE Transport
    <3>1. CASE DropConsumer \/ HoldPushes \/ KeepQueue \/ DiscardAtFirstRead \/ Attach
      BY <3>1, FreesNothing
      DEF DropConsumer, HoldPushes, KeepQueue, DiscardAtFirstRead, Attach
    <3>2. CASE ReclaimConsumer
      BY <3>2, FreesNothing DEF ReclaimConsumer
    <3> QED
      BY <2>7, <3>1, <3>2, DiscardsTake DEF Transport
  <2> QED
    BY <2>1, <2>2, <2>3, <2>4, <2>5, <2>6, <2>7 DEF Next
<1> QED
  BY <1>1, <1>2, RingAlways, PTL DEF Spec, QueueSpec, Queue!QueueSpec
----------------------------------------------------------------------------
\* Discards: what a mark means although the totals wrap.

LEMMA Remainder ==
  ASSUME NEW m \in Nat \ {0}, NEW a \in Int
  PROVE  /\ a \div m \in Int /\ a % m \in 0 .. m - 1
         /\ a = m * (a \div m) + (a % m)
  BY SMT

LEMMA RemainderOf ==
  ASSUME NEW m \in Nat \ {0}, NEW q \in Int, NEW r \in 0 .. m - 1
  PROVE  (m * q + r) % m = r
  BY SMT

LEMMA RemainderShifts ==
  ASSUME NEW m \in Nat \ {0}, NEW a \in Int, NEW b \in Int, NEW q \in Int,
         a = b + m * q
  PROVE  a % m = b % m
<1> DEFINE k == b \div m
<1> DEFINE r == b % m
<1>1. k \in Int /\ r \in 0 .. m - 1 /\ b = m * k + r BY Remainder
<1> HIDE DEF k, r
<1>2. m * k + m * q = m * (k + q) /\ m * k \in Int /\ m * q \in Int BY <1>1
<1>3. a = m * (k + q) + r BY <1>1, <1>2
<1>4. k + q \in Int BY <1>1
<1>5. a % m = r BY <1>1, <1>3, <1>4, RemainderOf
<1> QED BY <1>5 DEF r

\* Positions are as far apart, modulo their wrap, as the totals they stand for.
LEMMA PositionDistance ==
  ASSUME NEW a \in Int, NEW b \in Int
  PROVE  (Position(a) - Position(b)) % PositionModulus = (a - b) % PositionModulus
<1> DEFINE m == PositionModulus
<1> DEFINE k == (FirstPosition + a) \div m
<1> DEFINE l == (FirstPosition + b) \div m
<1>1. m \in Nat \ {0} /\ FirstPosition \in Int BY RingAssumption
<1>2. FirstPosition + a \in Int /\ FirstPosition + b \in Int BY <1>1
<1>3. /\ k \in Int /\ FirstPosition + a = m * k + Position(a)
      /\ l \in Int /\ FirstPosition + b = m * l + Position(b)
      /\ Position(a) \in Int /\ Position(b) \in Int
  <2>1. \A c \in {a, b} : Position(c) = (FirstPosition + c) % m BY DEF Position
  <2>2. k \in Int /\ FirstPosition + a = m * k + ((FirstPosition + a) % m)
    BY <1>1, <1>2, Remainder
  <2>3. l \in Int /\ FirstPosition + b = m * l + ((FirstPosition + b) % m)
    BY <1>1, <1>2, Remainder
  <2>4. Position(a) \in Int /\ Position(b) \in Int BY PositionRange
  <2> HIDE DEF k, l, m
  <2> QED BY <2>1, <2>2, <2>3, <2>4
<1> HIDE DEF m, k, l
<1>4. m * k - m * l = m * (k - l) /\ m * k \in Int /\ m * l \in Int /\ k - l \in Int
  BY <1>1, <1>3
<1>5. a - b = (Position(a) - Position(b)) + m * (k - l)
  BY <1>1, <1>3, <1>4
<1>6. (a - b) % m = (Position(a) - Position(b)) % m
  <2>1. a - b \in Int /\ Position(a) - Position(b) \in Int BY <1>3
  <2>2. SUFFICES ASSUME NEW x \in Int, NEW y \in Int, NEW q \in Int, x = y + m * q
                 PROVE  x % m = y % m
    BY <2>1, <1>4, <1>5
  <2> QED BY <2>2, <1>1, RemainderShifts
<1> QED BY <1>6 DEF m

\* A mark counts what is queued before it, and nothing once it is passed.
LEMMA StaleBeforeMark ==
  ASSUME NEW m \in -2 .. MaxAccepted, NEW t \in 0 .. MaxAccepted, NEW n \in Nat
  PROVE  StaleBefore(Position(m), Position(t), n)
           = IF m <= t THEN 0 ELSE Lesser(m - t, n)
<1> DEFINE ahead == (m - t) % PositionModulus
<1>1. MaxAccepted \in Nat /\ PositionModulus \in Nat \ {0} /\ m \in Int /\ t \in Int
  BY RingAssumption
<1>2. StaleBefore(Position(m), Position(t), n)
        = IF 2 * ahead >= PositionModulus THEN 0 ELSE Lesser(ahead, n)
  BY <1>1, PositionDistance DEF StaleBefore
<1>3. ASSUME m >= t PROVE ahead = m - t
  <2>1. m - t \in 0 .. PositionModulus - 1 BY <1>1, <1>3, PositionsAssumption
  <2>2. PositionModulus * 0 + (m - t) = m - t BY <1>1
  <2> QED BY <1>1, <2>1, <2>2, RemainderOf
<1>4. ASSUME m < t PROVE ahead = m - t + PositionModulus
  <2>1. m - t + PositionModulus \in 0 .. PositionModulus - 1
    BY <1>1, <1>4, PositionsAssumption
  <2>2. PositionModulus * (-1) + (m - t + PositionModulus) = m - t BY <1>1
  <2>3. (PositionModulus * (-1) + (m - t + PositionModulus)) % PositionModulus
          = m - t + PositionModulus
    BY <1>1, <2>1, RemainderOf
  <2> QED BY <2>2, <2>3
<1> HIDE DEF ahead
<1>5. CASE m < t BY <1>1, <1>2, <1>4, <1>5, PositionsAssumption
<1>6. CASE m >= t
  <2>1. 2 * ahead < PositionModulus BY <1>1, <1>3, <1>6, PositionsAssumption
  <2>2. m = t => Lesser(ahead, n) = 0 BY <1>1, <1>3, <1>6 DEF Lesser
  <2> QED BY <1>1, <1>2, <1>3, <1>6, <2>1, <2>2
<1> QED BY <1>1, <1>5, <1>6

\* A stop's mark is kept clear of the reserved values by dropping less.
LEMMA MarkIsPosition ==
  ASSUME NEW total \in Nat
  PROVE  /\ MarkedTotal(total) \in total - 2 .. total
         /\ Mark(total) = Position(MarkedTotal(total))
         /\ Mark(total) \notin {NO_DISCARD, DISCARD_ALL}
<1> DEFINE m == PositionModulus
<1> DEFINE q == (FirstPosition + total) \div m
<1> DEFINE p == Position(total)
<1> DEFINE r == Lesser(p, DISCARD_ALL - 1)
<1>1. m \in Nat /\ m >= 4 /\ FirstPosition \in Int BY RingAssumption
<1>2. q \in Int /\ p \in 0 .. m - 1 /\ FirstPosition + total = m * q + p
  <2>1. FirstPosition + total \in Int /\ m \in Nat \ {0} BY <1>1
  <2> QED BY <2>1, Remainder DEF Position
<1>3. MarkedTotal(total) = total - (p - r) /\ Mark(total) = r BY DEF MarkedTotal, Mark
<1> HIDE DEF q, p
<1>4. r \in 0 .. m - 3 /\ p - r \in 0 .. 2
  BY <1>1, <1>2 DEF Lesser, DISCARD_ALL
<1>5. r \notin {NO_DISCARD, DISCARD_ALL} BY <1>1, <1>4 DEF NO_DISCARD, DISCARD_ALL
<1> HIDE DEF r, m
<1>6. m * q \in Int /\ FirstPosition + (total - (p - r)) = m * q + r
  BY <1>1, <1>2, <1>4
<1>7. (m * q + r) % m = r
  <2>1. m \in Nat \ {0} /\ r \in 0 .. m - 1 BY <1>1, <1>4
  <2> QED BY <1>2, <2>1, RemainderOf
<1>8. Position(total - (p - r)) = r BY <1>6, <1>7 DEF Position, m
<1>9. total - (p - r) \in total - 2 .. total BY <1>1, <1>2, <1>4
<1> QED BY <1>3, <1>5, <1>8, <1>9
----------------------------------------------------------------------------
\* A pending mark owes no more than it drops, and spares what a stop spared.
MarkKept == pending \notin {NO_DISCARD, DISCARD_ALL} =>
  \E m \in -2 .. accepted :
    pending = Position(m) /\ owed <= m /\ spared # NoStop /\ m <= spared

\* What a discard owes is ahead until the discard is applied, and then behind.
Discards ==
  /\ accepted <= MaxAccepted /\ stoppedAt <= accepted /\ owed <= taken + occupied
  /\ \A p \in Producers :
       pc[p] \in {"load", "store"} => accepted + batch <= MaxAccepted
  /\ MarkKept
  /\ pending = DISCARD_ALL => spared = NoStop
  /\ pending = NO_DISCARD /\ cpc # "drop" => owed <= taken
  /\ cpc \in {"drop", "load", "read"} => pending = NO_DISCARD
  /\ cpc = "claimed" => pending # NO_DISCARD /\ owed <= taken + count
  /\ cpc = "drop" => owed <= taken + count
       /\ (spared # NoStop /\ count > 0 => taken + count <= spared)

LEMMA DiscardsInit == Init => Discards
<1> SUFFICES ASSUME Init PROVE Discards OBVIOUS
<1>1. NO_DISCARD # DISCARD_ALL BY RingAssumption DEF NO_DISCARD, DISCARD_ALL
<1> QED BY <1>1, RingAssumption DEF Init, Discards, MarkKept

\* The numbers a step compares.
LEMMA RingNumbers ==
  ASSUME RingInv, Discards
  PROVE  /\ accepted \in Nat /\ taken \in Nat /\ occupied \in Nat /\ count \in Nat
         /\ batch \in Nat /\ stoppedAt \in Nat /\ owed \in Int /\ pending \in Int
         /\ spared \in Nat \union {NoStop} /\ MaxAccepted \in Nat /\ MaxPush \in Nat
         /\ taken + occupied <= accepted /\ taken <= MaxAccepted
         /\ NO_DISCARD # DISCARD_ALL
         /\ (cpc \in {"claimed", "drop", "read"} => count <= occupied)
<1>1. /\ accepted \in Nat /\ taken \in Nat /\ occupied \in 0 .. Capacity /\ count \in 0 .. Capacity
      /\ batch \in Nat /\ stoppedAt \in Nat /\ owed \in Int /\ pending \in 0 .. NO_DISCARD
      /\ spared \in Nat \union {NoStop}
  BY DEF RingInv, TypeOK
<1>2. InFlight \in Nat /\ accepted = taken + occupied + InFlight
  BY InFlightValue DEF RingInv, EndsMeet
<1>3. NO_DISCARD # DISCARD_ALL /\ NO_DISCARD \in Int
  BY RingAssumption DEF NO_DISCARD, DISCARD_ALL
<1>4. accepted <= MaxAccepted BY DEF Discards
<1> QED BY <1>1, <1>2, <1>3, <1>4, RingAssumption DEF RingInv, FillWithinQueue

LEMMA DiscardsUnderPush ==
  ASSUME RingInv, Discards, NEW p \in Producers,
         Push(p) \/ \E len \in 1 .. MaxPush : BeginPush(p, len)
  PROVE  Discards'
<1> USE RingNumbers DEF Discards
<1>1. CASE \E len \in 1 .. MaxPush : BeginPush(p, len)
  BY <1>1 DEF BeginPush, consumerVars, stopVars, MarkKept, RingInv, TypeOK
<1>2. CASE LoadSpace(p)
  <2>1. \A q \in Producers : pc[q] \in {"load", "store"} => q = p
    BY <1>2, OnlyPusher DEF LoadSpace, Pushing
  <2>2. pc[p] = "load" /\ pc' = [pc EXCEPT ![p] = "store"] /\ batch' <= batch
        /\ accepted' = accepted /\ batch' \in Int
    BY <1>2, RingAssumption DEF LoadSpace, Lesser, RingInv, TypeOK
  <2>3. \A q \in Producers : pc'[q] \in {"load", "store"} => accepted' + batch' <= MaxAccepted
    BY <2>1, <2>2 DEF RingInv, TypeOK
  <2> QED BY <1>2, <2>3 DEF LoadSpace, consumerVars, stopVars, MarkKept
<1>3. CASE StoreSample(p)
  BY <1>3 DEF StoreSample, consumerVars, stopVars, MarkKept
<1>4. CASE DropPush(p)
  BY <1>4 DEF DropPush, consumerVars, stopVars, MarkKept, RingInv, TypeOK
<1>5. CASE CountPushed(p)
  <2>1. \A q \in Producers : pc[q] \in {"load", "store"} => q = p
    BY <1>5, OnlyPusher DEF CountPushed, Pushing
  <2>2. /\ accepted' = accepted + batch /\ accepted' <= MaxAccepted
        /\ \A q \in Producers : pc'[q] \notin {"load", "store"}
    BY <1>5, <2>1 DEF CountPushed, RingInv, TypeOK
  <2>3. MarkKept'
    <3>1. -2 .. accepted \subseteq -2 .. accepted' BY <2>2
    <3> QED BY <1>5, <3>1 DEF CountPushed, consumerVars, stopVars, MarkKept
  <2> QED BY <1>5, <2>2, <2>3 DEF CountPushed, consumerVars, stopVars
<1>6. CASE Publish(p)
  BY <1>6 DEF Publish, consumerVars, stopVars, MarkKept, RingInv, TypeOK
<1> QED BY <1>1, <1>2, <1>3, <1>4, <1>5, <1>6 DEF Push

LEMMA DiscardsUnderStop ==
  ASSUME RingInv, Discards, MarkStop \/ NarrowDiscard
  PROVE  Discards'
<1> USE RingNumbers DEF Discards
<1>1. CASE MarkStop
  BY <1>1 DEF MarkStop, consumerVars, MarkKept, RingInv, TypeOK
<1>2. CASE NarrowDiscard
  <2>1. /\ UNCHANGED <<occupied, accepted, batch, consumerVars, stoppedAt>>
        /\ spared' = IF spared = NoStop THEN accepted ELSE spared
        /\ \A q \in Producers : pc'[q] \in {"load", "store"} => pc[q] \in {"load", "store"}
    BY <1>2 DEF NarrowDiscard, RingInv, TypeOK
  <2>2. accepted # NoStop BY DEF NoStop
  <2>3. CASE pending = DISCARD_ALL
    <3>1. /\ pending' = Position(MarkedTotal(stoppedAt)) /\ pending' \notin {NO_DISCARD, DISCARD_ALL}
          /\ owed' = Lesser(owed, MarkedTotal(stoppedAt))
          /\ MarkedTotal(stoppedAt) \in stoppedAt - 2 .. stoppedAt
      BY <1>2, <2>3, MarkIsPosition DEF NarrowDiscard
    <3>2. owed' <= owed /\ owed' <= MarkedTotal(stoppedAt) /\ owed' \in Int
      BY <3>1 DEF Lesser
    <3>3. spared' = accepted BY <2>1, <2>3
    <3>4. MarkKept'
      <4>1. MarkedTotal(stoppedAt) \in -2 .. accepted' /\ MarkedTotal(stoppedAt) <= spared'
        BY <2>1, <3>1, <3>3
      <4> QED BY <2>2, <3>1, <3>2, <3>3, <4>1 DEF MarkKept
    <3>5. cpc \notin {"drop", "load", "read"} BY <2>3
    <3> HIDE DEF MarkKept
    <3> QED BY <2>1, <3>1, <3>2, <3>4, <3>5 DEF consumerVars
  <2>4. CASE pending # DISCARD_ALL
    <3>1. pending' = pending /\ owed' = owed BY <1>2, <2>4 DEF NarrowDiscard
    <3>2. MarkKept' BY <2>1, <2>2, <3>1 DEF MarkKept
    <3>3. cpc' = "drop" /\ spared' # NoStop /\ count' > 0 => taken' + count' <= spared'
      BY <2>1 DEF consumerVars
    <3> QED BY <2>1, <2>4, <3>1, <3>2, <3>3 DEF consumerVars
  <2> QED BY <2>3, <2>4
<1> QED BY <1>1, <1>2

LEMMA DiscardsUnderFill ==
  ASSUME RingInv, Discards, Callback \/ \E len \in 1 .. MaxFill : BeginFill(len)
  PROVE  Discards'
<1> USE RingNumbers DEF Discards
<1>1. CASE \E len \in 1 .. MaxFill : BeginFill(len)
  BY <1>1 DEF BeginFill, producerVars, stopVars, MarkKept
<1>2. CASE NothingPending
  BY <1>2 DEF NothingPending, producerVars, stopVars, MarkKept
<1>3. CASE ClaimQueue
  BY <1>3 DEF ClaimQueue, producerVars, stopVars, MarkKept
<1>4. CASE TakeDiscard
  <2>1. UNCHANGED <<occupied, producerVars, taken, stopVars>> /\ cpc' = "drop"
        /\ pending' = NO_DISCARD /\ pending # NO_DISCARD /\ owed <= taken + count
        /\ count' = IF pending = DISCARD_ALL THEN count
                    ELSE StaleBefore(pending, Position(taken), count)
    BY <1>4 DEF TakeDiscard
  <2>2. CASE pending = DISCARD_ALL
    BY <2>1, <2>2 DEF producerVars, stopVars, MarkKept
  <2>3. CASE pending # DISCARD_ALL
    <3>1. PICK m \in -2 .. accepted :
            pending = Position(m) /\ owed <= m /\ spared # NoStop /\ m <= spared
      BY <2>1, <2>3 DEF MarkKept
    <3>2. m \in -2 .. MaxAccepted /\ taken \in 0 .. MaxAccepted /\ count \in Nat
      BY <3>1
    <3>3. count' = IF m <= taken THEN 0 ELSE Lesser(m - taken, count)
      BY <2>1, <2>3, <3>1, <3>2, StaleBeforeMark
    <3>4. owed <= taken + count' /\ (count' > 0 => taken + count' <= spared) /\ count' \in Nat
      <4>1. spared \in Int BY <3>1 DEF NoStop
      <4> QED BY <2>1, <3>1, <3>2, <3>3, <4>1 DEF Lesser
    <3> QED BY <2>1, <3>4 DEF producerVars, stopVars, MarkKept
  <2> QED BY <2>2, <2>3
<1>5. CASE DropStale
  BY <1>5 DEF DropStale, producerVars, stopVars, MarkKept
<1>6. CASE LoadQueued
  BY <1>6 DEF LoadQueued, producerVars, stopVars, MarkKept
<1>7. CASE ReadSample
  BY <1>7 DEF ReadSample, producerVars, stopVars, MarkKept
<1>8. CASE FreeSlots
  BY <1>8 DEF FreeSlots, producerVars, stopVars, MarkKept
<1> QED BY <1>1, <1>2, <1>3, <1>4, <1>5, <1>6, <1>7, <1>8 DEF Callback

LEMMA DiscardsUnderTransport ==
  ASSUME RingInv, Discards, Transport
  PROVE  Discards'
<1> USE RingNumbers DEF Discards
<1>1. CASE DropConsumer
  BY <1>1 DEF DropConsumer, producerVars, stopVars, MarkKept
<1>2. CASE ReclaimConsumer
  BY <1>2 DEF ReclaimConsumer, producerVars, MarkKept
<1>3. CASE HoldPushes
  BY <1>3 DEF HoldPushes, stopVars, MarkKept
<1>4. CASE DiscardAll
  BY <1>4 DEF DiscardAll, stopVars, MarkKept
<1>5. CASE DiscardPushedBefore
  <2>1. PICK n \in 0 .. occupied : taken' = taken + n /\ occupied' = occupied - n
    <3>1. Position(stoppedAt) \in Int /\ Position(taken) \in Int BY PositionRange
    <3>2. StaleBefore(Position(stoppedAt), Position(taken), occupied) \in 0 .. occupied
      BY <3>1, StaleBeforeRange
    <3> QED BY <1>5, <3>2 DEF DiscardPushedBefore
  <2> QED BY <1>5, <2>1 DEF DiscardPushedBefore, stopVars, MarkKept
<1>6. CASE KeepQueue
  BY <1>6 DEF KeepQueue, stopVars, MarkKept
<1>7. CASE DiscardAtFirstRead
  BY <1>7 DEF DiscardAtFirstRead, producerVars, MarkKept
<1>8. CASE Attach
  BY <1>8 DEF Attach, producerVars, stopVars, MarkKept
<1> QED BY <1>1, <1>2, <1>3, <1>4, <1>5, <1>6, <1>7, <1>8 DEF Transport

LEMMA DiscardsStep == RingInv /\ Discards /\ [Next]_vars => Discards'
<1> SUFFICES ASSUME RingInv, Discards, [Next]_vars PROVE Discards' OBVIOUS
<1>1. CASE UNCHANGED vars
  BY <1>1 DEF vars, producerVars, consumerVars, stopVars, Discards, MarkKept
<1>2. CASE Next
  BY <1>2, DiscardsUnderPush, DiscardsUnderStop, DiscardsUnderFill, DiscardsUnderTransport
  DEF Next
<1> QED BY <1>1, <1>2

LEMMA DiscardsAlways == Spec => []Discards
  BY DiscardsInit, DiscardsStep, RingAlways, PTL DEF Spec

\* A stream never plays what was queued before its discard was asked, or before
\* the stop that narrowed the discard: for any capacity, producers and lengths,
\* wherever the totals wrap (transport/shared.rs, `set_running`).
THEOREM HistoryStaysUnplayed == Spec => []HistoryNotPlayed
<1>1. Discards => HistoryNotPlayed
  <2> SUFFICES ASSUME Discards, cpc = "read" PROVE taken >= owed BY DEF HistoryNotPlayed
  <2>1. pending = NO_DISCARD BY DEF Discards
  <2>2. owed <= taken BY <2>1 DEF Discards
  <2> QED BY <2>2
<1> QED BY <1>1, DiscardsAlways, PTL

LEMMA StepSparesLaterPushes ==
  ASSUME RingInv, Discards, [Next]_vars
  PROVE  /\ cpc = "drop" /\ taken' > taken /\ spared # NoStop => taken' <= spared
         /\ DiscardPushedBefore /\ taken' > taken => taken' <= stoppedAt
<1>1. ASSUME cpc = "drop", taken' > taken, spared # NoStop PROVE taken' <= spared
  <2>1. taken' # taken BY <1>1, RingNumbers
  <2>2. DropStale
    BY <1>1, <2>1 DEF Next, Push, Callback, Transport, vars, consumerVars, BeginPush, LoadSpace,
      StoreSample, DropPush, CountPushed, Publish, MarkStop, NarrowDiscard, BeginFill,
      NothingPending, ClaimQueue, TakeDiscard, LoadQueued, ReadSample, FreeSlots, DropConsumer,
      ReclaimConsumer, HoldPushes, DiscardAll, DiscardPushedBefore, KeepQueue,
      DiscardAtFirstRead, Attach
  <2>3. taken' = taken + count /\ count > 0 BY <1>1, <2>2, RingNumbers DEF DropStale
  <2> QED BY <1>1, <2>3 DEF Discards
<1>2. ASSUME DiscardPushedBefore, taken' > taken PROVE taken' <= stoppedAt
  <2>1. stoppedAt \in -2 .. MaxAccepted /\ taken \in 0 .. MaxAccepted /\ occupied \in Nat
    BY RingNumbers DEF Discards
  <2>2. StaleBefore(Position(stoppedAt), Position(taken), occupied)
          = IF stoppedAt <= taken THEN 0 ELSE Lesser(stoppedAt - taken, occupied)
    BY <2>1, StaleBeforeMark
  <2>3. taken' = taken + StaleBefore(Position(stoppedAt), Position(taken), occupied)
    BY <1>2 DEF DiscardPushedBefore
  <2> QED BY <1>2, <2>1, <2>2, <2>3, RingNumbers DEF Lesser
<1> QED BY <1>1, <1>2

\* What is pushed after a stop survives the discard the stop narrowed, and the
\* one a held queue decides by it.
THEOREM StopsSpareWhatFollows == Spec => StopSparesLaterPushes
<1>1. RingInv /\ Discards /\ [Next]_vars
      => [/\ cpc = "drop" /\ taken' > taken /\ spared # NoStop => taken' <= spared
          /\ DiscardPushedBefore /\ taken' > taken => taken' <= stoppedAt]_vars
  BY StepSparesLaterPushes
<1> QED BY <1>1, RingAlways, DiscardsAlways, PTL DEF Spec, StopSparesLaterPushes
====
