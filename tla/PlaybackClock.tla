---- MODULE PlaybackClock ----
(***************************************************************************)
(* The playback clock: counters the device callback publishes and another  *)
(* thread reads whole without a lock.  The callback is the only writer, so *)
(* its stores have one order, the `log`; the reader need not see them in   *)
(* that order.  What it may still read of each location is `floor`, raised *)
(* by what it read before (coherence) and, through release and acquire, by *)
(* what the callback had stored when it released what the reader acquired. *)
(* The reader stores nothing, so no two readers tell each other apart.     *)
(*                                                                         *)
(* A counter's content is the number of the callback it was copied for.    *)
(***************************************************************************)
EXTENDS Integers, Sequences

CONSTANT MaxCallbacks        \* bound on callbacks

ASSUME ClockAssumption == MaxCallbacks \in Nat

VARIABLES
  log,                 \* the callback's stores: location, value, and the
                       \* prefix of the log that acquiring it makes visible
  callbacks,           \* callbacks begun, the one under way included
  usable,              \* those that carried a usable timestamp
  wpc, slot, stored,   \* where the callback is, the slot it fills, how far
  floor,               \* location -> oldest store the reader may still read
  fenced,              \* the prefix the reader's next acquire fence acquires
  rpc,                 \* where the reader is
  index, before, got,  \* its locals: slot, sequence, counters loaded so far
  returned             \* history: the counters of the last snapshot

writerVars == <<log, callbacks, usable, wpc, slot, stored>>
readerVars == <<floor, fenced, rpc, index, before, got, returned>>
vars == <<writerVars, readerVars>>

\* The counters of one published copy, in the order `fill_slot` stores them
\* and in the order a snapshot loads them.
StoreOrder == <<"submitted_frames", "sounded_frames", "usable_through_frames",
  "reading_stamp", "reading_sounded_frames", "reading_startup_delay_frames">>
LoadOrder == <<"submitted_frames", "usable_through_frames", "sounded_frames",
  "reading_stamp", "reading_sounded_frames", "reading_startup_delay_frames">>
Fields == {StoreOrder[i] : i \in DOMAIN StoreOrder}

\* `published[s].*`, and the clock's `published_slot`, `timestamp_available`.
published(s, field) == <<s, field>>
published_slot == <<2, "slot">>
timestamp_available == <<2, "available">>
Locations == {published(s, f) : s \in {0, 1}, f \in Fields \union {"sequence"}}
             \union {published_slot, timestamp_available}

Latest(S) == CHOOSE i \in S : \A j \in S : j <= i

\* The stores to a location in a prefix of the log; every location starts at
\* 0, by a store numbered 0.
StoresTo(loc, prefix) == {0} \union {i \in 1 .. prefix : log[i].loc = loc}
Value(i) == IF i = 0 THEN 0 ELSE log[i].value
Released(i) == IF i = 0 THEN 0 ELSE log[i].releases

\* The callback reads back its own stores.
Own(loc) == Value(Latest(StoresTo(loc, Len(log))))

Init ==
  /\ log = <<>> /\ callbacks = 0 /\ usable = {}
  /\ wpc = "idle" /\ slot = 0 /\ stored = 0
  /\ floor = [loc \in Locations |-> 0] /\ fenced = 0
  /\ rpc = "idle" /\ index = 0 /\ before = 0
  /\ got = <<>> /\ returned = <<>>

----------------------------------------------------------------------------
\* A store releases every store up to itself, those before the last release
\* fence, or nothing.
Store(loc, value, releases) ==
  log' = Append(log, [loc |-> loc, value |-> value, releases |-> releases])
Release == Len(log) + 1
Relaxed == 0

\* Mutant: no release fence after the odd sequence.
FenceLeftOut == 0

\* The release fence `fill_slot` runs right after it stored the odd sequence.
Fence == Len(log) - stored

\* Mutant: one copy, refilled in place.
SameSlot == Own(published_slot)

\* The slot readers are not taking.
OtherSlot == 1 - Own(published_slot)

\* `PlaybackClock::write`: the live counters are updated, then copied into the
\* slot readers are not taking, under an odd sequence.
BeginCallback(carries_timestamp) ==
  /\ wpc = "idle" /\ callbacks < MaxCallbacks
  /\ callbacks' = callbacks + 1
  /\ usable' = IF carries_timestamp THEN usable \union {callbacks'} ELSE usable
  /\ slot' = OtherSlot
  /\ Store(published(slot', "sequence"), Own(published(slot', "sequence")) + 1,
           Relaxed)
  /\ stored' = 0 /\ wpc' = "fill"
  /\ UNCHANGED readerVars

StoreField ==
  /\ wpc = "fill" /\ stored < Len(StoreOrder)
  /\ Store(published(slot, StoreOrder[stored + 1]), callbacks, Fence)
  /\ stored' = stored + 1
  /\ UNCHANGED <<callbacks, usable, wpc, slot, readerVars>>

StoreEven ==
  /\ wpc = "fill" /\ stored = Len(StoreOrder)
  /\ Store(published(slot, "sequence"), Own(published(slot, "sequence")) + 1,
           Release)
  /\ wpc' = "publish"
  /\ UNCHANGED <<callbacks, usable, slot, stored, readerVars>>

Publish ==
  /\ wpc = "publish"
  /\ Store(published_slot, slot, Release)
  /\ wpc' = IF callbacks \in usable THEN "available" ELSE "idle"
  /\ UNCHANGED <<callbacks, usable, slot, stored, readerVars>>

\* After the publish, for a usable callback only.
StoreAvailable ==
  /\ wpc = "available"
  /\ Store(timestamp_available, 1, Release)
  /\ wpc' = "idle"
  /\ UNCHANGED <<callbacks, usable, slot, stored, readerVars>>

----------------------------------------------------------------------------
\* What a load of `loc` may read.
Visible(loc) == {i \in StoresTo(loc, Len(log)) : i >= floor[loc]}

\* Reading store i and acquiring a prefix raise what may be read next.
Raised(loc, i, prefix) == [l \in Locations |->
  Latest(StoresTo(l, prefix) \union {floor[l]}
         \union IF l = loc THEN {i} ELSE {})]

Acquire(loc, i) ==
  /\ i \in Visible(loc)
  /\ floor' = Raised(loc, i, Released(i))
  /\ UNCHANGED fenced

LoadRelaxed(loc, i) ==
  /\ i \in Visible(loc)
  /\ floor' = Raised(loc, i, 0)
  /\ fenced' = Latest({fenced, Released(i)})

Retry == rpc' = "index" /\ got' = <<>>

\* `PlaybackClock::progress`: nothing until a usable timestamp was seen.
LoadAvailable(i) ==
  /\ rpc = "idle"
  /\ Acquire(timestamp_available, i)
  /\ rpc' = IF Value(i) = 0 THEN "idle" ELSE "index"
  /\ UNCHANGED <<writerVars, index, before, got, returned>>

LoadIndex(i) ==
  /\ rpc = "index"
  /\ Acquire(published_slot, i)
  /\ index' = Value(i)
  /\ rpc' = "before"
  /\ UNCHANGED <<writerVars, before, got, returned>>

LoadBefore(i) ==
  /\ rpc = "before"
  /\ Acquire(published(index, "sequence"), i)
  /\ before' = Value(i)
  /\ IF Value(i) % 2 = 0 THEN rpc' = "fields" /\ UNCHANGED got
     ELSE Retry
  /\ UNCHANGED <<writerVars, index, returned>>

LoadField(i) ==
  /\ rpc = "fields" /\ Len(got) < Len(LoadOrder)
  /\ LoadRelaxed(published(index, LoadOrder[Len(got) + 1]), i)
  /\ got' = Append(got, Value(i))
  /\ UNCHANGED <<writerVars, rpc, index, before, returned>>

AcquireFence ==
  /\ rpc = "fields" /\ Len(got) = Len(LoadOrder)
  /\ floor' = Raised(published_slot, floor[published_slot], fenced)
  /\ rpc' = "recheck"
  /\ UNCHANGED <<writerVars, fenced, index, before, got, returned>>

\* Mutant: a slot rewritten meanwhile is not noticed.
RecheckSequenceNever(i) ==
  /\ rpc = "recheck"
  /\ LoadRelaxed(published(index, "sequence"), i)
  /\ rpc' = "return" /\ UNCHANGED got
  /\ UNCHANGED <<writerVars, index, before, returned>>

RecheckSequence(i) ==
  /\ rpc = "recheck"
  /\ LoadRelaxed(published(index, "sequence"), i)
  /\ IF Value(i) = before THEN rpc' = "return" /\ UNCHANGED got ELSE Retry
  /\ UNCHANGED <<writerVars, index, before, returned>>

\* Mutant: a slot rewritten before it is published is taken.
RecheckSlotNever(i) ==
  /\ rpc = "return"
  /\ LoadRelaxed(published_slot, i)
  /\ rpc' = "idle" /\ returned' = got /\ got' = <<>>
  /\ UNCHANGED <<writerVars, index, before>>

RecheckSlot(i) ==
  /\ rpc = "return"
  /\ LoadRelaxed(published_slot, i)
  /\ IF Value(i) = index
     THEN rpc' = "idle" /\ returned' = got /\ got' = <<>>
     ELSE Retry /\ UNCHANGED returned
  /\ UNCHANGED <<writerVars, index, before>>

Callback == StoreField \/ StoreEven \/ Publish \/ StoreAvailable
            \/ \E carries \in BOOLEAN : BeginCallback(carries)

Load(i) == LoadAvailable(i) \/ LoadIndex(i) \/ LoadBefore(i) \/ LoadField(i)
           \/ RecheckSequence(i) \/ RecheckSlot(i)

Next ==
  \/ Callback
  \/ \E i \in 0 .. Len(log) : Load(i)
  \/ AcquireFence

Spec == Init /\ [][Next]_vars

\* The reader runs on, and a slot index or a sequence it loads again and again
\* reaches its newest store in the end; the callback may stop anywhere, in the
\* middle of a slot included.
Reading == rpc # "idle" /\ (AcquireFence \/ \E i \in 0 .. Len(log) : Load(i))
NewestOf(loc) == Latest(StoresTo(loc, Len(log)))
LoadsNewestSlot ==
  \E i \in {NewestOf(published_slot)} : LoadIndex(i) \/ RecheckSlot(i)
LoadsNewestSequence(s) == index = s /\
  \E i \in {NewestOf(published(s, "sequence"))} : LoadBefore(i) \/ RecheckSequence(i)
ReaderSpec == Spec /\ WF_vars(Reading) /\ SF_vars(LoadsNewestSlot)
              /\ \A s \in {0, 1} : SF_vars(LoadsNewestSequence(s))
----------------------------------------------------------------------------
\* Every variable stays within its type.
TypeOK ==
  /\ log \in Seq([loc : Locations, value : Nat, releases : Nat])
  /\ callbacks \in 0 .. MaxCallbacks /\ usable \subseteq 1 .. callbacks
  /\ wpc \in {"idle", "fill", "publish", "available"}
  /\ slot \in {0, 1} /\ stored \in 0 .. Len(StoreOrder)
  /\ floor \in [Locations -> 0 .. Len(log)] /\ fenced \in 0 .. Len(log)
  /\ rpc \in {"idle", "index", "before", "fields", "recheck", "return"}
  /\ index \in {0, 1} /\ before \in Nat
  /\ got \in Seq(0 .. callbacks) /\ returned \in Seq(0 .. callbacks)

\* A snapshot is one callback's counters, never some from before a callback
\* and others from after it, though stores and loads may be reordered.
SnapshotWhole == \A i, j \in DOMAIN returned : returned[i] = returned[j]

\* A later snapshot is never of an earlier callback: no counter, monotonic for
\* the callback, goes backward for a reader.
NeverBackward ==
  [][returned # <<>> => \A i \in DOMAIN returned : returned[i] <= returned'[i]]_vars

\* A snapshot is only taken of a callback that has published it, and once a
\* usable timestamp was seen holds the reading that carried one.
ReadingPublished == returned # <<>> =>
  /\ \E u \in usable : u <= returned[1]
  /\ returned[1] < callbacks \/ wpc \in {"idle", "available"}

\* Every snapshot a reader returns is genuine: the counters of one callback, and
\* of one that has published them, whatever was reordered.
ClockInv == TypeOK /\ SnapshotWhole /\ ReadingPublished

\* A read returns though the callback is descheduled in the middle of a slot.
SnapshotReturns == rpc # "idle" ~> rpc = "idle"
====
