---- MODULE TransportQueue ----
(***************************************************************************)
(* Which queued samples survive when the audio transport replaces its      *)
(* stream.  The driver blocks in the host again and again while the game   *)
(* starts, stops and pushes; one step of the driver lies between two of    *)
(* its reads of what the game writes.  What the schedule decides (is a     *)
(* query or an attempt due?) and what the host answers is left open: see   *)
(* TransportSchedule.  The queue itself is the one of AudioQueue.          *)
(*                                                                         *)
(* Samples are numbered as they are accepted, so the queue is the interval *)
(* consumed + 1 .. pushed.                                                 *)
(***************************************************************************)
EXTENDS Integers

CONSTANTS
  MaxPushed,           \* bound on samples
  MaxStarts,           \* bound on starts
  MaxUpsets            \* bound on losses, refusals and changed outputs

ASSUME TransportAssumption ==
  MaxPushed \in Nat /\ MaxStarts \in Nat /\ MaxUpsets \in Nat

VARIABLES
  running, stopped_at, starts,     \* `Shared`: the intent the game publishes
  gpc,                             \* where the game is in `set_running`
  pushed, consumed, pending,       \* the ring: totals, first-read discard
  stream, lost,                    \* the stream and its health flag
  dpc, next,                       \* where the driver is, and goes after a detach
  playing,                         \* the attempt's intent, then the stream's
  want, granted,                   \* locals of `supervise`
  stale_queue, seen_starts, attached_before,
  upsets,
  undrained,                       \* history variables: the newest sample queued
  history,                         \* while nothing drained a started queue, the
  started_from,                    \* same outside a detach, samples pushed before
  played,                          \* the latest start, the newest sample played,
  split                            \* whether the driver ran inside a start or stop

intentVars == <<running, stopped_at, starts, gpc>>
ringVars == <<pushed, consumed, pending>>
streamVars == <<stream, lost>>
driverVars == <<dpc, next, playing, want, granted, stale_queue, seen_starts,
                attached_before>>
vars == <<intentVars, ringVars, streamVars, driverVars, upsets, undrained,
          history, started_from, played, split>>

\* Beyond every total, as the ring reserves two of them.
NO_DISCARD == MaxPushed + 2
DISCARD_ALL == MaxPushed + 1

Larger(a, b) == IF a >= b THEN a ELSE b
Smaller(a, b) == IF a <= b THEN a ELSE b

Init ==
  /\ running = FALSE /\ stopped_at = 0 /\ starts = 0 /\ gpc = "idle"
  /\ pushed = 0 /\ consumed = 0 /\ pending = NO_DISCARD
  /\ stream = "none" /\ lost = FALSE
  /\ dpc = "step" /\ next = "step" /\ playing = FALSE
  /\ want = FALSE /\ granted = FALSE
  /\ stale_queue = FALSE /\ seen_starts = 0 /\ attached_before = FALSE
  /\ upsets = 0 /\ undrained = 0 /\ history = 0 /\ started_from = 0 /\ played = 0
  /\ split = FALSE

----------------------------------------------------------------------------
\* The game: `Shared::set_running` and the producer, on one thread.

\* `hold_pushes` to the end of the guard.
PushesHeld == dpc \in {"intent", "discard"}

Push ==
  /\ gpc = "idle" /\ ~PushesHeld /\ pushed < MaxPushed
  /\ pushed' = pushed + 1
  /\ UNCHANGED <<intentVars, consumed, pending, streamVars, driverVars, upsets,
                 started_from, played>>

CountStart ==
  /\ gpc = "idle" /\ ~running /\ starts < MaxStarts
  /\ starts' = starts + 1
  /\ started_from' = pushed
  /\ gpc' = "starting"
  /\ UNCHANGED <<running, stopped_at, ringVars, streamVars, driverVars, upsets,
                 played>>

MarkStop ==
  /\ gpc = "idle" /\ running
  /\ stopped_at' = pushed
  /\ gpc' = "marked"
  /\ UNCHANGED <<running, starts, ringVars, streamVars, driverVars, upsets,
                 started_from, played>>

\* `keep_pushed_from_at_first_read`
NarrowDiscard ==
  /\ gpc = "marked"
  /\ pending' = IF pending = DISCARD_ALL THEN stopped_at ELSE pending
  /\ gpc' = "stopping"
  /\ UNCHANGED <<running, stopped_at, starts, pushed, consumed, streamVars,
                 driverVars, upsets, started_from, played>>

StoreRunning ==
  /\ gpc \in {"starting", "stopping"}
  /\ running' = (gpc = "starting")
  /\ gpc' = "idle"
  /\ UNCHANGED <<stopped_at, starts, ringVars, streamVars, driverVars, upsets,
                 started_from, played>>

Game == Push \/ CountStart \/ MarkStop \/ NarrowDiscard \/ StoreRunning

----------------------------------------------------------------------------
\* The device: its callback, and the failures that end a stream.

\* The first read settles the discard; a sample is played if one is left.
Fill ==
  /\ stream = "playing" /\ ~lost
  /\ \E settled \in {IF pending = DISCARD_ALL THEN pushed
                     ELSE IF pending = NO_DISCARD THEN consumed
                     ELSE Larger(consumed, Smaller(pending, pushed))} :
       IF settled < pushed
         THEN consumed' = settled + 1 /\ played' = settled + 1
         ELSE consumed' = settled /\ UNCHANGED played
  /\ pending' = NO_DISCARD
  /\ UNCHANGED <<intentVars, pushed, streamVars, driverVars, upsets,
                 started_from>>

Upset == upsets < MaxUpsets /\ upsets' = upsets + 1

\* The error callback; a stream built but not yet attached has one too.
StreamLost ==
  /\ stream # "none" \/ dpc \in {"built", "recheck"}
  /\ ~lost /\ lost' = TRUE
  /\ Upset
  /\ UNCHANGED <<intentVars, ringVars, stream, driverVars, started_from, played>>

----------------------------------------------------------------------------
\* The driver: `Transport::step`.
Elsewhere == <<intentVars, started_from, played>>

\* `supervise`: the loss check that opens it.
CheckLost ==
  /\ dpc = "step" /\ stream # "none"
  /\ IF lost
       THEN dpc' = "detach" /\ next' = "step" /\ stale_queue' = (stale_queue \/ playing)
       ELSE dpc' = "query" /\ UNCHANGED <<next, stale_queue>>
  /\ UNCHANGED <<Elsewhere, ringVars, streamVars, playing, want, granted,
                 seen_starts, attached_before, upsets>>

\* No discovery due, or one that keeps the stream.
KeepStream ==
  /\ dpc = "query" /\ dpc' = "apply"
  /\ UNCHANGED <<Elsewhere, ringVars, streamVars, next, playing, want, granted,
                 stale_queue, seen_starts, attached_before, upsets>>

\* A discovery that found another default to attempt, or none.
ReplaceStream(then) ==
  /\ dpc = "query" /\ Upset
  /\ stale_queue' = (stale_queue \/ (playing /\ lost))
  /\ dpc' = "detach" /\ next' = then
  /\ UNCHANGED <<Elsewhere, ringVars, streamVars, playing, want, granted,
                 seen_starts, attached_before>>

ReadWant ==
  /\ dpc = "apply"
  /\ want' = running
  /\ dpc' = IF want' # playing THEN "switch" ELSE IF want' THEN "credit" ELSE "step"
  /\ UNCHANGED <<Elsewhere, ringVars, streamVars, next, playing, granted,
                 stale_queue, seen_starts, attached_before, upsets>>

\* `play` or `pause`, either of which the backend may refuse.
Switch(ok) ==
  /\ dpc = "switch"
  /\ IF ok THEN UNCHANGED upsets ELSE Upset
  /\ granted' = ok
  /\ stream' = IF ~ok THEN stream ELSE IF want THEN "playing" ELSE "paused"
  /\ dpc' = "switched"
  /\ UNCHANGED <<Elsewhere, ringVars, lost, next, playing, want, stale_queue,
                 seen_starts, attached_before>>

\* A refused `play`, or a loss while playing, is a failure; a refused pause is
\* a stop that has the stream replaced.
Switched ==
  /\ dpc = "switched"
  /\ stale_queue' = (stale_queue \/ (playing /\ lost) \/ (want /\ ~granted))
  /\ IF granted THEN playing' = want /\ dpc' = (IF want THEN "credit" ELSE "step")
                ELSE dpc' = "detach" /\ UNCHANGED playing
  /\ next' = "step"
  /\ UNCHANGED <<Elsewhere, ringVars, streamVars, want, granted, seen_starts,
                 attached_before, upsets>>

\* The starts counted so far were applied by this stream.
CreditStarts ==
  /\ dpc = "credit"
  /\ seen_starts' = starts
  /\ dpc' = "step"
  /\ UNCHANGED <<Elsewhere, ringVars, streamVars, next, playing, want, granted,
                 stale_queue, attached_before, upsets>>

StartsUnseen == starts # seen_starts

\* `detach`, in its three reads.
DetachSeesStarts ==
  /\ dpc = "detach"
  /\ stale_queue' = (stale_queue \/ StartsUnseen)
  /\ seen_starts' = starts
  /\ dpc' = "drop"
  /\ UNCHANGED <<Elsewhere, ringVars, streamVars, next, playing, want, granted,
                 attached_before, upsets>>

DropStream ==
  /\ dpc = "drop"
  /\ stream' = "none" /\ lost' = FALSE
  /\ dpc' = "dropped"
  /\ UNCHANGED <<Elsewhere, ringVars, next, playing, want, granted, stale_queue,
                 seen_starts, attached_before, upsets>>

DetachSeesRunning ==
  /\ dpc = "dropped"
  /\ stale_queue' = (stale_queue \/ running \/ pending # NO_DISCARD)
  /\ dpc' = next
  /\ UNCHANGED <<Elsewhere, ringVars, streamVars, next, playing, want, granted,
                 seen_starts, attached_before, upsets>>

----------------------------------------------------------------------------
\* With no stream attached: the rest of `step`.

\* Mutant: only a flag still set counts.
StepDetachedFlagOnly ==
  /\ dpc = "step" /\ stream = "none"
  /\ dpc' = "running"
  /\ seen_starts' = starts
  /\ UNCHANGED <<Elsewhere, ringVars, streamVars, next, playing, want, granted,
                 stale_queue, attached_before, upsets>>

\* `started_while_detached`, which spares the second read.
StepDetached ==
  /\ dpc = "step" /\ stream = "none"
  /\ stale_queue' = (stale_queue \/ StartsUnseen)
  /\ dpc' = IF StartsUnseen THEN "due" ELSE "running"
  /\ seen_starts' = starts
  /\ UNCHANGED <<Elsewhere, ringVars, streamVars, next, playing, want, granted,
                 attached_before, upsets>>

StepSeesRunning ==
  /\ dpc = "running"
  /\ stale_queue' = (stale_queue \/ running)
  /\ dpc' = "due"
  /\ UNCHANGED <<Elsewhere, ringVars, streamVars, next, playing, want, granted,
                 seen_starts, attached_before, upsets>>

\* Nothing due, or a query or a negotiation that leads to no connection.
NotDue ==
  /\ dpc = "due" /\ dpc' = "step"
  /\ UNCHANGED <<Elsewhere, ringVars, streamVars, next, playing, want, granted,
                 stale_queue, seen_starts, attached_before, upsets>>

Due ==
  /\ dpc = "due" /\ dpc' = "connect"
  /\ UNCHANGED <<Elsewhere, ringVars, streamVars, next, playing, want, granted,
                 stale_queue, seen_starts, attached_before, upsets>>

\* `connect` reclaims the consumer, which drops a discard it still owed.
Reclaim ==
  /\ dpc = "connect"
  /\ pending' = NO_DISCARD
  /\ stale_queue' = (stale_queue \/ StartsUnseen)
  /\ seen_starts' = starts
  /\ dpc' = "intent"
  /\ UNCHANGED <<Elsewhere, pushed, consumed, streamVars, next, playing, want,
                 granted, attached_before, upsets>>

ReadIntent ==
  /\ dpc = "intent"
  /\ playing' = running
  /\ dpc' = "discard"
  /\ UNCHANGED <<Elsewhere, ringVars, streamVars, next, want, granted,
                 stale_queue, seen_starts, attached_before, upsets>>

\* Mutant: a stop the queue has read past is gone back to.
HeldDiscardRewinds == IF playing THEN pushed ELSE stopped_at

\* What a held queue loses: all of it, or what precedes the latest stop.
HeldDiscard == IF playing THEN pushed ELSE Larger(consumed, Smaller(stopped_at, pushed))

DiscardHistory ==
  /\ dpc = "discard"
  /\ consumed' = IF (stale_queue \/ playing) /\ attached_before
                 THEN HeldDiscard ELSE consumed
  /\ dpc' = "arm"
  /\ UNCHANGED <<Elsewhere, pushed, pending, streamVars, next, playing, want,
                 granted, stale_queue, seen_starts, attached_before, upsets>>

\* `discard_queued_at_first_read`, and the latch for an attempt that fails.
ArmFirstRead ==
  /\ dpc = "arm"
  /\ pending' = IF playing /\ attached_before THEN DISCARD_ALL ELSE pending
  /\ stale_queue' = playing
  /\ dpc' = "build"
  /\ UNCHANGED <<Elsewhere, pushed, consumed, streamVars, next, playing, want,
                 granted, seen_starts, attached_before, upsets>>

BuildFails ==
  /\ dpc = "build" /\ Upset
  /\ dpc' = "step"
  /\ UNCHANGED <<Elsewhere, ringVars, streamVars, next, playing, want, granted,
                 stale_queue, seen_starts, attached_before>>

Build ==
  /\ dpc = "build"
  /\ dpc' = "built" /\ lost' = FALSE
  /\ UNCHANGED <<Elsewhere, ringVars, stream, next, playing, want, granted,
                 stale_queue, seen_starts, attached_before, upsets>>

Attached == dpc' = "play" /\ stream' = "paused" /\ UNCHANGED lost
IntentChanged == dpc' = "step" /\ lost' = FALSE /\ UNCHANGED stream

\* Mutant: an intent that changed during the build is left to the stream.
RecheckRunningNever ==
  /\ dpc = "built"
  /\ IF ~attached_before THEN Attached ELSE dpc' = "recheck" /\ UNCHANGED streamVars
  /\ UNCHANGED <<Elsewhere, ringVars, next, playing, want, granted, stale_queue,
                 seen_starts, attached_before, upsets>>

\* A re-attaching stream was built for one intent; it is dropped for another.
RecheckRunning ==
  /\ dpc = "built"
  /\ IF ~attached_before THEN Attached
     ELSE IF running # playing THEN IntentChanged
     ELSE dpc' = "recheck" /\ UNCHANGED streamVars
  /\ UNCHANGED <<Elsewhere, ringVars, next, playing, want, granted, stale_queue,
                 seen_starts, attached_before, upsets>>

RecheckStarts ==
  /\ dpc = "recheck"
  /\ IF StartsUnseen THEN IntentChanged ELSE Attached
  /\ UNCHANGED <<Elsewhere, ringVars, next, playing, want, granted, stale_queue,
                 seen_starts, attached_before, upsets>>

PlayRefused ==
  /\ dpc = "play" /\ playing /\ Upset
  /\ stream' = "none" /\ lost' = FALSE /\ dpc' = "step"
  /\ UNCHANGED <<Elsewhere, ringVars, next, playing, want, granted, stale_queue,
                 seen_starts, attached_before>>

PlayIfStarted ==
  /\ dpc = "play"
  /\ stream' = IF playing THEN "playing" ELSE stream
  /\ dpc' = "adopt"
  /\ UNCHANGED <<Elsewhere, ringVars, lost, next, playing, want, granted,
                 stale_queue, seen_starts, attached_before, upsets>>

\* Mutant: the stream is recorded with the intent of now, not the one applied.
AdoptRunning ==
  /\ dpc = "adopt"
  /\ seen_starts' = IF playing THEN starts ELSE seen_starts
  /\ attached_before' = TRUE /\ stale_queue' = FALSE
  /\ playing' = running
  /\ dpc' = "step"
  /\ UNCHANGED <<Elsewhere, ringVars, streamVars, next, want, granted, upsets>>

Adopt ==
  /\ dpc = "adopt"
  /\ seen_starts' = IF playing THEN starts ELSE seen_starts
  /\ attached_before' = TRUE /\ stale_queue' = FALSE
  /\ dpc' = "step"
  /\ UNCHANGED <<Elsewhere, ringVars, streamVars, next, playing, want, granted,
                 upsets>>

Supervise ==
  \/ CheckLost \/ KeepStream \/ ReadWant \/ Switched \/ CreditStarts
  \/ \E then \in {"connect", "step"} : ReplaceStream(then)
  \/ \E ok \in BOOLEAN : Switch(ok)
Detach == DetachSeesStarts \/ DropStream \/ DetachSeesRunning
Attempt ==
  \/ StepDetached \/ StepSeesRunning \/ NotDue \/ Due
  \/ Reclaim \/ ReadIntent \/ DiscardHistory \/ ArmFirstRead
  \/ BuildFails \/ Build \/ RecheckRunning \/ RecheckStarts
  \/ PlayRefused \/ PlayIfStarted \/ Adopt

Driver == Supervise \/ Detach \/ Attempt

\* Playback should advance, an earlier stream existed, and none drains: every
\* queued sample becomes history.  A stream whose intent was read again counts
\* as there: a start that lands from then on is its own.  undrained follows that
\* rule to the letter; history leaves out what is queued only while the driver
\* is in the middle of dropping the stream.
NoStream == stream = "none" /\ dpc # "recheck"
NothingDrains == running /\ attached_before /\ (NoStream \/ lost)
Detaching == dpc \in {"detach", "drop", "dropped"}
NoteHistory ==
  /\ undrained' = IF NothingDrains' THEN pushed' ELSE undrained
  /\ history' = IF NothingDrains' /\ ~Detaching' THEN pushed' ELSE history
  /\ split' = (split \/ (gpc # "idle" /\ dpc' # dpc))

Next == (Game \/ Fill \/ StreamLost \/ Driver) /\ NoteHistory

Spec == Init /\ [][Next]_vars

\* Each thread runs on, and an attempt is due in the end.
FairSpec ==
  /\ Spec
  /\ WF_vars(StoreRunning /\ NoteHistory) /\ WF_vars(NarrowDiscard /\ NoteHistory)
  /\ WF_vars(Driver /\ NoteHistory) /\ SF_vars(Due /\ NoteHistory)
----------------------------------------------------------------------------
\* Every variable stays within its type.
TypeOK ==
  /\ running \in BOOLEAN /\ stopped_at \in 0 .. MaxPushed /\ starts \in 0 .. MaxStarts
  /\ gpc \in {"idle", "starting", "marked", "stopping"}
  /\ pushed \in 0 .. MaxPushed /\ consumed \in 0 .. pushed
  /\ pending \in 0 .. NO_DISCARD
  /\ stream \in {"none", "paused", "playing"} /\ lost \in BOOLEAN
  /\ dpc \in {"step", "query", "apply", "switch", "switched", "credit", "detach",
              "drop", "dropped", "running", "due", "connect", "intent", "discard",
              "arm", "build", "built", "recheck", "play", "adopt"}
  /\ next \in {"step", "connect"} /\ playing \in BOOLEAN
  /\ want \in BOOLEAN /\ granted \in BOOLEAN /\ stale_queue \in BOOLEAN
  /\ seen_starts \in 0 .. starts /\ attached_before \in BOOLEAN
  /\ upsets \in 0 .. MaxUpsets /\ undrained \in 0 .. pushed
  /\ history \in 0 .. undrained
  /\ started_from \in 0 .. pushed /\ played \in 0 .. consumed
  /\ split \in BOOLEAN

\* "When a stream re-attaches after an earlier one and playback was meant to
\* advance while no stream drained the ring (...), the queued samples are
\* discarded": none of them is ever played. Here and in the next two, as long as
\* the driver never took a step inside a start or a stop (see the README).
UndrainedNotReplayed == [][~split' /\ played' # played => played' > undrained]_vars

\* What is queued when an earlier stream existed, playback should advance and no
\* stream drains the ring is never played later, but for what was queued only
\* while the driver was in the middle of dropping the stream (`detach`), which
\* UndrainedNotReplayed includes and the code may play.
HistoryNotReplayed == [][~split' /\ played' # played => played' > history]_vars

\* Only history, what precedes the latest stop, and what a started stream has
\* not read yet are ever dropped: a queue left while stopped is kept for the
\* next start.
Droppable(n) == n <= undrained \/ n <= stopped_at \/ (running /\ n > started_from)
StoppedQueueKept ==
  [][~split' => \A n \in consumed + 1 .. consumed' : n = played' \/ Droppable(n)]_vars

\* Once the game, the device and the host leave it alone, the transport has a
\* stream that does what the game last asked for.
IntentApplied == <>[](stream # "none" /\ (stream = "playing") = running)
====
