---- MODULE TransportQueue_proofs ----
(***************************************************************************)
(* Theorems of TransportQueue for any number of samples, starts and        *)
(* upsets: type correctness, that a queue no stream drained is not played  *)
(* by the next stream, and that a queue left while stopped is kept.        *)
(***************************************************************************)
EXTENDS TransportQueue, TLAPS

\* What the first read of the attached stream will have skipped.
Settled == IF pending = DISCARD_ALL THEN pushed
           ELSE IF pending = NO_DISCARD THEN consumed
           ELSE Larger(consumed, Smaller(pending, pushed))
Kept == history <= Settled

\* The history variables name the newest sample as long as nothing drains it.
Noted ==
  /\ NothingDrains => undrained = pushed /\ (~Detaching => history = pushed)
  /\ ~attached_before => undrained = 0

\* A stop marks all that is queued, and what has become history by then.
StopMarked ==
  /\ gpc \in {"marked", "stopping"} => running /\ stopped_at = pushed
  /\ gpc = "starting" => ~running
  /\ ~running => undrained <= stopped_at
  /\ stopped_at <= pushed
  /\ pending \in {DISCARD_ALL, NO_DISCARD} \/ pending <= stopped_at

\* Where the driver is, and what its latch and the ring then hold.
Supervising == {"query", "apply", "switch", "switched", "credit", "detach", "drop"}
Searching == {"step", "running", "due", "connect", "intent"}
Building == {"build", "built", "recheck"}
Positions ==
  /\ dpc \in Supervising \cup {"play", "adopt"} => stream # "none"
  /\ dpc \in (Searching \ {"step"}) \cup {"dropped", "discard", "arm"} \cup Building => stream = "none"
  /\ dpc = "credit" => playing
  /\ dpc \in Building \cup {"play"} => stale_queue = playing
  /\ dpc \in Building =>
       IF playing /\ attached_before THEN pending # NO_DISCARD ELSE pending = NO_DISCARD
  /\ dpc \in {"intent", "discard", "arm"} => pending = NO_DISCARD
  /\ dpc = "recheck" => attached_before

\* A start is still to be noticed by the driver unless the stream, or the one being
\* built, plays already.
StartsNoticed ==
  /\ gpc = "starting" => StartsUnseen
  /\ running /\ ~playing =>
       \/ stream = "none" /\ dpc \in Searching \cup {"dropped"}
       \/ StartsUnseen
       \/ dpc = "drop"
  /\ running /\ ~want /\ dpc \in {"switch", "switched"} => StartsUnseen
  /\ running /\ stream = "none" /\ dpc \in Searching => stale_queue \/ StartsUnseen

\* History the ring would still play is remembered, by the latch, by a start not yet
\* noticed, or by a stream that was lost while it played.
HistoryRemembered ==
  /\ stream # "none" /\ dpc \notin {"play", "adopt", "detach", "drop"} =>
       Kept \/ (lost /\ (playing \/ StartsUnseen \/ stale_queue))
  /\ dpc \in {"play", "adopt"} => Kept \/ (lost /\ (playing \/ StartsUnseen))
  /\ dpc \in {"detach", "drop"} => Kept \/ (lost /\ (stale_queue \/ StartsUnseen))
  /\ dpc = "dropped" => Kept \/ stale_queue \/ StartsUnseen
  /\ stream = "none" /\ dpc \in Searching /\ history > consumed => stale_queue \/ StartsUnseen
  /\ dpc = "discard" /\ history > consumed => stale_queue \/ playing \/ StartsUnseen
  /\ dpc = "arm" /\ history > consumed => playing \/ StartsUnseen
  /\ dpc \in Building => Kept \/ StartsUnseen

\* Discarding everything at the first read is still justified when it is armed.
DiscardJustified ==
  /\ gpc = "stopping" => pending # DISCARD_ALL
  /\ dpc \in Building /\ pending # DISCARD_ALL /\ playing /\ attached_before /\ running =>
       (gpc = "stopping" /\ pending = stopped_at) \/ StartsUnseen
  /\ pending = DISCARD_ALL /\ stream # "none" => running /\ started_from <= undrained
  /\ pending = DISCARD_ALL /\ dpc \in Building =>
       \/ running /\ started_from <= undrained
       \/ StartsUnseen
       \/ dpc # "recheck" /\ ~running /\ playing
  /\ dpc = "discard" /\ playing /\ attached_before => pushed \in {undrained, stopped_at}

\* The discards hold as long as the driver never stepped inside a start or a stop.
Remembered == Positions /\ StartsNoticed /\ HistoryRemembered /\ DiscardJustified
QueueIInv == TypeOK /\ Noted /\ StopMarked /\ (~split => Remembered)

---------------------------------------------------------------------------
(* Types.                                                                  *)

LEMMA TotalsType ==
  ASSUME TypeOK
  PROVE  /\ pushed \in Nat /\ consumed \in Nat /\ pending \in Nat /\ stopped_at \in Nat
         /\ starts \in Nat /\ seen_starts \in Nat /\ undrained \in Nat /\ history \in Nat
         /\ started_from \in Nat /\ played \in Nat /\ MaxPushed \in Nat
         /\ pushed <= MaxPushed /\ consumed <= pushed /\ undrained <= pushed
         /\ history <= undrained /\ started_from <= pushed /\ played <= consumed
         /\ seen_starts <= starts
BY TransportAssumption DEF TypeOK

LEMMA InitTypes == Init => TypeOK
<1> SUFFICES ASSUME Init PROVE TypeOK
  OBVIOUS
<1>1. /\ 0 \in 0 .. MaxPushed /\ 0 \in 0 .. MaxStarts /\ 0 \in 0 .. MaxUpsets /\ 0 \in 0 .. 0
      /\ MaxPushed + 2 \in 0 .. MaxPushed + 2
  BY TransportAssumption
<1> QED
  BY <1>1 DEF Init, TypeOK, NO_DISCARD

\* What the first read settles on lies between what is consumed and what is pushed.
LEMMA SettledBetween ==
  ASSUME TypeOK
  PROVE  Settled \in Nat /\ consumed <= Settled /\ Settled <= pushed
BY TotalsType DEF Settled, Larger, Smaller

ControlTypes ==
  /\ running \in BOOLEAN /\ gpc \in {"idle", "starting", "marked", "stopping"}
  /\ stream \in {"none", "paused", "playing"} /\ lost \in BOOLEAN
  /\ dpc \in {"step", "query", "apply", "switch", "switched", "credit", "detach",
              "drop", "dropped", "running", "due", "connect", "intent", "discard",
              "arm", "build", "built", "recheck", "play", "adopt"}
  /\ next \in {"step", "connect"} /\ playing \in BOOLEAN
  /\ want \in BOOLEAN /\ granted \in BOOLEAN /\ stale_queue \in BOOLEAN
  /\ attached_before \in BOOLEAN /\ split \in BOOLEAN
CountTypes ==
  /\ starts \in 0 .. MaxStarts /\ seen_starts \in 0 .. starts /\ upsets \in 0 .. MaxUpsets
RingTypes ==
  /\ pushed \in 0 .. MaxPushed /\ consumed \in 0 .. pushed /\ pending \in 0 .. NO_DISCARD
  /\ stopped_at \in 0 .. MaxPushed /\ started_from \in 0 .. pushed /\ played \in 0 .. consumed
NotedTypes ==
  /\ undrained \in 0 .. pushed /\ history \in 0 .. undrained

LEMMA TypeParts == TypeOK <=> ControlTypes /\ CountTypes /\ RingTypes /\ NotedTypes
BY DEF TypeOK, ControlTypes, CountTypes, RingTypes, NotedTypes
LEMMA TypePartsNext ==
  ASSUME ControlTypes', CountTypes', RingTypes', NotedTypes'
  PROVE  TypeOK'
BY DEF TypeOK, ControlTypes, CountTypes, RingTypes, NotedTypes

LEMMA ControlStep == ControlTypes /\ [Next]_vars => ControlTypes'
<1> SUFFICES ASSUME ControlTypes, [Next]_vars PROVE ControlTypes'
  OBVIOUS
<1> USE DEF intentVars, ringVars, streamVars, driverVars, Elsewhere
<1>1. CASE Game /\ NoteHistory
  BY <1>1 DEF Game, Push, CountStart, MarkStop, NarrowDiscard, StoreRunning, NoteHistory, ControlTypes
<1>2. CASE (Fill \/ StreamLost) /\ NoteHistory
  BY <1>2 DEF Fill, StreamLost, NoteHistory, ControlTypes
<1>3. CASE Supervise /\ NoteHistory
  BY <1>3 DEF Supervise, CheckLost, KeepStream, ReadWant, Switched, CreditStarts, ReplaceStream, Switch, NoteHistory, ControlTypes
<1>4. CASE Detach /\ NoteHistory
  BY <1>4 DEF Detach, DetachSeesStarts, DropStream, DetachSeesRunning, NoteHistory, ControlTypes
<1>5. CASE Attempt /\ NoteHistory
  <2>1. CASE StepDetached \/ StepSeesRunning \/ NotDue \/ Due \/ Reclaim \/ ReadIntent
    <3>1. split' \in BOOLEAN
      BY <1>5, Zenon DEF NoteHistory, ControlTypes
    <3>2. CASE StepDetached \/ StepSeesRunning
      BY <3>1, <3>2, Zenon DEF StepDetached, StepSeesRunning, ControlTypes
    <3>3. CASE NotDue \/ Due
      BY <3>1, <3>3, Zenon DEF NotDue, Due, ControlTypes
    <3>4. CASE Reclaim \/ ReadIntent
      BY <3>1, <3>4, Zenon DEF Reclaim, ReadIntent, ControlTypes
    <3> QED
      BY <2>1, <3>2, <3>3, <3>4
  <2>2. CASE DiscardHistory \/ ArmFirstRead \/ BuildFails \/ Build
    <3>1. /\ dpc' \in {"arm", "build", "built", "step"} /\ stale_queue' \in {stale_queue, playing}
          /\ lost' \in {lost, FALSE}
          /\ UNCHANGED <<running, gpc, stream, next, playing, want, granted, attached_before>>
      BY <2>2 DEF DiscardHistory, ArmFirstRead, BuildFails, Build
    <3>2. stale_queue' \in BOOLEAN /\ lost' \in BOOLEAN /\ split' \in BOOLEAN
      BY <1>5, <3>1 DEF NoteHistory, ControlTypes
    <3> QED
      BY <3>1, <3>2 DEF ControlTypes
  <2>3. CASE RecheckRunning \/ RecheckStarts
    <3>1. UNCHANGED <<running, gpc, next, playing, want, granted, stale_queue, attached_before>>
      BY <2>3 DEF RecheckRunning, RecheckStarts
    <3>2. Attached \/ IntentChanged \/ (dpc' = "recheck" /\ UNCHANGED streamVars)
      <4>1. CASE RecheckRunning
        BY <4>1 DEF RecheckRunning
      <4>2. CASE RecheckStarts
        BY <4>2 DEF RecheckStarts
      <4> QED
        BY <2>3, <4>1, <4>2
    <3>3. /\ dpc' \in {"play", "step", "recheck"} /\ stream' \in {"paused", stream}
          /\ lost' \in {lost, FALSE}
      BY <3>2 DEF Attached, IntentChanged
    <3>4. lost' \in BOOLEAN /\ split' \in BOOLEAN
      BY <1>5, <3>3 DEF NoteHistory, ControlTypes
    <3> QED
      BY <3>1, <3>3, <3>4 DEF ControlTypes
  <2>4. CASE PlayRefused \/ PlayIfStarted \/ Adopt
    <3>1. split' \in BOOLEAN
      BY <1>5, Zenon DEF NoteHistory, ControlTypes
    <3>2. CASE PlayRefused \/ PlayIfStarted
      BY <3>1, <3>2, Zenon DEF PlayRefused, PlayIfStarted, ControlTypes
    <3>3. CASE Adopt
      BY <3>1, <3>3, Zenon DEF Adopt, ControlTypes
    <3> QED
      BY <2>4, <3>2, <3>3
  <2> QED
    BY <1>5, <2>1, <2>2, <2>3, <2>4 DEF Attempt
<1>6. CASE UNCHANGED vars
  BY <1>6 DEF vars, ControlTypes
<1> QED
  BY <1>1, <1>2, <1>3, <1>4, <1>5, <1>6 DEF Next, Driver

LEMMA CountStep == TypeOK /\ [Next]_vars => CountTypes'
<1> SUFFICES ASSUME TypeOK, [Next]_vars PROVE CountTypes'
  OBVIOUS
<1>0. CountTypes /\ MaxStarts \in Nat /\ MaxUpsets \in Nat
  BY TypeParts, TransportAssumption
<1>1. (starts' = starts \/ (starts < MaxStarts /\ starts' = starts + 1 /\ seen_starts' = seen_starts))
      /\ seen_starts' \in {seen_starts, starts}
      /\ (upsets' = upsets \/ (upsets < MaxUpsets /\ upsets' = upsets + 1))
  <2> USE DEF intentVars, ringVars, streamVars, driverVars, Elsewhere
  <2>1. CASE Game
    BY <2>1 DEF Game, Push, CountStart, MarkStop, NarrowDiscard, StoreRunning
  <2>2. CASE Fill \/ StreamLost
    BY <2>2 DEF Fill, StreamLost, Upset
  <2>3. CASE Supervise
    BY <2>3 DEF Supervise, CheckLost, KeepStream, ReadWant, Switched, CreditStarts, ReplaceStream,
       Switch, Upset
  <2>4. CASE Detach
    BY <2>4 DEF Detach, DetachSeesStarts, DropStream, DetachSeesRunning
  <2>5. CASE Attempt
    BY <2>5 DEF Attempt, StepDetached, StepSeesRunning, NotDue, Due, Reclaim, ReadIntent,
       DiscardHistory, ArmFirstRead, BuildFails, Build, RecheckRunning, RecheckStarts, PlayRefused,
       PlayIfStarted, Adopt, Upset
  <2>6. CASE UNCHANGED vars
    BY <2>6 DEF vars
  <2> QED
    BY <2>1, <2>2, <2>3, <2>4, <2>5, <2>6 DEF Next, Driver
<1>2. CASE starts' = starts
  BY <1>0, <1>1, <1>2 DEF CountTypes
<1>3. CASE starts < MaxStarts /\ starts' = starts + 1 /\ seen_starts' = seen_starts
  BY <1>0, <1>1, <1>3 DEF CountTypes
<1> QED
  BY <1>1, <1>2, <1>3

\* What a step can do to the queue.
LEMMA RingStep ==
  ASSUME TypeOK, [Next]_vars
  PROVE  RingTypes' /\ pushed <= pushed' /\ consumed <= consumed'
<1>0. RingTypes
  BY TypeParts
<1>a. /\ pushed \in Nat /\ consumed \in Nat /\ pending \in Nat /\ stopped_at \in Nat
      /\ consumed <= pushed /\ pushed <= MaxPushed /\ MaxPushed \in Nat
  BY TotalsType
<1>b. DISCARD_ALL \in 0 .. NO_DISCARD /\ NO_DISCARD \in 0 .. NO_DISCARD
      /\ \A n \in 0 .. MaxPushed : n \in 0 .. NO_DISCARD
  BY <1>a DEF DISCARD_ALL, NO_DISCARD
<1> USE DEF intentVars, ringVars, streamVars, driverVars, Elsewhere
<1>1. CASE Push
  BY <1>0, <1>a, <1>1 DEF Push, RingTypes
<1>2. CASE Game /\ ~Push
  <2>1. UNCHANGED <<pushed, consumed, played>> /\ pending' \in {pending, stopped_at}
        /\ stopped_at' \in {stopped_at, pushed} /\ started_from' \in {started_from, pushed}
    BY <1>2 DEF Game, CountStart, MarkStop, NarrowDiscard, StoreRunning
  <2>2. stopped_at' \in 0 .. MaxPushed /\ started_from' \in 0 .. pushed /\ pending' \in 0 .. NO_DISCARD
    BY <1>0, <1>a, <1>b, <2>1 DEF RingTypes
  <2> QED
    BY <1>0, <1>a, <2>1, <2>2 DEF RingTypes
<1>3. CASE Fill
  <2>1. PICK settled \in {IF pending = DISCARD_ALL THEN pushed
                     ELSE IF pending = NO_DISCARD THEN consumed
                     ELSE Larger(consumed, Smaller(pending, pushed))} :
           IF settled < pushed
             THEN consumed' = settled + 1 /\ played' = settled + 1
             ELSE consumed' = settled /\ UNCHANGED played
    BY <1>3 DEF Fill
  <2>2. settled \in Nat /\ consumed <= settled /\ settled <= pushed
    BY <2>1, SettledBetween DEF Settled
  <2>3. consumed' \in 0 .. pushed /\ consumed <= consumed' /\ played' \in 0 .. consumed'
    BY <1>0, <1>a, <2>1, <2>2 DEF RingTypes
  <2>4. pending' \in 0 .. NO_DISCARD /\ UNCHANGED <<pushed, stopped_at, started_from>>
    BY <1>3, <1>b DEF Fill
  <2> QED
    BY <1>0, <1>a, <2>3, <2>4 DEF RingTypes
<1>4. CASE StreamLost \/ Supervise \/ Detach \/ UNCHANGED vars
  <2>1. UNCHANGED <<pushed, consumed, played, pending, stopped_at, started_from>>
    BY <1>4 DEF StreamLost, Supervise, CheckLost, KeepStream, ReadWant, Switched, CreditStarts,
       ReplaceStream, Switch, Detach, DetachSeesStarts, DropStream, DetachSeesRunning, vars
  <2> QED
    BY <1>0, <1>a, <2>1 DEF RingTypes
<1>5. CASE DiscardHistory
  <2>1. consumed' \in {consumed, HeldDiscard}
        /\ UNCHANGED <<pushed, played, pending, stopped_at, started_from>>
    BY <1>5 DEF DiscardHistory
  <2>2. HeldDiscard \in 0 .. pushed /\ consumed <= HeldDiscard
    BY <1>a DEF HeldDiscard, Larger, Smaller
  <2> QED
    BY <1>0, <1>a, <2>1, <2>2 DEF RingTypes
<1>6. CASE Attempt /\ ~DiscardHistory
  <2>1. UNCHANGED <<pushed, consumed, played, stopped_at, started_from>>
        /\ pending' \in {pending, NO_DISCARD, DISCARD_ALL}
    BY <1>6 DEF Attempt, StepDetached, StepSeesRunning, NotDue, Due, Reclaim, ReadIntent,
       ArmFirstRead, BuildFails, Build, RecheckRunning, RecheckStarts, PlayRefused, PlayIfStarted,
       Adopt
  <2> QED
    BY <1>0, <1>a, <1>b, <2>1 DEF RingTypes
<1> QED
  BY <1>1, <1>2, <1>3, <1>4, <1>5, <1>6 DEF Next, Driver

LEMMA NotedStep == TypeOK /\ [Next]_vars => NotedTypes'
<1> SUFFICES ASSUME TypeOK, [Next]_vars PROVE NotedTypes'
  OBVIOUS
<1>1. undrained \in Nat /\ history \in Nat /\ undrained <= pushed /\ history <= undrained
      /\ pushed \in Nat /\ pushed <= pushed' /\ pushed' \in Nat
  BY TotalsType, RingStep, TransportAssumption DEF RingTypes
<1>2. (undrained' = pushed' /\ history' \in {pushed', history}) \/ UNCHANGED <<undrained, history>>
  BY DEF Next, NoteHistory, vars
<1>3. CASE undrained' = pushed' /\ history' \in {pushed', history}
  BY <1>1, <1>3 DEF NotedTypes
<1>4. CASE UNCHANGED <<undrained, history>>
  BY <1>1, <1>4 DEF NotedTypes
<1> QED
  BY <1>2, <1>3, <1>4

LEMMA NextTypes == TypeOK /\ [Next]_vars => TypeOK'
BY TypeParts, ControlStep, CountStep, RingStep, NotedStep, TypePartsNext

---------------------------------------------------------------------------
(* What holds whether or not the driver stepped inside a start or a stop.  *)

LEMMA DiscardMarks ==
  /\ DISCARD_ALL # NO_DISCARD
  /\ TypeOK => /\ stopped_at \notin {DISCARD_ALL, NO_DISCARD} /\ pushed < DISCARD_ALL
               /\ DISCARD_ALL \in Nat /\ NO_DISCARD \in Nat
BY TotalsType, TransportAssumption DEF DISCARD_ALL, NO_DISCARD, TypeOK

LEMMA NotedKept ==
  ASSUME Noted, [Next]_vars
  PROVE  Noted'
<1>1. CASE UNCHANGED vars
  BY <1>1 DEF vars, intentVars, ringVars, streamVars, driverVars, Noted, NothingDrains, NoStream,
     Detaching
<1>2. CASE Next
  <2>1. attached_before => attached_before'
    BY <1>2
    DEF Next, Game, Push, CountStart, MarkStop, NarrowDiscard, StoreRunning, Fill, StreamLost, Driver,
        Supervise, CheckLost, KeepStream, ReadWant, Switched, CreditStarts, ReplaceStream, Switch,
        Detach, DetachSeesStarts, DropStream, DetachSeesRunning, Attempt, StepDetached,
        StepSeesRunning, NotDue, Due, Reclaim, ReadIntent, DiscardHistory, ArmFirstRead, BuildFails,
        Build, RecheckRunning, RecheckStarts, PlayRefused, PlayIfStarted, Adopt, driverVars
  <2>2. undrained' = (IF NothingDrains' THEN pushed' ELSE undrained)
        /\ history' = (IF NothingDrains' /\ ~Detaching' THEN pushed' ELSE history)
    BY <1>2 DEF Next, NoteHistory
  <2>3. NothingDrains' => attached_before'
    BY DEF NothingDrains
  <2> QED
    BY <2>1, <2>2, <2>3 DEF Noted
<1> QED
  BY <1>1, <1>2

LEMMA StopMarkedKept ==
  ASSUME TypeOK, StopMarked, [Next]_vars
  PROVE  StopMarked'
<1>0. /\ pushed \in Nat /\ stopped_at \in Nat /\ pending \in Nat /\ undrained \in Nat
      /\ undrained <= pushed /\ pushed <= pushed' /\ pushed' \in Nat
  BY TotalsType, RingStep, TransportAssumption DEF RingTypes
<1>1. \/ running' /\ undrained' \in {undrained, pushed'}
      \/ undrained' = undrained
  BY DEF Next, NoteHistory, NothingDrains, vars
<1> USE DEF intentVars, ringVars, streamVars, driverVars, Elsewhere
<1>2. CASE Push \/ CountStart
  BY <1>0, <1>1, <1>2 DEF Push, CountStart, StopMarked
<1>3. CASE MarkStop
  <2>1. running' /\ gpc' = "marked" /\ stopped_at' = pushed /\ UNCHANGED <<pushed, pending>>
        /\ stopped_at <= pushed
    BY <1>3 DEF MarkStop, StopMarked
  <2> QED
    BY <1>0, <2>1 DEF StopMarked
<1>4. CASE NarrowDiscard
  BY <1>0, <1>4 DEF NarrowDiscard, StopMarked
<1>5. CASE StoreRunning
  <2>1. gpc' = "idle" /\ UNCHANGED <<pushed, pending, stopped_at>>
        /\ running' = (gpc = "starting")
    BY <1>5 DEF StoreRunning
  <2>2. ~running' => stopped_at = pushed /\ undrained' = undrained
    BY <1>1, <1>5, <2>1 DEF StoreRunning, StopMarked
  <2> QED
    BY <1>0, <2>1, <2>2 DEF StopMarked
<1>6. CASE Fill \/ StreamLost \/ Driver \/ UNCHANGED vars
  <2>1. UNCHANGED <<running, gpc, stopped_at, pushed>>
        /\ pending' \in {pending, NO_DISCARD, DISCARD_ALL}
    BY <1>6 DEF Fill, StreamLost, Driver, Supervise, CheckLost, KeepStream, ReadWant, Switched,
       CreditStarts, ReplaceStream, Switch, Detach, DetachSeesStarts, DropStream, DetachSeesRunning,
       Attempt, StepDetached, StepSeesRunning, NotDue, Due, Reclaim, ReadIntent, DiscardHistory,
       ArmFirstRead, BuildFails, Build, RecheckRunning, RecheckStarts, PlayRefused, PlayIfStarted,
       Adopt, vars
  <2> QED
    BY <1>0, <1>1, <2>1 DEF StopMarked
<1> QED
  BY <1>2, <1>3, <1>4, <1>5, <1>6 DEF Next, Game

---------------------------------------------------------------------------
(* Steps of the driver between a start or a stop and the next.             *)

\* Every step of the driver moves it on, so one inside a start or a stop is noted.
LEMMA DriverWhole ==
  ASSUME TypeOK, Driver, NoteHistory, ~split'
  PROVE  gpc = "idle" /\ ~split
<1>1. dpc' # dpc
  BY DEF Driver, Supervise, CheckLost, KeepStream, ReadWant, Switched,
       CreditStarts, ReplaceStream, Switch, Detach, DetachSeesStarts, DropStream, DetachSeesRunning,
       Attempt, StepDetached, StepSeesRunning, NotDue, Due, Reclaim, ReadIntent, DiscardHistory,
       ArmFirstRead, BuildFails, Build, RecheckRunning, RecheckStarts, PlayRefused, PlayIfStarted,
       Adopt, Attached, IntentChanged, TypeOK
<1> QED
  BY <1>1 DEF NoteHistory

LEMMA PositionsKept ==
  ASSUME TypeOK, StopMarked, Positions, [Next]_vars
  PROVE  Positions'
<1> USE DiscardMarks DEF intentVars, ringVars, streamVars, driverVars, Elsewhere, Supervising, Searching, Building
<1>1. CASE Game \/ UNCHANGED vars
  BY <1>1 DEF Game, Push, CountStart, MarkStop, NarrowDiscard, StoreRunning, vars, Positions
<1>2. CASE Fill \/ StreamLost
  BY <1>2 DEF Fill, StreamLost, Positions
<1>3. CASE Supervise
  BY <1>3 DEF Supervise, CheckLost, KeepStream, ReadWant, Switched, CreditStarts, ReplaceStream, Switch,
     Positions
<1>4. CASE Detach
  BY <1>4 DEF Detach, DetachSeesStarts, DropStream, DetachSeesRunning, Positions, TypeOK
<1>5. CASE StepDetached \/ StepSeesRunning \/ NotDue \/ Due \/ Reclaim \/ ReadIntent
  BY <1>5 DEF StepDetached, StepSeesRunning, NotDue, Due, Reclaim, ReadIntent, Positions
<1>6. CASE DiscardHistory \/ ArmFirstRead \/ BuildFails \/ Build
  BY <1>6 DEF DiscardHistory, ArmFirstRead, BuildFails, Build, Positions
<1>7. CASE RecheckRunning \/ RecheckStarts \/ PlayRefused \/ PlayIfStarted \/ Adopt
  BY <1>7 DEF RecheckRunning, RecheckStarts, PlayRefused, PlayIfStarted, Adopt, Attached,
     IntentChanged, Positions
<1> QED
  BY <1>1, <1>2, <1>3, <1>4, <1>5, <1>6, <1>7 DEF Next, Driver, Attempt

LEMMA StartsNoticedKept ==
  ASSUME TypeOK, StopMarked, Positions, StartsNoticed, Next, ~split'
  PROVE  StartsNoticed'
<1>0. starts \in Nat /\ seen_starts \in Nat /\ seen_starts <= starts
      /\ running \in BOOLEAN /\ playing \in BOOLEAN /\ want \in BOOLEAN
  BY TotalsType DEF TypeOK
<1> USE DEF intentVars, ringVars, streamVars, driverVars, Elsewhere, Supervising, Searching, Building,
        StartsUnseen
<1>1. CASE Push \/ MarkStop \/ NarrowDiscard \/ Fill \/ StreamLost
  BY <1>1 DEF Push, MarkStop, NarrowDiscard, Fill, StreamLost, StartsNoticed
<1>2. CASE CountStart
  BY <1>0, <1>2 DEF CountStart, StartsNoticed, StopMarked
<1>3. CASE StoreRunning
  BY <1>3 DEF StoreRunning, StartsNoticed
<1>4. CASE Driver /\ NoteHistory
  <2> gpc = "idle"
    BY <1>4, DriverWhole
  <2>1. CASE Supervise
    <3> UNCHANGED <<running, starts, gpc>>
      BY <2>1 DEF Supervise, CheckLost, KeepStream, ReadWant, Switched, CreditStarts, ReplaceStream, Switch
    <3>1. CASE CheckLost \/ KeepStream \/ (\E then \in {"connect", "step"} : ReplaceStream(then))
      BY <3>1 DEF CheckLost, KeepStream, ReplaceStream, StartsNoticed, Positions
    <3>2. CASE ReadWant
      BY <1>0, <3>2 DEF ReadWant, StartsNoticed, Positions
    <3>3. CASE Switched \/ (\E ok \in BOOLEAN : Switch(ok))
      BY <1>0, <3>3 DEF Switched, Switch, StartsNoticed, Positions
    <3>4. CASE CreditStarts
      BY <3>4 DEF CreditStarts, StartsNoticed, Positions
    <3> QED
      BY <2>1, <3>1, <3>2, <3>3, <3>4 DEF Supervise
  <2>2. CASE Detach
    <3>1. CASE DetachSeesStarts \/ DropStream
      BY <3>1 DEF DetachSeesStarts, DropStream, StartsNoticed, Positions
    <3>2. CASE DetachSeesRunning
      <4>1. /\ dpc' \in {"step", "connect"} /\ stream = "none"
            /\ running => stale_queue'
            /\ UNCHANGED <<gpc, starts, seen_starts, stream, running, playing>>
        BY <3>2 DEF DetachSeesRunning, Positions, TypeOK
      <4> QED
        BY <4>1 DEF StartsNoticed
    <3> QED
      BY <2>2, <3>1, <3>2 DEF Detach
  <2>3. CASE StepDetached \/ StepSeesRunning \/ NotDue \/ Due \/ Reclaim
    <3>1. CASE StepDetached
      BY <3>1 DEF StepDetached, StartsNoticed, Positions
    <3>2. CASE StepSeesRunning \/ NotDue \/ Due
      <4>1. /\ dpc \in {"running", "due"} /\ dpc' \in {"due", "step", "connect"}
            /\ UNCHANGED <<gpc, starts, seen_starts, stream, running, playing>>
        BY <3>2 DEF StepSeesRunning, NotDue, Due
      <4>2. stale_queue => stale_queue'
        BY <3>2 DEF StepSeesRunning, NotDue, Due
      <4>3. stream = "none"
        BY <4>1 DEF Positions
      <4> QED
        BY <4>1, <4>2, <4>3 DEF StartsNoticed
    <3>3. CASE Reclaim
      BY <3>3 DEF Reclaim, StartsNoticed, Positions
    <3> QED
      BY <2>3, <3>1, <3>2, <3>3
  <2>4. CASE ReadIntent \/ DiscardHistory \/ ArmFirstRead \/ BuildFails \/ Build
    BY <2>4 DEF ReadIntent, DiscardHistory, ArmFirstRead, BuildFails, Build, StartsNoticed, Positions
  <2>5. CASE RecheckRunning \/ RecheckStarts
    BY <1>0, <2>5 DEF RecheckRunning, RecheckStarts, Attached, IntentChanged, StartsNoticed, Positions
  <2>6. CASE PlayRefused \/ PlayIfStarted \/ Adopt
    BY <2>6 DEF PlayRefused, PlayIfStarted, Adopt, StartsNoticed, Positions
  <2> QED
    BY <1>4, <2>1, <2>2, <2>3, <2>4, <2>5, <2>6 DEF Driver, Attempt
<1> QED
  BY <1>1, <1>2, <1>3, <1>4 DEF Next, Game

LEMMA NotedNext ==
  ASSUME TypeOK, Next
  PROVE  /\ undrained' \in {undrained, pushed'} /\ undrained' \in Nat /\ undrained <= undrained'
         /\ pushed' \in Nat
<1>1. undrained \in Nat /\ undrained <= pushed /\ pushed <= pushed' /\ pushed' \in Nat /\ pushed \in Nat
  BY TotalsType, RingStep, TransportAssumption DEF RingTypes
<1>2. undrained' \in {undrained, pushed'}
  BY DEF Next, NoteHistory
<1> QED
  BY <1>1, <1>2

LEMMA DiscardJustifiedKept ==
  ASSUME TypeOK, Noted', StopMarked, Positions, StartsNoticed, DiscardJustified, Next, ~split'
  PROVE  DiscardJustified'
<1>0. /\ starts \in Nat /\ seen_starts \in Nat /\ seen_starts <= starts
      /\ running \in BOOLEAN /\ playing \in BOOLEAN
      /\ pushed \in Nat /\ started_from \in Nat /\ started_from <= pushed
      /\ undrained \in Nat /\ undrained' \in Nat /\ undrained <= undrained'
      /\ undrained' \in {undrained, pushed'}
      /\ started_from <= undrained => started_from <= undrained'
  BY TotalsType, NotedNext DEF TypeOK
<1>a. stopped_at \notin {DISCARD_ALL, NO_DISCARD} /\ DISCARD_ALL # NO_DISCARD
  BY DiscardMarks
<1> USE DEF intentVars, ringVars, streamVars, driverVars, Elsewhere, Building, StartsUnseen
<1>1. CASE Push
  BY <1>0, <1>1 DEF Push, PushesHeld, DiscardJustified
<1>2. CASE CountStart
  BY <1>0, <1>2 DEF CountStart, DiscardJustified, StopMarked
<1>3. CASE MarkStop \/ StreamLost
  BY <1>0, <1>3 DEF MarkStop, StreamLost, DiscardJustified
<1>4. CASE NarrowDiscard
  BY <1>0, <1>a, <1>4 DEF NarrowDiscard, DiscardJustified
<1>5. CASE StoreRunning
  BY <1>0, <1>5 DEF StoreRunning, DiscardJustified, StopMarked, StartsNoticed
<1>6. CASE Fill
  <2>1. dpc \notin Building /\ dpc # "discard" /\ pending' = NO_DISCARD /\ UNCHANGED <<dpc, gpc>>
    BY <1>6 DEF Fill, Positions
  <2> QED
    BY <1>a, <2>1 DEF DiscardJustified
<1>7. CASE Driver /\ NoteHistory
  <2> gpc = "idle"
    BY <1>7, DriverWhole
  <2> UNCHANGED <<gpc, running, starts, stopped_at, pushed, started_from>>
    BY <1>7 DEF Driver, Supervise, CheckLost, KeepStream, ReadWant, Switched, CreditStarts,
       ReplaceStream, Switch, Detach, DetachSeesStarts, DropStream, DetachSeesRunning, Attempt,
       StepDetached, StepSeesRunning, NotDue, Due, Reclaim, ReadIntent, DiscardHistory, ArmFirstRead,
       BuildFails, Build, RecheckRunning, RecheckStarts, PlayRefused, PlayIfStarted, Adopt
  <2>1. CASE Supervise
    <3>1. /\ dpc \notin Building /\ dpc' \notin Building \cup {"discard"} /\ stream # "none"
          /\ UNCHANGED pending
      BY <2>1 DEF Supervise, CheckLost, KeepStream, ReadWant, Switched, CreditStarts, ReplaceStream,
         Switch, Positions, Supervising
    <3> QED
      BY <1>0, <3>1 DEF DiscardJustified
  <2>2. CASE Detach
    <3>1. /\ dpc' \notin Building \cup {"discard"} /\ (stream' = "none" \/ stream' = stream)
          /\ UNCHANGED pending
      BY <2>2 DEF Detach, DetachSeesStarts, DropStream, DetachSeesRunning, TypeOK
    <3> QED
      BY <1>0, <3>1 DEF DiscardJustified
  <2>3. CASE StepDetached \/ StepSeesRunning \/ NotDue \/ Due \/ Reclaim
    <3>1. dpc' \notin Building \cup {"discard"} /\ stream' = "none"
      BY <2>3 DEF StepDetached, StepSeesRunning, NotDue, Due, Reclaim, Positions, Searching
    <3> QED
      BY <3>1 DEF DiscardJustified
  <2>4. CASE ReadIntent
    <3>1. dpc' = "discard" /\ stream' = "none" /\ playing' = running /\ attached_before' = attached_before
      BY <2>4 DEF ReadIntent, Positions, Searching
    <3>2. playing' /\ attached_before' => undrained' = pushed'
      BY <3>1 DEF Noted, NothingDrains, NoStream
    <3> QED
      BY <3>1, <3>2 DEF DiscardJustified
  <2>5. CASE DiscardHistory
    <3>1. dpc' = "arm" /\ stream' = "none"
      BY <2>5 DEF DiscardHistory, Positions
    <3> QED
      BY <3>1 DEF DiscardJustified
  <2>6. CASE ArmFirstRead
    <3>1. /\ dpc' = "build" /\ stream' = "none" /\ UNCHANGED <<playing, attached_before>>
          /\ pending' = IF playing /\ attached_before THEN DISCARD_ALL ELSE NO_DISCARD
      BY <2>6 DEF ArmFirstRead, Positions
    <3>2. running' /\ attached_before' => undrained' = pushed'
      BY <3>1 DEF Noted, NothingDrains, NoStream
    <3> QED
      BY <1>0, <1>a, <3>1, <3>2 DEF DiscardJustified
  <2>7. CASE BuildFails \/ PlayRefused
    BY <2>7 DEF BuildFails, PlayRefused, Positions, DiscardJustified
  <2>8. CASE Build
    BY <1>0, <2>8 DEF Build, Positions, DiscardJustified
  <2>9. CASE RecheckRunning
    BY <1>0, <1>a, <2>9 DEF RecheckRunning, Attached, IntentChanged, Positions, DiscardJustified
  <2>10. CASE RecheckStarts
    BY <1>0, <1>a, <2>10 DEF RecheckStarts, Attached, IntentChanged, Positions, DiscardJustified
  <2>11. CASE PlayIfStarted \/ Adopt
    BY <1>0, <2>11 DEF PlayIfStarted, Adopt, Positions, DiscardJustified
  <2> QED
    BY <1>7, <2>1, <2>2, <2>3, <2>4, <2>5, <2>6, <2>7, <2>8, <2>9, <2>10, <2>11 DEF Driver, Attempt
<1> QED
  BY <1>1, <1>2, <1>3, <1>4, <1>5, <1>6, <1>7 DEF Next, Game

LEMMA DiscardMarksNext ==
  ASSUME TypeOK'
  PROVE  /\ pushed' \in Nat /\ consumed' \in Nat /\ pending' \in Nat /\ stopped_at' \in Nat
         /\ consumed' <= pushed' /\ history' \in Nat
         /\ pushed' \notin {DISCARD_ALL, NO_DISCARD}
BY TransportAssumption DEF DISCARD_ALL, NO_DISCARD, TypeOK

\* What becomes history just now is remembered: a queue that drains nowhere while
\* playback should advance was lost by a playing stream, or its start is not noticed.
LEMMA NewHistoryRemembered ==
  ASSUME TypeOK', StopMarked', Positions', StartsNoticed', DiscardJustified',
         NothingDrains', ~Detaching', history' = pushed'
  PROVE  HistoryRemembered'
<1>1. running' /\ attached_before' /\ (stream' # "none" => lost') /\ dpc' \notin {"detach", "drop", "dropped"}
  BY DEF NothingDrains, NoStream, Detaching
<1>2. stream' # "none" => playing' \/ StartsUnseen'
  BY <1>1 DEF StartsNoticed
<1>3. stream' = "none" /\ dpc' \in Searching => stale_queue' \/ StartsUnseen'
  BY <1>1 DEF StartsNoticed
<1>4. dpc' \in {"discard", "arm"} => playing' \/ StartsUnseen'
  BY <1>1 DEF StartsNoticed, Searching
<1>5. dpc' \in Building => Kept' \/ StartsUnseen'
  <2>1. CASE ~playing'
    BY <1>1, <2>1 DEF StartsNoticed, Searching, Building
  <2>2. CASE playing' /\ pending' = DISCARD_ALL
    BY <2>2, DiscardMarksNext DEF Kept, Settled
  <2>3. CASE playing' /\ dpc' \in Building /\ pending' # DISCARD_ALL /\ ~StartsUnseen'
    <3>1. gpc' = "stopping" /\ pending' = stopped_at'
      BY <1>1, <2>3 DEF DiscardJustified
    <3>2. pending' = pushed'
      BY <3>1 DEF StopMarked
    <3> QED
      BY <3>2, DiscardMarksNext DEF Kept, Settled, Larger, Smaller
  <2> QED
    BY <2>1, <2>2, <2>3
<1>6. dpc' \in {"play", "adopt"} => stream' # "none"
  BY DEF Positions
<1> QED
  BY <1>1, <1>2, <1>3, <1>4, <1>5, <1>6 DEF HistoryRemembered

\* The game and the device leave what the ring will skip at least as far on.
LEMMA KeptByOthers ==
  ASSUME TypeOK, StopMarked, Kept, Game \/ Fill \/ StreamLost, history' = history
  PROVE  Kept'
<1>0. /\ pushed \in Nat /\ consumed \in Nat /\ pending \in Nat /\ stopped_at \in Nat
      /\ history \in Nat /\ consumed <= pushed /\ MaxPushed \in Nat /\ pushed <= MaxPushed
  BY TotalsType
<1>a. DISCARD_ALL # NO_DISCARD /\ stopped_at \notin {DISCARD_ALL, NO_DISCARD} /\ pushed < DISCARD_ALL
  BY DiscardMarks
<1>b. Settled \in Nat /\ consumed <= Settled /\ Settled <= pushed
  BY SettledBetween
<1> USE DEF intentVars, ringVars, streamVars
<1>1. CASE Push
  BY <1>0, <1>1 DEF Push, Kept, Settled, Larger, Smaller
<1>2. CASE CountStart \/ MarkStop \/ StoreRunning \/ StreamLost
  BY <1>2 DEF CountStart, MarkStop, StoreRunning, StreamLost, Kept, Settled
<1>3. CASE NarrowDiscard
  <2>1. stopped_at = pushed /\ UNCHANGED <<pushed, consumed>>
        /\ pending' = IF pending = DISCARD_ALL THEN stopped_at ELSE pending
    BY <1>3 DEF NarrowDiscard, StopMarked
  <2>2. Settled' = Settled
    BY <1>0, <1>a, <2>1 DEF Settled, Larger, Smaller
  <2> QED
    BY <2>2 DEF Kept
<1>4. CASE Fill
  <2>1. PICK settled \in {Settled} :
           IF settled < pushed
             THEN consumed' = settled + 1 /\ played' = settled + 1
             ELSE consumed' = settled /\ UNCHANGED played
    BY <1>4 DEF Fill, Settled
  <2>2. Settled <= consumed' /\ consumed' \in Nat
    BY <1>b, <2>1
  <2>3. pending' = NO_DISCARD
    BY <1>4 DEF Fill
  <2>4. Settled' = consumed'
    BY <1>a, <2>3 DEF Settled
  <2> QED
    BY <1>0, <1>b, <2>2, <2>4 DEF Kept
<1> QED
  BY <1>1, <1>2, <1>3, <1>4 DEF Game

\* What a step of the game or the device does to the rest of what remembers history.
LEMMA OthersRemember ==
  ASSUME TypeOK, StopMarked, Positions, HistoryRemembered,
         Game \/ Fill \/ StreamLost, Next, history' = history
  PROVE  HistoryRemembered'
<1>1. /\ UNCHANGED <<dpc, stream, playing, stale_queue, seen_starts>>
      /\ lost => lost'
      /\ starts' = starts \/ starts' = starts + 1
  BY DEF Game, Push, CountStart, MarkStop, NarrowDiscard, StoreRunning, Fill, StreamLost, intentVars,
     ringVars, streamVars, driverVars
<1>2. StartsUnseen => StartsUnseen'
  BY <1>1, TotalsType DEF StartsUnseen
<1>3. Kept => Kept'
  BY KeptByOthers
<1>4. history' > consumed' => history > consumed
  BY TotalsType, RingStep, TransportAssumption DEF Next, RingTypes
<1> QED
  BY <1>1, <1>2, <1>3, <1>4 DEF HistoryRemembered

\* A step of the driver that leaves the ring as it is leaves what it will skip.
LEMMA KeptByDriver ==
  ASSUME UNCHANGED ringVars, history' = history
  PROVE  Kept' = Kept /\ (history' > consumed' <=> history > consumed)
BY DEF ringVars, Kept, Settled

LEMMA SuperviseRemembers ==
  ASSUME TypeOK, Positions, HistoryRemembered, Supervise, history' = history
  PROVE  HistoryRemembered'
<1>0. UNCHANGED ringVars
  BY DEF Supervise, CheckLost, KeepStream, ReadWant, Switched, CreditStarts, ReplaceStream, Switch
<1>1. Kept' = Kept
  BY <1>0, KeptByDriver
<1>2. stream # "none" /\ stream' # "none" /\ UNCHANGED <<lost, starts>>
  BY DEF Supervise, CheckLost, KeepStream, ReadWant, Switched, CreditStarts, ReplaceStream, Switch,
     Positions, Supervising, streamVars, Elsewhere, intentVars
<1>3. dpc \notin {"play", "adopt", "detach", "drop"}
  BY DEF Supervise, CheckLost, KeepStream, ReadWant, Switched, CreditStarts, ReplaceStream, Switch
<1>4. Kept \/ (lost /\ (playing \/ StartsUnseen \/ stale_queue))
  BY <1>2, <1>3 DEF HistoryRemembered
<1>5. dpc' \in {"step", "query", "apply", "switch", "switched", "credit", "detach"}
  BY DEF Supervise, CheckLost, KeepStream, ReadWant, Switched, CreditStarts, ReplaceStream, Switch
<1>6. IF dpc' = "detach" THEN Kept' \/ (lost' /\ (stale_queue' \/ StartsUnseen'))
      ELSE Kept' \/ (lost' /\ (playing' \/ StartsUnseen' \/ stale_queue'))
  <2>1. CASE CheckLost \/ KeepStream \/ (\E then \in {"connect", "step"} : ReplaceStream(then))
    BY <1>1, <1>2, <1>4, <2>1 DEF CheckLost, KeepStream, ReplaceStream, StartsUnseen
  <2>2. CASE ReadWant \/ (\E ok \in BOOLEAN : Switch(ok))
    BY <1>1, <1>2, <1>4, <2>2 DEF ReadWant, Switch, StartsUnseen
  <2>3. CASE Switched
    BY <1>1, <1>2, <1>4, <2>3 DEF Switched, StartsUnseen
  <2>4. CASE CreditStarts
    BY <1>1, <1>2, <1>4, <2>4 DEF CreditStarts, Positions
  <2> QED
    BY <2>1, <2>2, <2>3, <2>4 DEF Supervise
<1> QED
  BY <1>2, <1>5, <1>6 DEF HistoryRemembered, Searching, Building

LEMMA DetachRemembers ==
  ASSUME TypeOK, Positions, HistoryRemembered, Detach, history' = history
  PROVE  HistoryRemembered'
<1>0. UNCHANGED ringVars
  BY DEF Detach, DetachSeesStarts, DropStream, DetachSeesRunning
<1>1. Kept' = Kept /\ (history' > consumed' <=> history > consumed)
  BY <1>0, KeptByDriver
<1>2. CASE DetachSeesStarts
  <2>1. /\ dpc = "detach" /\ dpc' = "drop" /\ UNCHANGED lost
        /\ stale_queue \/ StartsUnseen => stale_queue'
    BY <1>2 DEF DetachSeesStarts, streamVars
  <2> QED
    BY <1>1, <2>1 DEF HistoryRemembered, Searching, Building
<1>3. CASE DropStream
  <2>1. /\ dpc = "drop" /\ dpc' = "dropped" /\ stream' = "none"
        /\ UNCHANGED <<stale_queue, starts, seen_starts>>
    BY <1>3 DEF DropStream, Elsewhere, intentVars
  <2> QED
    BY <1>1, <2>1 DEF HistoryRemembered, Searching, Building, StartsUnseen
<1>4. CASE DetachSeesRunning
  <2>1. /\ dpc = "dropped" /\ dpc' \in {"step", "connect"} /\ stream = "none" /\ stream' = "none"
        /\ UNCHANGED <<starts, seen_starts>>
        /\ stale_queue \/ pending # NO_DISCARD => stale_queue'
    BY <1>4 DEF DetachSeesRunning, Elsewhere, intentVars, streamVars, TypeOK, Positions
  <2>2. history > consumed => stale_queue' \/ StartsUnseen'
    <3>1. SUFFICES ASSUME history > consumed, pending = NO_DISCARD
                   PROVE  stale_queue \/ StartsUnseen
      BY <2>1 DEF StartsUnseen
    <3>2. ~Kept
      BY <3>1, DiscardMarks, TotalsType DEF Kept, Settled
    <3> QED
      BY <2>1, <3>2 DEF HistoryRemembered
  <2> QED
    BY <1>1, <2>1, <2>2 DEF HistoryRemembered, Searching, Building
<1> QED
  BY <1>2, <1>3, <1>4 DEF Detach

\* The search for a stream, up to the decision what the queue loses.
LEMMA SearchRemembers ==
  ASSUME TypeOK, Positions, HistoryRemembered, history' = history,
         StepDetached \/ StepSeesRunning \/ NotDue \/ Due \/ Reclaim \/ ReadIntent
  PROVE  HistoryRemembered'
<1>1. /\ dpc \in Searching /\ stream = "none" /\ stream' = "none"
      /\ dpc' \in {"due", "running", "step", "connect", "intent", "discard"}
      /\ UNCHANGED <<consumed, starts>>
  BY DEF StepDetached, StepSeesRunning, NotDue, Due, Reclaim, ReadIntent, Positions, Searching,
     Elsewhere, intentVars, streamVars, ringVars
<1>2. stale_queue \/ StartsUnseen => stale_queue' \/ StartsUnseen'
  <2>1. CASE StepDetached \/ Reclaim
    BY <2>1 DEF StepDetached, Reclaim
  <2>2. CASE StepSeesRunning \/ NotDue \/ Due \/ ReadIntent
    BY <1>1, <2>2 DEF StepSeesRunning, NotDue, Due, ReadIntent, StartsUnseen
  <2> QED
    BY <2>1, <2>2
<1>3. history' > consumed' => stale_queue' \/ StartsUnseen'
  BY <1>1, <1>2 DEF HistoryRemembered
<1> QED
  BY <1>1, <1>3 DEF HistoryRemembered, Building

\* What discarding the history leaves of it only a start not noticed can have made.
LEMMA DiscardRemembers ==
  ASSUME TypeOK, Noted, StopMarked, Positions, StartsNoticed, HistoryRemembered,
         DiscardHistory, history' = history
  PROVE  HistoryRemembered'
<1>0. /\ pushed \in Nat /\ consumed \in Nat /\ stopped_at \in Nat /\ history \in Nat
      /\ undrained \in Nat /\ history <= undrained /\ undrained <= pushed /\ consumed <= pushed
  BY TotalsType
<1>1. /\ dpc = "discard" /\ dpc' = "arm" /\ stream = "none" /\ stream' = "none"
      /\ UNCHANGED <<playing, stale_queue, starts, seen_starts>>
      /\ consumed' = IF (stale_queue \/ playing) /\ attached_before THEN HeldDiscard ELSE consumed
  BY DEF DiscardHistory, Elsewhere, intentVars, streamVars, Positions
<1>2. history > consumed' => playing \/ StartsUnseen
  <2>1. SUFFICES ASSUME history > consumed', ~playing, ~StartsUnseen PROVE FALSE
    OBVIOUS
  <2>2. ~running
    BY <1>1, <2>1 DEF StartsNoticed, Searching
  <2>3. history <= stopped_at
    BY <1>0, <2>2 DEF StopMarked
  <2>4. CASE ~attached_before
    BY <1>0, <1>1, <2>1, <2>4 DEF Noted
  <2>5. CASE attached_before /\ ~stale_queue
    BY <1>0, <1>1, <2>1, <2>5 DEF HistoryRemembered
  <2>6. CASE attached_before /\ stale_queue
    <3>1. consumed' = Larger(consumed, Smaller(stopped_at, pushed))
      BY <1>1, <2>1, <2>6 DEF HeldDiscard
    <3> QED
      BY <1>0, <2>1, <2>3, <3>1 DEF Larger, Smaller
  <2> QED
    BY <2>4, <2>5, <2>6, <1>1 DEF TypeOK
<1> QED
  BY <1>1, <1>2 DEF HistoryRemembered, Searching, Building, StartsUnseen

LEMMA ArmRemembers ==
  ASSUME TypeOK, Noted, Positions, HistoryRemembered, ArmFirstRead, history' = history
  PROVE  HistoryRemembered'
<1>0. /\ pushed \in Nat /\ consumed \in Nat /\ history \in Nat
      /\ undrained \in Nat /\ history <= undrained /\ undrained <= pushed /\ consumed <= pushed
  BY TotalsType
<1>1. /\ dpc = "arm" /\ dpc' = "build" /\ stream = "none" /\ stream' = "none" /\ pending = NO_DISCARD
      /\ UNCHANGED <<pushed, consumed, starts, seen_starts>>
      /\ pending' = IF playing /\ attached_before THEN DISCARD_ALL ELSE pending
  BY DEF ArmFirstRead, Elsewhere, intentVars, streamVars, Positions
<1>2. Kept' \/ StartsUnseen'
  <2>1. CASE playing /\ attached_before
    <3>1. Settled' = pushed
      BY <1>1, <2>1 DEF Settled
    <3> QED
      BY <1>0, <3>1 DEF Kept
  <2>2. CASE ~(playing /\ attached_before)
    <3>1. Settled' = consumed
      BY <1>1, <2>2, DiscardMarks DEF Settled
    <3>2. history <= consumed \/ StartsUnseen
      BY <1>0, <1>1, <2>2 DEF HistoryRemembered, Noted
    <3> QED
      BY <1>1, <3>1, <3>2 DEF Kept, StartsUnseen
  <2> QED
    BY <2>1, <2>2
<1> QED
  BY <1>1, <1>2 DEF HistoryRemembered, Searching, Building

\* From the built stream to the adopted one.
LEMMA AttachRemembers ==
  ASSUME TypeOK, Noted, Positions, StartsNoticed, HistoryRemembered, history' = history,
         BuildFails \/ Build \/ RecheckRunning \/ RecheckStarts \/ PlayRefused \/ PlayIfStarted \/ Adopt
  PROVE  HistoryRemembered'
<1>0. UNCHANGED <<ringVars, starts, playing>>
  BY DEF BuildFails, Build, RecheckRunning, RecheckStarts, PlayRefused, PlayIfStarted, Adopt, Elsewhere,
     intentVars
<1>1. Kept' = Kept /\ (history' > consumed' <=> history > consumed)
  BY <1>0, KeptByDriver
<1>2. history > consumed /\ pending = NO_DISCARD => ~Kept
  BY DiscardMarks, TotalsType DEF Kept, Settled
<1>3. ~attached_before => Kept
  BY SettledBetween, TotalsType DEF Noted, Kept
<1>4. CASE BuildFails
  <2>1. /\ dpc = "build" /\ dpc' = "step" /\ stream = "none" /\ stream' = "none"
        /\ stale_queue' = playing /\ seen_starts' = seen_starts
    BY <1>4 DEF BuildFails, Positions, Building, streamVars
  <2>2. history > consumed => playing \/ StartsUnseen
    BY <1>2, <1>3, <2>1 DEF HistoryRemembered, Positions, Building
  <2> QED
    BY <1>0, <1>1, <2>1, <2>2 DEF HistoryRemembered, Searching, Building, StartsUnseen
<1>5. CASE Build
  <2>1. /\ dpc = "build" /\ dpc' = "built" /\ stream' = "none" /\ seen_starts' = seen_starts
    BY <1>5 DEF Build, Positions, Building
  <2> QED
    BY <1>0, <1>1, <2>1 DEF HistoryRemembered, Searching, Building, StartsUnseen
<1>6. CASE RecheckRunning \/ RecheckStarts
  <2>0. dpc \in {"built", "recheck"} /\ stream = "none" /\ stale_queue = playing
        /\ UNCHANGED <<stale_queue, seen_starts, attached_before>>
    BY <1>6 DEF RecheckRunning, RecheckStarts, Positions, Building
  <2>1. CASE dpc' = "recheck" /\ stream' = "none"
    BY <1>0, <1>1, <2>0, <2>1 DEF HistoryRemembered, Searching, Building, StartsUnseen
  <2>2. CASE Attached /\ (~attached_before \/ ~StartsUnseen)
    <3>1. Kept
      BY <1>3, <2>0, <2>2 DEF HistoryRemembered, Building
    <3> QED
      BY <1>1, <2>2, <3>1 DEF HistoryRemembered, Searching, Building, Attached
  <2>3. CASE IntentChanged /\ (running # playing \/ StartsUnseen)
    <3>1. history > consumed => stale_queue \/ StartsUnseen
      <4>1. CASE playing
        BY <2>0, <4>1
      <4>2. CASE ~playing
        <5>1. pending = NO_DISCARD
          BY <2>0, <4>2 DEF Positions, Building
        <5> QED
          BY <1>2, <2>0, <5>1 DEF HistoryRemembered, Building
      <4> QED
        BY <4>1, <4>2
    <3> QED
      BY <1>0, <1>1, <2>0, <2>3, <3>1
      DEF HistoryRemembered, Searching, Building, IntentChanged, StartsUnseen
  <2> QED
    BY <1>6, <2>0, <2>1, <2>2, <2>3 DEF RecheckRunning, RecheckStarts, streamVars
<1>7. CASE PlayRefused
  <2>1. playing /\ stale_queue /\ stale_queue' = stale_queue /\ dpc' = "step" /\ stream' = "none"
    BY <1>7 DEF PlayRefused, Positions
  <2> QED
    BY <2>1 DEF HistoryRemembered, Searching, Building
<1>8. CASE PlayIfStarted
  <2>1. dpc = "play" /\ dpc' = "adopt" /\ UNCHANGED <<seen_starts, lost>>
    BY <1>8 DEF PlayIfStarted
  <2> QED
    BY <1>0, <1>1, <2>1 DEF HistoryRemembered, Searching, Building, StartsUnseen
<1>9. CASE Adopt
  <2>1. /\ dpc = "adopt" /\ dpc' = "step" /\ stream # "none" /\ UNCHANGED <<stream, lost>>
        /\ seen_starts' = IF playing THEN starts ELSE seen_starts
    BY <1>9 DEF Adopt, streamVars, Positions
  <2>2. Kept' \/ (lost' /\ (playing' \/ StartsUnseen'))
    BY <1>0, <1>1, <2>1 DEF HistoryRemembered, StartsUnseen
  <2> QED
    BY <2>1, <2>2 DEF HistoryRemembered, Searching, Building
<1> QED
  BY <1>4, <1>5, <1>6, <1>7, <1>8, <1>9

LEMMA HistoryRememberedKept ==
  ASSUME TypeOK, TypeOK', Noted, StopMarked, StopMarked', Positions, Positions', StartsNoticed,
         StartsNoticed', DiscardJustified', HistoryRemembered, Next
  PROVE  HistoryRemembered'
<1>1. CASE NothingDrains' /\ ~Detaching'
  BY <1>1, NewHistoryRemembered DEF Next, NoteHistory
<1>2. CASE ~(NothingDrains' /\ ~Detaching')
  <2>1. history' = history
    BY <1>2 DEF Next, NoteHistory
  <2> QED
    BY <2>1, OthersRemember, SuperviseRemembers, DetachRemembers, SearchRemembers, DiscardRemembers,
       ArmRemembers, AttachRemembers DEF Next, Driver, Attempt
<1> QED
  BY <1>1, <1>2

---------------------------------------------------------------------------
(* The invariant and the theorems.                                         *)

LEMMA InitInvariant == Init => QueueIInv
<1> SUFFICES ASSUME Init PROVE QueueIInv
  OBVIOUS
<1>1. TypeOK
  BY InitTypes
<1>2. Noted /\ StopMarked
  BY DEF Init, Noted, StopMarked, NothingDrains
<1>3. Positions /\ StartsNoticed
  BY DEF Init, Positions, StartsNoticed, Supervising, Searching, Building
<1>4. HistoryRemembered
  BY DEF Init, HistoryRemembered, Building
<1>5. DiscardJustified
  BY DiscardMarks DEF Init, DiscardJustified, Building
<1> QED
  BY <1>1, <1>2, <1>3, <1>4, <1>5 DEF QueueIInv, Remembered

LEMMA StepInvariant == QueueIInv /\ [Next]_vars => QueueIInv'
<1> SUFFICES ASSUME QueueIInv, [Next]_vars PROVE QueueIInv'
  OBVIOUS
<1>0. TypeOK /\ Noted /\ StopMarked
  BY DEF QueueIInv
<1>1. TypeOK' /\ Noted' /\ StopMarked'
  BY <1>0, NextTypes, NotedKept, StopMarkedKept
<1>2. CASE Next /\ ~split'
  <2>1. Remembered
    BY <1>2 DEF Next, NoteHistory, QueueIInv
  <2>2. Positions'
    BY <1>0, <2>1, PositionsKept DEF Remembered
  <2>3. StartsNoticed'
    BY <1>0, <1>2, <2>1, StartsNoticedKept DEF Remembered
  <2>4. DiscardJustified'
    BY <1>0, <1>1, <1>2, <2>1, DiscardJustifiedKept DEF Remembered
  <2>5. HistoryRemembered'
    BY <1>0, <1>1, <1>2, <2>1, <2>2, <2>3, <2>4, HistoryRememberedKept DEF Remembered
  <2> QED
    BY <1>1, <2>2, <2>3, <2>4, <2>5 DEF QueueIInv, Remembered
<1>3. CASE Next /\ split'
  BY <1>1, <1>3 DEF QueueIInv
<1>4. CASE UNCHANGED vars
  <2> USE DEF vars, intentVars, ringVars, streamVars, driverVars
  <2>1. UNCHANGED <<split, Positions, StartsNoticed>>
    BY <1>4 DEF Positions, StartsNoticed, StartsUnseen
  <2>2. UNCHANGED HistoryRemembered
    BY <1>4 DEF HistoryRemembered, StartsUnseen, Kept, Settled
  <2>3. UNCHANGED DiscardJustified
    BY <1>4 DEF DiscardJustified, StartsUnseen
  <2> QED
    BY <1>0, <1>1, <2>1, <2>2, <2>3 DEF QueueIInv, Remembered
<1> QED
  BY <1>2, <1>3, <1>4

\* The inductive invariant: the history variables are true to the queue, a stop marks
\* what it leaves, and, as long as the driver took no step inside a start or a stop,
\* what a stream may not play is remembered until the ring has dropped it.
THEOREM QueueInvariant == Spec => []QueueIInv
BY InitInvariant, StepInvariant, PTL DEF Spec

\* Type correctness: totals never pass what was pushed, the driver never counts more
\* starts than the game made, and the first-read discard is a total or one of its marks.
THEOREM QueueTypeCorrect == Spec => []TypeOK
<1>1. QueueIInv => TypeOK
  BY DEF QueueIInv
<1> QED
  BY <1>1, QueueInvariant, PTL

\* What was queued when a started queue had no stream to drain it is never played by
\* the stream that re-attaches (`supervise`, `detach`, `connect` together), unless it was
\* queued only while the driver was in the middle of dropping the stream, and as long as
\* no driver step fell inside a start or a stop. Without the first exception the
\* statement is UndrainedNotReplayed, which does not hold of the code.
THEOREM HistoryIsNotReplayed == Spec => HistoryNotReplayed
<1>1. QueueIInv /\ [Next]_vars => [~split' /\ played' # played => played' > history]_vars
  <2> SUFFICES ASSUME QueueIInv, Next, ~split', played' # played
               PROVE  played' > history
    OBVIOUS
  <2>1. TypeOK /\ Remembered
    BY DEF Next, NoteHistory, QueueIInv
  <2>2. Fill
    BY DEF Next, Game, Push, CountStart, MarkStop, NarrowDiscard, StoreRunning, StreamLost, Driver,
       Supervise, CheckLost, KeepStream, ReadWant, Switched, CreditStarts, ReplaceStream, Switch,
       Detach, DetachSeesStarts, DropStream, DetachSeesRunning, Attempt, StepDetached,
       StepSeesRunning, NotDue, Due, Reclaim, ReadIntent, DiscardHistory, ArmFirstRead, BuildFails,
       Build, RecheckRunning, RecheckStarts, PlayRefused, PlayIfStarted, Adopt, Elsewhere
  <2>3. Kept
    BY <2>1, <2>2 DEF Fill, Remembered, HistoryRemembered
  <2>4. PICK settled \in {Settled} :
           IF settled < pushed
             THEN consumed' = settled + 1 /\ played' = settled + 1
             ELSE consumed' = settled /\ UNCHANGED played
    BY <2>2 DEF Fill, Settled
  <2>5. played' = Settled + 1
    BY <2>4
  <2> QED
    BY <2>1, <2>3, <2>5, SettledBetween, TotalsType DEF Kept
<1> QED
  BY <1>1, QueueInvariant, PTL DEF Spec, HistoryNotReplayed

\* The samples a queue drops without playing them are history, precede the latest stop,
\* or were waiting for the first read of a started stream: a queue left while stopped is
\* kept for the next start (`discard_queued_history`, the ring's first-read discard).
THEOREM StoppedQueueIsKept == Spec => StoppedQueueKept
<1>1. QueueIInv /\ [Next]_vars =>
        [~split' => \A n \in consumed + 1 .. consumed' : n = played' \/ Droppable(n)]_vars
  <2> SUFFICES ASSUME QueueIInv, Next, ~split', NEW n \in consumed + 1 .. consumed', n # played'
               PROVE  Droppable(n)
    OBVIOUS
  <2>1. TypeOK /\ Remembered /\ StopMarked
    BY DEF Next, NoteHistory, QueueIInv
  <2>2. /\ pushed \in Nat /\ consumed \in Nat /\ pending \in Nat /\ stopped_at \in Nat
        /\ undrained \in Nat /\ started_from \in Nat /\ consumed <= pushed /\ consumed' \in Nat
        /\ n \in Nat /\ consumed < n /\ n <= consumed'
    BY <2>1, TotalsType, RingStep, TransportAssumption DEF RingTypes
  <2>3. Fill \/ DiscardHistory
    <3>1. ~(Fill \/ DiscardHistory) => consumed' = consumed
      BY DEF Next, Game, Push, CountStart, MarkStop, NarrowDiscard, StoreRunning, StreamLost, Driver,
         Supervise, CheckLost, KeepStream, ReadWant, Switched, CreditStarts, ReplaceStream, Switch,
         Detach, DetachSeesStarts, DropStream, DetachSeesRunning, Attempt, StepDetached,
         StepSeesRunning, NotDue, Due, Reclaim, ReadIntent, ArmFirstRead, BuildFails, Build,
         RecheckRunning, RecheckStarts, PlayRefused, PlayIfStarted, Adopt, Elsewhere, ringVars
    <3> QED
      BY <2>2, <3>1
  <2>4. CASE Fill
    <3>1. PICK settled \in {Settled} :
             IF settled < pushed
               THEN consumed' = settled + 1 /\ played' = settled + 1
               ELSE consumed' = settled /\ UNCHANGED played
      BY <2>4 DEF Fill, Settled
    <3>2. n <= Settled
      BY <2>1, <2>2, <3>1, SettledBetween
    <3>3. CASE pending = DISCARD_ALL
      <4>1. running /\ started_from <= undrained
        BY <2>1, <2>4, <3>3 DEF Fill, Remembered, DiscardJustified
      <4> QED
        BY <2>2, <4>1 DEF Droppable
    <3>4. CASE pending # DISCARD_ALL
      <4>1. pending # NO_DISCARD /\ n <= pending
        BY <2>2, <3>2, <3>4 DEF Settled, Larger, Smaller
      <4>2. pending <= stopped_at
        BY <2>1, <3>4, <4>1 DEF StopMarked
      <4> QED
        BY <2>2, <4>1, <4>2 DEF Droppable
    <3> QED
      BY <3>3, <3>4
  <2>5. CASE DiscardHistory
    <3>1. dpc = "discard" /\ attached_before /\ consumed' = HeldDiscard
      BY <2>2, <2>5 DEF DiscardHistory
    <3>2. CASE playing
      <4>1. pushed \in {undrained, stopped_at}
        BY <2>1, <3>1, <3>2 DEF Remembered, DiscardJustified
      <4> QED
        BY <2>2, <3>1, <3>2, <4>1 DEF HeldDiscard, Droppable
    <3>3. CASE ~playing
      BY <2>2, <3>1, <3>3 DEF HeldDiscard, Larger, Smaller, Droppable
    <3> QED
      BY <3>2, <3>3
  <2> QED
    BY <2>3, <2>4, <2>5
<1> QED
  BY <1>1, QueueInvariant, PTL DEF Spec, StoppedQueueKept

====
