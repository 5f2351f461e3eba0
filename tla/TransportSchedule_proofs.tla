---- MODULE TransportSchedule_proofs ----
(***************************************************************************)
(* Theorems of TransportSchedule for any outputs and any durations: type   *)
(* correctness, that what the game is told is true, the bound on retries,  *)
(* the bound on the time another default stays unseen, and that a driver   *)
(* asleep is never given up on.                                            *)
(***************************************************************************)
EXTENDS TransportSchedule, SequenceTheorems, TLAPS

\* What a call into the host is about: an attached stream's identity is the
\* default last observed, and so is that of a stream being built.
CallsAgree ==
  /\ live # NoStream => live.id \in Ids /\ live.id = observed
  /\ pc \in {"build", "play"} => live = NoStream /\ held.id \in Ids /\ held.id = observed
  /\ pc = "query" => why # None /\ (why = "supervise" <=> live # NoStream)
  /\ pc = "apply" => live # NoStream
  /\ pc = "query" /\ why = "attempt" => next_attempt = 0

\* The published state, and the event that is still to be pushed.
StateTrue ==
  /\ live # NoStream => state = "Ready"
  /\ live = NoStream /\ state = "Ready" /\ pc # "exited" => next_attempt = 0
  /\ unpushed # None => unpushed = state
  /\ NewestEventKept

\* A burst is spent: the cooldown its last failure set is still to be waited out,
\* and the history variables have counted no more of it than has passed.
Spent ==
  /\ recent <= AttemptsPerBurst
  /\ live = NoStream /\ pc \notin {"build", "play", "apply"}
  /\ next_attempt + quiet >= Cooldown

\* The driver never counts fewer failures of a burst than there were, and forgets
\* them only when they no longer count.
BurstCounted ==
  /\ recent <= failures \/ Spent
  /\ quiet < Cooldown
  /\ live # NoStream /\ stable_in = 0 => recent = 0

\* How long another default may have gone unseen: no more than Due and what a call
\* or a park has added since the discovery was due.
Due == DiscoveryInterval + 2 * MaxBlock
Polled == Due + MaxBlock + HealthPoll - 1
InTimeWhen(p, stream, e, n, l, u) ==
  /\ n <= DiscoveryInterval /\ u <= Polled + MaxBlock
  /\ p \in Calls => l <= MaxBlock
  /\ p = "build" => u + l <= MaxBlock
  /\ p = "play" => u + l <= 2 * MaxBlock
  /\ p = "query" => u + l <= Polled + MaxBlock
  /\ p \in {"loop", "asleep", "apply"} /\ n > 0 => u + n <= Due
  /\ p = "apply" /\ n = 0 => e > 0 /\ u + l <= Due + MaxBlock
  /\ p = "asleep" /\ stream = NoStream => l <= n /\ u <= Due + MaxBlock
  /\ p = "asleep" /\ stream # NoStream =>
       IF n > 0 THEN l <= HealthPoll ELSE u + l <= Polled
  /\ p = "loop" => u <= Polled
InTime == InTimeWhen(pc, live, elapsed, next_discovery, left, unseen)

\* Who waits for the driver has woken it.
Woken == dropper = "waiting" => token \/ pc \in {"loop", "exited"}

ScheduleIInv ==
  TypeOK /\ CallsAgree /\ StateTrue /\ BurstCounted /\ InTime /\ Woken

---------------------------------------------------------------------------
(* Types.                                                                  *)

LEMMA MonusType ==
  ASSUME NEW a \in Nat, NEW b \in Nat
  PROVE  Monus(a, b) \in Nat /\ Monus(a, b) <= a
BY DEF Monus

LEMMA LeastType ==
  ASSUME NEW a \in Nat, NEW b \in Nat
  PROVE  Least(a, b) \in Nat /\ Least(a, b) <= a /\ Least(a, b) <= b
BY DEF Least

LEMMA NoneType == NoStream \in [id : Outputs, playing : BOOLEAN]
                  /\ NoCall \in [id : Outputs, playing : BOOLEAN, started : BOOLEAN]
BY DEF NoStream, NoCall, Outputs

\* A failure leaves the burst below its bound.
LEMMA FailType ==
  ASSUME NEW n \in 0..(AttemptsPerBurst - 1), Fail(n)
  PROVE  failures' \in 0..(AttemptsPerBurst - 1) /\ next_attempt' \in Nat
<1>1. RetryBase * 2^n \in Nat /\ Cooldown \in Nat /\ AttemptsPerBurst \in Nat \ {0}
  BY ScheduleAssumption, BackoffAssumption
<1>2. failures' = IF n + 1 < AttemptsPerBurst THEN n + 1 ELSE 0
  BY DEF Fail
<1>3. next_attempt' \in {RetryBase * 2^n, Cooldown}
  BY DEF Fail
<1> QED
  BY <1>1, <1>2, <1>3

LEMMA RecordedType ==
  ASSUME NEW r \in Nat, Recorded(r)
  PROVE  recent' \in Nat /\ quiet' \in Nat
BY ScheduleAssumption DEF Recorded, Least

LEMMA TimesType ==
  ASSUME TypeOK
  PROVE  /\ elapsed \in Nat /\ left \in Nat /\ next_attempt \in Nat /\ next_discovery \in Nat
         /\ stable_in \in Nat /\ grace \in Nat /\ recent \in Nat /\ quiet \in Nat
         /\ unseen \in Nat
BY DEF TypeOK

LEMMA ConstantsType ==
  /\ AttemptsPerBurst \in Nat \ {0} /\ Cooldown \in Nat \ {0} /\ StableAfter \in Nat \ {0}
  /\ DiscoveryInterval \in Nat \ {0} /\ HealthPoll \in Nat \ {0}
  /\ MaxPendingEvents \in Nat \ {0} /\ ShutdownGrace \in Nat /\ MaxBlock \in Nat
  /\ Failures \subseteq Reasons
BY ScheduleAssumption DEF Reasons

LEMMA ParkType ==
  ASSUME TypeOK, Park, next_attempt' \in Nat, next_discovery' \in Nat
  PROVE  pc' = "asleep" /\ why' = None /\ left' \in Nat
BY ConstantsType, TimesType DEF Park, Least, Monus

LEMMA InitTypes == Init => TypeOK
<1> SUFFICES ASSUME Init PROVE TypeOK
  OBVIOUS
<1>1. << >> \in Seq(States) /\ Len(<< >>) = 0
  OBVIOUS
<1>2. 0 \in 0..(AttemptsPerBurst - 1) /\ 0 <= MaxPendingEvents
  BY ConstantsType
<1>3. {elapsed, left, next_attempt, next_discovery, stable_in, grace, recent, quiet,
       unseen} \subseteq Nat
  BY DEF Init
<1> QED
  BY <1>1, <1>2, <1>3, NoneType DEF Init, TypeOK, States

\* A failed attempt keeps the types of all it changes.
LEMMA FailedTypes ==
  ASSUME TypeOK, NEW reason \in Reasons, NEW n \in 0..(AttemptsPerBurst - 1), NEW r \in Nat,
         Failed(reason, n, r)
  PROVE  /\ pc' = "asleep" /\ why' = None /\ held' = NoCall /\ left' \in Nat
         /\ state' \in States /\ unpushed' \in States \cup {None} /\ events' = events
         /\ failures' \in 0..(AttemptsPerBurst - 1)
         /\ {next_attempt', next_discovery', recent', quiet'} \subseteq Nat
<1>1. failures' \in 0..(AttemptsPerBurst - 1) /\ next_attempt' \in Nat
  BY FailType DEF Failed
<1>2. recent' \in Nat /\ quiet' \in Nat
  BY RecordedType DEF Failed
<1>3. next_discovery' = DiscoveryInterval /\ DiscoveryInterval \in Nat
  BY ScheduleAssumption DEF Failed
<1>4. pc' = "asleep" /\ why' = None /\ left' \in Nat
  BY <1>1, <1>3, ParkType DEF Failed
<1> QED
  BY <1>1, <1>2, <1>3, <1>4 DEF Failed, Publish, States

LEMMA ConnectTypes ==
  ASSUME TypeOK, NEW id \in Ids, NEW n \in 0..(AttemptsPerBurst - 1), Connect(id, n)
  PROVE  /\ pc' = "build" /\ why' = None /\ left' = MaxBlock /\ observed' = id
         /\ held' \in [id : Outputs, playing : BOOLEAN, started : BOOLEAN]
         /\ failures' \in 0..(AttemptsPerBurst - 1) /\ next_attempt' = next_attempt
         /\ {left', next_discovery', recent', quiet'} \subseteq Nat
<1>1. next_discovery' \in Nat /\ left' \in Nat
  BY MonusType, ConstantsType, TimesType DEF Connect, Call
<1>2. failures' \in 0..(AttemptsPerBurst - 1) /\ recent' \in Nat /\ quiet' \in Nat
  BY ConstantsType, TimesType DEF Connect
<1>3. held' \in [id : Outputs, playing : BOOLEAN, started : BOOLEAN]
  BY DEF Connect, TypeOK, Outputs
<1> QED
  BY <1>1, <1>2, <1>3 DEF Connect, Call

\* The parts of TypeOK, one for each group of variables.
StreamTypes ==
  /\ live \in [id : Outputs, playing : BOOLEAN]
  /\ lost \in BOOLEAN /\ follows_default \in BOOLEAN
DriverTypes ==
  /\ pc \in Calls \cup {"loop", "asleep", "exited"}
  /\ why \in {None, "supervise", "attempt", "probe"}
  /\ held \in [id : Outputs, playing : BOOLEAN, started : BOOLEAN]
RetryTypes ==
  /\ failures \in 0..(AttemptsPerBurst - 1)
  /\ observed \in Outputs \cup {Unknown} /\ attached_before \in BOOLEAN
PublishTypes ==
  /\ state \in States /\ unpushed \in States \cup {None}
  /\ events \in Seq(States) /\ Len(events) <= MaxPendingEvents
OutsideTypes ==
  /\ default \in Outputs /\ calm \in BOOLEAN
  /\ running \in BOOLEAN /\ token \in BOOLEAN
  /\ dropper \in {"idle", "asked", "waiting", "joined", "gave up"}
TimesTypes ==
  /\ elapsed \in Nat /\ left \in Nat /\ next_attempt \in Nat /\ next_discovery \in Nat
  /\ stable_in \in Nat /\ grace \in Nat /\ recent \in Nat /\ quiet \in Nat /\ unseen \in Nat

LEMMA TypeParts ==
  TypeOK <=> /\ StreamTypes /\ DriverTypes /\ RetryTypes /\ PublishTypes /\ OutsideTypes
             /\ TimesTypes
BY DEF TypeOK, StreamTypes, DriverTypes, RetryTypes, PublishTypes, OutsideTypes, TimesTypes

LEMMA TypePartsNext ==
  ASSUME StreamTypes', DriverTypes', RetryTypes', PublishTypes', OutsideTypes', TimesTypes'
  PROVE  TypeOK'
BY DEF TypeOK, StreamTypes, DriverTypes, RetryTypes, PublishTypes, OutsideTypes, TimesTypes

\* A step that ends with a park, and what it leaves alone.
LEMMA ParkTypes ==
  ASSUME TypeOK, Park, next_attempt' \in Nat, next_discovery' \in Nat,
         held' \in [id : Outputs, playing : BOOLEAN, started : BOOLEAN]
  PROVE  DriverTypes' /\ left' \in Nat
BY ParkType DEF DriverTypes

LEMMA PublishKeepsTypes ==
  ASSUME TypeOK, NEW s \in States, Publish(s)
  PROVE  PublishTypes'
BY TypeParts DEF Publish, PublishTypes

LEMMA DetachTypes ==
  ASSUME Detach
  PROVE  StreamTypes' /\ stable_in' \in Nat
BY NoneType DEF Detach, StreamTypes


LEMMA EndingTypes ==
  ASSUME TypeOK, Exit \/ Rebuild \/ Applied \/ Wake
  PROVE  TypeOK'
<1>0. StreamTypes /\ DriverTypes /\ RetryTypes /\ PublishTypes /\ OutsideTypes /\ TimesTypes
  BY TypeParts
<1> USE <1>0 DEF streamVars, gameVars, hostVars, timeVars, retryVars, publishVars, dropVars, burstVars
<1>1. CASE Exit
  <2>1. StreamTypes' /\ DriverTypes' /\ TimesTypes'
    BY <1>1, DetachTypes DEF Exit, DriverTypes, TimesTypes
  <2>2. RetryTypes' /\ PublishTypes' /\ OutsideTypes'
    BY <1>1 DEF Exit, RetryTypes, PublishTypes, OutsideTypes
  <2> QED
    BY <2>1, <2>2, TypePartsNext
<1>2. CASE Rebuild
  <2>1. StreamTypes' /\ RetryTypes' /\ PublishTypes' /\ OutsideTypes'
    BY <1>2 DEF Rebuild, StreamTypes, RetryTypes, PublishTypes, OutsideTypes
  <2>2. next_attempt' = 0 /\ next_discovery' \in Nat /\ Park
    BY <1>2 DEF Rebuild, TimesTypes
  <2>3. DriverTypes' /\ left' \in Nat
    BY <1>2, <2>2, NoneType, ParkTypes DEF Rebuild
  <2>4. TimesTypes'
    BY <1>2, <2>2, <2>3 DEF Rebuild, TimesTypes
  <2> QED
    BY <2>1, <2>3, <2>4, TypePartsNext
<1>3. CASE Applied
  <2>1. StreamTypes' /\ RetryTypes' /\ PublishTypes' /\ OutsideTypes'
    BY <1>3 DEF Applied, StreamTypes, DriverTypes, RetryTypes, PublishTypes, OutsideTypes
  <2>2. next_attempt' \in Nat /\ next_discovery' \in Nat /\ Park
    BY <1>3 DEF Applied, TimesTypes
  <2>3. DriverTypes' /\ left' \in Nat
    BY <1>3, <2>2, NoneType, ParkTypes DEF Applied
  <2>4. TimesTypes'
    BY <1>3, <2>2, <2>3 DEF Applied, TimesTypes
  <2> QED
    BY <2>1, <2>3, <2>4, TypePartsNext
<1>4. CASE Wake
  <2>1. StreamTypes' /\ DriverTypes' /\ TimesTypes'
    BY <1>4 DEF Wake, StreamTypes, DriverTypes, TimesTypes
  <2>2. RetryTypes' /\ PublishTypes' /\ OutsideTypes'
    BY <1>4 DEF Wake, RetryTypes, PublishTypes, OutsideTypes
  <2> QED
    BY <2>1, <2>2, TypePartsNext
<1> QED
  BY <1>1, <1>2, <1>3, <1>4

\* What a tick does to the times.
LEMMA TickTimes ==
  ASSUME TypeOK, Tick
  PROVE  /\ left > 0 /\ left' = left - 1
         /\ elapsed' \in Nat /\ grace' \in Nat
         /\ next_attempt' = Monus(next_attempt, 1) /\ next_discovery' = Monus(next_discovery, 1)
         /\ stable_in' = Monus(stable_in, 1)
         /\ recent' \in {0, recent} /\ quiet' \in {0, quiet + 1} /\ unseen' \in {0, unseen + 1}
<1>0. elapsed \in Nat /\ grace \in Nat /\ DiscoveryInterval \in Nat
  BY TimesType, ConstantsType
<1>1. elapsed' \in {0, Least(elapsed + 1, DiscoveryInterval)} /\ grace' = Monus(grace, 1)
  BY DEF Tick
<1>2. elapsed' \in Nat /\ grace' \in Nat
  BY <1>0, <1>1 DEF Least, Monus
<1>3. recent' \in {0, recent} /\ quiet' \in {0, quiet + 1}
  BY DEF Tick
<1> QED
  BY <1>2, <1>3 DEF Tick

LEMMA TickTypes == ASSUME TypeOK, Tick PROVE TypeOK'
<1>0. StreamTypes /\ DriverTypes /\ RetryTypes /\ PublishTypes /\ OutsideTypes /\ TimesTypes
  BY TypeParts
<1>1. StreamTypes' /\ RetryTypes' /\ DriverTypes' /\ PublishTypes' /\ OutsideTypes'
  <2>1. UNCHANGED <<default, calm, live, lost, follows_default, running, token, pc, why, held,
                    failures, observed, attached_before, state, unpushed, events, dropper>>
    BY DEF Tick, hostVars, streamVars, gameVars, driverVars, publishVars
  <2>2. StreamTypes' /\ DriverTypes'
    BY <1>0, <2>1 DEF StreamTypes, DriverTypes
  <2>3. RetryTypes' /\ PublishTypes' /\ OutsideTypes'
    BY <1>0, <2>1 DEF RetryTypes, PublishTypes, OutsideTypes
  <2> QED
    BY <2>2, <2>3
<1>2. /\ left > 0 /\ left' = left - 1 /\ elapsed' \in Nat /\ grace' \in Nat
      /\ next_attempt' = Monus(next_attempt, 1) /\ next_discovery' = Monus(next_discovery, 1)
      /\ stable_in' = Monus(stable_in, 1)
      /\ recent' \in {0, recent} /\ quiet' \in {0, quiet + 1} /\ unseen' \in {0, unseen + 1}
  BY TickTimes
<1>3. TimesTypes'
  BY <1>0, <1>2 DEF TimesTypes, Monus
<1> QED
  BY <1>1, <1>3, TypePartsNext

LEMMA PollTypes == ASSUME TypeOK, Poll PROVE PublishTypes'
<1>1. PublishTypes /\ MaxPendingEvents \in Nat
  BY TypeParts, ConstantsType
<1>2. events \in Seq(States) /\ events # << >> /\ events' = Tail(events)
      /\ UNCHANGED <<state, unpushed>>
  BY <1>1 DEF Poll, PublishTypes, quietForGame
<1>3. events' \in Seq(States) /\ Len(events') = Len(events) - 1 /\ Len(events) \in Nat
  BY <1>2, HeadTailProperties
<1> QED
  BY <1>1, <1>2, <1>3 DEF PublishTypes

LEMMA OutsideStepTypes ==
  ASSUME TypeOK, Game \/ Host \/ Tick
  PROVE  TypeOK'
<1>0. StreamTypes /\ DriverTypes /\ RetryTypes /\ PublishTypes /\ OutsideTypes /\ TimesTypes
  BY TypeParts
<1> USE <1>0 DEF hostVars, streamVars, gameVars, driverVars, timeVars, retryVars, publishVars, dropVars, burstVars
<1>1. CASE Game
  <2> USE <1>1 DEF Game, SetRunning, Poll, AskToStop, WakeToStop, Join, GiveUp, quietForGame
  <2>1. StreamTypes' /\ RetryTypes'
    BY DEF StreamTypes, RetryTypes
  <2>2. TimesTypes'
    BY ConstantsType DEF TimesTypes
  <2>3. OutsideTypes'
    BY DEF OutsideTypes
  <2>4. DriverTypes'
    BY DEF DriverTypes
  <2>5. PublishTypes'
    <3>1. CASE Poll
      BY <3>1, PollTypes
    <3>2. CASE ~Poll
      BY <3>2 DEF PublishTypes
    <3> QED
      BY <3>1, <3>2
  <2> QED
    BY <2>1, <2>2, <2>3, <2>4, <2>5, TypePartsNext
<1>2. CASE Host
  <2> USE <1>2 DEF Host, ChangeDefault, StreamDies, StreamFollows, Settle, quietForHost
  <2>1. StreamTypes' /\ OutsideTypes'
    BY DEF StreamTypes, OutsideTypes
  <2>2. RetryTypes' /\ DriverTypes' /\ PublishTypes'
    BY DEF RetryTypes, DriverTypes, PublishTypes
  <2>3. TimesTypes'
    BY DEF TimesTypes
  <2> QED
    BY <2>1, <2>2, <2>3, TypePartsNext
<1>3. CASE Tick
  BY <1>3, TickTypes
<1> QED
  BY <1>1, <1>2, <1>3

\* The stream's own steps keep the types.
LEMMA SupervisedTypes ==
  ASSUME TypeOK, Supervised, next_attempt' \in Nat, next_discovery' \in Nat,
         live' \in [id : Outputs, playing : BOOLEAN]
  PROVE  DriverTypes' /\ left' \in Nat
<1>1. CASE running # live'.playing
  <2>1. running \in BOOLEAN /\ MaxBlock \in Nat /\ live'.id \in Outputs
    BY TypeParts, ConstantsType DEF OutsideTypes
  <2>2. /\ pc' = "apply" /\ left' = MaxBlock /\ why' = None
        /\ held' = [id |-> live'.id, playing |-> running, started |-> FALSE]
    BY <1>1 DEF Supervised, Call
  <2>3. held' \in [id : Outputs, playing : BOOLEAN, started : BOOLEAN]
    BY <2>1, <2>2
  <2> QED
    BY <2>1, <2>2, <2>3 DEF DriverTypes, Calls
<1>2. CASE running = live'.playing
  BY <1>2, NoneType, ParkTypes DEF Supervised
<1> QED
  BY <1>1, <1>2

LEMMA RecentlyFailed ==
  ASSUME TypeOK, Fail(failures), Recorded(recent)
  PROVE  /\ failures' \in 0..(AttemptsPerBurst - 1)
         /\ next_attempt' \in Nat /\ recent' \in Nat /\ quiet' \in Nat
BY FailType, RecordedType, TypeParts DEF RetryTypes, TimesTypes

LEMMA SteppingTypes ==
  ASSUME TypeOK, StepLost \/ StepLive \/ StepDetached
  PROVE  TypeOK'
<1>0. StreamTypes /\ DriverTypes /\ RetryTypes /\ PublishTypes /\ OutsideTypes /\ TimesTypes
  BY TypeParts
<1>1. CASE StepLost
  <2>1. /\ Detach /\ Publish("StreamLost") /\ Fail(failures) /\ Recorded(recent)
        /\ elapsed' = 0 /\ next_discovery' = next_discovery
        /\ Query("probe") \/ Park
        /\ UNCHANGED <<hostVars, gameVars, held, observed, attached_before, dropVars, unseen>>
    BY <1>1 DEF StepLost
  <2>2. StreamTypes' /\ PublishTypes' /\ stable_in' \in Nat
    BY <2>1, DetachTypes, PublishKeepsTypes DEF States, Reasons
  <2>3. RetryTypes' /\ next_attempt' \in Nat /\ recent' \in Nat /\ quiet' \in Nat
    BY <1>0, <2>1, RecentlyFailed DEF RetryTypes
  <2>4. OutsideTypes' /\ next_discovery' \in Nat /\ unseen' \in Nat /\ grace' \in Nat
    BY <1>0, <2>1 DEF OutsideTypes, TimesTypes, hostVars, gameVars, dropVars
  <2>5. held' \in [id : Outputs, playing : BOOLEAN, started : BOOLEAN]
    BY <1>0, <2>1 DEF DriverTypes
  <2>6. DriverTypes' /\ left' \in Nat
    <3>1. CASE Query("probe")
      BY <2>5, <3>1, ConstantsType DEF Query, Call, DriverTypes, Calls
    <3>2. CASE Park
      BY <2>3, <2>4, <2>5, <3>2, ParkTypes
    <3> QED
      BY <2>1, <3>1, <3>2
  <2>7. TimesTypes'
    BY <2>1, <2>2, <2>3, <2>4, <2>6 DEF TimesTypes
  <2> QED
    BY <2>2, <2>3, <2>4, <2>6, <2>7, TypePartsNext
<1>2. CASE StepLive
  <2>1. /\ failures' = IF stable_in = 0 THEN 0 ELSE failures
        /\ elapsed' = 0
        /\ (Query("supervise") /\ UNCHANGED held) \/ Supervised
        /\ UNCHANGED <<streamVars, next_attempt, next_discovery, hostVars, gameVars, stable_in,
                       observed, attached_before, publishVars, dropVars, burstVars, unseen>>
    BY <1>2, Zenon DEF StepLive
  <2> UNCHANGED <<live, lost, follows_default, next_attempt, next_discovery, default, calm,
                  running, token, stable_in, observed, attached_before, state, unpushed, events,
                  dropper, grace, recent, quiet, unseen>>
    BY <2>1 DEF streamVars, hostVars, gameVars, publishVars, dropVars, burstVars
  <2>2. StreamTypes' /\ PublishTypes' /\ OutsideTypes'
    BY <1>0 DEF StreamTypes, PublishTypes, OutsideTypes
  <2>3. RetryTypes'
    BY <1>0, <2>1, ConstantsType DEF RetryTypes
  <2>4. DriverTypes' /\ left' \in Nat
    <3>1. CASE Query("supervise") /\ UNCHANGED held
      BY <1>0, <3>1, ConstantsType DEF Query, Call, DriverTypes, Calls
    <3>2. CASE Supervised
      BY <1>0, <2>1, <2>2, <3>2, SupervisedTypes DEF TimesTypes, StreamTypes
    <3> QED
      BY <2>1, <3>1, <3>2
  <2>5. TimesTypes'
    BY <1>0, <2>1, <2>4 DEF TimesTypes
  <2> QED
    BY <2>2, <2>3, <2>4, <2>5, TypePartsNext
<1>3. CASE StepDetached
  <2>1. /\ elapsed' = 0
        /\ (\E w \in {"attempt", "probe"} : Query(w)) \/ Park
        /\ UNCHANGED <<streamVars, retryVars, next_discovery, hostVars, gameVars, held, stable_in,
                       attached_before, publishVars, dropVars, burstVars, unseen>>
    <3>1. CASE next_attempt = 0
      BY <1>3, <3>1 DEF StepDetached
    <3>2. CASE next_attempt # 0 /\ next_discovery = 0
      BY <1>0, <1>3, <3>2 DEF StepDetached, TimesTypes
    <3>3. CASE next_attempt # 0 /\ next_discovery # 0
      BY <1>3, <3>3 DEF StepDetached
    <3> QED
      BY <3>1, <3>2, <3>3
  <2> UNCHANGED <<live, lost, follows_default, next_attempt, next_discovery, default, calm,
                  running, token, held, stable_in, failures, observed, attached_before, state,
                  unpushed, events, dropper, grace, recent, quiet, unseen>>
    BY <2>1 DEF streamVars, hostVars, gameVars, retryVars, publishVars, dropVars, burstVars
  <2>2. StreamTypes' /\ PublishTypes'
    BY <1>0 DEF StreamTypes, PublishTypes
  <2>3. RetryTypes' /\ OutsideTypes'
    BY <1>0 DEF RetryTypes, OutsideTypes
  <2>4. held' = held /\ next_attempt' \in Nat /\ next_discovery' \in Nat
    BY <1>0 DEF TimesTypes
  <2>5. DriverTypes' /\ left' \in Nat
    <3>1. ASSUME NEW w \in {"attempt", "probe"}, Query(w)
          PROVE  DriverTypes' /\ left' \in Nat
      BY <1>0, <2>4, <3>1, ConstantsType DEF Query, Call, DriverTypes, Calls
    <3>2. CASE Park
      BY <1>0, <2>4, <3>2, ParkTypes DEF DriverTypes
    <3> QED
      BY <2>1, <3>1, <3>2
  <2>6. TimesTypes'
    <3>1. elapsed' = 0 /\ left' \in Nat
      BY <2>1, <2>5
    <3> QED
      BY <1>0, <3>1 DEF TimesTypes
  <2> QED
    BY <2>2, <2>3, <2>5, <2>6, TypePartsNext
<1> QED
  BY <1>1, <1>2, <1>3

\* The end of a query or of a connection: an attempt that goes on, or that failed.
LEMMA AttemptTypes ==
  ASSUME TypeOK, NEW n \in 0..(AttemptsPerBurst - 1),
         \/ /\ \E id \in Ids : Connect(id, n)
            /\ (\E s \in States : Publish(s)) \/ UNCHANGED publishVars
         \/ /\ \E reason \in Reasons, r \in Nat : Failed(reason, n, r)
            /\ observed' \in Outputs \cup {Unknown},
         StreamTypes', stable_in' \in Nat, unseen' \in Nat,
         UNCHANGED <<hostVars, gameVars, elapsed, attached_before, dropVars>>
  PROVE  TypeOK'
<1>0. StreamTypes /\ DriverTypes /\ RetryTypes /\ PublishTypes /\ OutsideTypes /\ TimesTypes
  BY TypeParts
<1> UNCHANGED <<default, calm, running, token, elapsed, attached_before, dropper, grace>>
  BY DEF hostVars, gameVars, dropVars
<1>1. OutsideTypes'
  BY <1>0 DEF OutsideTypes
<1>2. CASE /\ \E id \in Ids : Connect(id, n)
           /\ (\E s \in States : Publish(s)) \/ UNCHANGED publishVars
  <2>1. PICK id \in Ids : Connect(id, n)
    BY <1>2
  <2>2. /\ pc' = "build" /\ why' = None /\ observed' = id
        /\ held' \in [id : Outputs, playing : BOOLEAN, started : BOOLEAN]
        /\ failures' \in 0..(AttemptsPerBurst - 1) /\ next_attempt' = next_attempt
        /\ {left', next_discovery', recent', quiet'} \subseteq Nat
    BY <2>1, ConnectTypes
  <2>3. PublishTypes'
    <3>1. CASE UNCHANGED publishVars
      BY <1>0, <3>1 DEF publishVars, PublishTypes
    <3> QED
      BY <1>2, <3>1, PublishKeepsTypes
  <2>4. DriverTypes' /\ RetryTypes'
    BY <1>0, <2>2 DEF DriverTypes, RetryTypes, Calls, Outputs
  <2>5. TimesTypes'
    BY <1>0, <2>2 DEF TimesTypes
  <2> QED
    BY <1>1, <2>3, <2>4, <2>5, TypePartsNext
<1>3. CASE /\ \E reason \in Reasons, r \in Nat : Failed(reason, n, r)
           /\ observed' \in Outputs \cup {Unknown}
  <2>1. PICK reason \in Reasons, r \in Nat : Failed(reason, n, r)
    BY <1>3
  <2>2. /\ pc' = "asleep" /\ why' = None /\ held' = NoCall /\ left' \in Nat
        /\ state' \in States /\ unpushed' \in States \cup {None} /\ events' = events
        /\ failures' \in 0..(AttemptsPerBurst - 1)
        /\ {next_attempt', next_discovery', recent', quiet'} \subseteq Nat
    BY <2>1, FailedTypes
  <2>3. PublishTypes' /\ DriverTypes'
    BY <1>0, <2>2, NoneType DEF PublishTypes, DriverTypes
  <2>4. RetryTypes'
    BY <1>0, <1>3, <2>2 DEF RetryTypes
  <2>5. TimesTypes'
    BY <1>0, <2>2 DEF TimesTypes
  <2> QED
    BY <1>1, <2>3, <2>4, <2>5, TypePartsNext
<1> QED
  BY <1>2, <1>3

LEMMA FindNoneFails ==
  ASSUME TypeOK, NEW n \in 0..(AttemptsPerBurst - 1), FindNone(n)
  PROVE  \E k \in {0, n} : \E r \in {0, recent} : Failed("NoOutput", k, r) /\ observed' = None
BY DEF FindNone

LEMMA QueryTypes ==
  ASSUME TypeOK, ReplaceStream \/ TryDefault \/ ProbeChanged
  PROVE  TypeOK'
<1>0. StreamTypes /\ RetryTypes /\ PublishTypes /\ OutsideTypes /\ TimesTypes
  BY TypeParts
<1>1. failures \in 0..(AttemptsPerBurst - 1) /\ 0 \in 0..(AttemptsPerBurst - 1)
  BY <1>0, ConstantsType DEF RetryTypes
<1>2. unseen' \in Nat /\ UNCHANGED <<hostVars, gameVars, elapsed, attached_before, dropVars>>
  BY DEF ReplaceStream, TryDefault, ProbeChanged
<1>3. StreamTypes' /\ stable_in' \in Nat
  <2>1. CASE ReplaceStream
    BY <2>1, DetachTypes DEF ReplaceStream
  <2>2. CASE UNCHANGED <<streamVars, stable_in>>
    BY <1>0, <2>2 DEF streamVars, StreamTypes, TimesTypes
  <2> QED
    BY <2>1, <2>2 DEF TryDefault, ProbeChanged
<1>4. ASSUME NEW n \in {0, failures}, FindNone(n)
      PROVE  TypeOK'
  <2>1. PICK k \in {0, n}, r \in {0, recent} : Failed("NoOutput", k, r) /\ observed' = None
    BY <1>1, <1>4, FindNoneFails
  <2>2. k \in 0..(AttemptsPerBurst - 1) /\ r \in Nat /\ "NoOutput" \in Reasons
    BY <1>0, <1>1 DEF Reasons, TimesTypes
  <2>3. observed' \in Outputs \cup {Unknown}
    BY <2>1 DEF Outputs
  <2> QED
    BY <1>2, <1>3, <2>1, <2>2, <2>3, AttemptTypes
<1>5. ASSUME NEW n \in {0, failures}, NEW id \in Ids, Connect(id, n),
             (\E s \in States : Publish(s)) \/ UNCHANGED publishVars
      PROVE  TypeOK'
  <2>1. n \in 0..(AttemptsPerBurst - 1)
    BY <1>1
  <2> QED
    BY <1>2, <1>3, <1>5, <2>1, AttemptTypes
<1>6. CASE FindError /\ observed' = observed
  <2>1. PICK reason \in Failures : Failed(reason, failures, recent)
    BY <1>6 DEF FindError
  <2>2. reason \in Reasons /\ recent \in Nat /\ observed' \in Outputs \cup {Unknown}
    BY <1>0, <1>6, ConstantsType DEF RetryTypes, TimesTypes
  <2> QED
    BY <1>1, <1>2, <1>3, <2>1, <2>2, AttemptTypes
<1>7. default = None \/ default \in Ids
  BY <1>0 DEF OutsideTypes, Outputs
<1>8. CASE ReplaceStream
  <2>1. "DefaultChanged" \in States
    BY DEF States, Reasons
  <2> QED
    BY <1>4, <1>5, <1>7, <1>8, <2>1 DEF ReplaceStream
<1>9. CASE TryDefault
  BY <1>4, <1>5, <1>6, <1>9 DEF TryDefault, FindError
<1>10. CASE ProbeChanged
  BY <1>4, <1>5, <1>7, <1>10 DEF ProbeChanged
<1> QED
  BY <1>8, <1>9, <1>10

LEMMA CallTypes ==
  ASSUME TypeOK, KeepStream \/ ProbeSame \/ ConnectFails
  PROVE  TypeOK'
<1>0. StreamTypes /\ DriverTypes /\ RetryTypes /\ PublishTypes /\ OutsideTypes /\ TimesTypes
  BY TypeParts
<1>1. CASE KeepStream
  <2>1. PICK found \in Answers :
          /\ live' = IF found \in Ids THEN [live EXCEPT !.id = found] ELSE live
          /\ observed' = IF found \in Ids THEN found ELSE observed
    BY <1>1 DEF KeepStream
  <2>2. next_discovery' = DiscoveryInterval /\ unseen' = 0 /\ Supervised
    BY <1>1 DEF KeepStream
  <2> UNCHANGED <<lost, follows_default, failures, next_attempt, elapsed, stable_in, default, calm,
                  running, token, attached_before, state, unpushed, events, dropper, grace,
                  recent, quiet>>
    BY <1>1 DEF KeepStream, hostVars, gameVars, publishVars, dropVars, burstVars
  <2>3. StreamTypes'
    BY <1>0, <2>1 DEF StreamTypes, Outputs
  <2>4. RetryTypes'
    BY <1>0, <2>1 DEF RetryTypes, Outputs
  <2>5. PublishTypes' /\ OutsideTypes'
    BY <1>0 DEF PublishTypes, OutsideTypes
  <2>6. next_attempt' \in Nat /\ next_discovery' \in Nat
    BY <1>0, <2>2, ConstantsType DEF TimesTypes
  <2>7. DriverTypes' /\ left' \in Nat
    BY <2>2, <2>3, <2>6, SupervisedTypes DEF StreamTypes
  <2>8. TimesTypes'
    BY <1>0, <2>2, <2>6, <2>7 DEF TimesTypes
  <2> QED
    BY <2>3, <2>4, <2>5, <2>7, <2>8, TypePartsNext
<1>2. CASE ProbeSame
  <2>1. next_discovery' = DiscoveryInterval /\ unseen' = 0 /\ Park
    BY <1>2 DEF ProbeSame
  <2> UNCHANGED <<live, lost, follows_default, failures, observed, next_attempt, held, elapsed,
                  stable_in, default, calm, running, token, attached_before, state, unpushed,
                  events, dropper, grace, recent, quiet>>
    BY <1>2 DEF ProbeSame, streamVars, retryVars, hostVars, gameVars, publishVars, dropVars,
       burstVars
  <2>2. StreamTypes' /\ RetryTypes'
    BY <1>0 DEF StreamTypes, RetryTypes
  <2>3. PublishTypes' /\ OutsideTypes'
    BY <1>0 DEF PublishTypes, OutsideTypes
  <2>4. next_attempt' \in Nat /\ next_discovery' \in Nat
    BY <1>0, <2>1, ConstantsType DEF TimesTypes
  <2>5. DriverTypes' /\ left' \in Nat
    BY <1>0, <2>1, <2>4, ParkTypes DEF DriverTypes
  <2>6. TimesTypes'
    BY <1>0, <2>1, <2>4, <2>5 DEF TimesTypes
  <2> QED
    BY <2>2, <2>3, <2>5, <2>6, TypePartsNext
<1>3. CASE ConnectFails
  <2>1. PICK reason \in Failures \cup {"ConnectFailed"} : Failed(reason, failures, recent)
    BY <1>3 DEF ConnectFails
  <2>2. /\ reason \in Reasons /\ recent \in Nat /\ failures \in 0..(AttemptsPerBurst - 1)
        /\ observed' \in Outputs \cup {Unknown}
    BY <1>0, <1>3, ConstantsType DEF ConnectFails, Reasons, RetryTypes, TimesTypes
  <2>3. StreamTypes' /\ stable_in' \in Nat /\ unseen' \in Nat
    BY <1>0, <1>3 DEF ConnectFails, streamVars, StreamTypes, TimesTypes
  <2>4. UNCHANGED <<hostVars, gameVars, elapsed, attached_before, dropVars>>
    BY <1>3 DEF ConnectFails
  <2> QED
    BY <2>1, <2>2, <2>3, <2>4, AttemptTypes
<1> QED
  BY <1>1, <1>2, <1>3

LEMMA BuiltTypes ==
  ASSUME TypeOK, Built \/ Played
  PROVE  TypeOK'
<1>0. StreamTypes /\ DriverTypes /\ RetryTypes /\ PublishTypes /\ OutsideTypes /\ TimesTypes
  BY TypeParts
<1> UNCHANGED <<default, calm, running, token, elapsed, observed, dropper, grace, recent, quiet,
                unseen>>
  BY DEF Built, Played, hostVars, gameVars, dropVars, burstVars
<1>1. OutsideTypes'
  BY <1>0 DEF OutsideTypes
<1>2. CASE Attach
  <2>1. /\ live' = [id |-> held.id, playing |-> held.playing] /\ lost' = FALSE
        /\ follows_default' = FALSE /\ stable_in' = StableAfter /\ attached_before' = TRUE
        /\ next_discovery' = DiscoveryInterval /\ Publish("Ready")
        /\ failures' = failures /\ next_attempt' = next_attempt /\ Park /\ held' = NoCall
    BY <1>2 DEF Attach
  <2>2. StreamTypes' /\ RetryTypes'
    BY <1>0, <2>1 DEF StreamTypes, RetryTypes, DriverTypes
  <2>3. PublishTypes'
    BY <2>1, PublishKeepsTypes DEF States
  <2>4. next_attempt' \in Nat /\ next_discovery' \in Nat /\ stable_in' \in Nat
    BY <1>0, <2>1, ConstantsType DEF TimesTypes
  <2>5. DriverTypes' /\ left' \in Nat
    BY <2>1, <2>4, NoneType, ParkTypes
  <2>6. TimesTypes'
    BY <1>0, <2>4, <2>5 DEF TimesTypes
  <2> QED
    BY <1>1, <2>2, <2>3, <2>5, <2>6, TypePartsNext
<1>3. CASE /\ Call("play")
           /\ UNCHANGED <<streamVars, stable_in, attached_before, next_discovery, publishVars, why,
                          held, failures, next_attempt>>
  <2> UNCHANGED <<live, lost, follows_default, stable_in, attached_before, next_discovery, state,
                  unpushed, events, why, held, failures, next_attempt>>
    BY <1>3 DEF streamVars, publishVars
  <2>1. StreamTypes' /\ RetryTypes' /\ PublishTypes'
    BY <1>0 DEF StreamTypes, RetryTypes, PublishTypes
  <2>2. DriverTypes' /\ left' \in Nat
    BY <1>0, <1>3, ConstantsType DEF Call, DriverTypes, Calls
  <2>3. TimesTypes'
    BY <1>0, <2>2 DEF TimesTypes
  <2> QED
    BY <1>1, <2>1, <2>2, <2>3, TypePartsNext
<1> QED
  BY <1>2, <1>3 DEF Built, Played

LEMMA RefusedTypes ==
  ASSUME TypeOK, ApplyFails \/ PauseRefused
  PROVE  TypeOK'
<1>0. StreamTypes /\ DriverTypes /\ RetryTypes /\ PublishTypes /\ OutsideTypes /\ TimesTypes
  BY TypeParts
<1> UNCHANGED <<default, calm, running, token, elapsed, observed, attached_before, next_discovery,
                dropper, grace, unseen>>
  BY DEF ApplyFails, PauseRefused, hostVars, gameVars, dropVars
<1>1. OutsideTypes'
  BY <1>0 DEF OutsideTypes
<1>2. StreamTypes' /\ stable_in' \in Nat /\ held' = NoCall
  BY DetachTypes DEF ApplyFails, PauseRefused
<1>3. CASE ApplyFails
  <2>1. Publish("StreamLost") /\ Fail(failures) /\ Recorded(recent) /\ Park
    BY <1>3 DEF ApplyFails
  <2>2. PublishTypes'
    BY <2>1, PublishKeepsTypes DEF States, Reasons
  <2>3. RetryTypes' /\ next_attempt' \in Nat /\ recent' \in Nat /\ quiet' \in Nat
    BY <1>0, <2>1, RecentlyFailed DEF RetryTypes
  <2>4. DriverTypes' /\ left' \in Nat
    BY <1>0, <1>2, <2>1, <2>3, NoneType, ParkTypes DEF TimesTypes
  <2>5. TimesTypes'
    BY <1>0, <1>2, <2>3, <2>4 DEF TimesTypes
  <2> QED
    BY <1>1, <1>2, <2>2, <2>3, <2>4, <2>5, TypePartsNext
<1>4. CASE PauseRefused
  <2>1. Query("attempt") \/ Park
    BY <1>4 DEF PauseRefused
  <2>2. next_attempt' = 0
        /\ UNCHANGED <<failures, state, unpushed, events, recent, quiet>>
    BY <1>4 DEF PauseRefused, publishVars, burstVars
  <2>3. RetryTypes' /\ PublishTypes'
    BY <1>0, <2>2 DEF RetryTypes, PublishTypes
  <2>4. DriverTypes' /\ left' \in Nat
    <3>1. CASE Query("attempt")
      BY <1>2, <3>1, NoneType, ConstantsType DEF Query, Call, DriverTypes, Calls
    <3>2. CASE Park
      BY <1>0, <1>2, <2>2, <3>2, NoneType, ParkTypes DEF TimesTypes
    <3> QED
      BY <2>1, <3>1, <3>2
  <2>5. TimesTypes'
    BY <1>0, <1>2, <2>2, <2>4 DEF TimesTypes
  <2> QED
    BY <1>1, <1>2, <2>3, <2>4, <2>5, TypePartsNext
<1> QED
  BY <1>3, <1>4

\* At the bound the oldest event goes; the newest is the state just published.
LEMMA PushedEvent ==
  ASSUME TypeOK, PushEvent
  PROVE  /\ events' \in Seq(States) /\ Len(events') \in 1..MaxPendingEvents
         /\ events'[Len(events')] = unpushed
<1> DEFINE kept == IF Len(events) >= MaxPendingEvents THEN Tail(events) ELSE events
<1>1. /\ events \in Seq(States) /\ Len(events) \in 0..MaxPendingEvents
      /\ MaxPendingEvents \in Nat \ {0} /\ unpushed \in States
  BY TypeParts, ConstantsType DEF PublishTypes, PushEvent
<1>2. kept \in Seq(States) /\ Len(kept) \in 0..(MaxPendingEvents - 1)
  <2>1. CASE Len(events) >= MaxPendingEvents
    <3>1. events # << >>
      BY <1>1, <2>1
    <3>2. Tail(events) \in Seq(States) /\ Len(Tail(events)) = Len(events) - 1
      BY <1>1, <3>1, HeadTailProperties
    <3> QED
      BY <1>1, <2>1, <3>2
  <2>2. CASE ~(Len(events) >= MaxPendingEvents)
    BY <1>1, <2>2
  <2> QED
    BY <2>1, <2>2
<1>3. events' = Append(kept, unpushed)
  BY DEF PushEvent
<1> HIDE DEF kept
<1>4. /\ Append(kept, unpushed) \in Seq(States)
      /\ Len(Append(kept, unpushed)) = Len(kept) + 1
      /\ Append(kept, unpushed)[Len(kept) + 1] = unpushed
  BY <1>1, <1>2, AppendProperties
<1> QED
  BY <1>1, <1>2, <1>3, <1>4

LEMMA PushTypes == ASSUME TypeOK, PushEvent PROVE TypeOK'
<1>0. StreamTypes /\ DriverTypes /\ RetryTypes /\ PublishTypes /\ OutsideTypes /\ TimesTypes
  BY TypeParts
<1> UNCHANGED <<default, calm, live, lost, follows_default, running, token, pc, why, held, elapsed,
                left, stable_in, failures, observed, next_attempt, next_discovery, attached_before,
                state, dropper, grace, recent, quiet, unseen>>
  BY DEF PushEvent, hostVars, streamVars, gameVars, driverVars, timeVars, retryVars, dropVars,
     burstVars
<1>1. StreamTypes' /\ DriverTypes' /\ RetryTypes'
  BY <1>0 DEF StreamTypes, DriverTypes, RetryTypes
<1>2. OutsideTypes' /\ TimesTypes'
  BY <1>0 DEF OutsideTypes, TimesTypes
<1>3. unpushed' = None /\ events' \in Seq(States) /\ Len(events') \in 1..MaxPendingEvents
  BY PushedEvent DEF PushEvent
<1>4. PublishTypes'
  BY <1>0, <1>3, ConstantsType DEF PublishTypes
<1> QED
  BY <1>1, <1>2, <1>4, TypePartsNext

LEMMA NextTypes == TypeOK /\ [Next]_vars => TypeOK'
<1> SUFFICES ASSUME TypeOK, [Next]_vars PROVE TypeOK'
  OBVIOUS
<1>1. CASE UNCHANGED vars
  <2>1. UNCHANGED <<default, calm, live, lost, follows_default, running, token, pc, why, held,
                    elapsed, left, stable_in, failures, observed, next_attempt, next_discovery,
                    attached_before, state, unpushed, events, dropper, grace, recent, quiet, unseen>>
    BY <1>1 DEF vars, hostVars, streamVars, gameVars, driverVars, timeVars, retryVars,
       publishVars, dropVars, burstVars
  <2>2. StreamTypes' /\ DriverTypes' /\ RetryTypes'
    BY <2>1, TypeParts DEF StreamTypes, DriverTypes, RetryTypes
  <2>3. PublishTypes' /\ OutsideTypes' /\ TimesTypes'
    BY <2>1, TypeParts DEF PublishTypes, OutsideTypes, TimesTypes
  <2> QED
    BY <2>2, <2>3, TypePartsNext
<1>2. CASE Driver
  BY <1>2, EndingTypes, SteppingTypes, QueryTypes, CallTypes, BuiltTypes, RefusedTypes, PushTypes
  DEF Driver
<1> QED
  BY <1>1, <1>2, OutsideStepTypes DEF Next

---------------------------------------------------------------------------
(* Calls into the host.                                                    *)

LEMMA NoStreamAgrees ==
  /\ NoStream.id = None /\ None \notin Ids /\ Unknown \notin Ids /\ Error \notin Ids
  /\ NoStream.playing = FALSE
BY IdsAssumption DEF NoStream

\* A stream that has an output's identity is one that is attached.
LEMMA StreamWithIdAttached ==
  ASSUME NEW s, s.id \in Ids
  PROVE  s # NoStream
BY NoStreamAgrees

\* A step that ends in a build, a park, or with what it began, as a call.
LEMMA ParkedAgrees ==
  ASSUME pc' = "asleep", live' # NoStream => live'.id \in Ids /\ live'.id = observed'
  PROVE  CallsAgree'
BY DEF CallsAgree

LEMMA BuildAgrees ==
  ASSUME NEW id \in Ids, NEW n, Connect(id, n), live' = NoStream
  PROVE  CallsAgree'
<1>1. pc' = "build" /\ observed' = id /\ held' = [id |-> id, playing |-> running, started |-> FALSE]
  BY DEF Connect, Call
<1>2. held'.id = id
  BY <1>1
<1> QED
  BY <1>1, <1>2 DEF CallsAgree

LEMMA SuperviseAgrees ==
  ASSUME Supervised, live' # NoStream, live'.id \in Ids, live'.id = observed'
  PROVE  CallsAgree'
<1>1. pc' \in {"apply", "asleep"}
  BY DEF Supervised, Park, Call
<1> QED
  BY <1>1 DEF CallsAgree

LEMMA KeptStream ==
  ASSUME TypeOK, CallsAgree, KeepStream
  PROVE  live # NoStream /\ live' # NoStream /\ live'.id \in Ids /\ live'.id = observed'
<1>1. PICK found \in Answers :
        /\ live' = IF found \in Ids THEN [live EXCEPT !.id = found] ELSE live
        /\ observed' = IF found \in Ids THEN found ELSE observed
  BY DEF KeepStream
<1>2. live # NoStream
  BY DEF KeepStream, Returned, CallsAgree
<1>3. live'.id \in Ids /\ live'.id = observed'
  BY <1>1, <1>2, TypeParts DEF CallsAgree, StreamTypes
<1> QED
  BY <1>2, <1>3, StreamWithIdAttached

LEMMA CallsAgreeKept ==
  ASSUME TypeOK, CallsAgree, [Next]_vars
  PROVE  CallsAgree'
<1> USE DEF hostVars, streamVars, gameVars, driverVars, timeVars, retryVars, publishVars, dropVars,
        burstVars
<1>1. CASE Exit \/ Wake
  BY <1>1 DEF Exit, Wake, Detach, CallsAgree
<1>2. CASE StepLost
  <2>1. live' = NoStream /\ ((pc' = "query" /\ why' = "probe") \/ pc' = "asleep")
    BY <1>2 DEF StepLost, Detach, Query, Call, Park
  <2> QED
    BY <2>1 DEF CallsAgree, None
<1>3. CASE StepLive
  <2>1. live # NoStream /\ UNCHANGED <<live, observed>>
        /\ (Query("supervise") \/ Supervised)
    BY <1>3 DEF StepLive
  <2>2. CASE Query("supervise")
    BY <2>1, <2>2 DEF Query, Call, CallsAgree, None
  <2> QED
    BY <2>1, <2>2, SuperviseAgrees DEF CallsAgree
<1>4. CASE StepDetached
  <2>1. live' = NoStream /\ next_attempt' = next_attempt
        /\ \/ next_attempt = 0 /\ pc' = "query" /\ why' = "attempt"
           \/ pc' = "query" /\ why' = "probe"
           \/ pc' = "asleep"
    BY <1>4 DEF StepDetached, Query, Call, Park
  <2> QED
    BY <2>1 DEF CallsAgree, None
<1>5. CASE KeepStream
  BY <1>5, KeptStream, SuperviseAgrees DEF KeepStream
<1>6. CASE ReplaceStream \/ TryDefault \/ ProbeChanged
  <2>1. live' = NoStream
    BY <1>6 DEF ReplaceStream, TryDefault, ProbeChanged, Returned, CallsAgree, Detach
  <2>2. CASE \E n : FindNone(n) \/ FindError
    BY <2>1, <2>2, ParkedAgrees DEF FindNone, FindError, Failed, Park
  <2>3. CASE \E id \in Ids, n \in {0, failures} : Connect(id, n)
    BY <2>1, <2>3, BuildAgrees
  <2>4. default \in Ids \cup {None}
    BY TypeParts DEF OutsideTypes, Outputs
  <2> QED
    BY <1>6, <2>2, <2>3, <2>4 DEF ReplaceStream, TryDefault, ProbeChanged
<1>7. CASE ProbeSame \/ Rebuild \/ ConnectFails
  BY <1>7, ParkedAgrees DEF ProbeSame, Rebuild, ConnectFails, Failed, Park, CallsAgree
<1>8. CASE Built \/ Played
  <2>1. CASE Attach
    <3>1. live' = [id |-> held.id, playing |-> held.playing] /\ pc' = "asleep"
      BY <2>1 DEF Attach, Park
    <3>2. held.id \in Ids /\ held.id = observed /\ observed' = observed
      BY <1>8 DEF Built, Played, Returned, CallsAgree
    <3>3. live'.id = held.id
      BY <3>1
    <3> QED
      BY <3>1, <3>2, <3>3, ParkedAgrees
  <2>2. CASE ~Attach
    <3>1. pc = "build" /\ pc' = "play" /\ UNCHANGED <<live, observed, held>>
      BY <1>8, <2>2 DEF Built, Played, Call, Returned
    <3> QED
      BY <3>1 DEF CallsAgree
  <2> QED
    BY <2>1, <2>2
<1>9. CASE Applied
  <2>1. pc' = "asleep" /\ live' = [live EXCEPT !.playing = held.playing] /\ observed' = observed
    BY <1>9 DEF Applied, Park
  <2>2. live # NoStream
    BY <1>9 DEF Applied, Returned, CallsAgree
  <2>3. live'.id = live.id
    BY <2>1, TypeParts DEF StreamTypes
  <2> QED
    BY <2>1, <2>2, <2>3, ParkedAgrees DEF CallsAgree
<1>10. CASE ApplyFails \/ PauseRefused
  <2>1. live' = NoStream /\ \/ pc' = "asleep"
                            \/ pc' = "query" /\ why' = "attempt" /\ next_attempt' = 0
    BY <1>10 DEF ApplyFails, PauseRefused, Detach, Query, Call, Park
  <2> QED
    BY <2>1 DEF CallsAgree, None
<1>11. CASE PushEvent
  BY <1>11 DEF PushEvent, CallsAgree
<1>12. CASE Game
  <2>1. UNCHANGED <<live, observed, pc, why, next_attempt>>
    BY <1>12 DEF Game, SetRunning, Poll, AskToStop, WakeToStop, Join, GiveUp, quietForGame
  <2>2. held'.id = held.id
    BY <1>12, TypeParts
    DEF Game, SetRunning, Poll, AskToStop, WakeToStop, Join, GiveUp, quietForGame, DriverTypes
  <2> QED
    BY <2>1, <2>2 DEF CallsAgree
<1>13. CASE Host
  BY <1>13 DEF Host, ChangeDefault, StreamDies, StreamFollows, Settle, quietForHost, CallsAgree
<1>14. CASE Tick
  <2>1. UNCHANGED <<live, observed, pc, why, held>>
        /\ next_attempt' = Monus(next_attempt, 1)
    BY <1>14 DEF Tick
  <2>2. next_attempt = 0 => next_attempt' = 0
    BY <2>1 DEF Monus
  <2> QED
    BY <2>1, <2>2 DEF CallsAgree
<1>15. CASE UNCHANGED vars
  BY <1>15 DEF vars, CallsAgree
<1> QED
  BY <1>1, <1>2, <1>3, <1>4, <1>5, <1>6, <1>7, <1>8, <1>9, <1>10, <1>11, <1>12, <1>13, <1>14, <1>15
  DEF Next, Driver

---------------------------------------------------------------------------
(* What the game is told.                                                  *)

\* A publication, and the state it publishes.
LEMMA PublishTrue ==
  ASSUME StateTrue, unpushed = None, NEW s \in States, Publish(s),
         live' # NoStream => s = "Ready", s = "Ready" => live' # NoStream
  PROVE  StateTrue'
<1>1. s # None
  BY DEF States, Reasons, None
<1> QED
  BY <1>1 DEF StateTrue, Publish, NewestEventKept

\* A step that publishes nothing.
LEMMA SilentTrue ==
  ASSUME StateTrue, UNCHANGED <<state, unpushed, events>>,
         live' # NoStream => live # NoStream,
         live' = NoStream /\ pc' # "exited" =>
           next_attempt' = 0 \/ (live = NoStream /\ pc # "exited" /\ next_attempt' = next_attempt)
  PROVE  StateTrue'
BY DEF StateTrue, NewestEventKept

LEMMA PollKeepsNewest ==
  ASSUME TypeOK, StateTrue, Poll
  PROVE  StateTrue'
<1> UNCHANGED <<live, state, unpushed, next_attempt, pc>>
  BY DEF Poll, quietForGame, streamVars, retryVars, timeVars
<1>1. events \in Seq(States) /\ events # << >> /\ events' = Tail(events)
  BY TypeParts DEF PublishTypes, Poll
<1>2. /\ Len(events') = Len(events) - 1 /\ Len(events) \in Nat /\ events' \in Seq(States)
      /\ \A i \in 1..Len(events') : events'[i] = events[i + 1]
  BY <1>1, HeadTailProperties
<1>3. ASSUME events' # << >>
      PROVE  events'[Len(events')] = events[Len(events)]
  <2>1. Len(events') \in 1..Len(events')
    BY <1>2, <1>3
  <2> QED
    BY <1>2, <2>1
<1> QED
  BY <1>1, <1>3 DEF StateTrue, NewestEventKept

LEMMA StateTrueKept ==
  ASSUME TypeOK, CallsAgree, StateTrue, [Next]_vars
  PROVE  StateTrue'
<1> USE DEF hostVars, streamVars, gameVars, driverVars, timeVars, retryVars, publishVars, dropVars,
        burstVars
<1>0. "Ready" \notin Reasons /\ Failures \subseteq Reasons
      /\ {"NoOutput", "DefaultChanged", "StreamLost", "ConnectFailed"} \subseteq Reasons
  BY ConstantsType DEF Reasons
<1>1. CASE Exit \/ Wake
  BY <1>1, SilentTrue DEF Exit, Wake, Detach
<1>2. CASE StepLost \/ ApplyFails
  <2>1. live' = NoStream /\ Publish("StreamLost") /\ unpushed = None
    BY <1>2 DEF StepLost, ApplyFails, Detach, Stepping, Returned, DriverCanStep
  <2> QED
    BY <1>0, <2>1, PublishTrue DEF States
<1>3. CASE StepLive
  BY <1>3, SilentTrue DEF StepLive
<1>4. CASE StepDetached \/ ProbeSame
  <2>1. UNCHANGED <<state, unpushed, events, live, next_attempt>> /\ live = NoStream
        /\ pc # "exited"
    BY <1>4 DEF StepDetached, ProbeSame, Stepping, Returned, CallsAgree
  <2> QED
    BY <2>1, SilentTrue
<1>5. CASE KeepStream
  BY <1>5, KeptStream, SilentTrue DEF KeepStream
<1>6. CASE ReplaceStream \/ TryDefault \/ ProbeChanged \/ ConnectFails
  <2>1. live' = NoStream /\ unpushed = None /\ pc # "exited"
    BY <1>6 DEF ReplaceStream, TryDefault, ProbeChanged, ConnectFails, Returned, DriverCanStep,
       CallsAgree, Detach
  <2>2. CASE \E reason \in Reasons : \E n, r : Failed(reason, n, r)
    <3>1. PICK reason \in Reasons : Publish(reason)
      BY <2>2 DEF Failed
    <3> QED
      BY <1>0, <2>1, <3>1, PublishTrue DEF States
  <2>3. CASE Publish("DefaultChanged")
    BY <1>0, <2>1, <2>3, PublishTrue DEF States
  <2>4. CASE live = NoStream /\ next_attempt' = next_attempt /\ UNCHANGED publishVars
    BY <2>1, <2>4, SilentTrue
  <2>5. ASSUME NEW n, FindNone(n) PROVE \E reason \in Reasons : \E k, r : Failed(reason, k, r)
    BY <1>0, <2>5 DEF FindNone
  <2>6. FindError => \E reason \in Reasons : \E k, r : Failed(reason, k, r)
    BY <1>0 DEF FindError
  <2>7. CASE ConnectFails
    BY <1>0, <2>2, <2>7 DEF ConnectFails
  <2>8. CASE ReplaceStream
    BY <2>2, <2>3, <2>5, <2>8 DEF ReplaceStream
  <2>9. CASE TryDefault
    BY <2>2, <2>4, <2>5, <2>6, <2>9 DEF TryDefault, Connect, Returned, CallsAgree
  <2>10. CASE ProbeChanged
    BY <2>2, <2>4, <2>5, <2>10 DEF ProbeChanged, Connect, Returned, CallsAgree
  <2> QED
    BY <1>6, <2>7, <2>8, <2>9, <2>10
<1>7. CASE Built \/ Played
  <2>1. held.id \in Ids /\ live = NoStream /\ unpushed = None /\ pc # "exited"
    BY <1>7 DEF Built, Played, Returned, DriverCanStep, CallsAgree
  <2>2. CASE Attach
    <3>1. live' = [id |-> held.id, playing |-> held.playing] /\ Publish("Ready")
      BY <2>2 DEF Attach
    <3>2. live'.id \in Ids
      BY <2>1, <3>1
    <3> QED
      BY <2>1, <3>1, <3>2, StreamWithIdAttached, PublishTrue DEF States
  <2>3. CASE UNCHANGED <<live, state, unpushed, events, next_attempt>>
    BY <2>1, <2>3, SilentTrue
  <2> QED
    BY <1>7, <2>2, <2>3 DEF Built, Played
<1>8. CASE Applied
  <2>1. live # NoStream /\ live' = [live EXCEPT !.playing = held.playing]
        /\ UNCHANGED <<state, unpushed, events>>
    BY <1>8 DEF Applied, Returned, CallsAgree
  <2>2. live'.id = live.id /\ live.id \in Ids
    BY <2>1, TypeParts DEF StreamTypes, CallsAgree
  <2> QED
    BY <2>1, <2>2, StreamWithIdAttached, SilentTrue
<1>9. CASE Rebuild \/ PauseRefused
  <2>1. live' = NoStream /\ next_attempt' = 0 /\ UNCHANGED <<state, unpushed, events>>
    BY <1>9 DEF Rebuild, PauseRefused, Detach, Returned, CallsAgree
  <2> QED
    BY <2>1 DEF StateTrue, NewestEventKept
<1>10. CASE PushEvent
  <2>1. events'[Len(events')] = unpushed /\ unpushed # None /\ unpushed' = None
        /\ UNCHANGED <<live, state, pc, next_attempt>>
    BY <1>10, PushedEvent DEF PushEvent
  <2> QED
    BY <2>1 DEF StateTrue, NewestEventKept
<1>11. CASE Game
  <2>1. CASE Poll
    BY <2>1, PollKeepsNewest
  <2>2. CASE ~Poll
    BY <1>11, <2>2
    DEF Game, SetRunning, AskToStop, WakeToStop, Join, GiveUp, quietForGame, StateTrue,
        NewestEventKept
  <2> QED
    BY <2>1, <2>2
<1>12. CASE Host \/ UNCHANGED vars
  BY <1>12 DEF Host, ChangeDefault, StreamDies, StreamFollows, Settle, quietForHost, vars,
     StateTrue, NewestEventKept
<1>13. CASE Tick
  <2>1. UNCHANGED <<live, state, unpushed, events, pc>> /\ next_attempt' = Monus(next_attempt, 1)
    BY <1>13 DEF Tick
  <2>2. next_attempt = 0 => next_attempt' = 0
    BY <2>1 DEF Monus
  <2> QED
    BY <2>1, <2>2 DEF StateTrue, NewestEventKept
<1> QED
  BY <1>1, <1>2, <1>3, <1>4, <1>5, <1>6, <1>7, <1>8, <1>9, <1>10, <1>11, <1>12, <1>13
  DEF Next, Driver

---------------------------------------------------------------------------
(* The failures of a burst.                                                *)

\* A failure is counted, or it spends the burst.
LEMMA FailCounted ==
  ASSUME NEW n \in 0..(AttemptsPerBurst - 1), NEW r \in Nat, r <= n,
         Fail(n), Recorded(r), live' = NoStream, pc' \notin {"build", "play", "apply"}
  PROVE  BurstCounted'
<1>1. AttemptsPerBurst \in Nat /\ Cooldown \in Nat \ {0}
  BY ConstantsType
<1>2. recent' = r + 1 /\ quiet' = 0
  BY <1>1 DEF Recorded, Least
<1>3. CASE n + 1 < AttemptsPerBurst
  <2>1. failures' = n + 1
    BY <1>3 DEF Fail
  <2> QED
    BY <1>1, <1>2, <2>1 DEF BurstCounted
<1>4. CASE ~(n + 1 < AttemptsPerBurst)
  <2>1. next_attempt' = Cooldown
    BY <1>4 DEF Fail
  <2>2. Spent'
    BY <1>1, <1>2, <1>4, <2>1 DEF Spent
  <2> QED
    BY <1>1, <1>2, <2>2 DEF BurstCounted
<1> QED
  BY <1>3, <1>4

\* A discovery goes on to a build: of a default not observed before, on a fresh
\* count, or of the same with the failures counted so far.
LEMMA ConnectCounted ==
  ASSUME TypeOK, BurstCounted, NEW id, NEW n \in 0..(AttemptsPerBurst - 1), Connect(id, n),
         live' = NoStream, observed # id \/ recent <= n
  PROVE  BurstCounted'
<1>1. Cooldown \in Nat \ {0} /\ recent \in Nat /\ quiet \in Nat /\ quiet < Cooldown
  BY ConstantsType, TimesType DEF BurstCounted
<1>2. CASE observed # id
  BY <1>1, <1>2, ConnectTypes, ConstantsType DEF Connect, BurstCounted
<1>3. CASE observed = id
  <2>1. failures' = n /\ recent' = recent /\ quiet' = quiet
    BY <1>3 DEF Connect, IsFresh
  <2> QED
    BY <1>1, <1>3, <2>1 DEF BurstCounted
<1> QED
  BY <1>2, <1>3

\* A discovery that fails an attempt.
LEMMA FindNoneCounted ==
  ASSUME TypeOK, NEW n \in 0..(AttemptsPerBurst - 1), FindNone(n), live' = NoStream,
         observed # None \/ recent <= n
  PROVE  BurstCounted'
<1>1. recent \in Nat /\ 0 \in 0..(AttemptsPerBurst - 1)
  BY TimesType, ConstantsType
<1>2. pc' = "asleep"
  BY DEF FindNone, Failed, Park
<1>3. CASE observed # None
  <2>1. \E k \in {0, n} : Fail(k) /\ Recorded(0)
    BY <1>3 DEF FindNone, Failed
  <2> QED
    BY <1>1, <1>2, <2>1, FailCounted
<1>4. CASE observed = None
  <2>1. Fail(n) /\ Recorded(recent)
    BY <1>4 DEF FindNone, Failed, IsFresh
  <2> QED
    BY <1>1, <1>2, <1>4, <2>1, FailCounted
<1> QED
  BY <1>3, <1>4

\* A step that counts no failure and forgets none.
LEMMA SameCount ==
  ASSUME BurstCounted, UNCHANGED <<recent, quiet, failures, next_attempt, live, stable_in>>,
         pc' \in {"build", "play", "apply"} => recent <= failures
  PROVE  BurstCounted'
BY DEF BurstCounted, Spent

LEMMA TickCounted ==
  ASSUME TypeOK, BurstCounted, Tick
  PROVE  BurstCounted'
<1> DEFINE over == (live # NoStream /\ stable_in <= 1) \/ quiet + 1 >= Cooldown
<1>1. /\ recent' = IF over THEN 0 ELSE recent
      /\ quiet' = IF over \/ recent = 0 THEN 0 ELSE quiet + 1
      /\ next_attempt' = Monus(next_attempt, 1) /\ stable_in' = Monus(stable_in, 1)
      /\ UNCHANGED <<failures, live, pc>>
  BY DEF Tick, streamVars, driverVars
<1>2. Cooldown \in Nat \ {0} /\ recent \in Nat /\ quiet \in Nat /\ next_attempt \in Nat
      /\ stable_in \in Nat /\ failures \in Nat
  BY ConstantsType, TimesType, TypeParts DEF RetryTypes
<1>3. CASE over
  <2>1. recent' = 0 /\ quiet' = 0
    BY <1>1, <1>3
  <2> QED
    BY <1>1, <1>2, <2>1 DEF BurstCounted
<1>4. CASE ~over
  <2>1. recent' = recent /\ quiet' < Cooldown /\ (recent # 0 => quiet' = quiet + 1)
    BY <1>1, <1>2, <1>4
  <2>2. live' # NoStream /\ stable_in' = 0 => recent' = 0
    BY <1>1, <1>2, <1>4 DEF Monus
  <2>3. recent' <= failures' \/ Spent'
    BY <1>1, <1>2, <2>1 DEF BurstCounted, Spent, Monus
  <2> QED
    BY <2>1, <2>2, <2>3 DEF BurstCounted
<1> QED
  BY <1>3, <1>4

LEMMA BurstCountedKept ==
  ASSUME TypeOK, CallsAgree, BurstCounted, [Next]_vars
  PROVE  BurstCounted'
<1> USE DEF hostVars, streamVars, gameVars, driverVars, timeVars, retryVars, publishVars, dropVars,
        burstVars
<1>0. /\ failures \in 0..(AttemptsPerBurst - 1) /\ 0 \in 0..(AttemptsPerBurst - 1)
      /\ recent \in Nat /\ quiet \in Nat /\ next_attempt \in Nat
      /\ AttemptsPerBurst \in Nat /\ Cooldown \in Nat \ {0}
  BY TypeParts, ConstantsType, TimesType DEF RetryTypes
\* With a stream, in a connection or in an attempt no burst is spent.
<1>a. live # NoStream \/ pc \in {"build", "play", "apply"} \/ (pc = "query" /\ why = "attempt")
      => recent <= failures
  BY <1>0 DEF BurstCounted, Spent, CallsAgree
<1>1. CASE Exit
  <2>1. live' = NoStream /\ pc' = "exited" /\ UNCHANGED <<recent, quiet, failures, next_attempt>>
    BY <1>1 DEF Exit, Detach
  <2> QED
    BY <2>1, <1>0 DEF BurstCounted, Spent
<1>2. CASE StepLost \/ ApplyFails
  <2>1. live' = NoStream /\ Fail(failures) /\ Recorded(recent) /\ live # NoStream
        /\ pc' \in {"query", "asleep"}
    BY <1>2 DEF StepLost, ApplyFails, Detach, Query, Call, Park, CallsAgree, Returned
  <2> QED
    BY <1>0, <1>a, <2>1, FailCounted
<1>3. CASE StepLive
  <2>1. UNCHANGED <<recent, quiet, live, stable_in>> /\ live # NoStream
        /\ failures' = IF stable_in = 0 THEN 0 ELSE failures
    BY <1>3 DEF StepLive
  <2>2. recent' <= failures'
    BY <1>a, <2>1, <1>0 DEF BurstCounted
  <2> QED
    BY <2>1, <2>2 DEF BurstCounted
<1>4. CASE StepDetached \/ ProbeSame
  <2>1. UNCHANGED <<recent, quiet, failures, next_attempt, live, stable_in>>
        /\ pc' \notin {"build", "play", "apply"}
    BY <1>4 DEF StepDetached, ProbeSame, Query, Call, Park
  <2> QED
    BY <2>1, SameCount
<1>5. CASE KeepStream
  <2>1. UNCHANGED <<recent, quiet, failures, stable_in>> /\ live # NoStream
    BY <1>5, KeptStream DEF KeepStream
  <2> QED
    BY <1>a, <2>1 DEF BurstCounted
<1>6. CASE ReplaceStream
  <2>1. live' = NoStream /\ live # NoStream /\ default # observed
    BY <1>6 DEF ReplaceStream, Detach, Returned, CallsAgree
  <2> QED
    BY <1>0, <1>6, <2>1, FindNoneCounted, ConnectCounted DEF ReplaceStream
<1>7. CASE TryDefault
  <2>1. live' = NoStream /\ recent <= failures
    BY <1>7, <1>a DEF TryDefault, Returned, CallsAgree
  <2>2. CASE FindError
    <3>1. Fail(failures) /\ Recorded(recent) /\ pc' = "asleep"
      BY <2>2 DEF FindError, Failed, Park
    <3> QED
      BY <1>0, <2>1, <3>1, FailCounted
  <2> QED
    BY <1>0, <1>7, <2>1, <2>2, FindNoneCounted, ConnectCounted DEF TryDefault
<1>8. CASE ProbeChanged
  <2>1. live' = NoStream /\ default # observed
    BY <1>8 DEF ProbeChanged, Returned, CallsAgree
  <2>2. default = None \/ default \in Ids
    BY TypeParts DEF OutsideTypes, Outputs
  <2> QED
    BY <1>0, <1>8, <2>1, <2>2, FindNoneCounted, ConnectCounted DEF ProbeChanged
<1>9. CASE ConnectFails
  <2>1. Fail(failures) /\ Recorded(recent) /\ pc' = "asleep" /\ live' = NoStream
        /\ recent <= failures
    BY <1>9, <1>a DEF ConnectFails, Failed, Park, Returned, CallsAgree
  <2> QED
    BY <1>0, <2>1, FailCounted
<1>10. CASE Built \/ Played
  <2>1. recent' <= failures' /\ quiet' = quiet
    BY <1>10, <1>a DEF Built, Played, Attach, Returned
  <2>2. live' # NoStream => stable_in' # 0
    BY <1>10, ConstantsType DEF Built, Played, Attach, Returned, CallsAgree
  <2> QED
    BY <2>1, <2>2 DEF BurstCounted
<1>11. CASE Rebuild \/ Applied \/ PauseRefused
  <2>1. UNCHANGED <<recent, quiet, failures>> /\ recent <= failures
    BY <1>11, <1>a DEF Rebuild, Applied, PauseRefused, Returned
  <2>2. Rebuild \/ PauseRefused => live' = NoStream
    BY DEF Rebuild, PauseRefused, Returned, CallsAgree, Detach
  <2>3. Applied => live # NoStream /\ stable_in' = stable_in
    BY DEF Applied, Returned, CallsAgree
  <2> QED
    BY <1>11, <2>1, <2>2, <2>3 DEF BurstCounted
<1>12. CASE PushEvent \/ Wake \/ Game \/ Host \/ UNCHANGED vars
  <2>1. UNCHANGED <<recent, quiet, failures, next_attempt, live, stable_in>>
        /\ (pc' = pc \/ pc' = "loop")
    BY <1>12 DEF PushEvent, Wake, Game, SetRunning, Poll, AskToStop, WakeToStop, Join, GiveUp,
       quietForGame, Host, ChangeDefault, StreamDies, StreamFollows, Settle, quietForHost, vars
  <2> QED
    BY <1>a, <2>1, SameCount
<1> QED
  BY <1>1, <1>2, <1>3, <1>4, <1>5, <1>6, <1>7, <1>8, <1>9, <1>10, <1>11, <1>12, TickCounted
  DEF Next, Driver

---------------------------------------------------------------------------
(* How long another default goes unseen.                                   *)

LEMMA BoundsType ==
  /\ Due \in Nat /\ Polled \in Nat /\ MaxBlock \in Nat
  /\ DiscoveryInterval \in Nat \ {0} /\ HealthPoll \in Nat \ {0}
  /\ Due = DiscoveryInterval + 2 * MaxBlock /\ Polled = Due + MaxBlock + HealthPoll - 1
BY ConstantsType DEF Due, Polled

\* A step that ends in a park without a stream, soon enough for the discovery due.
LEMMA ParkInTime ==
  ASSUME TypeOK, Park, live' = NoStream, next_attempt' \in Nat,
         NEW n \in 0..DiscoveryInterval, next_discovery' = n,
         NEW u \in Nat, unseen' = u, u <= Due + MaxBlock, n > 0 => u + n <= Due
  PROVE  InTime'
<1>1. pc' = "asleep" /\ left' = Least(next_attempt', n) /\ n \in Nat
  BY BoundsType DEF Park
<1>2. left' \in Nat /\ left' <= n
  BY <1>1, LeastType
<1>3. ASSUME NEW l \in Nat, l <= n, NEW e
      PROVE  InTimeWhen("asleep", NoStream, e, n, l, u)
  BY <1>1, <1>3, BoundsType DEF InTimeWhen, Calls
<1> QED
  BY <1>1, <1>2, <1>3 DEF InTime

\* A park with a stream lasts no longer than a health poll.
LEMMA PollInTime ==
  ASSUME TypeOK, Park, live' # NoStream,
         NEW n \in 1..DiscoveryInterval, next_discovery' = n,
         NEW u \in Nat, unseen' = u, u + n <= Due
  PROVE  InTime'
<1>1. pc' = "asleep" /\ left' \in Nat /\ left' <= HealthPoll
  BY MonusType, BoundsType, TimesType DEF Park
<1>2. ASSUME NEW l \in Nat, l <= HealthPoll, NEW e, NEW s, s # NoStream
      PROVE  InTimeWhen("asleep", s, e, n, l, u)
  BY <1>2, BoundsType DEF InTimeWhen, Calls
<1> QED
  BY <1>1, <1>2 DEF InTime

LEMMA SuperviseInTime ==
  ASSUME TypeOK, Supervised, live' # NoStream,
         NEW n \in 1..DiscoveryInterval, next_discovery' = n,
         NEW u \in Nat, unseen' = u, u + n <= Due
  PROVE  InTime'
<1>1. CASE Park
  BY <1>1, PollInTime
<1>2. CASE Call("apply")
  <2>1. pc' = "apply" /\ left' = MaxBlock
    BY <1>2 DEF Call
  <2>2. ASSUME NEW e, NEW s
        PROVE  InTimeWhen("apply", s, e, n, MaxBlock, u)
    BY BoundsType DEF InTimeWhen, Calls
  <2> QED
    BY <2>1, <2>2 DEF InTime
<1> QED
  BY <1>1, <1>2 DEF Supervised

LEMMA QueryInTime ==
  ASSUME pc' = "query", left' = MaxBlock,
         NEW n \in 0..DiscoveryInterval, next_discovery' = n,
         NEW u \in Nat, unseen' = u, u <= Polled
  PROVE  InTime'
<1>1. ASSUME NEW e, NEW s
      PROVE  InTimeWhen("query", s, e, n, MaxBlock, u)
  BY BoundsType DEF InTimeWhen, Calls
<1> QED
  BY <1>1 DEF InTime

\* A build begins with the default just seen; a failure is noted once it has been.
LEMMA ConnectInTime ==
  ASSUME TypeOK, NEW id, NEW n, Connect(id, n), unseen' = 0
  PROVE  InTime'
<1>1. pc' = "build" /\ left' = MaxBlock
      /\ next_discovery' = Monus(DiscoveryInterval, elapsed)
  BY DEF Connect, Call
<1>2. next_discovery' \in Nat /\ next_discovery' <= DiscoveryInterval
  BY <1>1, MonusType, BoundsType, TimesType
<1>3. ASSUME NEW k \in Nat, k <= DiscoveryInterval, NEW e, NEW s
      PROVE  InTimeWhen("build", s, e, k, MaxBlock, 0)
  BY <1>3, BoundsType DEF InTimeWhen, Calls
<1> QED
  BY <1>1, <1>2, <1>3 DEF InTime

LEMMA FailedInTime ==
  ASSUME TypeOK, NEW reason, NEW n \in 0..(AttemptsPerBurst - 1), NEW r, Failed(reason, n, r),
         live' = NoStream, NEW u \in Nat, unseen' = u, u <= 2 * MaxBlock
  PROVE  InTime'
<1>1. Park /\ next_discovery' = DiscoveryInterval /\ next_attempt' \in Nat
  BY FailType DEF Failed
<1>2. DiscoveryInterval \in 0..DiscoveryInterval /\ u <= Due + MaxBlock
      /\ u + DiscoveryInterval <= Due
  BY BoundsType
<1> QED
  BY <1>1, <1>2, ParkInTime

LEMMA AttachInTime ==
  ASSUME TypeOK, CallsAgree, InTime, Built \/ Played
  PROVE  InTime'
<1>0. unseen \in Nat /\ left \in Nat /\ next_discovery \in Nat /\ unseen' = unseen
  BY TimesType DEF Built, Played
<1>1. unseen <= 2 * MaxBlock /\ (pc = "build" => unseen <= MaxBlock)
      /\ next_discovery <= DiscoveryInterval
  BY <1>0, BoundsType DEF Built, Played, Returned, InTime, InTimeWhen
<1>2. CASE Attach
  <2>1. live' = [id |-> held.id, playing |-> held.playing] /\ Park
        /\ next_discovery' = DiscoveryInterval
    BY <1>2 DEF Attach
  <2>2. held.id \in Ids
    BY DEF Built, Played, Returned, CallsAgree
  <2>3. live'.id \in Ids
    BY <2>1, <2>2
  <2>4. live' # NoStream
    BY <2>3, StreamWithIdAttached
  <2>5. DiscoveryInterval \in 1..DiscoveryInterval /\ unseen + DiscoveryInterval <= Due
    BY <1>0, <1>1, BoundsType
  <2> QED
    BY <1>0, <2>1, <2>4, <2>5, PollInTime
<1>3. CASE ~Attach
  <2>1. pc = "build" /\ pc' = "play" /\ left' = MaxBlock /\ next_discovery' = next_discovery
    BY <1>3 DEF Built, Played, Returned, Call
  <2>2. ASSUME NEW e, NEW s
        PROVE  InTimeWhen("play", s, e, next_discovery, MaxBlock, unseen)
    BY <1>0, <1>1, <2>1, BoundsType DEF InTimeWhen, Calls
  <2> QED
    BY <1>0, <2>1, <2>2 DEF InTime
<1> QED
  BY <1>2, <1>3

\* A tick brings a discovery nearer by as much as it keeps a default unseen.
LEMMA TickInTime ==
  ASSUME TypeOK, CallsAgree, InTime, Tick
  PROVE  InTime'
<1>1. /\ left > 0 /\ left' = left - 1 /\ unseen' \in {0, unseen + 1}
      /\ next_discovery' = Monus(next_discovery, 1) /\ elapsed' \in Nat
  BY TickTimes
<1>2. UNCHANGED <<pc, live>> /\ pc \in Calls \cup {"asleep"}
  BY DEF Tick, Idle, streamVars, driverVars
<1>3. left \in Nat /\ unseen \in Nat /\ next_discovery \in Nat /\ elapsed \in Nat
  BY TimesType
<1>4. pc = "apply" => elapsed' > 0
  BY <1>3, BoundsType DEF Tick, Least
<1>5. next_discovery' \in Nat /\ (next_discovery = 0 => next_discovery' = 0)
      /\ (next_discovery > 0 => next_discovery' = next_discovery - 1)
  BY <1>1, <1>3 DEF Monus
<1>6. ASSUME NEW u \in Nat, u <= unseen + 1, NEW e \in Nat, pc = "apply" => e > 0,
             NEW n \in Nat, next_discovery = 0 => n = 0,
             next_discovery > 0 => n = next_discovery - 1
      PROVE  InTimeWhen(pc, live, e, n, left - 1, u)
  <2>1. InTimeWhen(pc, live, elapsed, next_discovery, left, unseen)
    BY DEF InTime
  <2>2. CASE pc = "build" \/ pc = "play" \/ pc = "query"
    BY <1>1, <1>3, <1>6, <2>1, <2>2, BoundsType DEF InTimeWhen, Calls
  <2>3. CASE pc = "apply"
    BY <1>1, <1>3, <1>6, <2>1, <2>3, BoundsType DEF InTimeWhen, Calls
  <2>4. CASE pc = "asleep"
    BY <1>1, <1>3, <1>6, <2>1, <2>4, BoundsType DEF InTimeWhen, Calls
  <2> QED
    BY <1>2, <2>2, <2>3, <2>4 DEF Calls
<1>7. unseen' \in Nat /\ unseen' <= unseen + 1
  BY <1>1, <1>3
<1> QED
  BY <1>1, <1>2, <1>4, <1>5, <1>6, <1>7 DEF InTime

\* The end of an apply: what a call begun after its discovery was due has used up
\* of the health poll is not slept again.
LEMMA AppliedInTime ==
  ASSUME TypeOK, CallsAgree, InTime, Applied \/ ApplyFails \/ PauseRefused
  PROVE  InTime'
<1>0. unseen \in Nat /\ left \in Nat /\ next_discovery \in Nat /\ elapsed \in Nat
      /\ UNCHANGED <<unseen, next_discovery>>
  BY TimesType DEF Applied, ApplyFails, PauseRefused
<1>1. /\ pc = "apply" /\ live # NoStream
      /\ next_discovery \in 0..DiscoveryInterval
      /\ next_discovery > 0 => unseen + next_discovery <= Due
      /\ next_discovery = 0 => elapsed > 0
      /\ unseen <= Due + MaxBlock
  BY <1>0, BoundsType DEF Applied, ApplyFails, PauseRefused, Returned, CallsAgree, InTime, InTimeWhen
<1>2. CASE Applied
  <2>1. live' = [live EXCEPT !.playing = held.playing] /\ Park
    BY <1>2 DEF Applied
  <2>2. live'.id \in Ids
    BY <1>1, <2>1, TypeParts DEF StreamTypes, CallsAgree
  <2>3. live' # NoStream
    BY <2>2, StreamWithIdAttached
  <2>4. CASE next_discovery > 0
    <3>1. next_discovery \in 1..DiscoveryInterval
      BY <1>0, <1>1, <2>4
    <3> QED
      BY <1>0, <1>1, <2>1, <2>3, <2>4, <3>1, PollInTime
  <2>5. CASE next_discovery = 0
    <3>1. pc' = "asleep" /\ left' = Monus(HealthPoll, elapsed)
      BY <2>1, <2>3 DEF Park
    <3>2. left' \in Nat /\ left' <= HealthPoll - 1
      BY <1>0, <1>1, <2>5, <3>1, BoundsType DEF Monus
    <3>3. ASSUME NEW l \in Nat, l <= HealthPoll - 1, NEW e, NEW s, s # NoStream
          PROVE  InTimeWhen("asleep", s, e, next_discovery, l, unseen)
      BY <1>0, <1>1, <2>5, <3>3, BoundsType DEF InTimeWhen, Calls
    <3> QED
      BY <1>0, <2>3, <3>1, <3>2, <3>3 DEF InTime
  <2> QED
    BY <1>0, <2>4, <2>5
<1>3. CASE ApplyFails
  <2>1. live' = NoStream /\ Park /\ Fail(failures)
    BY <1>3 DEF ApplyFails, Detach
  <2>2. next_attempt' \in Nat
    BY <2>1, FailType, TypeParts DEF RetryTypes
  <2> QED
    BY <1>0, <1>1, <2>1, <2>2, ParkInTime
<1>4. CASE PauseRefused
  <2>1. /\ live' = NoStream /\ next_attempt' = 0
        /\ \/ elapsed = 0 /\ pc' = "query" /\ left' = MaxBlock
           \/ Park
    BY <1>4 DEF PauseRefused, Detach, Query, Call
  <2>2. CASE Park
    BY <1>0, <1>1, <2>1, <2>2, ParkInTime
  <2>3. CASE elapsed = 0 /\ pc' = "query" /\ left' = MaxBlock
    <3>1. unseen <= Polled
      BY <1>0, <1>1, <2>3, BoundsType
    <3> QED
      BY <1>0, <1>1, <2>3, <3>1, QueryInTime
  <2> QED
    BY <2>1, <2>2, <2>3
<1> QED
  BY <1>2, <1>3, <1>4

LEMMA InTimeKept ==
  ASSUME TypeOK, CallsAgree, InTime, [Next]_vars
  PROVE  InTime'
<1> USE DEF hostVars, streamVars, gameVars, driverVars, timeVars, retryVars, publishVars, dropVars,
        burstVars
<1>0. /\ unseen \in Nat /\ left \in Nat /\ next_attempt \in Nat
      /\ next_discovery \in 0..DiscoveryInterval
      /\ failures \in 0..(AttemptsPerBurst - 1) /\ 0 \in 0..(AttemptsPerBurst - 1)
  BY TimesType, TypeParts, ConstantsType DEF InTime, InTimeWhen, RetryTypes
<1>a. pc = "loop" => unseen <= Polled /\ (next_discovery > 0 => unseen + next_discovery <= Due)
  BY DEF InTime, InTimeWhen
<1>b. /\ 0 <= Polled /\ 0 <= 2 * MaxBlock /\ 0 + DiscoveryInterval <= Due
      /\ DiscoveryInterval \in 1..DiscoveryInterval
      /\ unseen <= Polled => (next_discovery > 0 /\ unseen + next_discovery <= Due => unseen <= Due + MaxBlock)
  BY <1>0, BoundsType
<1>1. CASE Exit
  <2>1. pc' = "exited" /\ UNCHANGED <<unseen, next_discovery>>
    BY <1>1 DEF Exit
  <2>2. ASSUME NEW e, NEW s, NEW l
        PROVE  InTimeWhen("exited", s, e, next_discovery, l, unseen)
    BY DEF InTime, InTimeWhen, Calls
  <2> QED
    BY <2>1, <2>2 DEF InTime
<1>2. CASE StepLost
  <2>1. /\ live' = NoStream /\ pc = "loop" /\ UNCHANGED <<unseen, next_discovery>> /\ Fail(failures)
        /\ \/ pc' = "query" /\ left' = MaxBlock
           \/ Park /\ next_discovery > 0
    BY <1>0, <1>2 DEF StepLost, Detach, Stepping, Query, Call
  <2>2. next_attempt' \in Nat
    BY <1>0, <2>1, FailType
  <2>3. CASE pc' = "query" /\ left' = MaxBlock
    BY <1>0, <1>a, <2>1, <2>3, QueryInTime
  <2>4. CASE Park /\ next_discovery > 0
    BY <1>0, <1>a, <1>b, <2>1, <2>2, <2>4, ParkInTime
  <2> QED
    BY <2>1, <2>3, <2>4
<1>3. CASE StepLive
  <2>1. /\ pc = "loop" /\ live' # NoStream /\ UNCHANGED <<unseen, next_discovery>>
        /\ \/ pc' = "query" /\ left' = MaxBlock
           \/ Supervised /\ next_discovery > 0
    BY <1>0, <1>3 DEF StepLive, Stepping, Query, Call
  <2>2. CASE pc' = "query" /\ left' = MaxBlock
    BY <1>0, <1>a, <2>1, <2>2, QueryInTime
  <2>3. CASE Supervised /\ next_discovery > 0
    <3>1. next_discovery \in 1..DiscoveryInterval
      BY <1>0, <2>3
    <3> QED
      BY <1>0, <1>a, <2>1, <2>3, <3>1, SuperviseInTime
  <2> QED
    BY <2>1, <2>2, <2>3
<1>4. CASE StepDetached
  <2>1. /\ pc = "loop" /\ live' = NoStream /\ UNCHANGED <<unseen, next_discovery, next_attempt>>
    BY <1>4 DEF StepDetached, Stepping
  <2>2. (pc' = "query" /\ left' = MaxBlock) \/ (Park /\ next_discovery > 0)
    BY <1>0, <1>4 DEF StepDetached, Query, Call
  <2>3. CASE pc' = "query" /\ left' = MaxBlock
    BY <1>0, <1>a, <2>1, <2>3, QueryInTime
  <2>4. CASE Park /\ next_discovery > 0
    BY <1>0, <1>a, <1>b, <2>1, <2>4, ParkInTime
  <2> QED
    BY <2>2, <2>3, <2>4
<1>5. CASE KeepStream
  <2>1. live' # NoStream /\ Supervised /\ unseen' = 0 /\ next_discovery' = DiscoveryInterval
    BY <1>5, KeptStream DEF KeepStream
  <2> QED
    BY <1>b, <2>1, SuperviseInTime
<1>6. CASE ReplaceStream \/ TryDefault \/ ProbeChanged
  <2>1. live' = NoStream /\ unseen' = 0
    BY <1>6 DEF ReplaceStream, TryDefault, ProbeChanged, Returned, CallsAgree, Detach
  <2>2. ASSUME NEW n \in 0..(AttemptsPerBurst - 1), FindNone(n)
        PROVE  InTime'
    <3>1. PICK k \in {0, n}, r \in {0, recent} : Failed("NoOutput", k, r)
      BY <2>2, FindNoneFails
    <3>2. k \in 0..(AttemptsPerBurst - 1)
      BY <1>0
    <3> QED
      BY <1>b, <2>1, <3>1, <3>2, FailedInTime
  <2>3. CASE FindError
    BY <1>0, <1>b, <2>1, <2>3, FailedInTime DEF FindError
  <2>4. ASSUME NEW id, NEW n, Connect(id, n)
        PROVE  InTime'
    BY <2>1, <2>4, ConnectInTime
  <2> QED
    BY <1>0, <1>6, <2>2, <2>3, <2>4 DEF ReplaceStream, TryDefault, ProbeChanged
<1>7. CASE ProbeSame
  <2>1. live' = NoStream /\ Park /\ unseen' = 0 /\ next_discovery' = DiscoveryInterval
        /\ next_attempt' = next_attempt
    BY <1>7 DEF ProbeSame, Returned, CallsAgree
  <2>2. DiscoveryInterval \in 0..DiscoveryInterval /\ 0 <= Due + MaxBlock
    BY BoundsType
  <2> QED
    BY <1>0, <1>b, <2>1, <2>2, ParkInTime
<1>8. CASE ConnectFails
  <2>1. live' = NoStream /\ unseen' = unseen /\ unseen <= 2 * MaxBlock
    BY <1>0, <1>8, BoundsType DEF ConnectFails, Returned, CallsAgree, InTime, InTimeWhen
  <2> QED
    BY <1>0, <1>8, <2>1, FailedInTime DEF ConnectFails
<1>9. CASE Rebuild
  <2>1. live' = NoStream /\ Park /\ next_attempt' = 0 /\ UNCHANGED <<unseen, next_discovery>>
        /\ unseen <= MaxBlock
    BY <1>0, <1>9, BoundsType DEF Rebuild, Returned, CallsAgree, InTime, InTimeWhen
  <2>2. unseen <= Due + MaxBlock /\ (next_discovery > 0 => unseen + next_discovery <= Due)
    BY <1>0, <2>1, BoundsType
  <2> QED
    BY <1>0, <2>1, <2>2, ParkInTime
<1>10. CASE Wake
  <2>1. pc = "asleep" /\ pc' = "loop" /\ UNCHANGED <<unseen, next_discovery>>
    BY <1>10 DEF Wake
  <2>2. ASSUME NEW e, NEW s, NEW l
        PROVE  InTimeWhen("loop", s, e, next_discovery, l, unseen)
    BY <1>0, <2>1, BoundsType DEF InTime, InTimeWhen, Calls
  <2> QED
    BY <2>1, <2>2 DEF InTime
<1>11. CASE PushEvent \/ Game \/ Host \/ UNCHANGED vars
  <2>1. UNCHANGED <<pc, live, left, elapsed, unseen, next_discovery>>
    BY <1>11 DEF PushEvent, Game, SetRunning, Poll, AskToStop, WakeToStop, Join, GiveUp,
       quietForGame, Host, ChangeDefault, StreamDies, StreamFollows, Settle, quietForHost, vars
  <2> QED
    BY <2>1 DEF InTime
<1> QED
  BY <1>1, <1>2, <1>3, <1>4, <1>5, <1>6, <1>7, <1>8, <1>9, <1>10, <1>11, AttachInTime,
     AppliedInTime, TickInTime
  DEF Next, Driver

---------------------------------------------------------------------------
(* The theorems.                                                           *)

\* A token is taken only by the step that brings the driver back to its loop, and
\* there it sees the request to stop.
LEMMA WokenKept ==
  ASSUME TypeOK, Woken, [Next]_vars
  PROVE  Woken'
<1> USE DEF hostVars, streamVars, gameVars, driverVars, timeVars, retryVars, publishVars, dropVars,
        burstVars
<1>1. CASE Driver
  <2>1. CASE Exit \/ Wake
    BY <2>1 DEF Exit, Wake, Woken
  <2>2. CASE ~(Exit \/ Wake)
    <3>1. UNCHANGED <<token, dropper>>
      BY <1>1, <2>2
      DEF Driver, StepLost, StepLive, StepDetached, KeepStream, ReplaceStream, TryDefault, ProbeSame,
          ProbeChanged, ConnectFails, Rebuild, Built, Played, Applied, ApplyFails, PauseRefused,
          PushEvent
    <3>2. pc # "loop" \/ dropper = "idle" \/ pc' = pc
      BY <1>1, <2>2
      DEF Driver, StepLost, StepLive, StepDetached, KeepStream, ReplaceStream, TryDefault, ProbeSame,
          ProbeChanged, ConnectFails, Rebuild, Built, Played, Applied, ApplyFails, PauseRefused,
          PushEvent, Stepping, Returned
    <3>3. pc # "exited" \/ pc' = pc
      BY <1>1, <2>2
      DEF Driver, StepLost, StepLive, StepDetached, KeepStream, ReplaceStream, TryDefault, ProbeSame,
          ProbeChanged, ConnectFails, Rebuild, Built, Played, Applied, ApplyFails, PauseRefused,
          PushEvent, Stepping, Returned
    <3> QED
      BY <3>1, <3>2, <3>3 DEF Woken
  <2> QED
    BY <2>1, <2>2
<1>2. CASE Game
  BY <1>2
  DEF Game, SetRunning, Poll, AskToStop, WakeToStop, Join, GiveUp, quietForGame, Woken
<1>3. CASE Host \/ Tick \/ UNCHANGED vars
  <2>1. UNCHANGED <<token, dropper, pc>>
    BY <1>3 DEF Host, ChangeDefault, StreamDies, StreamFollows, Settle, quietForHost, Tick, vars
  <2> QED
    BY <2>1 DEF Woken
<1> QED
  BY <1>1, <1>2, <1>3 DEF Next

LEMMA InitInvariant == Init => ScheduleIInv
<1> SUFFICES ASSUME Init PROVE ScheduleIInv
  OBVIOUS
<1>1. TypeOK
  BY InitTypes
<1>2. pc = "loop" /\ live = NoStream /\ state = "Connecting" /\ unpushed = None /\ events = << >>
      /\ recent = 0 /\ quiet = 0 /\ failures = 0 /\ next_discovery = 0 /\ unseen = 0
      /\ dropper = "idle"
  BY DEF Init
<1>3. CallsAgree /\ StateTrue /\ Woken
  BY <1>2 DEF CallsAgree, StateTrue, NewestEventKept, Woken
<1>4. BurstCounted
  BY <1>2, ConstantsType DEF BurstCounted
<1>5. InTime
  BY <1>2, BoundsType DEF InTime, InTimeWhen, Calls
<1> QED
  BY <1>1, <1>3, <1>4, <1>5 DEF ScheduleIInv

\* What every step keeps: the parts are needed together.
THEOREM InvariantKept == Spec => []ScheduleIInv
<1>1. ScheduleIInv /\ [Next]_vars => ScheduleIInv'
  BY NextTypes, CallsAgreeKept, StateTrueKept, BurstCountedKept, InTimeKept, WokenKept
  DEF ScheduleIInv
<1> QED
  BY InitInvariant, <1>1, PTL DEF Spec

\* What the game is told is true, for any default, any failures and any delays: at
\* every park the state published is the stream's, and the newest event a game that
\* polls late still finds is the last published.
THEOREM GameIsToldTheTruth == Spec => []ScheduleInv
<1>1. ScheduleIInv => ScheduleInv
  BY DEF ScheduleIInv, ScheduleInv, StateTrue, ReadyMeansAttached
<1> QED
  BY InvariantKept, <1>1, PTL

\* No default is tried more than AttemptsPerBurst times without a stream that
\* lived, another default or a cooldown between, however long the delays are.
THEOREM RetriesAreBounded == Spec => []RetriesBounded
<1>1. ScheduleIInv => RetriesBounded
  <2> SUFFICES ASSUME ScheduleIInv PROVE recent <= AttemptsPerBurst
    BY DEF RetriesBounded
  <2>1. recent \in Nat /\ failures \in 0..(AttemptsPerBurst - 1) /\ AttemptsPerBurst \in Nat
    BY TimesType, TypeParts, ConstantsType DEF ScheduleIInv, RetryTypes
  <2> QED
    BY <2>1 DEF ScheduleIInv, BurstCounted, Spent
<1> QED
  BY InvariantKept, <1>1, PTL

\* Another default is asked for within an interval, the rest of a health poll and
\* four blocked calls, whatever the cooldown and however calls and parks fall.
THEOREM DefaultIsFollowed == Spec => []DefaultFollowedInTime
<1>1. ScheduleIInv => DefaultFollowedInTime
  BY TimesType, BoundsType DEF ScheduleIInv, InTime, InTimeWhen, DefaultFollowedInTime
<1> QED
  BY InvariantKept, <1>1, PTL

\* A worker that is dropped gives up only on a driver inside the host: a sleeping
\* one it has woken is waited for.
THEOREM SleeperIsNotLeft == Spec => SleeperIsJoined
<1>1. ScheduleIInv /\ [Next]_vars =>
        (dropper' = "gave up" /\ dropper # "gave up" => pc # "asleep")
  <2> SUFFICES ASSUME ScheduleIInv, [Next]_vars, dropper' = "gave up", dropper # "gave up"
               PROVE  pc # "asleep"
    OBVIOUS
  <2>1. CASE GiveUp
    BY <2>1 DEF GiveUp, Idle, Calls, ScheduleIInv, Woken
  <2>2. CASE dropper' = dropper
    BY <2>2
  <2>3. CASE Game
    BY <2>1, <2>2, <2>3 DEF Game, SetRunning, Poll, AskToStop, WakeToStop, Join, dropVars
  <2>4. CASE Driver
    BY <2>2, <2>4
    DEF Driver, Exit, Wake, StepLost, StepLive, StepDetached, KeepStream, ReplaceStream, TryDefault,
        ProbeSame, ProbeChanged, ConnectFails, Rebuild, Built, Played, Applied, ApplyFails,
        PauseRefused, PushEvent, dropVars
  <2>5. CASE Host \/ Tick \/ UNCHANGED vars
    BY <2>2, <2>5
    DEF Host, ChangeDefault, StreamDies, StreamFollows, Settle, quietForHost, Tick, vars, dropVars
  <2> QED
    BY <2>3, <2>4, <2>5 DEF Next
<1>2. [](ScheduleIInv) /\ [][Next]_vars => SleeperIsJoined
  BY <1>1, PTL DEF SleeperIsJoined
<1> QED
  BY InvariantKept, <1>2, PTL DEF Spec

====
