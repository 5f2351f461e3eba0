---- MODULE TransportSchedule ----
(***************************************************************************)
(* When the audio transport asks the host for its default output, when it  *)
(* tries to connect, and what it tells the game.  One thread, the driver,  *)
(* steps the transport and parks until the deadline the step returned;     *)
(* every call into the host blocks it while time, the game and the device  *)
(* go on.  Dropping the worker asks the driver to stop and waits for it no *)
(* longer than a grace.  What happens to the queued samples meanwhile is   *)
(* the subject of TransportQueue.                                          *)
(*                                                                         *)
(* Every deadline is kept as the time left until it, so that a run of any  *)
(* length has finitely many states.                                        *)
(***************************************************************************)
EXTENDS Integers, Sequences

CONSTANTS
  Ids,                 \* identities an output can have
  Failures,            \* why a discovery or a connection can fail
  AttemptsPerBurst, RetryBase, Cooldown, DiscoveryInterval, StableAfter,
  HealthPoll, ShutdownGrace,
  MaxPendingEvents,
  MaxBlock             \* bound on how long one call into the host blocks

ASSUME ScheduleAssumption ==
  /\ Failures # {} /\ Failures \subseteq {"NoOutput", "Unsupported", "ConnectFailed"}
  /\ {AttemptsPerBurst, RetryBase, Cooldown, DiscoveryInterval, StableAfter, HealthPoll,
      MaxPendingEvents} \subseteq Nat \ {0}
  /\ {ShutdownGrace, MaxBlock} \subseteq Nat

\* Every delay of a burst is a number of ticks.
ASSUME BackoffAssumption == \A n \in 0..AttemptsPerBurst : RetryBase * 2^n \in Nat

VARIABLES
  default, calm,               \* the host: its default output; has it settled?
  live, lost, follows_default, \* the attached stream and its health flags
  running,                     \* the game's intent
  token,                       \* the driver's unpark token
  pc, why, held,               \* where the driver is, and the locals of a call
  elapsed, left,               \* time since the step began; bound on the call or park
  next_attempt, next_discovery, stable_in,
  failures, observed, attached_before,
  state, unpushed, events,     \* `Shared`: the state, and what the game polls
  dropper, grace,              \* `Worker::drop`
  recent, quiet,               \* history variables: failures of this burst,
                               \* time since its last,
  unseen                       \* time the default has differed from the last seen

hostVars == <<default, calm>>
streamVars == <<live, lost, follows_default>>
gameVars == <<running, token>>
driverVars == <<pc, why, held>>
timeVars == <<elapsed, left, stable_in>>
retryVars == <<failures, observed, next_attempt>>
publishVars == <<state, unpushed, events>>
dropVars == <<dropper, grace>>
burstVars == <<recent, quiet>>
vars == <<hostVars, streamVars, gameVars, driverVars, timeVars, retryVars,
          next_discovery, attached_before, publishVars, dropVars,
          burstVars, unseen>>

None == "none"                 \* no output, no event
NoStream == [id |-> None, playing |-> FALSE]
NoCall == [id |-> None, playing |-> FALSE, started |-> FALSE]
Unknown == "unknown"           \* Observed::Nothing
Error == "error"               \* a failed discovery
Calls == {"query", "build", "play", "apply"}
Reasons == {"NoOutput", "DefaultChanged", "StreamLost", "Unsupported", "ConnectFailed"}
States == {"Connecting", "Ready"} \cup Reasons
Outputs == Ids \cup {None}

ASSUME IdsAssumption == {None, Unknown, Error} \cap Ids = {}

Monus(a, b) == IF a > b THEN a - b ELSE 0
Least(a, b) == IF a < b THEN a ELSE b

Init ==
  /\ default \in Outputs /\ calm = FALSE
  /\ live = NoStream /\ lost = FALSE /\ follows_default = FALSE
  /\ running = FALSE /\ token = FALSE
  /\ pc = "loop" /\ why = None /\ held = NoCall
  /\ elapsed = 0 /\ left = 0 /\ stable_in = 0
  /\ next_attempt = 0 /\ next_discovery = 0
  /\ failures = 0 /\ observed = Unknown /\ attached_before = FALSE
  /\ state = "Connecting" /\ unpushed = None /\ events = << >>
  /\ dropper = "idle" /\ grace = 0
  /\ recent = 0 /\ quiet = 0 /\ unseen = 0

---------------------------------------------------------------------------
(* Parts of a driver step.                                                 *)

\* `Transport::publish` and the first half of `Shared::publish`: a state that
\* differs from the last is stored, and its event is still to be pushed.
Publish(s) ==
  /\ state' = s
  /\ unpushed' = IF s = state THEN None ELSE s
  /\ events' = events

DriverCanStep == pc # "exited" /\ unpushed = None

Call(c) == pc' = c /\ left' = MaxBlock
Query(w) == Call("query") /\ why' = w

\* The deadline a step returns, and the park that follows it.  Its mutant sleeps
\* through the discoveries due before the next attempt.
ParkUntilAttempt ==
  /\ pc' = "asleep" /\ why' = None
  /\ left' = IF live' = NoStream THEN next_attempt' ELSE Monus(HealthPoll, elapsed)
Park ==
  /\ pc' = "asleep" /\ why' = None
  /\ left' = IF live' = NoStream THEN Least(next_attempt', next_discovery')
             ELSE Monus(HealthPoll, elapsed)

\* Mutant: one failure too many per burst.
FailOneMore(n) ==
  LET spent == n + 1
  IN /\ failures' = IF spent <= AttemptsPerBurst THEN spent ELSE 0
     /\ next_attempt' = IF spent <= AttemptsPerBurst THEN RetryBase * 2^n ELSE Cooldown
\* `Transport::fail` after n failures of this burst.
Fail(n) ==
  LET spent == n + 1
  IN /\ failures' = IF spent < AttemptsPerBurst THEN spent ELSE 0
     /\ next_attempt' = IF spent < AttemptsPerBurst THEN RetryBase * 2^n ELSE Cooldown

\* The failure as the history variables count it: r failures came before it.
Recorded(r) ==
  recent' = Least(r, AttemptsPerBurst) + 1 /\ quiet' = 0

Detach == live' = NoStream /\ lost' = FALSE /\ follows_default' = FALSE /\ stable_in' = 0

\* A default unlike the one last observed starts a fresh burst.
IsFresh(found) == observed \notin {Unknown, found}

\* `attempt_with` up to the blocking build of a stream for the default found.
Connect(id, n) ==
  /\ observed' = id
  /\ failures' = IF IsFresh(id) THEN 0 ELSE n
  /\ next_discovery' = Monus(DiscoveryInterval, elapsed)
  /\ held' = [id |-> id, playing |-> running, started |-> FALSE]
  /\ Call("build") /\ why' = None
  /\ recent' = IF observed # id THEN 0 ELSE recent
  /\ quiet' = IF observed # id THEN 0 ELSE quiet
  /\ UNCHANGED next_attempt

\* An attempt that attached nothing, and the publication of why.
Failed(reason, n, r) ==
  /\ next_discovery' = DiscoveryInterval
  /\ Publish(reason) /\ Fail(n) /\ Recorded(r)
  /\ Park /\ held' = NoCall

\* `attempt_with` when the discovery found no output.
FindNone(n) ==
  /\ observed' = None
  /\ Failed("NoOutput", IF IsFresh(None) THEN 0 ELSE n, IF observed # None THEN 0 ELSE recent)

\* `attempt_with` when the discovery failed.
FindError ==
  /\ observed' = observed
  /\ \E reason \in Failures : Failed(reason, failures, recent)

---------------------------------------------------------------------------
(* The driver.                                                             *)

Exit ==
  /\ DriverCanStep /\ pc = "loop" /\ dropper # "idle"
  /\ pc' = "exited" /\ Detach
  /\ UNCHANGED <<hostVars, gameVars, why, held, elapsed, left, retryVars,
                 next_discovery, attached_before, publishVars, dropVars,
                 burstVars, unseen>>

SteppingRegardless == DriverCanStep /\ pc = "loop"
Stepping == DriverCanStep /\ pc = "loop" /\ dropper = "idle"

\* `step` with a stream whose error callback fired: retired, and a retry is
\* scheduled; a discovery that is due is made in the same step.
StepLostSilently ==
  /\ Stepping /\ live # NoStream /\ lost
  /\ Detach /\ UNCHANGED publishVars /\ Fail(failures) /\ Recorded(recent)
  /\ elapsed' = 0
  /\ IF next_discovery = 0 THEN Query("probe") /\ UNCHANGED next_discovery
     ELSE UNCHANGED next_discovery /\ Park
  /\ UNCHANGED <<hostVars, gameVars, held, observed, attached_before,
                 dropVars, unseen>>
StepLost ==
  /\ Stepping /\ live # NoStream /\ lost
  /\ Detach /\ Publish("StreamLost") /\ Fail(failures) /\ Recorded(recent)
  /\ elapsed' = 0
  /\ IF next_discovery = 0 THEN Query("probe") /\ UNCHANGED next_discovery
     ELSE UNCHANGED next_discovery /\ Park
  /\ UNCHANGED <<hostVars, gameVars, held, observed, attached_before,
                 dropVars, unseen>>

\* `supervise` after the discovery, if one was due: apply the intent.
SupervisedPlays ==
  IF running /\ ~live'.playing
  THEN Call("apply") /\ why' = None
       /\ held' = [id |-> live'.id, playing |-> running, started |-> FALSE]
  ELSE Park /\ held' = NoCall
Supervised ==
  IF running # live'.playing
  THEN Call("apply") /\ why' = None /\ held' = [id |-> live'.id, playing |-> running, started |-> FALSE]
  ELSE Park /\ held' = NoCall

StepLive ==
  /\ Stepping /\ live # NoStream /\ ~lost
  /\ failures' = IF stable_in = 0 THEN 0 ELSE failures
  /\ elapsed' = 0
  /\ UNCHANGED <<streamVars, next_attempt, next_discovery>>
  /\ IF next_discovery = 0 THEN Query("supervise") /\ UNCHANGED held ELSE Supervised
  /\ UNCHANGED <<hostVars, gameVars, stable_in, observed, attached_before,
                 publishVars, dropVars, burstVars, unseen>>

\* `step` with no stream: an attempt if one is due, else a due discovery.
StepDetached ==
  /\ Stepping /\ live = NoStream
  /\ elapsed' = 0
  /\ UNCHANGED <<streamVars, retryVars, next_discovery>>
  /\ CASE next_attempt = 0 -> Query("attempt")
       [] next_attempt > 0 /\ next_discovery = 0 -> Query("probe")
       [] OTHER -> Park
  /\ UNCHANGED <<hostVars, gameVars, held, stable_in, attached_before,
                 publishVars, dropVars, burstVars, unseen>>

\* What the host may answer: its default, or a failure unless it has settled.
Answers == {default} \cup (IF calm THEN {} ELSE {Error})

Returned(c) == DriverCanStep /\ pc = c

\* A discovery of an attached stream returned: the same default, a failure, or
\* a default the backend has already moved the stream to leave it in place.
KeepStream ==
  /\ Returned("query") /\ why = "supervise"
  /\ \E found \in Answers :
       /\ found \in {live.id, Error} \/ (found \in Ids /\ follows_default)
       /\ live' = IF found \in Ids THEN [live EXCEPT !.id = found] ELSE live
       /\ observed' = IF found \in Ids THEN found ELSE observed
  /\ next_discovery' = DiscoveryInterval
  /\ UNCHANGED <<lost, follows_default, failures, next_attempt, elapsed, stable_in>>
  /\ Supervised
  /\ unseen' = 0
  /\ UNCHANGED <<hostVars, gameVars, attached_before, publishVars,
                 dropVars, burstVars>>

\* Another default, or none: the stream is retired and the output found is
\* tried at once on a fresh burst.
ReplaceStream ==
  /\ Returned("query") /\ why = "supervise"
  /\ default # live.id
  /\ Detach
  /\ IF default = None THEN FindNone(0)
     ELSE ~follows_default /\ Publish("DefaultChanged") /\ Connect(default, 0)
  /\ unseen' = 0
  /\ UNCHANGED <<hostVars, gameVars, elapsed, attached_before, dropVars>>

\* A discovery made for an attempt returned.
TryDefault ==
  /\ Returned("query") /\ why = "attempt"
  /\ UNCHANGED <<streamVars, stable_in>>
  /\ \E found \in Answers :
       \/ /\ found \in Ids /\ Connect(found, failures) /\ UNCHANGED publishVars
       \/ /\ found = None /\ FindNone(failures)
       \/ /\ found = Error /\ FindError
  /\ unseen' = 0
  /\ UNCHANGED <<hostVars, gameVars, elapsed, attached_before, dropVars>>

\* A discovery made while a retry is waited out returned nothing new.
ProbeSame ==
  /\ Returned("query") /\ why = "probe"
  /\ \E found \in Answers : found \in {observed, Error}
  /\ next_discovery' = DiscoveryInterval
  /\ UNCHANGED <<streamVars, retryVars>>
  /\ Park
  /\ unseen' = 0
  /\ UNCHANGED <<hostVars, gameVars, held, elapsed, stable_in, attached_before,
                 publishVars, dropVars, burstVars>>

\* It returned another default, which is tried at once.
ProbeChanged ==
  /\ Returned("query") /\ why = "probe"
  /\ default # observed
  /\ UNCHANGED <<streamVars, stable_in>>
  /\ IF default \in Ids THEN Connect(default, failures) /\ UNCHANGED publishVars
     ELSE FindNone(failures)
  /\ unseen' = 0
  /\ UNCHANGED <<hostVars, gameVars, elapsed, attached_before, dropVars>>

Attach ==
  /\ live' = [id |-> held.id, playing |-> held.playing]
  /\ lost' = FALSE /\ follows_default' = FALSE
  /\ stable_in' = StableAfter
  /\ attached_before' = TRUE
  /\ next_discovery' = DiscoveryInterval
  /\ Publish("Ready")
  /\ UNCHANGED <<failures, next_attempt>>
  /\ Park /\ held' = NoCall

ConnectFails ==
  /\ ~calm
  /\ \E c \in {"build", "play"} : Returned(c)
  /\ UNCHANGED <<streamVars, stable_in, attached_before>>
  /\ \E reason \in IF pc = "play" THEN {"ConnectFailed"} ELSE Failures :
       Failed(reason, failures, recent)
  /\ UNCHANGED <<hostVars, gameVars, elapsed, observed, dropVars, unseen>>

\* Did a start or stop land while a re-attaching stream was built?
IntentChanged == attached_before /\ (running # held.playing \/ held.started)

\* The stream just built is dropped and the attempt repeated at once.
Rebuild ==
  /\ Returned("build") /\ IntentChanged
  /\ UNCHANGED <<streamVars, failures, observed, next_discovery>>
  /\ next_attempt' = 0
  /\ Park /\ held' = NoCall
  /\ UNCHANGED <<hostVars, gameVars, elapsed, stable_in, attached_before,
                 publishVars, dropVars, burstVars, unseen>>

Built ==
  /\ Returned("build") /\ ~IntentChanged
  /\ IF held.playing
     THEN Call("play")
          /\ UNCHANGED <<streamVars, stable_in, attached_before, next_discovery,
                         publishVars, why, held, failures, next_attempt>>
     ELSE Attach
  /\ UNCHANGED <<hostVars, gameVars, elapsed, observed, dropVars,
                 burstVars, unseen>>

Played ==
  /\ Returned("play")
  /\ Attach
  /\ UNCHANGED <<hostVars, gameVars, elapsed, observed, dropVars,
                 burstVars, unseen>>

\* The play or pause of the attached stream was granted,
Applied ==
  /\ Returned("apply")
  /\ live' = [live EXCEPT !.playing = held.playing]
  /\ UNCHANGED <<lost, follows_default, failures, next_attempt, next_discovery>>
  /\ Park /\ held' = NoCall
  /\ UNCHANGED <<hostVars, gameVars, elapsed, stable_in, observed,
                 attached_before, publishVars, dropVars, burstVars, unseen>>

\* refused on a stream that should play or has died: a failure,
ApplyFails ==
  /\ Returned("apply")
  /\ (held.playing /\ ~calm) \/ (live.playing /\ lost)
  /\ Detach /\ Publish("StreamLost") /\ Fail(failures) /\ Recorded(recent)
  /\ UNCHANGED next_discovery
  /\ Park /\ held' = NoCall
  /\ UNCHANGED <<hostVars, gameVars, elapsed, observed, attached_before,
                 dropVars, unseen>>

\* or a refused pause: the stream is dropped without a word and one is attached
\* again at once, in this step when the call took no time.
PauseRefused ==
  /\ Returned("apply") /\ ~held.playing /\ ~lost
  /\ Detach /\ next_attempt' = 0 /\ held' = NoCall
  /\ UNCHANGED <<failures, next_discovery>>
  /\ IF elapsed = 0 THEN Query("attempt") ELSE Park
  /\ UNCHANGED <<hostVars, gameVars, elapsed, observed, attached_before,
                 publishVars, dropVars, burstVars, unseen>>

\* The second half of `Shared::publish`: at the bound the oldest event goes, not
\* the new one as in its mutant.
PushOrDropNew ==
  /\ unpushed # None
  /\ events' = IF Len(events) >= MaxPendingEvents THEN events ELSE Append(events, unpushed)
  /\ unpushed' = None
  /\ UNCHANGED <<hostVars, streamVars, gameVars, driverVars, timeVars, retryVars,
                 next_discovery, attached_before, state, dropVars,
                 burstVars, unseen>>
PushEvent ==
  /\ unpushed # None
  /\ events' = Append(IF Len(events) >= MaxPendingEvents THEN Tail(events) ELSE events,
                      unpushed)
  /\ unpushed' = None
  /\ UNCHANGED <<hostVars, streamVars, gameVars, driverVars, timeVars, retryVars,
                 next_discovery, attached_before, state, dropVars,
                 burstVars, unseen>>
\* The park ends at its deadline, or at once with a token.
Wake ==
  /\ DriverCanStep /\ pc = "asleep" /\ (left = 0 \/ token)
  /\ pc' = "loop" /\ left' = 0 /\ token' = FALSE /\ elapsed' = 0
  /\ UNCHANGED <<hostVars, streamVars, running, why, held, stable_in, retryVars,
                 next_discovery, attached_before, publishVars, dropVars,
                 burstVars, unseen>>

\* Time passes only inside calls of the driver and while it is parked.
Idle ==
  /\ DriverCanStep
  /\ pc \in Calls \/ (pc = "asleep" /\ left > 0 /\ ~token)

Driver ==
  \/ Exit \/ StepLost \/ StepLive \/ StepDetached
  \/ KeepStream \/ ReplaceStream \/ TryDefault \/ ProbeSame \/ ProbeChanged
  \/ ConnectFails \/ Rebuild \/ Built \/ Played
  \/ Applied \/ ApplyFails \/ PauseRefused
  \/ PushEvent \/ Wake

---------------------------------------------------------------------------
(* The game.                                                               *)

quietForGame == <<hostVars, streamVars, pc, why, timeVars, retryVars,
                  next_discovery, attached_before, state, unpushed, burstVars, unseen>>

\* `set_running`, which also wakes the driver; a start of a stopped transport
\* is counted.
SetRunning ==
  /\ dropper = "idle" /\ ~calm
  /\ running' \in BOOLEAN
  /\ held' = IF pc = "build" /\ running' /\ ~running
             THEN [held EXCEPT !.started = TRUE] ELSE held
  /\ token' = TRUE
  /\ UNCHANGED <<quietForGame, events, dropVars>>

Poll ==
  /\ dropper = "idle" /\ events # << >>
  /\ events' = Tail(events)
  /\ UNCHANGED <<quietForGame, gameVars, held, dropVars>>

\* `Worker::drop`: ask, wake, wait; join the driver once it has let go.
AskToStop ==
  /\ dropper = "idle"
  /\ dropper' = "asked"
  /\ UNCHANGED <<quietForGame, gameVars, held, grace, events>>

\* Mutant: the flag is set, but the driver is left to its park.
WaitWithoutWaking ==
  /\ dropper = "asked"
  /\ dropper' = "waiting" /\ grace' = ShutdownGrace
  /\ UNCHANGED <<quietForGame, gameVars, held, events>>
WakeToStop ==
  /\ dropper = "asked"
  /\ dropper' = "waiting" /\ grace' = ShutdownGrace /\ token' = TRUE
  /\ UNCHANGED <<quietForGame, running, held, events>>

Join ==
  /\ dropper = "waiting" /\ pc = "exited"
  /\ dropper' = "joined"
  /\ UNCHANGED <<quietForGame, gameVars, held, grace, events>>

GiveUp ==
  /\ dropper = "waiting" /\ Idle /\ grace = 0
  /\ dropper' = "gave up"
  /\ UNCHANGED <<quietForGame, gameVars, held, grace, events>>

Game == SetRunning \/ Poll \/ AskToStop \/ WakeToStop \/ Join \/ GiveUp

---------------------------------------------------------------------------
(* The host and time.                                                      *)

quietForHost == <<gameVars, driverVars, timeVars, retryVars, next_discovery,
                  attached_before, publishVars, dropVars, burstVars, unseen>>

ChangeDefault ==
  /\ ~calm /\ pc # "exited"
  /\ default' \in Outputs \ {default}
  /\ UNCHANGED <<quietForHost, calm, streamVars>>

StreamDies ==
  /\ ~calm /\ live # NoStream /\ ~lost
  /\ lost' = TRUE
  /\ UNCHANGED <<quietForHost, hostVars, live, follows_default>>

StreamFollows ==
  /\ ~calm /\ live # NoStream /\ ~follows_default
  /\ follows_default' = TRUE
  /\ UNCHANGED <<quietForHost, hostVars, live, lost>>

\* From here on nothing else goes wrong and the game leaves the intent alone.
Settle ==
  /\ ~calm /\ dropper = "idle" /\ calm' = TRUE
  /\ UNCHANGED <<quietForHost, default, streamVars>>

Host == ChangeDefault \/ StreamDies \/ StreamFollows \/ Settle

Tick ==
  /\ Idle /\ left > 0
  /\ dropper # "asked" /\ (dropper = "waiting" => grace > 0)
  /\ left' = left - 1
  /\ elapsed' = IF pc = "asleep" THEN 0 ELSE Least(elapsed + 1, DiscoveryInterval)
  /\ next_attempt' = Monus(next_attempt, 1)
  /\ next_discovery' = Monus(next_discovery, 1)
  /\ stable_in' = Monus(stable_in, 1)
  /\ grace' = Monus(grace, 1)
  /\ LET over == (live # NoStream /\ stable_in <= 1) \/ quiet + 1 >= Cooldown
     IN /\ recent' = IF over THEN 0 ELSE recent
        /\ quiet' = IF over \/ recent = 0 THEN 0 ELSE quiet + 1
  /\ unseen' = IF default # observed /\ dropper = "idle" THEN unseen + 1 ELSE 0
  /\ UNCHANGED <<hostVars, streamVars, gameVars, driverVars, failures, observed,
                 attached_before, publishVars, dropper>>

Next == Driver \/ Game \/ Host \/ Tick

Spec == Init /\ [][Next]_vars

\* Calls into the host return, parks end and the game's own thread runs on.
Fairness ==
  /\ WF_vars(Driver) /\ SF_vars(Tick)
  /\ WF_vars(WakeToStop \/ Join \/ GiveUp)
FairSpec == Spec /\ Fairness

---------------------------------------------------------------------------
(* Properties.                                                             *)

Durations == 0..Cooldown

TypeOK ==
  /\ default \in Outputs /\ calm \in BOOLEAN
  /\ live \in [id : Outputs, playing : BOOLEAN]
  /\ lost \in BOOLEAN /\ follows_default \in BOOLEAN
  /\ running \in BOOLEAN /\ token \in BOOLEAN
  /\ pc \in Calls \cup {"loop", "asleep", "exited"}
  /\ why \in {None, "supervise", "attempt", "probe"}
  /\ held \in [id : Outputs, playing : BOOLEAN, started : BOOLEAN]
  /\ failures \in 0..(AttemptsPerBurst - 1)
  /\ observed \in Outputs \cup {Unknown} /\ attached_before \in BOOLEAN
  /\ state \in States /\ unpushed \in States \cup {None}
  /\ events \in Seq(States) /\ Len(events) <= MaxPendingEvents
  /\ dropper \in {"idle", "asked", "waiting", "joined", "gave up"}
  /\ {elapsed, left, next_attempt, next_discovery, stable_in, grace,
      recent, quiet, unseen} \subseteq Nat

\* A flapping output is tried at a bounded rate: no default is tried again and
\* again more than AttemptsPerBurst times without a stream that lived for
\* StableAfter, another default, or a Cooldown in between, however losses,
\* refusals, early wakes and discoveries fall together.
RetriesBounded == recent <= AttemptsPerBurst

\* A cooldown delays the default that failed and never the discovery of another:
\* while the default differs from the one last seen, the host is asked within an
\* interval, what is left of a health poll by then, and four blocked calls: a
\* build, a play, an intent applied, the query.
DefaultFollowedInTime ==
  unseen <= DiscoveryInterval + (HealthPoll - 1) + 4 * MaxBlock

\* Whenever the driver parks, what the game can read is the truth: Ready with a
\* stream attached, and without one only when a refused pause has a new attempt
\* due at once; any other state says no stream is attached.
ReadyMeansAttached ==
  pc = "asleep" =>
    /\ live # NoStream => state = "Ready"
    /\ live = NoStream /\ state = "Ready" => next_attempt = 0

\* A game that polls late may miss transitions but never the newest: the last
\* pending event is the state published last.
NewestEventKept ==
  unpushed = None /\ events # << >> => events[Len(events)] = state

\* What the game is told is true: the published state of the stream, whenever
\* the driver parks, and the newest event, however late the game polls.
ScheduleInv == TypeOK /\ ReadyMeansAttached /\ NewestEventKept

\* Dropping the worker gives up on the driver only while the driver is blocked in
\* the host, never because it slept through the request.
SleeperIsJoined ==
  [][dropper' = "gave up" /\ dropper # "gave up" => pc # "asleep"]_vars

\* A driver asked to stop lets its stream go and ends, joined or not.
DriverStops == dropper # "idle" ~> pc = "exited"

\* Never given up on: once the host and the game settle, the transport comes to
\* rest attached to the default with the intent applied, or says there is none.
AtRest ==
  \/ dropper # "idle"
  \/ default = None /\ live = NoStream /\ state = "NoOutput"
  \/ default # None /\ live = [id |-> default, playing |-> running] /\ state = "Ready"
SettlesAttached == <>[](calm => AtRest)
====
