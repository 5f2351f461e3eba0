# Verification of pokeemerald-rs

TLA+ specifications of the parts of pokeemerald-rs whose correctness depends on
order, failure or wrap-around, the TLC runs that check them, and TLAPS proofs of
their main invariants.

## 1. The system

pokeemerald-rs is a native port of a handheld game. Most of it is one thread
that advances one frame at a time; the parts below keep state across frames,
processes or threads.

| Part | State | Operations | Talks to |
|---|---|---|---|
| Flash save store (`engine/src/save/store.rs`, `store/survey.rs`, `sector.rs`) | a flash image of two slots of fourteen sectors, a wrapping save counter, the sector the next save starts at | load: survey both slots, choose, copy payloads; store: lay fourteen stamped sectors over the older slot | session (calls) |
| Save session (`pokeemerald-rs/src/game_save.rs`) | counter and base of the save it loaded, whether it merged another slot's boxes, lineage | load at boot; store: lock, reread, refuse or reconcile, write | save file, dialog |
| Save file (`engine/src/save/file.rs`, `file/lock.rs`, `file/staging.rs`) | file, lock slot beside it, staged image | lock, read, stage, check, rename | other processes through the file system |
| SAVE dialog (`start_menu/save_dialog.rs`, `flow/overworld_phase/start_menu.rs`) | which question is up | ask, confirm the overwrite, save, report | session |
| Sample ring (`platform/src/ring.rs`) | slots, occupied count, push and take positions, pending discard | push, fill, hold, discard, reclaim | game thread, audio callback, transport worker |
| Playback clock (`platform/src/audio/playback.rs`) | two published copies of six counters, their sequences | callback writes, any thread reads | audio callback, music player |
| Audio transport (`platform/src/audio/transport.rs`, `shared.rs`, `worker.rs`) | attached stream, play intent, retry budget, deadlines, event queue | step, start, stop, poll, shut down | OS audio, ring, game thread |
| ROM import (`pokeemerald-rs/src/import_rom*`) | created directories and the descriptors that pin them, temporary pack, quarantine | create, sync, stage, publish, take back | file system |
| Battle (`battle/src/battle*`) | two active Pokemon, reserves, outcome, pending move | take turn, resolve a learned move | overworld |
| Overworld, scripts, text, menus (`engine`, `pokeemerald-rs/src/overworld`, `flow`) | map, player, objects, script position | one step per frame | battle, save |
| Sequencer, sound generators, rendering, pack format, ROM decoders | derived data | pure or per-sample computation | - |

What is hard here, and for each part what makes it correct:

* **Save store.** A write can be torn after any sector, one sector can fail, and
  the counter wraps. Correct: a load returns the newest generation that was
  written whole, never a mix of two, and the boxes that go with it.
* **Save session.** Several games run over one file and it can be replaced
  under them. Correct: progress a session has not seen is not overwritten, a
  save is overwritten only after the player said yes, the boxes of the session
  are carried from store to store, the lock is always released.
* **Save file.** The path, the lock slot and the staged image are names another
  program can move between any two calls, and a process or the power can go at
  any of them. Correct: a guarded write replaces the save its process read, by
  the image it staged; a power loss leaves a whole save; the lock is let go.
* **Sample ring, clock, transport.** The audio callback takes no lock, the
  worker blocks in the operating system while the game starts and stops
  playback. Correct: no sample is lost, repeated, reordered or read half
  written; what was queued before a stop is not replayed and what is queued
  after it is not dropped; a reader never sees half a callback's counters.
* **Transport schedule.** Devices come, go and refuse while every call into the
  host takes time. Correct: retries are bounded, another default is found in
  time, the game is told the truth, and the driver ends when asked to.
* **ROM import.** Each step can fail, descriptors can run out, and names can be
  retaken by other programs. Correct: a failed import leaves no trace, a finished
  one is on the disk, and nothing another program made is removed.
* **Battle.** Faints, rewards, prompts and switches interleave within a turn and
  across calls. Correct: one justified outcome, each faint and each reward told
  once, both battlers standing whenever the next action is asked for.

## 2. Modules

| Module | Models | Kind |
|---|---|---|
| `SaveResolve` | wrapping counters, the choice between two scanned slots, the status a load reports | operators |
| `SaveSurvey` | sectors, and what one slot's survey concludes from its fourteen | operators |
| `SaveStore` | the flash image: load, and every kind of write and fault | state machine |
| `SaveSessionRules` | what a session boots with, accepts, reconciles and writes | operators |
| `SaveSession` | several games over one file: boot, dialog, lock, reread, stage, rename, crash | state machine |
| `SaveLedger` | what `SaveSession` promises: a store is one step | abstract specification |
| `SaveSession_proofs` | theorems of the session and of its refinement | proofs |
| `AudioRing` | the sample ring, one step per access to a shared atomic | state machine |
| `AudioQueue` | what the ring promises: one bounded queue | abstract specification |
| `AudioRing_proofs` | theorems of the ring, its discards and its refinement | proofs |
| `PlaybackClock` | the callback's two published copies and a reader, with reordered loads and stores | state machine |
| `TransportQueue` | which queued samples survive a replaced stream | state machine |
| `TransportSchedule` | when the transport asks, connects and retries, what it publishes, how it stops | state machine with time |
| `SaveFile` | the save path of several processes, one step per system call | state machine |
| `BattleTurn` | one battle, call by call | state machine |
| `ImportRom` | an import's directories, descriptors and pack, one step per group of calls | state machine |
| `PlaybackClock_proofs`, `TransportQueue_proofs`, `TransportSchedule_proofs`, `BattleTurn_proofs`, `ImportRom_proofs` | theorems of the module each is named after | proofs |
| `SaveDisk_proofs` | theorems of `SaveFile` and of `SaveStore`: the save file and the flash image in it | proofs |
| `MC*` | constants and images for TLC | instances |

### Save store

`SaveSurvey` keeps of a sector what the code tests: whether the signature and
checksum verify, the id, the counter and which write's chunk it holds.
`Load(image)` is `SaveStore::from_flash_image` and `load`: survey both slots,
`Resolve`, copy payloads at the `ReadPositions` of the verdict, merge the
donor's boxes. `PortSave` is a whole store of this port. The original game's
writer (`UpstreamSave`), a build from before the storage sectors (`LegacySave`)
and flash damage are external: they are modelled from what the survey's
comments and tests say they leave behind. A torn write is a write cut off after
any sector; a failed sector keeps its old contents.

`whole` is a history variable: what each slot was last completely given. Once a
footer changes, which no checksum covers, it claims nothing more.

### Save session

`SaveSession` abstracts a slot to its survey's result (`Slot` in
`SaveSessionRules`), which `SaveStore` justifies. One action stands for each
span between two accesses to the file: `Boot` reads it without a lock, `Lock`
takes the advisory lock, `Reread` reads under it, `Refuse` is every early return of
`store_under`, `Stage` decides and writes the temporary file, `Rename`
publishes and releases, `StoreFails` is an error in either, `Crash` is process
death anywhere. `AskToSave` and `AnswerPrompt` are the dialog; the rest of its
states do not touch the file. Flash damage and a copied-in file change the
image while nobody holds the lock: the code's own claim is no more (an outsider that
ignores the advisory lock is not held off by it).

### Sample ring

`AudioRing` has one action for every access of `Producer::push`,
`Consumer::fill`, `settle_pending_discard` and the held discards to an atomic
that another thread uses; a mutex is a variable naming its holder. Interleaving
them sequentially is justified by the code's release/acquire pairs on the
occupied count together with `SlotsApart`: a slot is never stored to by one side
while the other may read it. Samples are numbered in the order in which they
were accepted; `Position` is that number as the code stores it, wrapped, with
the two values the code reserves. The worker's calls follow the order of
`Transport::connect`. The game is the one thread that stops playback
(`AudioOutput::stop` takes `&mut self`); any producer may push. The underrun
counter is left out.

### Playback clock

The callback is the only writer, so all its stores have one order; the reader
stores nothing. `PlaybackClock` keeps the callback's stores in a log and, for
each location, the oldest store the reader may still read. Reading a released
store with acquire raises those floors to what the writer had stored by then;
a relaxed load followed by an acquire fence does the same at the fence. This is
the fragment of the C11 memory model in which the code is written: views are
prefixes of one thread's stores. A counter's value is the number of the
callback it was copied for, so that two values of different callbacks are
always told apart. The arithmetic of the estimate is left out.

### Transport queue

`TransportQueue` follows the transport's driver from one read of what the game
writes to the next, through `step`, `supervise`, `detach`, `connect` and `attach`,
and the game through the two stores of a start and the three of a stop. Samples
are the numbers of `AudioQueue`; a push, a read and a discard are one step each,
which `RingImplementsQueue` justifies. When a query or an attempt is due, what
the host answers, whether `play` and `pause` are granted and when a stream dies
are open choices; each refusal, loss or change counts against `MaxUpsets`. A stream
that reported a loss is taken to have ended. `split` is a history variable: the
driver took a step inside one start or stop. So are `undrained`, what was queued when
playback was meant to advance and nothing drained the ring, which is what the
module's rule for history says, and `history`, the part of it the code keeps to: what
is queued only while the driver is in the middle of dropping the stream is left out.
`HistoryNotReplayed` and its theorem are about `history`; of `undrained` the same does not
hold, as the run `queue_detach` shows.

### Transport schedule

`TransportSchedule` is the same driver seen by the clock. A step runs at once
up to a call into the host (`query`, `build`, `play`, `apply`), which blocks it for up
to `MaxBlock` ticks while the game, the devices and time go on; then the action
named for the outcome finishes what `step`, `supervise`, `probe`, `attempt_with`,
`attach` or `fail` does with the answer. Each `Instant` is kept as the time left
until it. `Shared::publish` is two steps, the state and then the event
(`PushEvent`), since the game polls between them. `Park` is the deadline `step`
returns and the `park_timeout` behind it, `token` the thread's unpark token;
`AskToStop`, `WakeToStop`, `Join` and `GiveUp` are `Worker::drop`. `recent`, `quiet` and
`unseen` are history variables.

### Save file

`SaveFile` has one action for each system call of `SaveFile::lock`, `read` and `write`
on a Unix host: `Begin` records the directory's identity, `OpenSlot`, `CreateSlot`
and `ReopenSlot` find the lock file, `Flock` waits, `OwnEntry`, `CheckParent` and
`CheckSlot` are the checks, which the code makes before each use, then `Read`,
`StartWrite`, `Stage`, `Fill`, `StillOurs`, `Rename`, `SyncDirectory` and `Release`. A
path is resolved anew at each. What the file system and other programs do is
external: `Retarget` moves what the path leads to, `TakeSlot` and `SpoilSlot` the
lock file, `ReplaceStaged` the staged image; `Crash` frees a process's locks, and
`PowerLoss` keeps, of each directory's renames since it was last synchronised,
any one (`survivors`).

### Battle

`BattleTurn` follows the calls of `Battle`: `TakeTurn` or `RunAway` accepts an action,
`Act` runs the next of the two (one disjunct for each pipeline: hit, drain,
multi-hit, Rollout, Attract, Leech Seed, a confused self-hit, nothing),
`CloseActions` settles faints, `StartPass`, `Residual` and `EndTurn` are the
end-of-turn pass, `ResolveMoveLearn` answers a prompt and resumes what it held
back. `SettleFaints` is the sequence of `settle_faint` calls of a move, in the
order its script makes them. HP is a small number; every draw, damage and
opponent's choice is open. `reported`, `paid`, `money` and `passes` count the
events the caller is given.

### ROM import

`ImportRom` keeps the directories, files and names a run meets as nodes of a
tree (`tree`), and in `created` what the code records of a level it made: the
descriptors that pin it and its parent, and whether its entry was synchronised.
`Survey` to `Climb` is the walk that makes the levels, `SyncLevel` the sync,
`CheckName` to `Publish` the pack, `Discard` and `LookUp` to `RemoveQuarantine` the
take-back. Every call that needs a descriptor fails when the host's `slots` are
taken, which is where pins are shed. Any call of a take-back may be refused as
well, for want of space or permission or by a failing device: the removal of the
temporary pack, a look at a level, the making, opening and removal of the
quarantine, the capture of a level, its examination, its removal and its
put-back. `denied` remembers at which of them a possible call came to nothing, and
`"names"` when others held the level's own name and every one beside it at a
put-back, which then leaves the capture where it is (`PutBack::Stranded`). Another
program makes, moves, swaps or removes directories at the names the import
uses, those of a put-back among them. The sixteen names
`.restored-0` to `.restored-15` are one, `Aside`, which counts as taken when all are.

## 3. Runs

| Run | Bounds | States | Shows |
|---|---|---|---|
| `store_writes` | 2 writes of any of the three builds, 1 fault, counter mod 8 from 6, start rotations 0, 1, 13, five-sector rotations 0, 4 | 62 thousand | over torn writes, failed sectors, changed footers and the wrap: the newest whole generation loads with the newest boxes, a verified donor is never a mix |
| `session_stores` | 2 games, 2 stores, 1 damaged slot or copied-in file, counter mod 32, copied-in saves ahead, behind and half the range away | 563 thousand | no unseen or newer progress lost, overwrites confirmed, what is stored comes back with the session's boxes, the lock's holder sees the disk; the locked store implements the one-step store |
| `ring_order` | capacity 3, 2 producers, 4 samples, totals wrapping at 16, fair callback | 656 thousand | order, no overlap, discards, the refinement of `AudioQueue`; a fill always returns |
| `clock_snapshot` | 3 callbacks, fair reader | 66 thousand | snapshots whole, published, never backward; a read returns |
| `queue_calls` | 2 samples, 2 starts, 2 upsets, fair threads | 1 million | no history played, no stopped queue dropped, the last intent applied in the end |
| `schedule_bounds` | 2 outputs (symmetric), bursts of 3, cooldown 8, calls of 1 tick | 2.8 million | retries bounded, another default found in time, what the game is told is true, a sleeping driver is joined |
| `schedule_settles` | 1 output, bursts of 2, cooldown 3, fair time and threads | 268 thousand | the driver ends when asked to; the transport settles once the host does |
| `file_guard` | 2 processes, 2 directories, 1 save each, 2 upsets, fair processes | 418 thousand | a write replaces what its process read, by its own image; a power loss leaves a whole save; the lock is let go |
| `battle_turns` | two against three, wild, first and trainer battles, 2 HP, series of 2, 1 prompt | 1 million | field, faints, rewards, pass and outcome agree, over every order, damage and prompt |
| `import_takeback` | 2 levels; 2 to 4 descriptors with 0 to 2 pins and 5 with 2, 1 upset; 3 with 1 and 2 upsets during the take-back | 623 thousand | a failed import whose take-back is refused nothing leaves no trace, a capture that can be put back is not left hidden, a finished import is durable, others' directories stay, the import ends |
| `store_relabel`, `queue_detach` | smaller | | findings, see below |

Why the bounds are enough:

* A load looks at two slots and prefers the newer; the image starts with two
  adjacent generations or none, two writes lay over each slot once, and one fault
  is what the code promises to survive. The counter needs only to wrap
  and to tell adjacent values from distant ones. Rotation is kept at its real
  fourteen positions; the start rotations include both ends and the predecessor
  cases.
* Two games and two stores give every order of two stores over one image. The
  proofs hold for any number of games, stores and damages.
* The ring wraps its indices after three samples and its totals after four, so
  every index arithmetic is exercised; the proofs cover every capacity.
* A slot of the clock is rewritten while it is read only when a third callback
  begins during the read.
* Two starts with a stop between them are the least with which a start can be
  mistaken for an earlier one; two upsets are a stream replaced twice, or a
  replacement and a failure on the way.
* The schedule compares deadlines only with each other: the durations keep the
  code's order (retry < discovery interval < cooldown, poll below stability),
  and bursts of three have a first, a middle and a last failure. Two outputs are
  one and another; a queue of one event overflows at once.
* Two processes and two upsets on the save path are a move there and back, a
  move and a loss, or a replaced name under each process. Saves add only their
  count.
* Two members at home, of whom one is capped, and three opponents give a
  replacement from either side of the active one's position; with 2 HP a hit
  may leave a battler standing or not.
* Two levels are an outer and an inner one; the descriptors range from too few
  to open the path to enough for every pin, and one upset meets each of them.
  Two upsets can take the name of a captured level and those beside it; they come
  once the take-back has begun (`late`).

The `store_*`, `schedule_*`, `battle_turns` and `import_takeback` runs stop where the
program does (`CHECK_DEADLOCK FALSE`): the writes are used up, the driver has
exited, the battle is decided, the import has ended. Every other run also
shows that the system never gets stuck.

Fairness. `file_guard`: between its lock and the release a process is
straight-line code and what it asks of the host returns, so its steps are
weakly fair; a lock that others keep taking need not be had.
`ring_order`: only the callback is fair. `clock_snapshot`: the reader runs on, and a location it loads again and again reaches its newest store in the end
(the visibility the memory model promises); the callback may stop anywhere.
`queue_calls`: both threads run on and an attempt is due in the end, since
every retry delay is finite. `schedule_settles`: calls into the host return and
the driver takes its enabled steps (weak fairness), time passes even if steps
keep disabling it (strong fairness), and the thread that drops the worker runs
on; nothing is asked of the host, which may stop changing at any time.
`import_takeback`: the import's thread runs on.

Every property has a mutant in `PROJECT.json`, and a conjunction one for each
part beyond types: a definition with one plausible bug, under which the run
finds the property violated.

## 4. Findings

* `store_relabel` (`survey.rs:443`): a full slot without a verified storage set still
  donates its boxes, under its majority counter. When a save-block sector of a
  five-sector head is relabelled to the missing id 5, and the stale tail behind
  it holds that sector's own id, all fourteen ids are present, the slot counts as
  `Ok`, and the save-block sector is loaded as a box chunk. The repository's tests
  assert that this never happens (`torn_write_tests.rs:237`) for a tail that
  leaves the slot damaged. `store_writes` shows that a set the survey did verify is
  never a mix.
* Three shapes need more writes than `store_writes` makes; TLC finds them with the
  constants given, once the exception the property makes for them is dropped.
  *A tear the remains complete* (`survey.rs:443`; `StartRotations = {7}`,
  `LegacyRotations = {4}`, three writes, one fault): a full write of the original
  game torn after thirteen sectors over a five-sector head finds its fourteenth id
  in the stale tail behind that head. All ids are present, the slot is `Ok`, and a
  mix of two generations loads, which the next save makes permanent. The first line
  of `torn_write_tests.rs` says that interrupted writes must never read as an intact
  slot; its cases stop before the last sector or lie over a full generation.
  *A counter begun again* (`store.rs:388`): when neither slot can be read the next
  save counts from one, and a five-sector head then laid over a tail from before may
  not be ahead of it; such a head is refused, whole as it is. *A mix carried on*:
  boxes a load mixed after a changed footer are saved again with footers that agree.
  The properties claim nothing of these images (`misfiled`, `Undated`, `carried`),
  and everything of all others.
* `queue_detach` (`transport.rs:507`): the driver drops a stream, which may block in the
  audio stack, and only then reads whether playback runs. A stop that lands in
  between hides that the queue stood still while started; the next start plays it,
  against the module's rule for history.

Two properties of `queue_calls` are stated for calls of the game the driver takes
no step inside (`~split'`). Without that condition both fail, when the game is
held up inside one call for as long as the driver takes to connect: a start
counted before its flag is stored is taken for a stopped one (`shared.rs:98`),
and a stop whose discard is narrowed before its flag is stored lets the driver
arm a second one (`shared.rs:106`). `queue_calls` shows that nothing else goes wrong.

`StoreComesBack` says nothing of the boxes where `ReadsAhead` holds
(`game_save.rs:164`): a file erased under a session whose counter is in the upper
half of its range is not taken for one behind it, because order is decided by
signed distance, and the session's boxes are not restored. The same is true of a
file exactly half the range away, which is neither ahead nor behind: the proof of
`StoresComeBack` failed on it, and `session_stores` now copies one in. No player
reaches 2^31 saves; a damaged counter can.

## 5. Proofs

A theorem holds for every value of the constants its module's assumptions allow:
any number of games, processes, producers, callbacks, levels or party members,
any durations, and any of the bounds that TLC needs. "Inductive" names the
invariant the proof carries.

| Theorem | Property | Argument |
|---|---|---|
| `TypeCorrect`, `StoreSeesTheDiskAlways` | `TypeOK`, `StoreSeesTheDisk` | inductive: `IInv` |
| `NewerProgressIsSafe` | `NoNewerProgressBuried` | `IInv`: the verdict that led to `Stage` was computed on the image still on disk |
| `OverwritesAreConfirmed` | `EveryOverwriteConfirmed` | the same, with `AskedFirst` for the dialog's answer |
| `SessionImplementsLedger` | `LedgerSpec` | initial states and every step, under `IInv` |
| `StoresComeBack` | `StoreComesBack` | `Sound(disk)` is kept; a generation beside the one it counts on from is the newer |
| `UnseenProgressIsSafe` | `NoUnseenProgressBuried` | inductive: `KnownInv` |
| `RingTypeCorrect`, `PlaysInOrderAlways`, `SlotsStayApart` | `TypeOK`, `PlaysInOrder`, `SlotsApart` | inductive: `RingInv` |
| `RingImplementsQueue` | `QueueSpec` | every step of the ring is one of the queue or a stutter, under `RingInv` |
| `HistoryStaysUnplayed`, `StopsSpareWhatFollows` | `HistoryNotPlayed`, `StopSparesLaterPushes` | inductive: `Discards`, over `RingInv` |
| `SnapshotsAreGenuine`, `ReadingsGoForward` | `ClockInv`, `NeverBackward` | inductive: `ClockIInv` |
| `QueueTypeCorrect`, `HistoryIsNotReplayed`, `StoppedQueueIsKept` | `TypeOK`, `HistoryNotReplayed`, `StoppedQueueKept` | inductive: `QueueIInv` |
| `GameIsToldTheTruth`, `RetriesAreBounded`, `DefaultIsFollowed`, `SleeperIsNotLeft` | `ScheduleInv`, `RetriesBounded`, `DefaultFollowedInTime`, `SleeperIsJoined` | inductive: `ScheduleIInv` |
| `StoreTypeCorrect`, `StoreNewestLoads`, `StoreTearsTold` | types, `NewestWholeGenerationLoads`, no tear is taken for a generation; without five-sector builds, one fault | inductive: `OneFaultKept`, over `TypeKept` |
| `StoreWithoutFaults` | `NewestWholeGenerationLoads`, `StoreInv`; every build, no fault | inductive: `NoFaultKept`, over `TypeKept` |
| `SavesAreWhole`, `GuardedWriteUpdates` | `FileInv`, `OnlyOwnUpdate` | inductive: `FileIInv` |
| `FieldIsFiled`, `TurnsAreComplete`, `EventsAddUp`, `OutcomesAreJustified`, `DecidedStaysDecided` | `BattleInv`, `TurnsComplete`, `ToldOnce`, `OutcomeJustified`, `DecidedIsOver` | inductive: `BattleIInv` |
| `NothingIsStranded`, `OthersAreKept` | `ImportInv`, `OthersKept` | inductive: `ImportIInv` |
| `NoTraceIsLeft` | `NoTraceLeft` | inductive: `OrderInv`, over `ImportIInv` |
| `FinishedIsDurable` | `DoneIsDurable` | inductive: `DurableInv`, over `OrderInv` and `ImportIInv` |

*Session.* `IInv` is `TypeOK`, `StoreSeesTheDisk` and `Underway(p)` for every
game: where a game is in a store fixes what is known of its session (it has a
file) and of the verdict on the image it reread. `StoreSeesTheDisk` is
not inductive without it, since `Rename` uses the verdict `Stage` was guarded
by. The image changes only at `Rename`, by the lock's one holder, or while nobody
holds the lock.

`StoresComeBack` needs that every generation stands in the slot of its counter
(`Sound`), which each store and each damage keeps. Then the slot a store writes
is the other one, its counter is the next, and `SecondCounterIsNewer` prefers it
through the wrap, whatever `Resolve` made of a five-sector head beside it.

`UnseenProgressIsSafe` says what a session may not know. `KnownInv` relates its
counter to the one a load finds: until a file is copied in or both slots are
damaged, the disk is at most the stores made so far ahead of it (`Ahead`), or,
after one damaged slot, one generation behind it and then at a save it knows
(`FellBack`). Below half the range of the counter the first is what
`CounterIsAhead` refuses. For `FellBack` to be kept, an intact file must hold two
adjacent generations (`Paired`) and a session that is up to date must know both
(`KnowsBoth`). A session under the same counter goes on from the same base, or
its donor was lost, and a base is known (`BaseKnown`).

*Store.* `OneFaultKept` names the two slots. Until a fault the newest generation stands whole
in one and the other is blank or holds the one before it, with the counter and the
rotation one less (`Standing`), or nothing was written yet (`Fresh`). A torn write leaves
`Broken` beside the newest; damage leaves the one beside it, or one generation
`Lone`ly damaged; a changed footer leaves nothing to claim (`NoneClaimed`). The step that
matters is a torn write: two writes to one slot stand two rotations apart,
so the remains never supply the ids the newer half lacks (`TornOverGeneration`), and
a head of the newer over a tail of the older has the tail's rotation 12, which the
survey refuses. The rest is what a scan of each shape reports (`FullScan`, `HurtScan`,
`BlankScan`), what a load makes of two scans (`LoadFull`) and what a write lays
(`Laid`), each for any counter and rotation.

`NoFaultKept` covers every build. A slot is described by its age, how many
generations it is behind the newest (`Stands`): a full generation, a five-sector head
over blank sectors, or a head over the tail of an older full one, which offers a load
its nine boxes exactly when it is not rotated, since otherwise the head covers some.
`Paired` says that the newest generation has age 0 (`Top`) and that the other slot
(`Under`) was never written, has age 1 (`Former`), or is a head at rotation 0 over
a tail at rotation 12, which the survey takes for a torn write (`Rejected`): the next save
counts on from the other slot and lands on it. Boxes on offer are kept in the order
of the writes that gave them (`Ordered`), so the donor that is newest by counter is the
one with the newest boxes (`DonorBest`). Counters are compared by signed distance; what
makes every comparison right is that a run makes fewer writes than half their range, so no age
reaches it (`AgesOrdered`). A save then ages what it leaves (`StandsAges`) and lays a full
generation (`FullSaved`) or a head (`HeadSaved`) at age 0.

*Ring.* `RingInv` adds to `TypeOK` and `PlaysInOrder`: `LockHeld` (who is in the
middle of a push holds the mutex), `RoomReserved` (the space a push read can only
have grown), `EndsMeet` (write index = read index + occupied, modulo the
capacity), `SlotsFilled` (the occupied slots and those already stored of a
batch hold the next numbers in order) and `FillWithinQueue` (the callback's count
never exceeds what is occupied). `PlaysInOrder` alone is not inductive: it does not say
what the slots hold. In the refinement the queue's samples are the numbers after
`taken`. `Discards` follows a mark from the stop that sets it to the fill that
settles it, as a number; positions stand for numbers as long as those of a run
stay within half the modulus (`PositionsAssumption`).

*Clock.* `ClockIInv` reads the log backwards. An even sequence is the end of one
callback's copy, and acquiring it shows that callback's six counters and the
publish of the callback before (`EvensEndCopies`); a counter of a later callback
releases that callback's odd sequence (`CountersFenced`), so the fence behind
the loads makes the recheck see it (`Noticed`). The writer's own latest stores
(`WriterInv`, `CopyInv`) keep these when it appends.

*Transport queue.* `QueueIInv` says where history is remembered at each place of the
driver: by the discard the ring holds (`Kept`), by the latch, by a start that is
still to be noticed, or by a stream that was lost while it played. It is stated
under `~split`, as the properties are.

*Schedule.* `ScheduleIInv` has three accounts. `InTime` bounds, at each place, how
long another default was unseen together with what the call or the park under way can
add; `BurstCounted` says that the driver never counts fewer failures than the
history variables unless the cooldown is to be waited out; `StateTrue` ties the
published state, the newest event and the one not yet pushed to the stream.

*Save file.* Two facts carry `FileIInv`: a lock file is never put back into a slot
it left, and it is in one slot only. So a process that finds its file in the slot of the
parent stands where it stood at its last check (`ChecksHold`), and the save
beside it is the one it read, since only the holder of that file renames there
(`SeenIsSaved`).

*Battle.* The three lists a party is spread over are filed back by position
(`PartyOrderKept`), for which the module proves what `Filed` does to a
sequence of any length. `Underway` ties each stretch of a turn to the number of
passes, and prompts to a standing member behind a felled opponent.

*Import.* `Shape`: the directories stay a tree, nodes are taken in order and within
an account of what each place may have used, levels are recorded once. `Owned`: what
the import holds a pin on, identified, vouched for or captured is its own,
unless somebody came between a look and its use. `Hiding`: there is one
quarantine, only what a take-back moved is in it, and at the end only what could
not be put back: the directory it came from is gone, all its names are taken, or the
renames were refused (`Excused`).

`NoTraceLeft` says that a take-back finds each made level empty, and that the last
removal finds the quarantine empty. `OrderInv` holds as long as nobody else acts:
the recorded levels were made outermost first, so the parent of each is older than the
level and none lies in a younger one (`Ordered`); each stands where it was made
until the cursor reaches it, innermost first (`Placed`), and then in the quarantine
until it is unlinked or back (`BackTo`); the quarantine stands beside the outermost
(`QuarantineStands`); and all else is as the import found it
(`Surroundings`). So what a level held is gone when its turn comes: the pack with the
temporary, and the next level with the turn before. It is stated for a run that
never wanted a descriptor, whose take-back was refused nothing and whose levels are
all vouched for (`Clean`), as the property is.

`DoneIsDurable` says that a climb never wants a descriptor it cannot get.
`DurableInv` holds while nobody else acts and the host has `ClimbSlots`
descriptors. The walk follows the path and each level past the first is new
(`OnPath`, `OnLevels`): the levels recorded are the end of it. A pin is given up
outermost first, so the levels still pinned are the innermost, each by both its pins
(`Windowed`). A level whose pins were given up is synced through its parent, which
the climb has yet to pass (`Climbing`). A step that finds no
descriptor releases pins of levels already synced, innermost first; it does so at
most in the destination and in the directory next to it, and from there on one
descriptor is to spare (`Innermost`). When the climb ends no level waits for its
sync without a pin, and the rest are synced by the pins they have (`SyncedTo`).

Assumptions used are those the modules name; TLC evaluates them in the runs.
Most are types. The others, and why the code justifies them:

* `CounterModulusAssumption`: the modulus is even; counters are `u32`.
* `ImagesAssumption`: a generation in an image stands in the slot of its counter,
  as every writer puts it; an image a run starts from holds two adjacent
  generations, or the first save alone. Copied-in files need only the former.
* `WritesAssumption`: a run makes fewer writes than half the range of the counter, 2^31.
* `StoresAssumption`: fewer stores than half the range of the counter, 2^31.
* `PositionsAssumption`: fewer samples than half of 2^64.
* `ScheduleAssumption`: durations are not zero, as the constants in
  `transport.rs` are; a grace or a call may be. `BackoffAssumption`: each delay of a
  burst is a number. `IdsAssumption`: no device's identity is one of the three
  absences.
* `NobodyAssumption`, `PartiesAssumption`: reserved names are nobody's, nobody is in both
  parties or twice in one.
* `NamesAssumption`: no level of the path has the random name of a quarantine or
  is the place where an import never looks. It does not say that a name a put-back
  tries is free.

The type invariants of `SaveSession` and `AudioRing` are proved and no longer
model-checked on their own; every other property that is proved is also checked.

Only model-checked: of `SaveStore`, the runs in which a five-sector build writes and
something is torn or damaged as well (what is left is told from a tear by counting sectors and footers,
and the shapes multiply); and liveness: under fairness, and `ENABLED`, it is beyond the prover used, as is what a function
defined by recursion over data computes for every input. No module here declares
a `RECURSIVE` operator.

## 6. Limits

* Two faults at once can splice two generations, as in the original game; one
  fault is the bound of the code's own promise. A full slot whose last sector
  has a changed counter copies from the other slot, as upstream does.
* A five-sector head over a tail shaped like a torn full write may be refused; the
  code chooses so, and such a slot counts as doubtful, not as whole.
* Counters exactly half their range apart have no order.
* A session that began a new adventure may, after its prompt was confirmed,
  overwrite another session's save of the same count.
* The stamp inside a save block is not modelled.
* The ring's two reserved totals make a mark fall short by at most two samples
  at the wrap, once in 2^64.
* *Schedule.* The driver's own steps take no time, only calls into the host do.
  What an attach stores about the device is left out, and so are spurious
  unparks, whose effect a wake from a start that changes nothing covers. A stream
  counts as stable only when a poll finds it so before it finds it lost.
* *Save file.* `OnlyOwnUpdate` excepts an upset exactly between the last check and
  the read or rename that relies on it (`raced`), which no check by name can
  close; the exceptions include a path moved away and back around a read, and an
  image replaced between `still_ours` and the rename. Not modelled: a save that is
  hard-linked to the lock slot or is no plain file, directories made on the
  way, paths without a file name, other hosts than Unix, several handles within
  one process, the names a lock file is staged under, one lock file linked into
  two directories.
* *Battle.* `EnemyAction::Switch` is never selected and not modelled. Statistics,
  PP, items, escape odds, the opponent's scores and the error returns are left
  out; a strike of a multi-hit move costs one HP; poison and burn are one ailment.
* *Import.* `OthersKept` and `ImportInv` except an upset between a call that looks at
  a name and the next that acts on it (`raced`: the made level before it is
  identified, the quarantine before it is vouched for, the capture before it is
  unlinked, the quarantine before it is removed) and anything done inside the
  quarantine, which only the player's own programs can reach. `DoneIsDurable` asks for
  the three descriptors a climb needs; the code sets ten aside. `NoTraceLeft` asks that no
  descriptor was wanting, every level kept its pins and no call of the take-back was
  refused (`denied`): on a full disk or over a quota the quarantine cannot be made and the
  levels stay, one that cannot be opened or vouched for stays itself, and a
  temporary pack that cannot be removed keeps its level. `NothingStranded` excepts a
  put-back that found every name taken and one whose renames were refused; in both
  the code names the capture's place in a warning. A put-back's seventeen renames
  are one step, so that no name is freed or taken between them. Not modelled: `..` levels,
  mount points and the second quarantine a level on another file system gets,
  other hosts than Unix, a `fsync` that fails, files others put
  into a made directory, hard links to the ROM, and a crash in the middle of a
  take-back, which the code documents as leaving its quarantine behind.

## 7. Plan

Done: A (`SaveResolve`, `SaveSurvey`, `SaveStore`), B (`SaveSessionRules`,
`SaveSession`, `SaveLedger`), C (`AudioRing`, `AudioQueue`), D (`PlaybackClock`), E
(`TransportQueue`), F (`TransportSchedule`), G (`SaveFile`), H (`BattleTurn`), I
(`ImportRom`), J to L (every safety property of B to I as a theorem), O (types and
`NewestWholeGenerationLoads` of `SaveStore` as theorems), P (`StoreInv` of `SaveStore`
where five-sector builds write and nothing fails).

| Next | What | Why |
|---|---|---|
| Q | `StoreInv` of `SaveStore` where five-sector builds write and one sector fails | what a survey makes of a head over a broken tail |
| M | `SaveDialog`, refined by `SaveSession`'s two actions; `SaveFile` under `SaveSession`'s lock | each store asked for and reported once |
| N | `MusicPlayer`: fade, drain wait, restart against the clock and ring | a wait ends, no track starts twice |

## 8. Not modelled

Most of the repository's lines are data: the tables of `assets` and the profiles
of `rom-import` hold the game's maps, trainers, species and text, and have no
behaviour. Decoders, rendering, sound generation, battle formulas, text and
menus are sequential computations over that data which the repository compares
with recorded output; the overworld and its scripts are one thread and one
frame at a time, and what can go wrong there is in the data. Window, input and
pacing are calls into the operating system. The modules here cover the parts
with concurrency, failure or long call sequences, which are a small share of
the lines.
`PROJECT.json` lists every component with its status.
