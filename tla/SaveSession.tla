---- MODULE SaveSession ----
(***************************************************************************)
(* Several running games over one save file. A session loads at boot       *)
(* without a lock, plays, and stores from the SAVE dialog: lock, reread,   *)
(* decide, stage, rename over the file, release. A session can crash       *)
(* between any two steps and start again; flash damage and a copied-in     *)
(* file change the image while nobody holds the lock.                      *)
(***************************************************************************)
EXTENDS SaveSessionRules

CONSTANTS
  Procs,               \* running games
  NoProc,              \* nobody holds the lock
  InitialImages,       \* images a run may start from
  ForeignImages,       \* images a player may copy over the file
  FirstStamp,          \* stamps below it belong to those images
  LastStamp,           \* bound: stores stop after this many stamps
  MaxDamage            \* bound on damaged slots and copied-in files together

ASSUME SessionAssumption ==
  /\ NoProc \notin Procs
  /\ InitialImages \subseteq Image /\ ForeignImages \subseteq Image
  /\ FirstStamp \in Nat /\ LastStamp \in Nat /\ FirstStamp <= LastStamp
  /\ FirstStamp .. LastStamp \subseteq Stamps
  /\ MaxDamage \in Nat

\* A generation is somebody's save and stands in the slot of its counter: every
\* game puts it there.
Sound(image) ==
  \A s \in Slots : image[s].integrity = "Ok" =>
    PhysicalSlotForCounter(image[s].counter) = s /\ image[s].blocks # NoStamp

\* Before any damage two generations are a save and the next one, and a slot
\* whose neighbour is empty holds the first save of all.
Paired(image) ==
  /\ (\A s \in Slots : image[s].integrity = "Ok") =>
       \E s \in Slots : image[s].counter = WrappingAdd(image[1 - s].counter, 1)
  /\ \A s \in Slots :
       image[s].integrity = "Ok" /\ image[1 - s].integrity # "Ok" => image[s].counter = 1

ASSUME ImagesAssumption ==
  /\ \A image \in InitialImages \union ForeignImages : Sound(image)
  /\ \A image \in InitialImages : Paired(image)

\* Fewer stores than half the range of the counter.
ASSUME StoresAssumption == 2 * (LastStamp + 1 - FirstStamp) < CounterModulus

VARIABLES
  disk,                \* the save file's image
  clock,               \* the stamp the next store will use
  damage,              \* slots damaged and files copied in so far
  lock,                \* holder of the advisory lock beside the file
  pc,                  \* where each game is
  session,             \* what each game remembers of the file
  confirmed,           \* whether its dialog's overwrite prompt was answered yes
  reread,              \* the image its running store reread under the lock
  known                \* history: saves in the image each game loaded, or written by it

vars == <<disk, clock, damage, lock, pc, session, confirmed, reread, known>>

Places == {"off", "menu", "field", "prompt", "store", "locked", "decided",
           "staged"}
Locked == {"locked", "decided", "staged"}

Goto(p, place) == pc' = [pc EXCEPT ![p] = place]

\* The store returns to play: its locals and the dialog's answer are gone.
Leave(p, place) ==
  /\ Goto(p, place)
  /\ confirmed' = [confirmed EXCEPT ![p] = FALSE]
  /\ reread' = [reread EXCEPT ![p] = ErasedImage]

Init ==
  /\ disk \in InitialImages
  /\ clock = FirstStamp
  /\ damage = [slots |-> 0, copies |-> 0]
  /\ lock = NoProc
  /\ pc = [p \in Procs |-> "off"]
  /\ session = [p \in Procs |-> NoFlashSession]
  /\ confirmed = [p \in Procs |-> FALSE]
  /\ reread = [p \in Procs |-> ErasedImage]
  /\ known = [p \in Procs |-> {}]

----------------------------------------------------------------------------
\* `SaveSlot::load`: one unlocked read, of an image that is always whole
\* because every store replaces the file. An unreadable file disables saving.
Boot(p) ==
  /\ pc[p] = "off"
  /\ \/ /\ session' = [session EXCEPT ![p] = Booted(disk)]
        /\ known' = [known EXCEPT ![p] = {disk[s].blocks : s \in Slots}]
     \/ /\ session' = [session EXCEPT ![p] = NoFlashSession]
        /\ known' = [known EXCEPT ![p] = {}]
  /\ Goto(p, "menu")
  /\ UNCHANGED <<disk, clock, damage, lock, confirmed, reread>>

\* NEW GAME is always offered, CONTINUE when the boot status shows it.
StartGame(p, new_game) ==
  /\ pc[p] = "menu"
  /\ new_game \/ MenuShowsContinue(session[p].status)
  /\ session' = [session EXCEPT ![p].new_game = new_game,
                                ![p].different = new_game]
  /\ Goto(p, "field")
  /\ UNCHANGED <<disk, clock, damage, lock, confirmed, reread, known>>

\* The overwrite question is skipped for a new game over an empty boot only.
SkipsPrompt(s) == s.status \in {"Empty", "Corrupt"} /\ s.different

AskToSave(p) ==
  /\ pc[p] = "field"
  /\ confirmed' = [confirmed EXCEPT ![p] = FALSE]
  /\ Goto(p, IF SkipsPrompt(session[p]) THEN "store" ELSE "prompt")
  /\ UNCHANGED <<disk, clock, damage, lock, session, reread, known>>

AnswerPrompt(p, yes) ==
  /\ pc[p] = "prompt"
  /\ confirmed' = [confirmed EXCEPT ![p] = yes]
  /\ Goto(p, IF yes THEN "store" ELSE "field")
  /\ UNCHANGED <<disk, clock, damage, lock, session, reread, known>>

\* Without a readable file the store fails before any lock is taken.
StoreDisabled(p) ==
  /\ pc[p] = "store" /\ ~session[p].file
  /\ session' = [session EXCEPT ![p] = AfterAttempt(@)]
  /\ Leave(p, "field")
  /\ UNCHANGED <<disk, clock, damage, lock, known>>

\* Mutant: the lock is not exclusive.
LockShared(p) ==
  /\ pc[p] = "store" /\ session[p].file
  /\ clock <= LastStamp
  /\ lock' = p
  /\ Goto(p, "locked")
  /\ UNCHANGED <<disk, clock, damage, session, confirmed, reread, known>>

\* `SaveFile::lock`: blocks until the lock beside the file is free.
Lock(p) ==
  /\ pc[p] = "store" /\ session[p].file
  /\ clock <= LastStamp
  /\ lock = NoProc /\ lock' = p
  /\ Goto(p, "locked")
  /\ UNCHANGED <<disk, clock, damage, session, confirmed, reread, known>>

Reread(p) ==
  /\ pc[p] = "locked"
  /\ reread' = [reread EXCEPT ![p] = disk]
  /\ Goto(p, "decided")
  /\ UNCHANGED <<disk, clock, damage, lock, session, confirmed, known>>

Verdict(p) == StoreVerdict(session[p], confirmed[p], DiskLoad(reread[p]))

\* An early return with a refusal drops the guard and changes nothing.
Refuse(p) ==
  /\ pc[p] = "decided" /\ Verdict(p) # "Written"
  /\ session' = [session EXCEPT ![p] = AfterAttempt(@)]
  /\ lock' = NoProc
  /\ Leave(p, "field")
  /\ UNCHANGED <<disk, clock, damage, known>>

Stage(p) ==
  /\ pc[p] = "decided" /\ Verdict(p) = "Written"
  /\ Goto(p, "staged")
  /\ UNCHANGED <<disk, clock, damage, lock, session, confirmed, reread, known>>

\* The rename: the file, the session's memory and the lock change hands.
Rename(p) ==
  /\ pc[p] = "staged"
  /\ disk' = SavedImage(session[p], reread[p], clock)
  /\ session' = [session EXCEPT ![p] = AfterWritten(@, reread[p], clock)]
  /\ known' = [known EXCEPT ![p] = @ \union {clock}]
  /\ clock' = clock + 1
  /\ lock' = NoProc
  /\ Leave(p, "field")
  /\ UNCHANGED damage

\* An I/O error anywhere under the lock: the file stays as it was.
StoreFails(p) ==
  /\ pc[p] \in Locked
  /\ session' = [session EXCEPT ![p] = AfterAttempt(@)]
  /\ lock' = NoProc
  /\ Leave(p, "field")
  /\ UNCHANGED <<disk, clock, damage, known>>

\* The system drops a dead process's lock with its descriptors.
Crash(p) ==
  /\ pc[p] # "off"
  /\ lock' = IF lock = p THEN NoProc ELSE lock
  /\ session' = [session EXCEPT ![p] = NoFlashSession]
  /\ known' = [known EXCEPT ![p] = {}]
  /\ Leave(p, "off")
  /\ UNCHANGED <<disk, clock, damage>>

----------------------------------------------------------------------------
\* Flash damage, and a file the player copies over the save, both while no
\* store holds the lock: no program can guard against either inside it.
MayAlter == lock = NoProc /\ damage.slots + damage.copies < MaxDamage

Damage(s) ==
  /\ MayAlter
  /\ disk[s].integrity # "Empty"
  /\ disk' \in DamagedImages(disk, s)
  /\ damage' = [damage EXCEPT !.slots = @ + 1]
  /\ UNCHANGED <<clock, lock, pc, session, confirmed, reread, known>>

Replace(image) ==
  /\ MayAlter
  /\ disk' = image
  /\ damage' = [damage EXCEPT !.copies = @ + 1]
  /\ UNCHANGED <<clock, lock, pc, session, confirmed, reread, known>>

Step(p) == StoreDisabled(p) \/ Lock(p) \/ Reread(p) \/ Refuse(p) \/ Stage(p)
           \/ Rename(p) \/ StoreFails(p)

Next ==
  \/ \E p \in Procs :
       \/ Boot(p) \/ AskToSave(p) \/ Step(p) \/ Crash(p)
       \/ \E new_game \in BOOLEAN : StartGame(p, new_game)
       \/ \E yes \in BOOLEAN : AnswerPrompt(p, yes)
  \/ \E s \in Slots : Damage(s)
  \/ \E image \in ForeignImages : Replace(image)

Spec == Init /\ [][Next]_vars

----------------------------------------------------------------------------
\* Every variable stays within its type; at most one process is past the lock.
TypeOK ==
  /\ disk \in Image
  /\ clock \in FirstStamp .. LastStamp + 1
  /\ damage \in [slots : 0 .. MaxDamage, copies : 0 .. MaxDamage]
  /\ lock \in Procs \union {NoProc}
  /\ pc \in [Procs -> Places]
  /\ session \in [Procs -> Session]
  /\ confirmed \in [Procs -> BOOLEAN]
  /\ reread \in [Procs -> Image]
  /\ known \in [Procs -> SUBSET Payload]

\* The lock's holder is the one process between lock and release, and what it
\* decides and writes from is the image on disk, however many stores, crashes
\* and reboots of other games came in between.
LockHeld(p) == pc[p] \in Locked <=> lock = p
RereadIsCurrent(p) == pc[p] \in {"decided", "staged"} => reread[p] = disk
StoreSeesTheDisk == \A p \in Procs : LockHeld(p) /\ RereadIsCurrent(p)

Stores(p) == pc[p] = "staged" /\ clock' = clock + 1

\* A continued session's store never buries a save that was neither in the
\* image it loaded nor written by itself. Only once a file was copied in or both
\* slots were damaged may it take such a save for a fallback, and never one under
\* its own counter or ahead of it.
NoUnseenProgressBuried ==
  [][\A p \in Procs : LET load == DiskLoad(disk) IN
       Stores(p) /\ ~session[p].new_game /\ MenuShowsContinue(load.status) =>
         \/ load.base.blocks \in known[p]
         \/ /\ damage.copies > 0 \/ damage.slots > 1
            /\ load.counter # session[p].counter
            /\ ~CounterIsAhead(session[p].counter, load.counter)]_vars

\* No store, of whatever lineage, lands on a save ahead of its session.
NoNewerProgressBuried ==
  [][\A p \in Procs : LET load == DiskLoad(disk) IN
       Stores(p) => ~( /\ MenuShowsContinue(load.status)
                       /\ CounterIsAhead(session[p].counter, load.counter))]_vars

\* An unreadable or erased file counts from 0; under a session in the upper half
\* of the range that is not behind it, and taken for progress (see the README).
ReadsAhead(p) ==
  LET found == DiskLoad(disk).counter
  IN found # session[p].counter /\ ~CounterIsAhead(found, session[p].counter)

\* What a store reports written is what the next boot loads, and a continued
\* session's boxes come with it from store to store: through a lost donor, a
\* damaged slot, a copied-in file and one that holds no save any more.
StoreComesBack ==
  [][\A p \in Procs : Stores(p) =>
       LET load == DiskLoad(disk')
       IN /\ MenuShowsContinue(load.status) /\ load.base.blocks = clock
          /\ ~session[p].new_game /\ ~ReadsAhead(p) =>
               load.base.boxes = session[p].base.boxes]_vars

\* A continuable save on disk is written over only by a store whose own
\* dialog had the overwrite question answered yes.
EveryOverwriteConfirmed ==
  [][\A p \in Procs :
       Stores(p) /\ MenuShowsContinue(DiskLoad(disk).status) => confirmed[p]]_vars

----------------------------------------------------------------------------
\* A store, however many steps it takes under its lock, is one step of the
\* ledger over the image it finds.
Ledger == INSTANCE SaveLedger
LedgerSpec == Ledger!Spec
====
