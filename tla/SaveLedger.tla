---- MODULE SaveLedger ----
(***************************************************************************)
(* What the save medium promises its sessions: a store is one indivisible  *)
(* step, judged and applied over the image on disk at that instant.        *)
(* There is no lock, no reread and no staging file here.                   *)
(***************************************************************************)
EXTENDS SaveSessionRules

CONSTANTS Procs, InitialImages, ForeignImages, FirstStamp

VARIABLES disk, clock, session, confirmed

vars == <<disk, clock, session, confirmed>>

Init ==
  /\ disk \in InitialImages
  /\ clock = FirstStamp
  /\ session = [p \in Procs |-> NoFlashSession]
  /\ confirmed = [p \in Procs |-> FALSE]

\* A process starts, over the image on disk or without one, or ends.
Open(p) ==
  /\ \E booted \in {Booted(disk), NoFlashSession} :
       session' = [session EXCEPT ![p] = booted]
  /\ UNCHANGED <<disk, clock, confirmed>>

Close(p) ==
  /\ session' = [session EXCEPT ![p] = NoFlashSession]
  /\ confirmed' = [confirmed EXCEPT ![p] = FALSE]
  /\ UNCHANGED <<disk, clock>>

\* The player starts a new adventure or continues the one that was loaded.
Begin(p, new_game) ==
  /\ new_game \/ MenuShowsContinue(session[p].status)
  /\ session' = [session EXCEPT ![p].new_game = new_game,
                                ![p].different = new_game]
  /\ UNCHANGED <<disk, clock, confirmed>>

\* The dialog asks before it overwrites.
Consent(p, yes) ==
  /\ confirmed' = [confirmed EXCEPT ![p] = yes]
  /\ UNCHANGED <<disk, clock, session>>

\* A store that is allowed replaces one generation, with the boxes the rules
\* say, and a later boot finds it.
Store(p) ==
  /\ session[p].file
  /\ StoreVerdict(session[p], confirmed[p], DiskLoad(disk)) = "Written"
  /\ disk' = SavedImage(session[p], disk, clock)
  /\ session' = [session EXCEPT ![p] = AfterWritten(@, disk, clock)]
  /\ clock' = clock + 1
  /\ confirmed' = [confirmed EXCEPT ![p] = FALSE]

\* A store that is refused or fails leaves the image as it was.
Decline(p) ==
  /\ session' = [session EXCEPT ![p] = AfterAttempt(@)]
  /\ confirmed' = [confirmed EXCEPT ![p] = FALSE]
  /\ UNCHANGED <<disk, clock>>

\* The medium is damaged, or another file is copied over it.
Alter ==
  /\ disk' \in ForeignImages \union UNION {DamagedImages(disk, s) : s \in Slots}
  /\ UNCHANGED <<clock, session, confirmed>>

Next ==
  \/ \E p \in Procs :
       \/ Open(p) \/ Close(p) \/ Store(p) \/ Decline(p)
       \/ \E b \in BOOLEAN : Begin(p, b) \/ Consent(p, b)
  \/ Alter

Spec == Init /\ [][Next]_vars
====
