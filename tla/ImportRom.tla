---- MODULE ImportRom ----
(***************************************************************************)
(* `--import-rom` on a Unix host: the directories an import makes on its   *)
(* way to the destination, the temporary pack and its publication, and how *)
(* a failed import takes back what it made.  One step per system call that *)
(* another program could come between.                                     *)
(*                                                                         *)
(* A directory is known by its node (device and inode), never by its name. *)
(* Descriptors are counted: an import that runs out of them gives up pins, *)
(* outermost level first, and with them its claim to take a level back.    *)
(* Any call of a take-back may be refused: a full disk, a permission, a    *)
(* device that fails.                                                      *)
(***************************************************************************)
EXTENDS Integers, Sequences, FiniteSetsExt, Functions

CONSTANTS
  LevelNames,          \* the path from Root to the destination, outermost first
  Hosts                \* the descriptors an import may hold at once, its
                       \* `pin_budget`, a bound on what others do meanwhile, and
                       \* whether they do it only once a take-back has begun

ASSUME ImportAssumption ==
  /\ LevelNames \in Seq(STRING) /\ LevelNames # <<>>
  /\ Hosts \subseteq [slots : Nat, pin_limit : Nat, upsets : Nat, late : BOOLEAN]

VARIABLES
  tree,                \* every node ever: where it is, what it is, who made it
  host,                \* one of Hosts
  pc, depth,           \* the next level of the walk
  walk, fresh,         \* the directory the walk stands in, the level just made
  created, dest, temp, \* the levels recorded, the destination, the temporary pack
  cursor, home, quarantine, \* the level being taken back, the quarantine and
                       \* the directory it was made in
  ours,                \* whether the capture was found to be that level
  starved,             \* history: an open found no descriptor,
  denied,              \* the take-back's steps that came to nothing because the
                       \* system refused a call, and "names" if others had every
                       \* name of a put-back,
  upsets, raced        \* what others did, and whether between a check and its use

progress == <<pc, depth, walk, fresh, created, dest, temp>>
undoing == <<cursor, home, quarantine, ours>>
vars == <<tree, host, progress, undoing, starved, denied, upsets, raced>>

MaxUpsets == Max({h.upsets : h \in Hosts})
ASSUME UpsetsAssumption == MaxUpsets \in Nat /\ \A h \in Hosts : h.upsets <= MaxUpsets
Depth == Len(LevelNames)
Levels == 1..Depth
None == -1
Root == 0
\* Levels there and made, a pack, a temporary one, a quarantine, what others make.
Nodes == 0..(2 * Depth + 3 + MaxUpsets)

Node(dir, name, kind, maker) == [dir |-> dir, name |-> name, kind |-> kind, maker |-> maker]
Unused == Node(None, "nameless", "directory", "nobody")
Stands(n) == n = Root \/ tree[n].dir # None
Children(n) == {m \in Nodes : tree[m].dir = n}
IsDirectory(n) == n # None /\ tree[n].kind = "directory"
\* The node a name leads to in a directory that is held open.
Entry(dir, name) ==
  LET found == {n \in Children(dir) : tree[n].name = name}
  IN IF found = {} THEN None ELSE CHOOSE n \in found : TRUE
Vacant(dir, name) == Stands(dir) /\ Entry(dir, name) = None
NewNode == Min({n \in Nodes : tree[n] = Unused})
Put(n, node) == tree' = [tree EXCEPT ![n] = node]
Move(n, dir, name) == tree' = [tree EXCEPT ![n].dir = dir, ![n].name = name]
Unlink(n) == tree' = [tree EXCEPT ![n].dir = None]
\* `unlinkat(.., REMOVEDIR)`.
Removable(n) == IsDirectory(n) /\ Children(n) = {}

\* The recorded path of a level, resolved anew.
Path[k \in 0..Depth] ==
  IF k = 0 THEN Root
  ELSE IF IsDirectory(Path[k - 1]) THEN Entry(Path[k - 1], LevelNames[k]) ELSE None

Quarantined == "undo"
Captured == "level"
Aside == "restored"    \* `.restored-0` to `.restored-15`: taken when all sixteen are
Away == "away"         \* somewhere an import never looks; never looked up here
\* A quarantine's name is random, and no path leads where an import never looks.
ASSUME NamesAssumption == {Away, Quarantined} \intersect Range(LevelNames) = {}

---------------------------------------------------------------------------
(* Descriptors.  Adjacent levels share one, so they are counted by node.   *)

Pins(levels, standing) ==
  ({levels[i].own : i \in DOMAIN levels} \union {levels[i].parent : i \in DOMAIN levels}
     \union {standing}) \ {None}
Held(levels, standing) ==
  Cardinality(Pins(levels, standing)) + Cardinality({dest, temp, quarantine} \ {None})
Full(levels, standing) == Held(levels, standing) >= host.slots

HasPin(level) == level.own # None \/ level.parent # None
Pinned(levels) == {i \in DOMAIN levels : HasPin(levels[i])}

\* Own pins no other level and no walk shares: closing one frees a descriptor.
Unshared(levels, standing) ==
  {i \in DOMAIN levels : /\ levels[i].own \notin {None, standing}
                         /\ \A j \in DOMAIN levels : levels[j].parent # levels[i].own}

\* `sync_and_shed_outermost_pinned_level`: the entry is synced while its parent
\* is still held, at the price of the innermost own pin if it must be.
Shed(levels, standing) ==
  LET i == Min(Pinned(levels))
      unsynced == levels[i].parent # None /\ ~levels[i].synced
      full == Full(levels, standing)
      spare == Unshared(levels, standing)
      freed == IF unsynced /\ full /\ spare # {}
                 THEN [levels EXCEPT ![Max(spare)].own = None] ELSE levels
  IN [freed EXCEPT ![i].own = None, ![i].parent = None,
                   ![i].synced = levels[i].synced \/ (unsynced /\ (~full \/ spare # {}))]

---------------------------------------------------------------------------

\* What may stand before: a part of the path, and in a destination that is
\* there something at the pack's name already.
Init ==
  /\ \E there \in 0..Depth, occupant \in {"nothing", "former", "rom", "directory"} :
       /\ occupant # "nothing" => there = Depth
       /\ tree = [n \in Nodes |->
            CASE n = Root -> Node(None, "nameless", "directory", "before")
              [] n \in 1..there -> Node(n - 1, LevelNames[n], "directory", "before")
              [] n = there + 1 /\ occupant # "nothing" -> Node(there, "pack", occupant, "before")
              [] OTHER -> Unused]
  /\ host \in Hosts
  /\ pc = "survey" /\ depth = 1
  /\ walk = None /\ fresh = [node |-> None, synced |-> FALSE]
  /\ created = <<>> /\ dest = None /\ temp = None
  /\ cursor = 0 /\ home = None /\ quarantine = None /\ ours = FALSE
  /\ starved = FALSE /\ denied = {} /\ upsets = 0 /\ raced = FALSE

\* Every failure takes back what was recorded, innermost level first.
TakeBack(levels) == pc' = "undo" /\ cursor' = Len(levels)
Fails == TakeBack(created) /\ UNCHANGED created
Idle == UNCHANGED <<home, quarantine, ours>>
AtLevel == LevelNames[depth]

---------------------------------------------------------------------------
(* The walk: `create_directories_pinned`.                                  *)

\* `directories_to_create`: the innermost level that stands ends the search.
\* A destination that stands is not walked to.
Survey ==
  /\ pc = "survey"
  /\ LET there == Max({k \in 0..Depth : IsDirectory(Path[k])})
     IN /\ depth' = there + 1
        /\ pc' = IF there = Depth THEN "acquire" ELSE "start"
  /\ UNCHANGED <<tree, walk, fresh, created, dest, temp, undoing, starved>>

\* The first existing ancestor is the only one resolved by path.
OpenStart ==
  /\ pc = "start"
  /\ \/ /\ IsDirectory(Path[depth - 1]) /\ ~Full(created, walk)
        /\ walk' = Path[depth - 1] /\ pc' = "make"
        /\ UNCHANGED <<created, cursor>>
     \/ Fails /\ UNCHANGED walk
  /\ starved' = (starved \/ Full(created, walk))
  /\ UNCHANGED <<tree, depth, fresh, dest, temp>> /\ Idle

\* Mutant: a failure half-way leaves the levels made before it.
MakeLevelOrGiveUp ==
  /\ pc = "make"
  /\ \/ /\ Vacant(walk, AtLevel)
        /\ Put(NewNode, Node(walk, AtLevel, "directory", "level"))
        /\ pc' = "identify"
     \/ /\ IsDirectory(Entry(walk, AtLevel)) /\ pc' = "existing" /\ UNCHANGED tree
     \/ pc' = "failed" /\ UNCHANGED tree
  /\ UNCHANGED <<depth, walk, fresh, created, dest, temp, undoing, starved>>
\* A level that is already there belongs to someone else and is only entered.
MakeLevel ==
  /\ pc = "make"
  /\ \/ /\ Vacant(walk, AtLevel)
        /\ Put(NewNode, Node(walk, AtLevel, "directory", "level"))
        /\ pc' = "identify" /\ UNCHANGED <<created, cursor>>
     \/ /\ IsDirectory(Entry(walk, AtLevel))
        /\ pc' = "existing" /\ UNCHANGED <<tree, created, cursor>>
     \/ Fails /\ UNCHANGED tree
  /\ UNCHANGED <<depth, walk, fresh, dest, temp, starved>> /\ Idle

NextLevel == /\ depth' = depth + 1
             /\ pc' = IF depth = Depth THEN "acquire" ELSE "make"

\* A reopen may still find the name empty or the descriptors gone.
OpenExisting ==
  /\ pc = "existing"
  /\ \/ /\ IsDirectory(Entry(walk, AtLevel)) /\ ~Full(created, walk)
        /\ walk' = Entry(walk, AtLevel) /\ NextLevel /\ UNCHANGED <<created, cursor>>
     \/ /\ ~IsDirectory(Entry(walk, AtLevel)) \/ (Full(created, walk) /\ Pinned(created) = {})
        /\ Fails /\ UNCHANGED <<walk, depth>>
  /\ starved' = (starved \/ Full(created, walk))
  /\ UNCHANGED <<tree, fresh, dest, temp>> /\ Idle

\* The identity is captured by name after the directory was made: a failure
\* here leaves a level no one has recorded.
Identify ==
  /\ pc = "identify"
  /\ \/ /\ IsDirectory(Entry(walk, AtLevel))
        /\ fresh' = [node |-> Entry(walk, AtLevel), synced |-> FALSE]
        /\ pc' = "entry" /\ UNCHANGED <<created, cursor>>
     \/ Fails /\ UNCHANGED fresh
  /\ UNCHANGED <<tree, depth, walk, dest, temp, starved>> /\ Idle

\* `sync_new_entry`, best effort: a sync that fails is left to the later ones.
SyncEntry ==
  /\ pc = "entry"
  /\ ~Full(created, walk) \/ Pinned(created) = {}
  /\ \E synced \in BOOLEAN :
       (synced => ~Full(created, walk)) /\ fresh' = [fresh EXCEPT !.synced = synced]
  /\ starved' = (starved \/ Full(created, walk))
  /\ pc' = "reopen"
  /\ UNCHANGED <<tree, depth, walk, created, dest, temp, undoing>>

Record(own) ==
  [level |-> depth, node |-> fresh.node, parent |-> walk, own |-> own,
   parent_node |-> walk, synced |-> fresh.synced]

\* The pinned window is one longer now; the outermost pin pays for it.
Trim(levels, standing) ==
  IF Cardinality(Pinned(levels)) > host.pin_limit THEN Shed(levels, standing) ELSE levels

\* `reopen_created_level`: a level whose reopen fails is recorded without a
\* pin, one that is no longer the directory identified is not recorded.
Reopen ==
  /\ pc = "reopen"
  /\ ~Full(created, walk) \/ Pinned(created) = {}
  /\ LET found == Entry(walk, AtLevel)
         recorded == Append(created, Record(found))
     IN \/ /\ found = fresh.node /\ ~Full(created, walk)
           /\ \/ /\ created' = Trim(recorded, found)
                 /\ walk' = found /\ NextLevel /\ UNCHANGED cursor
              \/ \* `restore_directory_owner_access` failed
                 created' = recorded /\ TakeBack(recorded) /\ UNCHANGED <<walk, depth>>
        \/ /\ created' = Append(created, Record(None))
           /\ TakeBack(created') /\ UNCHANGED <<walk, depth>>
        \/ /\ IsDirectory(found) /\ found # fresh.node /\ ~Full(created, walk)
           /\ Fails /\ UNCHANGED <<walk, depth>>
  /\ starved' = (starved \/ Full(created, walk))
  /\ UNCHANGED <<tree, fresh, dest, temp>> /\ Idle

\* One turn of the loops that open a file for the walk, the destination or the
\* temporary pack: no descriptor, so a pin goes and the open is tried again.
GiveUpPin ==
  /\ pc \in {"existing", "entry", "reopen", "acquire", "temporary"}
  /\ Full(created, walk) /\ Pinned(created) # {}
  /\ created' = Shed(created, walk)
  /\ starved' = TRUE
  /\ UNCHANGED <<tree, pc, depth, walk, fresh, dest, temp, undoing>>

---------------------------------------------------------------------------
(* The destination and what has to be durable.                             *)

\* Mutant: only the parents that are still pinned are synced afterwards.
AcquireWithoutClimb ==
  /\ pc = "acquire" /\ ~Full(created, walk)
  /\ dest' = (IF walk # None THEN walk ELSE Path[Depth]) /\ IsDirectory(dest')
  /\ pc' = "levels" /\ cursor' = 1 /\ walk' = None
  /\ UNCHANGED <<tree, depth, fresh, created, temp, starved>> /\ Idle
\* Through the walk's descriptor, or by path if nothing was walked.  Without a
\* destination the levels are synced all the same before they are taken back.
Acquire ==
  /\ pc = "acquire"
  /\ LET found == IF walk # None THEN walk ELSE Path[Depth]
     IN \/ /\ IsDirectory(found) /\ ~Full(created, walk)
           /\ dest' = found
           /\ pc' = "climb" /\ fresh' = [node |-> found, synced |-> FALSE]
           /\ UNCHANGED <<created, cursor>>
        \/ /\ ~Full(created, walk) \/ Pinned(created) = {}
           /\ pc' = "levels" /\ cursor' = 1 /\ UNCHANGED <<created, dest, fresh>>
  /\ walk' = None
  /\ starved' = (starved \/ Full(created, walk))
  /\ UNCHANGED <<tree, depth, temp>> /\ Idle

\* `sync_shed_parents` climbs from the destination.  fresh.node is where it
\* stands, above the destination by a descriptor of its own.
Shedded(level) == level.parent = None /\ ~level.synced
Pending(levels) == \E i \in DOMAIN levels : Shedded(levels[i])
SyncedIn(levels, here) ==
  [i \in DOMAIN levels |-> [levels[i] EXCEPT !.synced = @ \/ levels[i].parent_node = here]]
NoWayUp(levels) ==
  Held(levels, None) + (IF fresh.node = dest THEN 0 ELSE 1) >= host.slots

\* `release_a_descriptor`, innermost first: the parent pins of synced levels
\* go until one closes that is nobody's own pin, else an own pin does.
Release(levels) ==
  LET closing == {i \in DOMAIN levels :
                    /\ levels[i].synced /\ levels[i].parent # None
                    /\ \A j \in DOMAIN levels : levels[j].own # levels[i].parent}
      dropped == [i \in DOMAIN levels |->
                    IF levels[i].synced /\ (closing = {} \/ i >= Max(closing))
                      THEN [levels[i] EXCEPT !.parent = None] ELSE levels[i]]
      spare == Unshared(dropped, None)
  IN IF closing = {} /\ spare # {} THEN [dropped EXCEPT ![Max(spare)].own = None]
     ELSE dropped

Descend(levels) == created' = levels /\ pc' = "levels" /\ cursor' = 1 /\ UNCHANGED fresh
ClimbOn(levels, here) ==
  created' = levels /\ fresh' = [fresh EXCEPT !.node = here] /\ UNCHANGED <<pc, cursor>>

Climb ==
  /\ pc = "climb"
  /\ LET here == fresh.node
         reached == IF \E i \in DOMAIN created :
                         Shedded(created[i]) /\ created[i].parent_node = here
                      THEN SyncedIn(created, here) ELSE created
         released == Release(SyncedIn(created, here))
     IN \/ /\ ~Pending(reached) \/ here = Root \/ ~Stands(here)
           /\ Descend(reached) /\ UNCHANGED starved
        \/ /\ Pending(reached) /\ here # Root /\ Stands(here)
           /\ IF ~NoWayUp(reached) THEN ClimbOn(reached, tree[here].dir)
              ELSE IF Held(released, None) = Held(created, None) THEN Descend(released)
              ELSE ClimbOn(released, here)
           /\ starved' = (starved \/ NoWayUp(reached))
  /\ UNCHANGED <<tree, depth, walk, dest, temp>> /\ Idle

\* Mutant: a level is tried until it can be synced.
SyncLevelKeepTrying ==
  /\ pc = "levels" /\ cursor <= Len(created)
  /\ created[cursor].parent = None \/ ~Full(created, None)
  /\ created' = [created EXCEPT ![cursor].synced = @ \/ created[cursor].parent # None]
  /\ cursor' = cursor + 1
  /\ UNCHANGED <<tree, pc, depth, walk, fresh, dest, temp, starved>> /\ Idle
\* `sync_created_directories`, one level: a descriptor it lacks is an outer
\* level's pins, or else the innermost level's own.
SyncLevel ==
  /\ pc = "levels" /\ cursor <= Len(created)
  /\ LET full == Full(created, None)
         outer == {i \in Pinned(created) : i < cursor}
         last == Len(created)
     IN \/ /\ created[cursor].parent = None \/ (full /\ outer = {} /\ created[last].own = None)
           /\ cursor' = cursor + 1 /\ UNCHANGED created
        \/ /\ created[cursor].parent # None /\ ~full
           /\ created' = [created EXCEPT ![cursor].synced = TRUE]
           /\ cursor' = cursor + 1
        \/ /\ created[cursor].parent # None /\ full
           /\ outer # {} \/ created[last].own # None
           /\ created' = IF outer # {}
                THEN [created EXCEPT ![Min(outer)].own = None, ![Min(outer)].parent = None]
                ELSE [created EXCEPT ![last].own = None]
           /\ UNCHANGED cursor
     /\ starved' = (starved \/ full)
  /\ UNCHANGED <<tree, pc, depth, walk, fresh, dest, temp>> /\ Idle

---------------------------------------------------------------------------
(* The temporary pack and its publication, all inside the open destination. *)

\* A directory at the pack's name and the ROM itself are refused.
Refused == LET there == Entry(dest, "pack")
           IN there # None /\ tree[there].kind \in {"directory", "rom"}
CheckName ==
  /\ pc = "levels" /\ cursor > Len(created)
  /\ IF dest = None \/ Refused THEN Fails
     ELSE pc' = "temporary" /\ UNCHANGED <<created, cursor>>
  /\ UNCHANGED <<tree, depth, walk, fresh, dest, temp, starved>> /\ Idle

CreateTemporary ==
  /\ pc = "temporary"
  /\ \/ /\ ~Full(created, None) /\ Vacant(dest, "temporary")
        /\ temp' = NewNode
        /\ Put(NewNode, Node(dest, "temporary", "unfinished", "temporary"))
        /\ pc' = "assemble" /\ UNCHANGED <<created, cursor>>
     \/ /\ ~Full(created, None) \/ Pinned(created) = {}
        /\ Fails /\ UNCHANGED <<tree, temp>>
  /\ starved' = (starved \/ Full(created, None))
  /\ UNCHANGED <<depth, walk, fresh, dest>> /\ Idle

\* The ROM is read, the pack is written and synced, or any of it fails.
Assemble ==
  /\ pc = "assemble"
  /\ \/ tree' = [tree EXCEPT ![temp].kind = "pack"] /\ pc' = "publish"
     \/ UNCHANGED tree /\ pc' = "discard"
  /\ UNCHANGED <<depth, walk, fresh, created, dest, temp, undoing, starved>>

Publish ==
  /\ pc = "publish"
  /\ LET replaced == Entry(dest, "pack")
     IN \/ /\ ~IsDirectory(replaced)
           /\ tree' = [n \in Nodes |->
                IF n = temp THEN [tree[n] EXCEPT !.name = "pack"]
                ELSE IF n = replaced THEN [tree[n] EXCEPT !.dir = None] ELSE tree[n]]
           /\ pc' = "done"
        \/ UNCHANGED tree /\ pc' = "discard"
  /\ UNCHANGED <<depth, walk, fresh, created, dest, temp, undoing, starved>>

\* How a step of the take-back ends that does not do what it is for: either it
\* could not, or the system refused the call.
CameToNothing(possible) ==
  denied' = IF possible THEN denied \union {pc} ELSE denied
Granted == UNCHANGED denied

\* The file is closed and its name removed before the levels are taken back,
\* which goes on if the name could not be removed.
Discard ==
  /\ pc = "discard"
  /\ \/ Unlink(temp) /\ Granted
     \/ UNCHANGED tree /\ CameToNothing(TRUE)
  /\ temp' = None /\ Fails
  /\ UNCHANGED <<depth, walk, fresh, dest, starved>> /\ Idle

---------------------------------------------------------------------------
(* Taking back: `undo_created_directories`.                                *)

Level == created[cursor]
LevelName == LevelNames[Level.level]
Stop == pc' = IF quarantine = None THEN "failed" ELSE "tidy"
NextOut == pc' = "undo" /\ cursor' = cursor - 1
Undoing == UNCHANGED <<depth, walk, fresh, created, dest, temp>>

\* The name is looked up in the held parent, and only the directory that was
\* recorded and is still held is taken.  A level that is not held is left if
\* anything stands at its path, or it cannot be examined, and so are the
\* levels above it.
LookUp ==
  /\ pc = "undo"
  /\ \/ cursor = 0 /\ Stop /\ UNCHANGED cursor /\ Granted
     \/ /\ cursor > 0
        /\ LET found == IF Level.parent = None THEN Path[Level.level]
                        ELSE Entry(Level.parent, LevelName)
               held == Level.parent # None /\ found = Level.own
           IN \/ found = None /\ NextOut /\ Granted
              \/ /\ found # None /\ held
                 /\ pc' = IF quarantine = None THEN "claim" ELSE "capture"
                 /\ UNCHANGED cursor /\ Granted
              \/ Stop /\ UNCHANGED cursor /\ CameToNothing(found = None \/ held)
  /\ UNCHANGED <<tree, home, quarantine, ours, starved>> /\ Undoing

\* The quarantine is made beside the outermost level that is pinned, so that
\* no level taken back can hold it.
Claim ==
  /\ pc = "claim"
  /\ home' = created[Min({i \in DOMAIN created : created[i].parent # None})].parent
  /\ LET possible == ~Full(created, None) /\ Vacant(home', Quarantined)
     IN \/ /\ possible
           /\ Put(NewNode, Node(home', Quarantined, "directory", "quarantine"))
           /\ pc' = "vouch" /\ Granted
        \/ Stop /\ UNCHANGED tree /\ CameToNothing(possible)
  /\ starved' = (starved \/ Full(created, None))
  /\ UNCHANGED <<cursor, quarantine, ours>> /\ Undoing

\* `is_fresh_quarantine`: an empty private directory is taken for it.  One that
\* cannot be opened or examined is left in place.
Vouch ==
  /\ pc = "vouch"
  /\ LET found == Entry(home, Quarantined)
         fresh_one == found # None /\ Removable(found)
     IN \/ fresh_one /\ quarantine' = found /\ pc' = "capture" /\ Granted
        \/ pc' = "failed" /\ UNCHANGED quarantine /\ CameToNothing(fresh_one)
  /\ UNCHANGED <<tree, cursor, home, ours, starved>> /\ Undoing

\* A rename that replaces nothing; whatever has the name by now is captured.
Capture ==
  /\ pc = "capture"
  /\ LET found == Entry(Level.parent, LevelName)
         free == Vacant(quarantine, Captured)
     IN \/ /\ found # None /\ free
           /\ Move(found, quarantine, Captured)
           /\ pc' = "check" /\ UNCHANGED cursor /\ Granted
        \/ found = None /\ NextOut /\ UNCHANGED tree /\ Granted
        \/ Stop /\ UNCHANGED <<tree, cursor>> /\ CameToNothing(found = None \/ free)
  /\ UNCHANGED <<home, quarantine, ours, starved>> /\ Undoing

\* Mutant: what was captured is taken for the level whose name was looked up.
CheckNothing ==
  /\ pc = "check" /\ ours' = TRUE /\ pc' = "unlink" /\ Granted
  /\ UNCHANGED <<tree, cursor, home, quarantine, starved>> /\ Undoing
\* A capture that cannot be examined is put back as another program's is.
CheckCapture ==
  /\ pc = "check"
  /\ \/ ours' = (Entry(quarantine, Captured) = Level.own) /\ Granted
     \/ ours' = FALSE /\ CameToNothing(TRUE)
  /\ pc' = IF ours' THEN "unlink" ELSE "putback"
  /\ UNCHANGED <<tree, cursor, home, quarantine, starved>> /\ Undoing

\* By name: what has the name goes, if it is an empty directory.
UnlinkCapture ==
  /\ pc = "unlink"
  /\ LET found == Entry(quarantine, Captured)
         possible == found # None /\ Removable(found)
     IN \/ possible /\ Unlink(found) /\ NextOut /\ Granted
        \/ pc' = "putback" /\ UNCHANGED <<tree, cursor>> /\ CameToNothing(possible)
  /\ UNCHANGED <<home, quarantine, ours, starved>> /\ Undoing

\* Others have the level's own name and all those beside it.
NamesTaken == \A name \in {LevelName, Aside} : Entry(Level.parent, name) # None
NoteNames == denied' = IF NamesTaken THEN denied \union {"names"} ELSE denied

\* Mutant: only under its own name.
PutBackUnderItsName ==
  /\ pc = "putback"
  /\ LET found == Entry(quarantine, Captured)
     IN IF found # None /\ Vacant(Level.parent, LevelName)
          THEN Move(found, Level.parent, LevelName) ELSE UNCHANGED tree
  /\ Stop /\ NoteNames
  /\ UNCHANGED <<cursor, home, quarantine, ours, starved>> /\ Undoing
\* Under its own name or one beside it, replacing nothing, or not at all:
\* `PutBack::Stranded`.  A level another program carried off meanwhile lets the
\* walk go on.
PutBack ==
  /\ pc = "putback"
  /\ LET found == Entry(quarantine, Captured)
         free == {name \in {LevelName, Aside} : Vacant(Level.parent, name)}
     IN \/ /\ found = None /\ UNCHANGED tree /\ Granted
           /\ IF ours THEN NextOut ELSE Stop /\ UNCHANGED cursor
        \/ /\ found # None /\ Stop /\ UNCHANGED cursor /\ NoteNames
           /\ IF free = {} THEN UNCHANGED tree
              ELSE \E name \in free : Move(found, Level.parent, name)
        \/ /\ found = None \/ free # {}
           /\ Stop /\ UNCHANGED <<tree, cursor>> /\ CameToNothing(TRUE)
  /\ UNCHANGED <<home, quarantine, ours, starved>> /\ Undoing

\* `remove_quarantine`: a look at the name, then the removal by name.
Tidy ==
  /\ pc = "tidy"
  /\ LET there == Entry(home, Quarantined) = quarantine
     IN \/ there /\ pc' = "remove" /\ Granted
        \/ pc' = "failed" /\ CameToNothing(there)
  /\ UNCHANGED <<tree, undoing, starved>> /\ Undoing
RemoveQuarantine ==
  /\ pc = "remove"
  /\ LET found == Entry(home, Quarantined)
         possible == found # None /\ Removable(found)
     IN \/ possible /\ Unlink(found) /\ Granted
        \/ UNCHANGED tree /\ CameToNothing(possible)
  /\ quarantine' = None /\ pc' = "failed"
  /\ UNCHANGED <<cursor, home, ours, starved>> /\ Undoing

---------------------------------------------------------------------------
(* Other programs.                                                         *)

\* A call by name is about to act on what an earlier call looked at.
Windows == {"identify", "vouch", "unlink", "remove"}
TakingBack ==
  pc \in {"undo", "claim", "vouch", "capture", "check", "unlink", "putback", "tidy", "remove"}
Upset(dir) ==
  /\ pc \notin {"done", "failed"} /\ upsets < host.upsets /\ (host.late => TakingBack)
  /\ upsets' = upsets + 1
  \* Only the player's own programs can act inside a quarantine.
  /\ raced' = (raced \/ pc \in Windows \/ tree[dir].maker = "quarantine")
  /\ UNCHANGED <<host, progress, undoing, starved, denied>>

\* The names the import looks up or moves to in a directory, told by its own; in
\* one that was captured or carried off they may be any.  The quarantine's is
\* random, so it is never taken beforehand.
LookedUp(dir) ==
  LET places == {k \in 0..Depth :
                   IF k = 0 THEN dir = Root ELSE tree[dir].name \in {LevelNames[k], Captured, Away}}
  IN IF tree[dir].maker = "quarantine" THEN {Captured}
     ELSE UNION {IF k = Depth THEN {"pack"} ELSE {LevelNames[k + 1], Aside} : k \in places}
Directories == {n \in Nodes : Stands(n) /\ IsDirectory(n)}

TakeName(dir, name) ==
  /\ Upset(dir) /\ Vacant(dir, name)
  /\ Put(NewNode, Node(dir, name, "directory", "other"))
CarryOff(n) == Upset(tree[n].dir) /\ Move(n, Root, Away)
Swap(n) ==
  /\ Upset(tree[n].dir)
  /\ tree' = [tree EXCEPT ![n].dir = Root, ![n].name = Away,
                          ![NewNode] = Node(tree[n].dir, tree[n].name, "directory", "other")]
RemoveEmpty(n) == Upset(tree[n].dir) /\ Removable(n) /\ Unlink(n)

Other ==
  \E n \in Directories :
    \/ \E name \in LookedUp(n) : TakeName(n, name)
    \/ n # Root /\ tree[n].name # Away /\ (CarryOff(n) \/ Swap(n) \/ RemoveEmpty(n))

Import ==
  /\ UNCHANGED <<host, upsets, raced>>
  /\ \/ /\ UNCHANGED denied
        /\ \/ Survey \/ OpenStart \/ MakeLevel \/ OpenExisting \/ Identify \/ SyncEntry
           \/ Reopen \/ GiveUpPin \/ Acquire \/ Climb \/ SyncLevel
           \/ CheckName \/ CreateTemporary \/ Assemble \/ Publish
     \/ Discard \/ LookUp \/ Claim \/ Vouch \/ Capture \/ CheckCapture \/ UnlinkCapture \/ PutBack
     \/ Tidy \/ RemoveQuarantine

Next == Import \/ Other
Spec == Init /\ [][Next]_vars
FairSpec == Spec /\ WF_vars(Import)

---------------------------------------------------------------------------

Pin == Nodes \union {None}
Kinds == {"directory", "unfinished", "pack", "former", "rom"}
Makers == {"nobody", "before", "level", "temporary", "quarantine", "other"}

\* Types.  A level is recorded once, at the place of the path it was made for
\* and further in than the level before it, and a name leads to one node.
TypeOK ==
  /\ \A n \in Nodes : tree[n].dir \in Pin /\ tree[n].kind \in Kinds /\ tree[n].maker \in Makers
  /\ \A n \in Nodes : \A c, d \in Children(n) :
       c # d => tree[c].name # tree[d].name \/ tree[c].name = Away
  /\ \A i \in DOMAIN created :
       /\ created[i].level \in Levels /\ created[i].node \in Nodes
       /\ created[i].own \in {None, created[i].node}
       /\ created[i].parent \in {None, created[i].parent_node}
       /\ \A j \in 1..(i - 1) : created[j].level < created[i].level
  /\ {walk, fresh.node, dest, temp, home, quarantine} \subseteq Pin
  /\ cursor \in 0..(Depth + 1) /\ upsets \in 0..MaxUpsets

Made == {n \in Nodes : tree[n].maker \in {"level", "temporary", "quarantine"}}
\* Every level this run made was recorded with both its pins and kept them.
Vouched ==
  \A n \in Made : tree[n].maker = "level" =>
    \E i \in DOMAIN created : created[i].own = n /\ created[i].parent # None

\* A failed import leaves no trace: whichever step of the import failed, the
\* directories, the temporary pack and the quarantine are gone and what stood
\* before stands, provided no level lost its pin, no descriptor was wanting,
\* nobody else acted and the system refused no call of the take-back: the
\* removal of the temporary pack, a look at a level, the quarantine's making,
\* opening and removal, a level's rename and removal
\* (import_rom/created_dirs.rs, `undo_created_directories`).
NoTraceLeft ==
  pc = "failed" /\ upsets = 0 /\ ~starved /\ denied = {} /\ Vouched =>
    \A n \in Nodes : /\ n \in Made => ~Stands(n)
                     /\ tree[n].maker = "before" => Stands(n)

\* A descriptor or pin that runs out costs a level's take-back, never its sync:
\* when an import that nobody disturbed is done, the entry of every level it
\* made is on the disk and the path leads to a whole pack.  A climb needs the
\* destination, the directory it stands in and the next one up
\* (import_rom/created_dirs/sync.rs, `sync_created_directories`).
ClimbSlots == 3
DoneIsDurable ==
  pc = "done" /\ upsets = 0 /\ host.slots >= ClimbSlots =>
    /\ \A i \in DOMAIN created : created[i].synced
    /\ tree[Entry(Path[Depth], "pack")].kind = "pack"

\* What a take-back moved is not left hidden in the quarantine, whatever came
\* between its capture and its removal, unless when it was put back the
\* directory it came from was gone, others had its own name and every one beside
\* it, or the system refused the renames
\* (import_rom/created_dirs/take_back/restore.rs, `put_back`).
NothingStranded ==
  pc = "failed" /\ ~raced /\ denied \intersect {"names", "putback"} = {} =>
    \A n \in Nodes :
      tree[n].dir # None /\ tree[tree[n].dir].maker = "quarantine" =>
        ~Stands(created[cursor].parent)

\* The directories stay a tree, each level recorded once, and a level is left
\* hidden in a quarantine only if no put-back could help it.
ImportInv == TypeOK /\ NothingStranded

\* An import unlinks nothing it did not make but the pack it replaces, whatever
\* other programs do to the names, unless they do it between a call that looks
\* at a name and the next that acts on it (import_rom/created_dirs/take_back.rs).
OthersKept ==
  [][\A n \in Nodes :
       Stands(n) /\ ~Stands(n)' /\ upsets' = upsets /\ n \notin Made =>
         raced \/ (pc = "publish" /\ tree[n].kind # "directory")]_vars

\* Every retry for want of a descriptor ends, and so does the import.
ImportEnds == <>(pc \in {"done", "failed"})
====
