---- MODULE PlaybackClock_proofs ----
(***************************************************************************)
(* Theorems of the playback clock, for any number of callbacks.            *)
(*                                                                         *)
(* The argument follows the callbacks through the log.  An even sequence   *)
(* v of slot s is that of callback v - s, and acquiring it shows all six   *)
(* counters of that callback and the publish of the callback before it.  A *)
(* counter of a later callback releases that callback's odd sequence, so   *)
(* the fence behind the loads makes the sequence's recheck see it; and the *)
(* slot's recheck can only find a publish of the callback itself or of a   *)
(* later one.                                                              *)
(***************************************************************************)
EXTENDS PlaybackClock, WellFoundedInduction, TLAPS

SeqOf(s) == published(s, "sequence")

\* All stores to a location so far, the one numbered 0 included.
Stores(loc) == StoresTo(loc, Len(log))

\* The callback that published by the store i to `published_slot`: the store
\* before it ended that callback's copy.
PublishedBy(i) == IF i = 0 THEN 0 ELSE log[i - 1].value - log[i].value

\* The callbacks' stores to one location go up.
SequencesGrow == \A s \in {0, 1} : \A i, j \in Stores(SeqOf(s)) :
  i <= j => Value(i) <= Value(j)
CountersGrow == \A s \in {0, 1}, f \in Fields : \A i, j \in Stores(published(s, f)) :
  i <= j => Value(i) <= Value(j)
PublishesGrow == \A i, j \in Stores(published_slot) :
  i <= j => PublishedBy(i) <= PublishedBy(j)

\* Where an even sequence is seen, its callback's copy and the publish of the
\* callback before are.
EndsCopy(s, i, c) ==
  /\ c \in 1 .. callbacks /\ c % 2 = s
  /\ log[i].releases = i
  /\ \A f \in Fields : \E j \in StoresTo(published(s, f), i) : Value(j) = c
  /\ \E j \in StoresTo(published_slot, i) : PublishedBy(j) = c - 1
EvensEndCopies == \A s \in {0, 1} : \A i \in Stores(SeqOf(s)) \ {0} :
  Value(i) % 2 = 0 => EndsCopy(s, i, Value(i) - s)

\* A counter releases the odd sequence of its callback.
Fenced(s, i) ==
  /\ Value(i) \in 1 .. callbacks /\ Value(i) % 2 = s
  /\ log[i].releases \in StoresTo(SeqOf(s), i)
  /\ Value(log[i].releases) = Value(i) + s - 1
CountersFenced == \A s \in {0, 1}, f \in Fields :
  \A i \in Stores(published(s, f)) \ {0} : Fenced(s, i)

\* A publish comes right behind the even sequence of the slot it names.
FollowsCopy(i) ==
  /\ log[i].value \in {0, 1} /\ log[i].releases = i
  /\ i - 1 \in 1 .. Len(log) /\ log[i - 1].loc = SeqOf(log[i].value)
  /\ PublishedBy(i) \in 1 .. callbacks /\ PublishedBy(i) % 2 = log[i].value
PublishesFollow == \A i \in Stores(published_slot) \ {0} : FollowsCopy(i)

\* The flag comes right behind the publish of a usable callback.
FollowsPublish(i) ==
  /\ log[i].value = 1 /\ log[i].releases = i
  /\ i - 1 \in Stores(published_slot) /\ PublishedBy(i - 1) \in usable
AvailableFollows == \A i \in Stores(timestamp_available) \ {0} : FollowsPublish(i)

\* Nothing later than itself is released by a store.
ReleasesPast == \A i \in 1 .. Len(log) : log[i].releases <= i

LogInv ==
  /\ ReleasesPast /\ SequencesGrow /\ CountersGrow /\ PublishesGrow
  /\ EvensEndCopies /\ CountersFenced /\ PublishesFollow /\ AvailableFollows

\* The slot of the latest callback, and the other.
Mine == callbacks % 2
Other == 1 - Mine

\* Where the callback is fixes the newest store of each location it reads back,
\* m being the slot of the latest callback.
WriterAt(m, o) ==
  /\ Own(SeqOf(o)) = callbacks - 1 + o
  /\ Own(SeqOf(m)) = callbacks + m - (IF wpc = "fill" THEN 1 ELSE 0)
  /\ \A k \in Stores(published_slot) : k = NewestOf(published_slot) =>
       PublishedBy(k) = callbacks - (IF wpc \in {"fill", "publish"} THEN 1 ELSE 0)
  /\ Own(published_slot) = IF wpc \in {"fill", "publish"} THEN o ELSE m
  /\ wpc # "idle" => callbacks >= 1
  /\ wpc \in {"fill", "publish"} => slot = m
  /\ wpc = "available" => NewestOf(published_slot) = Len(log) /\ callbacks \in usable
  /\ wpc = "publish" => Len(log) >= 1 /\ NewestOf(SeqOf(m)) = Len(log)
WriterInv == \A m, o \in {0, 1} : m = Mine /\ o = Other => WriterAt(m, o)

\* The copy under way: its odd sequence, then the counters stored so far.
CopyAt(m) ==
  /\ log[Len(log) - stored].loc = SeqOf(m)
  /\ log[Len(log) - stored].value = callbacks + m - 1
  /\ \A n \in 1 .. stored :
       /\ log[Len(log) - stored + n].loc = published(m, StoreOrder[n])
       /\ log[Len(log) - stored + n].value = callbacks
CopyInv == wpc = "fill" =>
  /\ Len(log) - stored >= 1
  /\ \A m \in {0, 1} : m = Mine => CopyAt(m)

FloorInv == \A loc \in Locations : floor[loc] \in Stores(loc)

\* Callbacks whose publish the reader has seen.
Seen == PublishedBy(floor[published_slot])
SinceUsable(c) == \E u \in usable : u <= c

\* The last snapshot is one callback's, whose publish was seen.
ReturnedInv == returned # <<>> =>
  /\ Len(returned) = Len(LoadOrder)
  /\ \A i \in 1 .. Len(LoadOrder) : returned[i] = returned[1]
  /\ returned[1] <= Seen /\ SinceUsable(returned[1])

\* The callback whose copy is being read.
Read == before - index

\* What the reader knows of it, whatever it may read next.
CopyKnown ==
  /\ Read \in 1 .. callbacks /\ Read % 2 = index
  /\ SinceUsable(Read) /\ (returned # <<>> => returned[1] <= Read)
  /\ before <= Value(floor[SeqOf(index)])
  /\ \A f \in Fields : Read <= Value(floor[published(index, f)])
  /\ Read - 1 <= Seen
  /\ Len(got) <= Len(LoadOrder) /\ \A n \in 1 .. Len(got) : Read <= got[n]

\* A counter of a later callback will be noticed.
Noticed ==
  /\ rpc = "fields" => \A n \in 1 .. Len(got) : got[n] > Read =>
       \E r \in StoresTo(SeqOf(index), fenced) : Value(r) > before
  /\ rpc = "recheck" => \A n \in 1 .. Len(got) : got[n] > Read =>
       Value(floor[SeqOf(index)]) > before
  /\ rpc = "return" => \A n \in 1 .. Len(got) : got[n] = Read
  /\ rpc \in {"recheck", "return"} => Len(got) = Len(LoadOrder)

ReaderInv ==
  /\ rpc # "idle" => SinceUsable(Seen)
  /\ rpc \in {"idle", "index", "before"} => got = <<>>
  /\ rpc = "before" => Seen + index <= Value(floor[SeqOf(index)])
  /\ rpc \in {"fields", "recheck", "return"} => CopyKnown

\* The inductive invariant.
ClockIInv == TypeOK /\ LogInv /\ WriterInv /\ CopyInv /\ FloorInv /\ ReturnedInv
             /\ ReaderInv /\ Noticed

----------------------------------------------------------------------------
\* Facts about names and numbers.

\* The two orders name the same six counters, and no counter is the sequence.
LEMMA CounterNames ==
  /\ Len(StoreOrder) = 6 /\ Len(LoadOrder) = 6
  /\ \A n \in 1 .. 6 : StoreOrder[n] \in Fields
  /\ \A n \in 1 .. 6 : LoadOrder[n] \in Fields
  /\ \A f \in Fields : \E n \in 1 .. 6 : f = StoreOrder[n]
  /\ "sequence" \notin Fields
<1>1. /\ StoreOrder[1] = "submitted_frames" /\ StoreOrder[2] = "sounded_frames"
      /\ StoreOrder[3] = "usable_through_frames" /\ StoreOrder[4] = "reading_stamp"
      /\ StoreOrder[5] = "reading_sounded_frames"
      /\ StoreOrder[6] = "reading_startup_delay_frames"
  BY DEF StoreOrder
<1>2. /\ LoadOrder[1] = "submitted_frames" /\ LoadOrder[2] = "usable_through_frames"
      /\ LoadOrder[3] = "sounded_frames" /\ LoadOrder[4] = "reading_stamp"
      /\ LoadOrder[5] = "reading_sounded_frames"
      /\ LoadOrder[6] = "reading_startup_delay_frames"
  BY DEF LoadOrder
<1>3. Len(StoreOrder) = 6 /\ Len(LoadOrder) = 6 BY DEF StoreOrder, LoadOrder
<1>4. DOMAIN StoreOrder = 1 .. 6 BY DEF StoreOrder
<1>5. \A n \in 1 .. 6 : n \in {1, 2, 3, 4, 5, 6} BY SMT
<1>6. \A f \in Fields : \E n \in 1 .. 6 : f = StoreOrder[n] BY <1>4 DEF Fields
<1>7. \A n \in 1 .. 6 : StoreOrder[n] \in Fields BY <1>4 DEF Fields
<1>8. \A n \in 1 .. 6 : LoadOrder[n] \in Fields BY <1>1, <1>2, <1>5, <1>7, SMT
<1>9. "sequence" \notin Fields BY <1>1, <1>5, <1>6, SMT
<1> QED BY <1>3, <1>6, <1>7, <1>8, <1>9

\* Every access is to a location, and different names are different locations.
LEMMA LocationsApart ==
  ASSUME NEW s \in {0, 1}, NEW t \in {0, 1},
         NEW f \in Fields \union {"sequence"}, NEW g \in Fields \union {"sequence"}
  PROVE  /\ published(s, f) \in Locations
         /\ published(s, f) = published(t, g) <=> s = t /\ f = g
         /\ published(s, f) # published_slot
         /\ published(s, f) # timestamp_available
  BY DEF published, published_slot, timestamp_available, Locations

LEMMA SingleLocations ==
  /\ published_slot \in Locations /\ timestamp_available \in Locations
  /\ published_slot # timestamp_available
  BY DEF published_slot, timestamp_available, Locations

LEMMA LessIsWellFounded ==
  ASSUME NEW n \in Nat
  PROVE  IsWellFoundedOn({p \in (0 .. n) \X (0 .. n) : p[1] > p[2]}, 0 .. n)
<1>1. SUFFICES ASSUME NEW f \in [Nat -> 0 .. n], \A k \in Nat : f[k + 1] > f[k]
               PROVE  FALSE
  BY DEF IsWellFoundedOn
<1> DEFINE g == [k \in Nat |-> n - f[k]]
<1>2. g \in [Nat -> Nat] BY SMT
<1>3. \A k \in Nat : <<g[k + 1], g[k]>> \in OpToRel(<, Nat) BY <1>1, <1>2 DEF OpToRel
<1> QED BY <1>2, <1>3, NatLessThanWellFounded DEF IsWellFoundedOn

\* The latest of some stores is one of them, and none is later.
LEMMA LatestIsLatest ==
  ASSUME NEW n \in Nat, NEW S \in SUBSET (0 .. n), S # {}
  PROVE  Latest(S) \in S /\ \A j \in S : j <= Latest(S)
<1> DEFINE R == {p \in (0 .. n) \X (0 .. n) : p[1] > p[2]}
<1>1. \E i \in S : \A j \in S : ~ (<<j, i>> \in R) BY LessIsWellFounded, WFMin, Zenon
<1>2. \E i \in S : \A j \in S : j <= i
  <2>1. PICK i \in S : \A j \in S : ~ (<<j, i>> \in R) BY <1>1
  <2>2. \A j \in S : <<j, i>> \in (0 .. n) \X (0 .. n) BY SMT
  <2>3. ASSUME NEW j \in S PROVE j <= i
    <3>1. ~ (<<j, i>>[1] > <<j, i>>[2]) BY <2>1, <2>2
    <3> QED BY <3>1, SMT
  <2> QED BY <2>3
<1> QED BY <1>2 DEF Latest

LEMMA Parity ==
  ASSUME NEW c \in Nat
  PROVE  /\ c % 2 \in {0, 1} /\ (c + (c % 2)) % 2 = 0
         /\ (c + 1) % 2 = 1 - (c % 2) /\ (c + 1 + ((c + 1) % 2) - 1) % 2 = 1
  BY SMT

\* Two callbacks of one slot are at least two apart.
LEMMA SameSlotApart ==
  ASSUME NEW c \in Nat, NEW d \in Nat, c % 2 = d % 2, c < d
  PROVE  c + 2 <= d
  BY SMT

----------------------------------------------------------------------------
\* The log and what a store adds to it.

LEMMA LogIsTyped ==
  ASSUME TypeOK
  PROVE  /\ Len(log) \in Nat
         /\ \A i \in 1 .. Len(log) : log[i].loc \in Locations /\ log[i].value \in Nat
                                    /\ log[i].releases \in Nat
<1> DEFINE Entries == [loc : Locations, value : Nat, releases : Nat]
<1>1. log \in Seq(Entries) BY DEF TypeOK
<1> HIDE DEF Entries
<1>2. Len(log) \in Nat /\ \A i \in 1 .. Len(log) : log[i] \in Entries BY <1>1
<1> QED BY <1>2 DEF Entries

LEMMA StoresInRange ==
  ASSUME TypeOK, NEW loc, NEW p \in 0 .. Len(log)
  PROVE  /\ Len(log) \in Nat
         /\ StoresTo(loc, p) \in SUBSET (0 .. p) /\ 0 \in StoresTo(loc, p)
         /\ StoresTo(loc, p) \subseteq Stores(loc)
         /\ \A i \in 1 .. p : i \in StoresTo(loc, p) <=> log[i].loc = loc
<1>1. Len(log) \in Nat BY LogIsTyped
<1>2. p \in Nat /\ p <= Len(log) BY <1>1
<1>3. StoresTo(loc, p) = {0} \union {i \in 1 .. p : log[i].loc = loc} BY DEF StoresTo
<1>4. Stores(loc) = {0} \union {i \in 1 .. Len(log) : log[i].loc = loc} BY DEF Stores, StoresTo
<1>5. \A i \in 1 .. p : i \in 1 .. Len(log) /\ i \in 0 .. p /\ i # 0 BY <1>1, <1>2
<1>6. StoresTo(loc, p) \in SUBSET (0 .. p) /\ 0 \in StoresTo(loc, p) BY <1>2, <1>3
<1>7. StoresTo(loc, p) \subseteq Stores(loc) BY <1>3, <1>4, <1>5, Zenon
<1>8. \A i \in 1 .. p : i \in StoresTo(loc, p) <=> log[i].loc = loc BY <1>3, <1>5
<1> QED BY <1>1, <1>6, <1>7, <1>8

LEMMA NewestIsNewest ==
  ASSUME TypeOK, NEW loc
  PROVE  /\ NewestOf(loc) \in Stores(loc) /\ \A i \in Stores(loc) : i <= NewestOf(loc)
         /\ Own(loc) = Value(NewestOf(loc))
<1>1. Len(log) \in Nat /\ Stores(loc) \in SUBSET (0 .. Len(log)) /\ 0 \in Stores(loc)
  BY StoresInRange DEF Stores, TypeOK
<1>2. Latest(Stores(loc)) \in Stores(loc) /\ \A i \in Stores(loc) : i <= Latest(Stores(loc))
  BY <1>1, LatestIsLatest
<1> QED BY <1>2 DEF NewestOf, Own, Stores

LEMMA ValuesAreNumbers ==
  ASSUME TypeOK, NEW i \in 0 .. Len(log)
  PROVE  Value(i) \in Nat /\ Released(i) \in Nat
  BY LogIsTyped DEF Value, Released

\* The entry a store appends, and everything before it.
LEMMA EntryAppended ==
  ASSUME TypeOK, NEW at, NEW value \in Nat, NEW releases \in Nat,
         Store(at, value, releases)
  PROVE  /\ Len(log)' = Len(log) + 1
         /\ \A i \in 1 .. Len(log) : log'[i] = log[i]
         /\ log'[Len(log) + 1] = [loc |-> at, value |-> value, releases |-> releases]
  BY DEF TypeOK, Store

LEMMA LogGrows ==
  ASSUME TypeOK, NEW at, NEW value \in Nat, NEW releases \in Nat,
         Store(at, value, releases)
  PROVE  /\ \A i \in 0 .. Len(log) : Value(i)' = Value(i) /\ Released(i)' = Released(i)
         /\ \A i : i = Len(log) + 1 => Value(i)' = value /\ Released(i)' = releases
         /\ \A i \in 2 .. Len(log) : PublishedBy(i)' = PublishedBy(i)
         /\ PublishedBy(0)' = PublishedBy(0)
<1>1. Len(log) \in Nat BY DEF TypeOK
<1>0. /\ Len(log)' = Len(log) + 1
      /\ \A i \in 1 .. Len(log) : log'[i] = log[i]
      /\ log'[Len(log) + 1] = [loc |-> at, value |-> value, releases |-> releases]
  BY EntryAppended
<1>2. \A i \in 0 .. Len(log) : Value(i)' = Value(i) /\ Released(i)' = Released(i)
  BY <1>0, <1>1 DEF Value, Released
<1>3. \A i : i = Len(log) + 1 => Value(i)' = value /\ Released(i)' = releases
  BY <1>0, <1>1 DEF Value, Released
<1>4. \A i \in 2 .. Len(log) : PublishedBy(i)' = PublishedBy(i)
  <2> SUFFICES ASSUME NEW i \in 2 .. Len(log) PROVE PublishedBy(i)' = PublishedBy(i) OBVIOUS
  <2>1. i \in 1 .. Len(log) /\ i - 1 \in 1 .. Len(log) /\ i # 0 BY <1>1
  <2>2. log'[i] = log[i] /\ log'[i - 1] = log[i - 1] BY <1>0, <2>1
  <2> QED BY <2>1, <2>2 DEF PublishedBy
<1> QED BY <1>2, <1>3, <1>4 DEF PublishedBy

LEMMA StoresGrow ==
  ASSUME TypeOK, NEW at, NEW value \in Nat, NEW releases \in Nat,
         Store(at, value, releases), NEW loc
  PROVE  /\ \A p \in 0 .. Len(log) : StoresTo(loc, p)' = StoresTo(loc, p)
         /\ Stores(loc)' = Stores(loc) \union (IF loc = at THEN {Len(log) + 1} ELSE {})
         /\ \A i \in Stores(loc) : i < Len(log) + 1
<1>1. Len(log) \in Nat BY DEF TypeOK
<1>0. /\ Len(log)' = Len(log) + 1
      /\ \A i \in 1 .. Len(log) : log'[i] = log[i]
      /\ log'[Len(log) + 1] = [loc |-> at, value |-> value, releases |-> releases]
  BY EntryAppended
<1>2. \A p \in 0 .. Len(log) : StoresTo(loc, p)' = StoresTo(loc, p)
  <2> SUFFICES ASSUME NEW p \in 0 .. Len(log) PROVE StoresTo(loc, p)' = StoresTo(loc, p) OBVIOUS
  <2>1. \A i \in 1 .. p : log'[i].loc = log[i].loc BY <1>0, <1>1
  <2>2. {i \in 1 .. p : log'[i].loc = loc} = {i \in 1 .. p : log[i].loc = loc} BY <2>1
  <2> QED BY <2>2 DEF StoresTo
<1>3. Stores(loc)' = {0} \union {i \in 1 .. Len(log) + 1 : log'[i].loc = loc}
  BY <1>0 DEF Stores, StoresTo
<1>4. Stores(loc) = {0} \union {i \in 1 .. Len(log) : log[i].loc = loc}
  BY DEF Stores, StoresTo
<1>5. \A i : i \in 1 .. Len(log) + 1 <=> i \in 1 .. Len(log) \/ i = Len(log) + 1 BY <1>1
<1>6. \A i \in 1 .. Len(log) : log'[i].loc = log[i].loc BY <1>0
<1>7. log'[Len(log) + 1].loc = at BY <1>0
<1>8. Stores(loc)' = Stores(loc) \union (IF loc = at THEN {Len(log) + 1} ELSE {})
  BY <1>3, <1>4, <1>5, <1>6, <1>7
<1>9. \A i \in Stores(loc) : i < Len(log) + 1 BY <1>1, <1>4
<1> QED BY <1>2, <1>8, <1>9

LEMMA NewestGrows ==
  ASSUME TypeOK, NEW at, NEW value \in Nat, NEW releases \in Nat,
         Store(at, value, releases), TypeOK', NEW loc
  PROVE  /\ loc = at => NewestOf(loc)' = Len(log) + 1 /\ Own(loc)' = value
         /\ loc # at => NewestOf(loc)' = NewestOf(loc) /\ Own(loc)' = Own(loc)
<1>1. Len(log) \in Nat BY DEF TypeOK
<1>2. /\ NewestOf(loc)' \in Stores(loc)' /\ \A i \in Stores(loc)' : i <= NewestOf(loc)'
      /\ \A i : i = NewestOf(loc)' => Own(loc)' = Value(i)'
  <2>1. Len(log)' \in Nat BY DEF TypeOK
  <2>3. Stores(loc)' = {0} \union {i \in 1 .. Len(log)' : log'[i].loc = loc}
    BY DEF Stores, StoresTo
  <2>4. Stores(loc)' \in SUBSET (0 .. Len(log)') /\ 0 \in Stores(loc)' BY <2>1, <2>3
  <2>2. Latest(Stores(loc)') \in Stores(loc)' /\ \A i \in Stores(loc)' : i <= Latest(Stores(loc)')
    BY <2>1, <2>4, LatestIsLatest
  <2> QED BY <2>2 DEF NewestOf, Own, Stores
<1>3. /\ NewestOf(loc) \in Stores(loc) /\ \A i \in Stores(loc) : i <= NewestOf(loc)
      /\ Own(loc) = Value(NewestOf(loc))
  BY NewestIsNewest
<1>4. /\ Stores(loc)' = Stores(loc) \union (IF loc = at THEN {Len(log) + 1} ELSE {})
      /\ \A i \in Stores(loc) : i < Len(log) + 1
  BY StoresGrow
<1>5. Stores(loc) \in SUBSET (0 .. Len(log)) BY StoresInRange, <1>1 DEF Stores
<1>6. loc = at => NewestOf(loc)' = Len(log) + 1
  <2> SUFFICES ASSUME loc = at PROVE NewestOf(loc)' = Len(log) + 1 OBVIOUS
  <2>1. Stores(loc)' = Stores(loc) \union {Len(log) + 1} BY <1>4
  <2>2. Len(log) + 1 <= NewestOf(loc)' BY <1>2, <2>1
  <2>3. NewestOf(loc)' \in Stores(loc) \/ NewestOf(loc)' = Len(log) + 1 BY <1>2, <2>1
  <2>4. NewestOf(loc)' \in Stores(loc) => NewestOf(loc)' <= Len(log) /\ NewestOf(loc)' \in Nat
    BY <1>1, <1>5
  <2> QED BY <1>1, <2>2, <2>3, <2>4
<1>7. loc # at => NewestOf(loc)' = NewestOf(loc) BY <1>1, <1>2, <1>3, <1>4, <1>5
<1>9. loc = at => Own(loc)' = value
  <2> SUFFICES ASSUME loc = at, NEW i, i = Len(log) + 1 PROVE Own(loc)' = value OBVIOUS
  <2>1. Value(i)' = value BY LogGrows
  <2> QED BY <1>2, <1>6, <2>1
<1>10. loc # at => Own(loc)' = Own(loc)
  <2> SUFFICES ASSUME loc # at, NEW i, i = NewestOf(loc) PROVE Own(loc)' = Own(loc) OBVIOUS
  <2>1. i \in 0 .. Len(log) BY <1>3, <1>5
  <2>2. Value(i)' = Value(i) BY <2>1, LogGrows
  <2> QED BY <1>2, <1>3, <1>7, <2>2
<1> QED BY <1>6, <1>7, <1>9, <1>10

\* A location whose stores go up keeps going up when none stores less.
Sorted(loc) == \A i, j \in Stores(loc) : i <= j => Value(i) <= Value(j)

LEMMA StaysSorted ==
  ASSUME TypeOK, NEW at, NEW value \in Nat, NEW releases \in Nat,
         Store(at, value, releases), NEW loc, Sorted(loc), loc = at => Own(loc) <= value
  PROVE  Sorted(loc)'
<1>1. Len(log) \in Nat BY DEF TypeOK
<1>2. Stores(loc) \in SUBSET (0 .. Len(log)) BY StoresInRange, <1>1 DEF Stores
<1>3. Stores(loc)' = Stores(loc) \union (IF loc = at THEN {Len(log) + 1} ELSE {})
  BY StoresGrow
<1>4. /\ \A i \in Stores(loc) : Value(i)' = Value(i)
      /\ \A i : i = Len(log) + 1 => Value(i)' = value
  BY <1>2, LogGrows
<1>5. \A i \in Stores(loc) : Value(i) <= Own(loc) /\ Value(i) \in Nat /\ Own(loc) \in Nat
  BY <1>2, NewestIsNewest, ValuesAreNumbers DEF Sorted
<1> SUFFICES ASSUME NEW i \in Stores(loc)', NEW j \in Stores(loc)', i <= j
             PROVE  Value(i)' <= Value(j)'
  BY DEF Sorted
<1>6. CASE j \in Stores(loc)
  <2>1. i \in Stores(loc) BY <1>1, <1>2, <1>3, <1>6
  <2> QED BY <2>1, <1>4, <1>6 DEF Sorted
<1>7. CASE j \notin Stores(loc)
  <2>1. loc = at /\ j = Len(log) + 1 BY <1>3, <1>7
  <2>2. Value(j)' = value BY <1>4, <2>1
  <2>3. CASE i \in Stores(loc)
    <3>1. Value(i)' = Value(i) BY <1>4, <2>3
    <3> QED BY <2>1, <2>2, <2>3, <3>1, <1>5
  <2>4. CASE i \notin Stores(loc)
    <3>1. i = Len(log) + 1 BY <1>3, <2>4
    <3>2. Value(i)' = value BY <1>4, <3>1
    <3> QED BY <2>2, <3>2
  <2> QED BY <2>3, <2>4
<1> QED BY <1>6, <1>7

\* Publishes are stores the last of which came right behind its copy.
LEMMA PublishesInRange ==
  ASSUME TypeOK, PublishesFollow, NEW i \in Stores(published_slot)
  PROVE  /\ i = 0 \/ i \in 2 .. Len(log)
         /\ PublishedBy(i) \in 0 .. callbacks /\ Value(i) = PublishedBy(i) % 2
         /\ Released(i) = i
<1>1. Len(log) \in Nat BY DEF TypeOK
<1>2. i \in 0 .. Len(log) BY StoresInRange, <1>1 DEF Stores
<1>3. callbacks \in Nat BY DEF TypeOK
<1>4. CASE i = 0 BY <1>3, <1>4 DEF PublishedBy, Value, Released
<1>5. CASE i # 0
  <2>1. FollowsCopy(i) BY <1>5 DEF PublishesFollow
  <2> QED BY <1>1, <1>2, <1>5, <2>1 DEF FollowsCopy, Value, Released
<1> QED BY <1>4, <1>5

LEMMA PublishesStaySorted ==
  ASSUME TypeOK, TypeOK', PublishesGrow, PublishesFollow,
         NEW at, NEW value \in Nat, NEW releases \in Nat, Store(at, value, releases),
         \A i : i = Len(log) + 1 =>
           (at = published_slot =>
              FollowsCopy(i)' /\ PublishedBy(NewestOf(published_slot)) <= PublishedBy(i)')
  PROVE  /\ PublishesGrow'
         /\ \A i \in Stores(published_slot) : PublishedBy(i)' = PublishedBy(i)
<1> DEFINE loc == published_slot
<1>1. Len(log) \in Nat BY DEF TypeOK
<1>2. Stores(loc) \in SUBSET (0 .. Len(log)) BY StoresInRange, <1>1 DEF Stores
<1>3. Stores(loc)' = Stores(loc) \union (IF loc = at THEN {Len(log) + 1} ELSE {})
  BY StoresGrow
<1>4. \A i \in Stores(loc) : PublishedBy(i)' = PublishedBy(i)
  BY PublishesInRange, LogGrows
<1>5. \A i \in Stores(loc) : PublishedBy(i) <= PublishedBy(NewestOf(loc))
  BY NewestIsNewest DEF PublishesGrow
<1>6. \A i \in Stores(loc) : PublishedBy(i) \in Int
  BY PublishesInRange DEF TypeOK
<1>7. NewestOf(loc) \in Stores(loc) BY NewestIsNewest
<1>8. SUFFICES ASSUME NEW i \in Stores(loc)', NEW j \in Stores(loc)', i <= j
               PROVE  PublishedBy(i)' <= PublishedBy(j)'
  BY <1>4 DEF PublishesGrow
<1>9. CASE j \in Stores(loc)
  <2>1. i \in Stores(loc) BY <1>1, <1>2, <1>3, <1>8, <1>9
  <2> QED BY <2>1, <1>4, <1>8, <1>9 DEF PublishesGrow
<1>10. CASE j \notin Stores(loc)
  <2>1. loc = at /\ j = Len(log) + 1 BY <1>3, <1>10
  <2>2. PublishedBy(NewestOf(loc)) <= PublishedBy(j)' BY <2>1
  <2>3. CASE i \in Stores(loc)
    <3>1. PublishedBy(i)' = PublishedBy(i) BY <1>4, <2>3
    <3>2. PublishedBy(j)' \in Int BY <2>1 DEF FollowsCopy, TypeOK
    <3> QED BY <2>2, <2>3, <3>1, <3>2, <1>5, <1>6, <1>7
  <2>4. CASE i \notin Stores(loc)
    <3>1. i = j BY <1>3, <2>1, <2>4
    <3>2. PublishedBy(j)' \in Int BY <2>1 DEF FollowsCopy, TypeOK
    <3>3. PublishedBy(i)' = PublishedBy(j)' BY <3>1 DEF PublishedBy
    <3> QED BY <3>2, <3>3
  <2> QED BY <2>3, <2>4
<1> QED BY <1>9, <1>10

\* What was true of a store stays true of it.
LEMMA EndsCopyKept ==
  ASSUME TypeOK, PublishesFollow, callbacks' \in Nat, callbacks <= callbacks',
         NEW at, NEW value \in Nat, NEW releases \in Nat, Store(at, value, releases),
         NEW s, NEW i \in 1 .. Len(log), NEW c, EndsCopy(s, i, c)
  PROVE  EndsCopy(s, i, c)'
<1>1. Len(log) \in Nat /\ callbacks \in Nat BY DEF TypeOK
<1>2. i \in 0 .. Len(log) BY <1>1
<1>3. c \in 1 .. callbacks' /\ c % 2 = s BY <1>1 DEF EndsCopy
<1>4. log'[i] = log[i]
  <2>1. \A k \in 1 .. Len(log) : log'[k] = log[k] BY EntryAppended
  <2> QED BY <2>1
<1>5. \A loc : /\ StoresTo(loc, i)' = StoresTo(loc, i)
               /\ StoresTo(loc, i) \in SUBSET (0 .. i)
               /\ StoresTo(loc, i) \subseteq Stores(loc)
  BY <1>2, StoresGrow, StoresInRange
<1>6. ASSUME NEW f \in Fields
      PROVE  (\E j \in StoresTo(published(s, f), i) : Value(j) = c)'
  <2>1. PICK j \in StoresTo(published(s, f), i) : Value(j) = c BY DEF EndsCopy
  <2>2. j \in 0 .. Len(log) BY <1>1, <1>5
  <2>3. Value(j)' = c BY <2>1, <2>2, LogGrows
  <2>4. j \in StoresTo(published(s, f), i)'
    <3>1. StoresTo(published(s, f), i)' = StoresTo(published(s, f), i) BY <1>5
    <3> QED BY <3>1
  <2> QED BY <2>3, <2>4
<1>7. (\E j \in StoresTo(published_slot, i) : PublishedBy(j) = c - 1)'
  <2>1. PICK j \in StoresTo(published_slot, i) : PublishedBy(j) = c - 1 BY DEF EndsCopy
  <2>2. j \in Stores(published_slot) BY <1>5
  <2>3. PublishedBy(j)' = PublishedBy(j) BY <2>2, PublishesInRange, LogGrows
  <2>4. j \in StoresTo(published_slot, i)'
    <3>1. StoresTo(published_slot, i)' = StoresTo(published_slot, i) BY <1>5
    <3> QED BY <3>1
  <2> QED BY <2>1, <2>3, <2>4
<1>8. log'[i].releases = i BY <1>4 DEF EndsCopy
<1> QED BY <1>3, <1>6, <1>7, <1>8 DEF EndsCopy

LEMMA FencedKept ==
  ASSUME TypeOK, callbacks' \in Nat, callbacks <= callbacks',
         NEW at, NEW value \in Nat, NEW releases \in Nat, Store(at, value, releases),
         NEW s, NEW i \in 1 .. Len(log), Fenced(s, i)
  PROVE  Fenced(s, i)'
<1>1. Len(log) \in Nat /\ callbacks \in Nat BY DEF TypeOK
<1>2. i \in 0 .. Len(log) BY <1>1
<1>3. Value(i)' = Value(i) BY <1>2, LogGrows
<1>4. log'[i] = log[i]
  <2>1. \A k \in 1 .. Len(log) : log'[k] = log[k] BY EntryAppended
  <2> QED BY <2>1
<1>5. /\ StoresTo(SeqOf(s), i)' = StoresTo(SeqOf(s), i)
      /\ StoresTo(SeqOf(s), i) \in SUBSET (0 .. i)
  BY <1>2, StoresGrow, StoresInRange
<1>6. \A k : k = log[i].releases => Value(k)' = Value(k)
  <2>1. log[i].releases \in 0 .. Len(log) BY <1>1, <1>5 DEF Fenced
  <2> QED BY <2>1, LogGrows
<1>7. (Value(log[i].releases))' = Value(log[i].releases)
  <2> SUFFICES ASSUME NEW k, k = log[i].releases
               PROVE  (Value(log[i].releases))' = Value(log[i].releases)
    OBVIOUS
  <2>1. Value(k)' = Value(k) BY <1>6
  <2> QED BY <1>4, <2>1 DEF Value
<1>8. Value(i)' \in 1 .. callbacks' /\ Value(i)' % 2 = s BY <1>1, <1>3 DEF Fenced
<1>9. log'[i].releases \in StoresTo(SeqOf(s), i)' BY <1>4, <1>5 DEF Fenced
<1> QED BY <1>3, <1>7, <1>8, <1>9 DEF Fenced

LEMMA FollowsCopyKept ==
  ASSUME TypeOK, callbacks' \in Nat, callbacks <= callbacks',
         NEW at, NEW value \in Nat, NEW releases \in Nat, Store(at, value, releases),
         NEW i \in 2 .. Len(log), FollowsCopy(i)
  PROVE  FollowsCopy(i)'
<1>1. Len(log) \in Nat /\ callbacks \in Nat BY DEF TypeOK
<1>2. i \in 1 .. Len(log) /\ i - 1 \in 1 .. Len(log) BY <1>1
<1>3. log'[i] = log[i] /\ log'[i - 1] = log[i - 1] /\ Len(log)' = Len(log) + 1
  <2>1. Len(log)' = Len(log) + 1 /\ \A k \in 1 .. Len(log) : log'[k] = log[k]
    BY EntryAppended
  <2> QED BY <1>2, <2>1
<1>4. PublishedBy(i)' = PublishedBy(i) BY LogGrows
<1>5. log'[i].value \in {0, 1} /\ log'[i].releases = i BY <1>3 DEF FollowsCopy
<1>6. i - 1 \in 1 .. Len(log)' BY <1>1, <1>2, <1>3
<1>7. log'[i - 1].loc = SeqOf(log'[i].value) BY <1>3 DEF FollowsCopy
<1>8. PublishedBy(i)' \in 1 .. callbacks' /\ PublishedBy(i)' % 2 = log'[i].value
  BY <1>1, <1>3, <1>4 DEF FollowsCopy
<1> QED BY <1>5, <1>6, <1>7, <1>8 DEF FollowsCopy, SeqOf, published

LEMMA FollowsPublishKept ==
  ASSUME TypeOK, PublishesFollow, usable \subseteq usable',
         NEW at, NEW value \in Nat, NEW releases \in Nat, Store(at, value, releases),
         NEW i \in 1 .. Len(log), FollowsPublish(i)
  PROVE  FollowsPublish(i)'
<1>1. log'[i] = log[i]
  <2>1. \A k \in 1 .. Len(log) : log'[k] = log[k] BY EntryAppended
  <2> QED BY <2>1
<1>2. i - 1 \in Stores(published_slot) BY DEF FollowsPublish
<1>3. PublishedBy(i - 1)' = PublishedBy(i - 1)
  <2> SUFFICES ASSUME NEW k, k = i - 1 PROVE PublishedBy(k)' = PublishedBy(k) OBVIOUS
  <2> QED BY <1>2, PublishesInRange, LogGrows
<1>4. i - 1 \in Stores(published_slot)' BY <1>2, StoresGrow
<1> QED BY <1>1, <1>3, <1>4 DEF FollowsPublish

\* The step's store, numbered `last`, is as the log's stores are.
Fits(at, value, last) ==
  /\ \A s \in {0, 1} : at = SeqOf(s) =>
       /\ Own(at) <= value
       /\ value % 2 = 0 => EndsCopy(s, last, value - s)'
  /\ \A s \in {0, 1}, f \in Fields : at = published(s, f) =>
       Own(at) <= value /\ Fenced(s, last)'
  /\ at = published_slot =>
       FollowsCopy(last)' /\ PublishedBy(NewestOf(published_slot)) <= PublishedBy(last)'
  /\ at = timestamp_available => FollowsPublish(last)'

\* A store keeps the log in order if what is said of all stores holds of it.
LEMMA LogInvKept ==
  ASSUME TypeOK, TypeOK', LogInv, callbacks <= callbacks', usable \subseteq usable',
         NEW at, NEW value \in Nat, NEW releases \in Nat, Store(at, value, releases),
         NEW last, last = Len(log) + 1, Fits(at, value, last), releases <= last
  PROVE  /\ LogInv'
         /\ \A i \in Stores(published_slot) : PublishedBy(i)' = PublishedBy(i)
<1>1. Len(log) \in Nat /\ callbacks' \in Nat BY DEF TypeOK
<1>2. \A loc : /\ Stores(loc)' = Stores(loc) \union (IF loc = at THEN {last} ELSE {})
               /\ Stores(loc) \in SUBSET (0 .. Len(log))
  BY <1>1, StoresGrow, StoresInRange DEF Stores
<1>3. SequencesGrow'
  <2> SUFFICES ASSUME NEW s \in {0, 1} PROVE Sorted(SeqOf(s))'
    BY DEF SequencesGrow, Sorted, SeqOf, published
  <2>1. Sorted(SeqOf(s)) BY DEF LogInv, SequencesGrow, Sorted
  <2>2. SeqOf(s) = at => Own(SeqOf(s)) <= value BY DEF Fits
  <2> QED BY <2>1, <2>2, StaysSorted
<1>4. CountersGrow'
  <2> SUFFICES ASSUME NEW s \in {0, 1}, NEW f \in Fields PROVE Sorted(published(s, f))'
    BY DEF CountersGrow, Sorted, published
  <2>1. Sorted(published(s, f)) BY DEF LogInv, CountersGrow, Sorted
  <2>2. published(s, f) = at => Own(published(s, f)) <= value BY DEF Fits
  <2> QED BY <2>1, <2>2, StaysSorted
<1>5. PublishesGrow' /\ \A i \in Stores(published_slot) : PublishedBy(i)' = PublishedBy(i)
  <2>1. PublishesGrow /\ PublishesFollow BY DEF LogInv
  <2>2. \A i : i = Len(log) + 1 =>
          (at = published_slot =>
             FollowsCopy(i)' /\ PublishedBy(NewestOf(published_slot)) <= PublishedBy(i)')
    BY DEF Fits
  <2> QED BY <2>1, <2>2, PublishesStaySorted
<1>6. EvensEndCopies'
  <2> SUFFICES ASSUME NEW s \in {0, 1}, NEW i \in Stores(SeqOf(s))', i # 0,
                      Value(i)' % 2 = 0, NEW c, c = Value(i)' - s
               PROVE  EndsCopy(s, i, c)'
    BY DEF EvensEndCopies, EndsCopy, Value, SeqOf, published
  <2>1. CASE i \in Stores(SeqOf(s))
    <3>1. i \in 1 .. Len(log) BY <1>1, <1>2, <2>1
    <3>2. Value(i)' = Value(i) BY <1>1, <3>1, LogGrows
    <3>3. EndsCopy(s, i, c) BY <2>1, <3>2 DEF LogInv, EvensEndCopies
    <3>4. PublishesFollow BY DEF LogInv
    <3> QED BY <1>1, <3>1, <3>3, <3>4, EndsCopyKept
  <2>2. CASE i \notin Stores(SeqOf(s))
    <3>1. SeqOf(s) = at /\ i = last BY <1>2, <2>2
    <3>2. Value(i)' = value BY <3>1, LogGrows
    <3>3. c = value - s BY <3>2
    <3> QED BY <3>1, <3>2, <3>3 DEF Fits
  <2> QED BY <2>1, <2>2
<1>7. CountersFenced'
  <2> SUFFICES ASSUME NEW s \in {0, 1}, NEW f \in Fields,
                      NEW i \in Stores(published(s, f))', i # 0
               PROVE  Fenced(s, i)'
    BY DEF CountersFenced, published
  <2>1. CASE i \in Stores(published(s, f))
    <3>1. i \in 1 .. Len(log) BY <1>1, <1>2, <2>1
    <3>2. Fenced(s, i) BY <2>1 DEF LogInv, CountersFenced
    <3> QED BY <1>1, <3>1, <3>2, FencedKept
  <2>2. CASE i \notin Stores(published(s, f))
    <3>1. published(s, f) = at /\ i = last BY <1>2, <2>2
    <3> QED BY <3>1 DEF Fits
  <2> QED BY <2>1, <2>2
<1>8. PublishesFollow'
  <2> SUFFICES ASSUME NEW i \in Stores(published_slot)', i # 0 PROVE FollowsCopy(i)'
    BY DEF PublishesFollow, published_slot
  <2>1. CASE i \in Stores(published_slot)
    <3>1. PublishesFollow BY DEF LogInv
    <3>2. i \in 2 .. Len(log) /\ FollowsCopy(i)
      BY <2>1, <3>1, PublishesInRange DEF PublishesFollow
    <3> QED BY <1>1, <3>2, FollowsCopyKept
  <2>2. CASE i \notin Stores(published_slot)
    <3>1. published_slot = at /\ i = last BY <1>2, <2>2
    <3> QED BY <3>1 DEF Fits
  <2> QED BY <2>1, <2>2
<1>9. AvailableFollows'
  <2> SUFFICES ASSUME NEW i \in Stores(timestamp_available)', i # 0 PROVE FollowsPublish(i)'
    BY DEF AvailableFollows, timestamp_available
  <2>1. CASE i \in Stores(timestamp_available)
    <3>1. i \in 1 .. Len(log) BY <1>1, <1>2, <2>1
    <3>2. PublishesFollow /\ FollowsPublish(i) BY <2>1 DEF LogInv, AvailableFollows
    <3> QED BY <3>1, <3>2, FollowsPublishKept
  <2>2. CASE i \notin Stores(timestamp_available)
    <3>1. timestamp_available = at /\ i = last BY <1>2, <2>2
    <3> QED BY <3>1 DEF Fits
  <2> QED BY <2>1, <2>2
<1>10. ReleasesPast'
  <2>1. /\ Len(log)' = last /\ \A i \in 1 .. Len(log) : log'[i] = log[i]
        /\ log'[last].releases = releases
    <3>1. /\ Len(log)' = Len(log) + 1 /\ \A i \in 1 .. Len(log) : log'[i] = log[i]
          /\ log'[Len(log) + 1] = [loc |-> at, value |-> value, releases |-> releases]
      BY EntryAppended
    <3> QED BY <3>1
  <2>2. \A i \in 1 .. last : i \in 1 .. Len(log) \/ i = last BY <1>1
  <2> QED BY <2>1, <2>2 DEF LogInv, ReleasesPast
<1> QED BY <1>3, <1>4, <1>5, <1>6, <1>7, <1>8, <1>9, <1>10 DEF LogInv

----------------------------------------------------------------------------
\* The callback's steps.

LEMMA OwnIsNumber ==
  ASSUME TypeOK, NEW loc
  PROVE  Own(loc) \in Nat
<1>1. NewestOf(loc) \in 0 .. Len(log)
  BY NewestIsNewest, StoresInRange DEF Stores, TypeOK
<1> QED BY <1>1, NewestIsNewest, ValuesAreNumbers

\* A number counted so far is one counted later.
LEMMA CountsWiden ==
  ASSUME NEW m \in Nat, NEW n \in Nat, m <= n, NEW seq \in Seq(0 .. m)
  PROVE  seq \in Seq(0 .. n)
<1>1. \A i \in 1 .. Len(seq) : seq[i] \in 0 .. n
  <2>1. \A i \in 1 .. Len(seq) : seq[i] \in 0 .. m OBVIOUS
  <2> QED BY <2>1
<1>2. Len(seq) \in Nat /\ seq = [i \in 1 .. Len(seq) |-> seq[i]] OBVIOUS
<1> QED BY <1>1, <1>2, SMT

\* What a store and the counts leave of the types.
LEMMA TypesKept ==
  ASSUME TypeOK, NEW at \in Locations, NEW value \in Nat, NEW releases \in Nat,
         Store(at, value, releases), UNCHANGED readerVars,
         callbacks' \in 0 .. MaxCallbacks, callbacks <= callbacks',
         usable' \subseteq 1 .. callbacks',
         wpc' \in {"idle", "fill", "publish", "available"},
         slot' \in {0, 1}, stored' \in 0 .. Len(StoreOrder)
  PROVE  TypeOK'
<1>1. log' \in Seq([loc : Locations, value : Nat, releases : Nat])
  <2> DEFINE Entries == [loc : Locations, value : Nat, releases : Nat]
  <2>1. log \in Seq(Entries) BY DEF TypeOK
  <2>2. [loc |-> at, value |-> value, releases |-> releases] \in Entries OBVIOUS
  <2>3. log' = Append(log, [loc |-> at, value |-> value, releases |-> releases]) BY DEF Store
  <2> HIDE DEF Entries
  <2>4. log' \in Seq(Entries) BY <2>1, <2>2, <2>3
  <2> QED BY <2>4 DEF Entries
<1>2. Len(log)' = Len(log) + 1 /\ Len(log) \in Nat BY EntryAppended, LogIsTyped
<1>3. floor' \in [Locations -> 0 .. Len(log)'] /\ fenced' \in 0 .. Len(log)'
  <2>1. floor \in [Locations -> 0 .. Len(log)] /\ fenced \in 0 .. Len(log) BY DEF TypeOK
  <2>2. 0 .. Len(log) \subseteq 0 .. Len(log)' BY <1>2
  <2> QED BY <2>1, <2>2 DEF readerVars
<1>4. got' \in Seq(0 .. callbacks') /\ returned' \in Seq(0 .. callbacks')
  <2>1. callbacks \in Nat /\ callbacks' \in Nat BY ClockAssumption DEF TypeOK
  <2>2. got \in Seq(0 .. callbacks) /\ returned \in Seq(0 .. callbacks) BY DEF TypeOK
  <2>3. got \in Seq(0 .. callbacks') /\ returned \in Seq(0 .. callbacks')
    BY <2>1, <2>2, CountsWiden
  <2> QED BY <2>3 DEF readerVars
<1>5. /\ rpc' \in {"idle", "index", "before", "fields", "recheck", "return"}
      /\ index' \in {0, 1} /\ before' \in Nat
  BY DEF TypeOK, readerVars
<1> QED BY <1>1, <1>3, <1>4, <1>5 DEF TypeOK

\* A callback stores one value, which keeps the counts and the types.
Wrote(at, value, releases) ==
  /\ at \in Locations /\ value \in Nat /\ releases \in Nat
  /\ Store(at, value, releases) /\ UNCHANGED readerVars
  /\ callbacks <= callbacks' /\ usable \subseteq usable'
  /\ TypeOK'

LEMMA WriterNames ==
  ASSUME TypeOK
  PROVE  /\ callbacks \in Nat /\ Mine \in {0, 1} /\ Other \in {0, 1} /\ Other # Mine
         /\ SeqOf(Mine) \in Locations /\ SeqOf(Other) \in Locations
         /\ SeqOf(Mine) # SeqOf(Other)
         /\ \A s \in {0, 1} : /\ SeqOf(s) = SeqOf(Mine) <=> s = Mine
                              /\ SeqOf(s) # published_slot
                              /\ SeqOf(s) # timestamp_available
                              /\ \A f \in Fields, t \in {0, 1} : SeqOf(s) # published(t, f)
<1>1. callbacks \in Nat /\ Mine \in {0, 1} /\ Other \in {0, 1} /\ Other # Mine
  BY Parity DEF TypeOK, Mine, Other
<1>2. \A s \in {0, 1} : SeqOf(s) \in Locations BY LocationsApart DEF SeqOf
<1>3. \A s, t \in {0, 1} : SeqOf(s) = SeqOf(t) <=> s = t BY LocationsApart DEF SeqOf
<1>4. \A s \in {0, 1} : /\ SeqOf(s) # published_slot /\ SeqOf(s) # timestamp_available
                        /\ \A f \in Fields, t \in {0, 1} : SeqOf(s) # published(t, f)
  BY LocationsApart, CounterNames DEF SeqOf
<1> QED BY <1>1, <1>2, <1>3, <1>4

LEMMA WriterNow ==
  ASSUME TypeOK, WriterInv
  PROVE  WriterAt(Mine, Other)
<1> DEFINE m == Mine
<1> DEFINE o == Other
<1>1. m \in {0, 1} /\ o \in {0, 1} BY WriterNames
<1> SUFFICES WriterAt(m, o) OBVIOUS
<1>2. m = Mine /\ o = Other OBVIOUS
<1> HIDE DEF m, o
<1> QED BY <1>1, <1>2 DEF WriterInv

LEMMA BeginWrites ==
  ASSUME ClockIInv, NEW carries \in BOOLEAN, BeginCallback(carries)
  PROVE  /\ slot' = Other
         /\ Wrote(SeqOf(Other), callbacks + Other, 0)
<1>1. TypeOK /\ WriterAt(Mine, Other) BY WriterNow DEF ClockIInv
<1>2. /\ callbacks \in Nat /\ Other \in {0, 1} /\ SeqOf(Other) \in Locations /\ Mine \in {0, 1}
      /\ Other = 1 - Mine
  BY <1>1, WriterNames DEF Other
<1>3. slot' = Other BY <1>1, <1>2 DEF BeginCallback, OtherSlot, WriterAt
<1>4. Own(SeqOf(Other)) + 1 = callbacks + Other BY <1>1, <1>2 DEF WriterAt
<1>5. Store(SeqOf(Other), callbacks + Other, 0)
  BY <1>3, <1>4 DEF BeginCallback, SeqOf, Relaxed
<1>6. /\ callbacks' = callbacks + 1 /\ callbacks' \in 0 .. MaxCallbacks
      /\ UNCHANGED readerVars /\ wpc' = "fill" /\ stored' = 0
  BY <1>2, ClockAssumption DEF BeginCallback
<1>7. usable \subseteq usable' /\ usable' \subseteq 1 .. callbacks'
  BY <1>1, <1>2, <1>6 DEF BeginCallback, TypeOK
<1>8. TypeOK'
  <2>1. 0 \in 0 .. Len(StoreOrder) BY CounterNames
  <2> QED BY <1>1, <1>2, <1>3, <1>5, <1>6, <1>7, <2>1, TypesKept
<1> QED BY <1>2, <1>3, <1>5, <1>6, <1>7, <1>8 DEF Wrote

LEMMA FieldWrites ==
  ASSUME ClockIInv, StoreField
  PROVE  /\ stored + 1 \in 1 .. 6 /\ StoreOrder[stored + 1] \in Fields
         /\ Wrote(published(Mine, StoreOrder[stored + 1]), callbacks, Len(log) - stored)
<1>1. TypeOK /\ WriterAt(Mine, Other) /\ CopyInv BY WriterNow DEF ClockIInv
<1>2. callbacks \in Nat /\ Mine \in {0, 1} BY <1>1, WriterNames
<1>3. stored \in 0 .. 6 /\ stored < 6 /\ slot = Mine
  BY <1>1, CounterNames DEF TypeOK, StoreField, WriterAt
<1>4. stored + 1 \in 1 .. 6 BY <1>3
<1>5. StoreOrder[stored + 1] \in Fields BY <1>4, CounterNames
<1>6. published(Mine, StoreOrder[stored + 1]) \in Locations BY <1>2, <1>5, LocationsApart
<1>7. Len(log) - stored \in Nat
  <2>1. Len(log) \in Nat /\ Len(log) - stored >= 1 BY <1>1, LogIsTyped DEF CopyInv, StoreField
  <2> QED BY <1>3, <2>1
<1>8. Store(published(Mine, StoreOrder[stored + 1]), callbacks, Len(log) - stored)
  BY <1>3 DEF StoreField, Fence
<1>9. TypeOK'
  <2>1. stored' \in 0 .. Len(StoreOrder) BY <1>3, CounterNames DEF StoreField
  <2>2. /\ UNCHANGED readerVars /\ callbacks' \in 0 .. MaxCallbacks /\ callbacks <= callbacks'
        /\ usable' \subseteq 1 .. callbacks' /\ slot' \in {0, 1}
        /\ wpc' \in {"idle", "fill", "publish", "available"}
    BY <1>1, <1>2 DEF StoreField, TypeOK
  <2> QED BY <1>1, <1>2, <1>6, <1>7, <1>8, <2>1, <2>2, TypesKept
<1> QED BY <1>2, <1>4, <1>5, <1>6, <1>7, <1>8, <1>9 DEF Wrote, StoreField

LEMMA EvenWrites ==
  ASSUME ClockIInv, StoreEven
  PROVE  Wrote(SeqOf(Mine), callbacks + Mine, Len(log) + 1)
<1>1. TypeOK /\ WriterAt(Mine, Other) BY WriterNow DEF ClockIInv
<1>2. callbacks \in Nat /\ Mine \in {0, 1} /\ SeqOf(Mine) \in Locations BY <1>1, WriterNames
<1>3. slot = Mine /\ Own(SeqOf(Mine)) + 1 = callbacks + Mine
  BY <1>1, <1>2 DEF WriterAt, StoreEven
<1>4. Store(SeqOf(Mine), callbacks + Mine, Len(log) + 1)
  BY <1>3 DEF StoreEven, SeqOf, Release
<1>5. Len(log) + 1 \in Nat /\ callbacks + Mine \in Nat BY <1>1, <1>2 DEF TypeOK
<1>6. TypeOK'
  <2>1. /\ UNCHANGED readerVars /\ callbacks' \in 0 .. MaxCallbacks /\ callbacks <= callbacks'
        /\ usable' \subseteq 1 .. callbacks' /\ slot' \in {0, 1}
        /\ wpc' \in {"idle", "fill", "publish", "available"}
    BY <1>1, <1>2 DEF StoreEven, TypeOK
  <2>2. stored' \in 0 .. Len(StoreOrder) BY <1>1 DEF StoreEven, TypeOK
  <2> QED BY <1>1, <1>2, <1>4, <1>5, <2>1, <2>2, TypesKept
<1> QED BY <1>2, <1>4, <1>5, <1>6 DEF Wrote, StoreEven

LEMMA PublishWrites ==
  ASSUME ClockIInv, Publish
  PROVE  Wrote(published_slot, Mine, Len(log) + 1)
<1>1. TypeOK /\ WriterAt(Mine, Other) BY WriterNow DEF ClockIInv
<1>2. callbacks \in Nat /\ Mine \in {0, 1} /\ published_slot \in Locations
  BY <1>1, WriterNames, SingleLocations
<1>3. slot = Mine BY <1>1 DEF WriterAt, Publish
<1>4. Store(published_slot, Mine, Len(log) + 1) BY <1>3 DEF Publish, Release
<1>5. Len(log) + 1 \in Nat /\ Mine \in Nat BY <1>1, <1>2 DEF TypeOK
<1>6. TypeOK'
  <2>1. /\ UNCHANGED readerVars /\ callbacks' \in 0 .. MaxCallbacks /\ callbacks <= callbacks'
        /\ usable' \subseteq 1 .. callbacks' /\ slot' \in {0, 1}
        /\ wpc' \in {"idle", "fill", "publish", "available"}
    BY <1>1, <1>2 DEF Publish, TypeOK
  <2>2. stored' \in 0 .. Len(StoreOrder) BY <1>1 DEF Publish, TypeOK
  <2> QED BY <1>1, <1>2, <1>4, <1>5, <2>1, <2>2, TypesKept
<1> QED BY <1>2, <1>4, <1>5, <1>6 DEF Wrote, Publish

LEMMA AvailableWrites ==
  ASSUME ClockIInv, StoreAvailable
  PROVE  Wrote(timestamp_available, 1, Len(log) + 1)
<1>1. TypeOK BY DEF ClockIInv
<1>2. callbacks \in Nat /\ timestamp_available \in Locations
  BY <1>1, WriterNames, SingleLocations
<1>3. Store(timestamp_available, 1, Len(log) + 1) BY DEF StoreAvailable, Release
<1>4. Len(log) + 1 \in Nat BY <1>1 DEF TypeOK
<1>5. TypeOK'
  <2>1. /\ UNCHANGED readerVars /\ callbacks' \in 0 .. MaxCallbacks /\ callbacks <= callbacks'
        /\ usable' \subseteq 1 .. callbacks' /\ slot' \in {0, 1}
        /\ wpc' \in {"idle", "fill", "publish", "available"}
    BY <1>1, <1>2 DEF StoreAvailable, TypeOK
  <2>2. stored' \in 0 .. Len(StoreOrder) BY <1>1 DEF StoreAvailable, TypeOK
  <2> QED BY <1>1, <1>2, <1>3, <1>4, <2>1, <2>2, TypesKept
<1> QED BY <1>2, <1>3, <1>4, <1>5 DEF Wrote, StoreAvailable

\* The publishes before a store are those after it, unless it is one.
LEMMA NewestPublishKept ==
  ASSUME TypeOK, TypeOK', PublishesFollow, NEW at, NEW value \in Nat, NEW releases \in Nat,
         Store(at, value, releases), at # published_slot,
         NEW k \in Stores(published_slot)', k = NewestOf(published_slot)'
  PROVE  /\ k \in Stores(published_slot) /\ k = NewestOf(published_slot)
         /\ PublishedBy(k)' = PublishedBy(k)
<1>1. k = NewestOf(published_slot) BY NewestGrows
<1>2. k \in Stores(published_slot) BY <1>1, NewestIsNewest
<1>3. PublishedBy(k)' = PublishedBy(k) BY <1>2, PublishesInRange, LogGrows
<1> QED BY <1>1, <1>2, <1>3

LEMMA BeginKeeps ==
  ASSUME ClockIInv, NEW carries \in BOOLEAN, BeginCallback(carries)
  PROVE  /\ LogInv' /\ WriterInv' /\ CopyInv'
         /\ \A i \in Stores(published_slot) : PublishedBy(i)' = PublishedBy(i)
<1>1. TypeOK /\ LogInv /\ PublishesFollow /\ WriterInv BY DEF ClockIInv, LogInv
<1>2. SUFFICES ASSUME NEW m \in {0, 1}, NEW o \in {0, 1}, m = Mine, o = Other
               PROVE  /\ LogInv' /\ WriterInv' /\ CopyInv'
                      /\ \A i \in Stores(published_slot) : PublishedBy(i)' = PublishedBy(i)
  BY <1>1, WriterNames
<1>3. callbacks \in Nat /\ o = 1 - m /\ m = callbacks % 2
  BY <1>1, <1>2, WriterNames DEF Mine, Other
<1>4. /\ SeqOf(o) \in Locations /\ SeqOf(o) # published_slot /\ SeqOf(m) # SeqOf(o)
      /\ SeqOf(o) # timestamp_available
      /\ \A s \in {0, 1} : SeqOf(s) = SeqOf(o) <=> s = o
      /\ \A s \in {0, 1}, f \in Fields : SeqOf(o) # published(s, f)
  <2>1. \A s, t \in {0, 1} : SeqOf(s) = SeqOf(t) <=> s = t BY LocationsApart DEF SeqOf
  <2>2. o # m BY <1>3
  <2> QED BY <1>1, <1>2, <2>1, <2>2, WriterNames
<1>5. WriterAt(m, o) BY <1>1, <1>2 DEF WriterInv
<1>6. Wrote(SeqOf(o), callbacks + o, 0) /\ slot' = o BY <1>2, BeginWrites
<1>7. wpc = "idle" /\ callbacks' = callbacks + 1 /\ wpc' = "fill" /\ stored' = 0
  BY DEF BeginCallback
<1>8. o = Mine' /\ m = Other'
  BY <1>3, <1>7, Parity DEF Mine, Other
<1>9. callbacks + o \in Nat /\ (callbacks + o) % 2 = 1
  BY <1>3, SMT
<1>10. TypeOK' /\ Store(SeqOf(o), callbacks + o, 0) /\ usable \subseteq usable' BY <1>6 DEF Wrote
<1>11. LogInv' /\ \A i \in Stores(published_slot) : PublishedBy(i)' = PublishedBy(i)
  <2>1. Own(SeqOf(o)) <= callbacks + o BY <1>3, <1>5 DEF WriterAt
  <2> SUFFICES ASSUME NEW last, last = Len(log) + 1
               PROVE  LogInv' /\ \A i \in Stores(published_slot) : PublishedBy(i)' = PublishedBy(i)
    OBVIOUS
  <2>2. Fits(SeqOf(o), callbacks + o, last) BY <1>4, <1>9, <2>1 DEF Fits
  <2>3. callbacks <= callbacks' /\ 0 \in Nat /\ 0 <= last BY <1>1, <1>3, <1>7, LogIsTyped
  <2> HIDE DEF LogInv
  <2> QED BY <1>1, <1>9, <1>10, <2>2, <2>3, LogInvKept
<1>12. WriterAt(o, m)'
  <2>1. /\ Own(SeqOf(m))' = Own(SeqOf(m)) /\ Own(SeqOf(o))' = callbacks + o
        /\ Own(published_slot)' = Own(published_slot)
    BY <1>1, <1>4, <1>9, <1>10, NewestGrows
  <2>2. ASSUME NEW k \in Stores(published_slot)', k = NewestOf(published_slot)'
        PROVE  PublishedBy(k)' = callbacks
    <3>1. /\ k \in Stores(published_slot) /\ k = NewestOf(published_slot)
          /\ PublishedBy(k)' = PublishedBy(k)
      BY <1>1, <1>4, <1>9, <1>10, <2>2, NewestPublishKept
    <3> QED BY <1>3, <1>5, <1>7, <3>1 DEF WriterAt
  <2>3. Own(SeqOf(m)) = callbacks + m /\ Own(published_slot) = m
    BY <1>3, <1>5, <1>7 DEF WriterAt
  <2> QED BY <1>3, <1>6, <1>7, <2>1, <2>2, <2>3 DEF WriterAt
<1>13. WriterInv'
  <2> SUFFICES ASSUME NEW p \in {0, 1}, NEW q \in {0, 1}, p = Mine', q = Other'
               PROVE  WriterAt(p, q)'
    BY DEF WriterInv
  <2> QED BY <1>8, <1>12
<1>14. CopyInv'
  <2>1. /\ Len(log)' = Len(log) + 1 /\ Len(log) \in Nat
        /\ log'[Len(log) + 1] = [loc |-> SeqOf(o), value |-> callbacks + o, releases |-> 0]
    BY <1>1, <1>9, <1>10, EntryAppended, LogIsTyped
  <2>2. Len(log)' - stored' = Len(log) + 1 BY <1>7, <2>1
  <2>3. CopyAt(o)'
    <3>1. log'[Len(log)' - stored'].loc = SeqOf(o) BY <2>1, <2>2
    <3>2. log'[Len(log)' - stored'].value = callbacks' + o - 1 BY <1>3, <1>7, <2>1, <2>2
    <3> QED BY <1>7, <3>1, <3>2 DEF CopyAt, SeqOf, published
  <2> SUFFICES ASSUME NEW p \in {0, 1}, p = Mine' PROVE CopyAt(p)'
    BY <2>1, <2>2 DEF CopyInv
  <2> QED BY <1>8, <2>3
<1> QED BY <1>11, <1>13, <1>14

LEMMA FieldKeeps ==
  ASSUME ClockIInv, StoreField
  PROVE  /\ LogInv' /\ WriterInv' /\ CopyInv'
         /\ \A i \in Stores(published_slot) : PublishedBy(i)' = PublishedBy(i)
<1>1. TypeOK /\ LogInv /\ PublishesFollow /\ WriterInv /\ CopyInv BY DEF ClockIInv, LogInv
<1>2. SUFFICES ASSUME NEW m \in {0, 1}, NEW o \in {0, 1}, m = Mine, o = Other,
                      NEW f, f = StoreOrder[stored + 1], NEW last, last = Len(log) + 1
               PROVE  /\ LogInv' /\ WriterInv' /\ CopyInv'
                      /\ \A i \in Stores(published_slot) : PublishedBy(i)' = PublishedBy(i)
  BY <1>1, WriterNames
<1>3. callbacks \in Nat /\ o = 1 - m /\ m = callbacks % 2
  BY <1>1, <1>2, WriterNames DEF Mine, Other
<1>4. f \in Fields /\ stored + 1 \in 1 .. 6 /\ Wrote(published(m, f), callbacks, Len(log) - stored)
  BY <1>2, FieldWrites
<1>5. /\ published(m, f) \in Locations /\ published(m, f) # published_slot
      /\ published(m, f) # timestamp_available
      /\ \A s \in {0, 1} : published(m, f) # SeqOf(s)
      /\ \A s \in {0, 1}, g \in Fields : published(m, f) = published(s, g) => s = m
  BY <1>4, LocationsApart, CounterNames DEF SeqOf
<1>6. WriterAt(m, o) /\ CopyAt(m) /\ Len(log) - stored >= 1
  BY <1>1, <1>2 DEF WriterInv, CopyInv, StoreField
<1>7. /\ wpc = "fill" /\ wpc' = "fill" /\ callbacks' = callbacks /\ usable' = usable
      /\ slot' = slot /\ stored' = stored + 1 /\ stored \in Nat /\ callbacks >= 1
  BY <1>1, <1>6 DEF StoreField, TypeOK, WriterAt
<1>8. Mine' = m /\ Other' = o BY <1>2, <1>7 DEF Mine, Other
<1>9. /\ Len(log) \in Nat /\ Len(log) - stored \in Nat /\ TypeOK'
      /\ Store(published(m, f), callbacks, Len(log) - stored)
  BY <1>1, <1>4, LogIsTyped DEF Wrote
<1>10. /\ Len(log)' = last /\ \A i \in 1 .. Len(log) : log'[i] = log[i]
       /\ log'[last] = [loc |-> published(m, f), value |-> callbacks,
                        releases |-> Len(log) - stored]
  BY <1>1, <1>2, <1>3, <1>9, EntryAppended
<1>11. Fenced(m, last)'
  <2>1. Len(log) - stored \in 1 .. Len(log) /\ last \in 1 .. last /\ last # 0
    BY <1>2, <1>6, <1>7, <1>9
  <2>2. log'[Len(log) - stored] = log[Len(log) - stored] BY <1>10, <2>1
  <2>3. /\ log'[Len(log) - stored].loc = SeqOf(m)
        /\ log'[Len(log) - stored].value = callbacks + m - 1
    BY <1>6, <2>2 DEF CopyAt
  <2>4. Value(last)' = callbacks BY <1>10, <2>1 DEF Value
  <2>5. log'[last].releases = Len(log) - stored BY <1>10
  <2>6. log'[last].releases \in StoresTo(SeqOf(m), last)'
    <3>1. Len(log) - stored \in 1 .. last BY <1>2, <1>9, <2>1
    <3> QED BY <2>3, <2>5, <3>1 DEF StoresTo, SeqOf, published
  <2>7. (Value(log[last].releases))' = callbacks + m - 1
    BY <2>1, <2>3, <2>5 DEF Value
  <2> QED BY <1>3, <1>7, <2>4, <2>6, <2>7 DEF Fenced
<1>12. Own(published(m, f)) <= callbacks
  <2> DEFINE i == NewestOf(published(m, f))
  <2>1. i \in Stores(published(m, f)) /\ Own(published(m, f)) = Value(i)
    BY <1>1, NewestIsNewest
  <2>2. CASE i = 0 BY <1>3, <2>1, <2>2 DEF Value
  <2>3. CASE i # 0
    <3>1. Fenced(m, i) BY <1>1, <1>4, <2>1, <2>3 DEF LogInv, CountersFenced
    <3> QED BY <1>3, <2>1, <3>1 DEF Fenced
  <2> QED BY <2>2, <2>3
<1>13. LogInv' /\ \A i \in Stores(published_slot) : PublishedBy(i)' = PublishedBy(i)
  <2>1. Fits(published(m, f), callbacks, last)
    <3>1. ASSUME NEW s \in {0, 1}, NEW g \in Fields, published(m, f) = published(s, g)
          PROVE  Own(published(m, f)) <= callbacks /\ Fenced(s, last)'
      <4>1. s = m BY <1>5, <3>1
      <4> QED BY <1>11, <1>12, <4>1
    <3> QED BY <1>5, <3>1 DEF Fits
  <2>2. callbacks <= callbacks' /\ usable \subseteq usable' /\ Len(log) - stored <= last
    BY <1>2, <1>3, <1>7, <1>9
  <2> HIDE DEF LogInv
  <2> QED BY <1>1, <1>2, <1>3, <1>9, <2>1, <2>2, LogInvKept
<1>14. WriterAt(m, o)'
  <2>1. /\ Own(SeqOf(m))' = Own(SeqOf(m)) /\ Own(SeqOf(o))' = Own(SeqOf(o))
        /\ Own(published_slot)' = Own(published_slot)
    BY <1>1, <1>3, <1>5, <1>9, NewestGrows
  <2>2. ASSUME NEW k \in Stores(published_slot)', k = NewestOf(published_slot)'
        PROVE  PublishedBy(k)' = callbacks - 1
    <3>1. /\ k \in Stores(published_slot) /\ k = NewestOf(published_slot)
          /\ PublishedBy(k)' = PublishedBy(k)
      BY <1>1, <1>3, <1>5, <1>9, <2>2, NewestPublishKept
    <3> QED BY <1>6, <1>7, <3>1 DEF WriterAt
  <2> QED BY <1>6, <1>7, <2>1, <2>2 DEF WriterAt
<1>15. WriterInv'
  <2> SUFFICES ASSUME NEW p \in {0, 1}, NEW q \in {0, 1}, p = Mine', q = Other'
               PROVE  WriterAt(p, q)'
    BY DEF WriterInv
  <2> QED BY <1>8, <1>14
<1>16. CopyInv'
  <2>1. Len(log)' - stored' = Len(log) - stored BY <1>2, <1>7, <1>9, <1>10
  <2>2. log'[Len(log) - stored] = log[Len(log) - stored]
    <3>1. Len(log) - stored \in 1 .. Len(log) BY <1>6, <1>7, <1>9
    <3> QED BY <1>10, <3>1
  <2>3. ASSUME NEW n \in 1 .. stored'
        PROVE  /\ log'[Len(log) - stored + n].loc = published(m, StoreOrder[n])
               /\ log'[Len(log) - stored + n].value = callbacks
    <3>1. CASE n \in 1 .. stored
      <4>1. Len(log) - stored + n \in 1 .. Len(log) BY <1>6, <1>7, <1>9, <3>1
      <4>2. log'[Len(log) - stored + n] = log[Len(log) - stored + n] BY <1>10, <4>1
      <4> QED BY <1>6, <3>1, <4>2 DEF CopyAt
    <3>2. CASE n = stored + 1
      <4>1. Len(log) - stored + n = last BY <1>2, <1>7, <1>9, <3>2
      <4> QED BY <1>2, <1>10, <3>2, <4>1
    <3> QED BY <1>7, <3>1, <3>2
  <2>4. CopyAt(m)'
    BY <1>6, <1>7, <2>1, <2>2, <2>3 DEF CopyAt, SeqOf, published
  <2> SUFFICES ASSUME NEW p \in {0, 1}, p = Mine' PROVE CopyAt(p)'
    BY <1>6, <2>1 DEF CopyInv
  <2> QED BY <1>8, <2>4
<1> QED BY <1>13, <1>15, <1>16

LEMMA EvenKeeps ==
  ASSUME ClockIInv, StoreEven
  PROVE  /\ LogInv' /\ WriterInv' /\ CopyInv'
         /\ \A i \in Stores(published_slot) : PublishedBy(i)' = PublishedBy(i)
<1>1. TypeOK /\ LogInv /\ PublishesFollow /\ WriterInv /\ CopyInv BY DEF ClockIInv, LogInv
<1>2. SUFFICES ASSUME NEW m \in {0, 1}, NEW o \in {0, 1}, m = Mine, o = Other,
                      NEW last, last = Len(log) + 1
               PROVE  /\ LogInv' /\ WriterInv' /\ CopyInv'
                      /\ \A i \in Stores(published_slot) : PublishedBy(i)' = PublishedBy(i)
  BY <1>1, WriterNames
<1>3. callbacks \in Nat /\ o = 1 - m /\ m = callbacks % 2
  BY <1>1, <1>2, WriterNames DEF Mine, Other
<1>4. /\ SeqOf(m) # published_slot /\ SeqOf(m) # SeqOf(o) /\ SeqOf(m) # timestamp_available
      /\ \A s \in {0, 1} : SeqOf(s) = SeqOf(m) <=> s = m
      /\ \A s \in {0, 1}, f \in Fields : SeqOf(m) # published(s, f)
  <2>1. \A s, t \in {0, 1} : SeqOf(s) = SeqOf(t) <=> s = t BY LocationsApart DEF SeqOf
  <2>2. o # m BY <1>3
  <2> QED BY <1>1, <1>2, <2>1, <2>2, WriterNames
<1>5. WriterAt(m, o) /\ CopyAt(m) /\ Len(log) - stored >= 1
  BY <1>1, <1>2 DEF WriterInv, CopyInv, StoreEven
<1>6. /\ wpc = "fill" /\ wpc' = "publish" /\ callbacks' = callbacks /\ usable' = usable
      /\ slot' = slot /\ stored = 6 /\ callbacks >= 1
  BY <1>1, <1>5, CounterNames DEF StoreEven, TypeOK, WriterAt
<1>7. Mine' = m /\ Other' = o BY <1>2, <1>6 DEF Mine, Other
<1>8. /\ Len(log) \in Nat /\ last \in Nat /\ callbacks + m \in Nat /\ TypeOK'
      /\ Store(SeqOf(m), callbacks + m, last)
  BY <1>1, <1>2, <1>3, EvenWrites, LogIsTyped DEF Wrote
<1>9. /\ Len(log)' = last /\ \A i \in 1 .. Len(log) : log'[i] = log[i]
      /\ log'[last] = [loc |-> SeqOf(m), value |-> callbacks + m, releases |-> last]
  BY <1>1, <1>2, <1>8, EntryAppended
<1>10. NewestOf(published_slot) \in Stores(published_slot) BY <1>1, NewestIsNewest
<1>11. EndsCopy(m, last, callbacks)'
  <2>1. callbacks \in 1 .. callbacks' /\ callbacks % 2 = m BY <1>3, <1>6
  <2>2. ASSUME NEW f \in Fields
        PROVE  (\E j \in StoresTo(published(m, f), last) : Value(j) = callbacks)'
    <3>1. PICK n \in 1 .. 6 : f = StoreOrder[n] BY CounterNames
    <3> SUFFICES ASSUME NEW j, j = Len(log) - stored + n
                 PROVE  (\E k \in StoresTo(published(m, f), last) : Value(k) = callbacks)'
      OBVIOUS
    <3>2. j \in 1 .. Len(log) /\ j # 0 /\ j \in 1 .. last BY <1>2, <1>5, <1>6, <1>8
    <3>3. log[j].loc = published(m, f) /\ log[j].value = callbacks
      BY <1>5, <1>6, <3>1 DEF CopyAt
    <3>4. log'[j] = log[j] BY <1>9, <3>2
    <3>5. j \in StoresTo(published(m, f), last)' BY <3>2, <3>3, <3>4 DEF StoresTo, published
    <3>6. Value(j)' = callbacks' BY <1>6, <3>2, <3>3, <3>4 DEF Value
    <3> QED BY <3>5, <3>6
  <2>3. (\E j \in StoresTo(published_slot, last) : PublishedBy(j) = callbacks - 1)'
    <3> SUFFICES ASSUME NEW k, k = NewestOf(published_slot)
                 PROVE  (\E j \in StoresTo(published_slot, last) : PublishedBy(j) = callbacks - 1)'
      OBVIOUS
    <3>1. k \in Stores(published_slot) /\ PublishedBy(k) = callbacks - 1
      BY <1>5, <1>6, <1>10 DEF WriterAt
    <3>2. PublishedBy(k)' = PublishedBy(k) BY <1>1, <1>8, <3>1, PublishesInRange, LogGrows
    <3>3. k \in Stores(published_slot)' BY <1>1, <1>8, <3>1, StoresGrow
    <3>4. k \in StoresTo(published_slot, last)' BY <1>9, <3>3 DEF Stores
    <3> QED BY <1>6, <3>1, <3>2, <3>4
  <2>4. log'[last].releases = last BY <1>9
  <2> QED BY <1>6, <2>1, <2>2, <2>3, <2>4 DEF EndsCopy
<1>12. LogInv' /\ \A i \in Stores(published_slot) : PublishedBy(i)' = PublishedBy(i)
  <2>1. Own(SeqOf(m)) <= callbacks + m BY <1>3, <1>5, <1>6 DEF WriterAt
  <2>2. Fits(SeqOf(m), callbacks + m, last)
    <3>1. ASSUME NEW s \in {0, 1}, SeqOf(m) = SeqOf(s)
          PROVE  EndsCopy(s, last, (callbacks + m) - s)'
      <4>1. s = m BY <1>4, <3>1
      <4> SUFFICES ASSUME NEW c, c = (callbacks + m) - s PROVE EndsCopy(s, last, c)'
        BY <1>6 DEF EndsCopy
      <4>2. c = callbacks BY <1>3, <4>1
      <4> QED BY <1>6, <1>11, <4>1, <4>2 DEF EndsCopy
    <3> QED BY <1>4, <1>6, <2>1, <3>1 DEF Fits
  <2>3. callbacks <= callbacks' /\ usable \subseteq usable' /\ last <= last BY <1>3, <1>6, <1>8
  <2> HIDE DEF LogInv
  <2> QED BY <1>1, <1>2, <1>8, <2>2, <2>3, LogInvKept
<1>13. WriterAt(m, o)'
  <2>1. /\ Own(SeqOf(m))' = callbacks + m /\ Own(SeqOf(o))' = Own(SeqOf(o))
        /\ Own(published_slot)' = Own(published_slot)
        /\ NewestOf(SeqOf(m))' = Len(log)'
    BY <1>1, <1>2, <1>4, <1>8, <1>9, NewestGrows
  <2>2. ASSUME NEW k \in Stores(published_slot)', k = NewestOf(published_slot)'
        PROVE  PublishedBy(k)' = callbacks - 1
    <3>1. /\ k \in Stores(published_slot) /\ k = NewestOf(published_slot)
          /\ PublishedBy(k)' = PublishedBy(k)
      BY <1>1, <1>4, <1>8, <2>2, NewestPublishKept
    <3> QED BY <1>5, <1>6, <3>1 DEF WriterAt
  <2>3. Len(log)' >= 1 BY <1>2, <1>8, <1>9
  <2> QED BY <1>3, <1>5, <1>6, <2>1, <2>2, <2>3 DEF WriterAt
<1>14. WriterInv'
  <2> SUFFICES ASSUME NEW p \in {0, 1}, NEW q \in {0, 1}, p = Mine', q = Other'
               PROVE  WriterAt(p, q)'
    BY DEF WriterInv
  <2> QED BY <1>7, <1>13
<1>15. CopyInv' BY <1>6 DEF CopyInv
<1> QED BY <1>12, <1>14, <1>15

LEMMA PublishKeeps ==
  ASSUME ClockIInv, Publish
  PROVE  /\ LogInv' /\ WriterInv' /\ CopyInv'
         /\ \A i \in Stores(published_slot) : PublishedBy(i)' = PublishedBy(i)
<1>1. TypeOK /\ LogInv /\ PublishesFollow /\ WriterInv BY DEF ClockIInv, LogInv
<1>2. SUFFICES ASSUME NEW m \in {0, 1}, NEW o \in {0, 1}, m = Mine, o = Other,
                      NEW last, last = Len(log) + 1
               PROVE  /\ LogInv' /\ WriterInv' /\ CopyInv'
                      /\ \A i \in Stores(published_slot) : PublishedBy(i)' = PublishedBy(i)
  BY <1>1, WriterNames
<1>3. callbacks \in Nat /\ o = 1 - m /\ m = callbacks % 2
  BY <1>1, <1>2, WriterNames DEF Mine, Other
<1>4. /\ \A s \in {0, 1} : SeqOf(s) # published_slot
      /\ \A s \in {0, 1}, f \in Fields : published_slot # published(s, f)
      /\ published_slot # timestamp_available
  BY LocationsApart, SingleLocations DEF SeqOf
<1>5. WriterAt(m, o) BY <1>1, <1>2 DEF WriterInv
<1>6. /\ wpc = "publish" /\ callbacks' = callbacks /\ usable' = usable /\ stored' = stored
      /\ slot' = slot /\ callbacks >= 1
      /\ wpc' = IF callbacks \in usable THEN "available" ELSE "idle"
  BY <1>1, <1>5 DEF Publish, WriterAt
<1>7. Mine' = m /\ Other' = o BY <1>2, <1>6 DEF Mine, Other
<1>8. /\ Len(log) \in Nat /\ last \in Nat /\ m \in Nat /\ TypeOK' /\ Store(published_slot, m, last)
  BY <1>1, <1>2, PublishWrites, LogIsTyped DEF Wrote
<1>9. /\ Len(log)' = last /\ \A i \in 1 .. Len(log) : log'[i] = log[i]
      /\ log'[last] = [loc |-> published_slot, value |-> m, releases |-> last]
  BY <1>1, <1>2, <1>8, EntryAppended
<1>10. /\ Len(log) >= 1 /\ log[Len(log)].loc = SeqOf(m) /\ log[Len(log)].value = callbacks + m
  <2>1. Len(log) >= 1 /\ NewestOf(SeqOf(m)) = Len(log) /\ Own(SeqOf(m)) = callbacks + m
    BY <1>3, <1>5, <1>6 DEF WriterAt
  <2>2. Len(log) \in Stores(SeqOf(m)) /\ Value(Len(log)) = callbacks + m
    BY <1>1, <2>1, NewestIsNewest
  <2> QED BY <1>8, <2>1, <2>2 DEF Stores, StoresTo, Value
<1>11. PublishedBy(last)' = callbacks
  <2>1. log'[last - 1] = log[Len(log)] /\ last # 0 BY <1>2, <1>8, <1>9, <1>10
  <2> QED BY <1>3, <1>9, <1>10, <2>1 DEF PublishedBy
<1>12. FollowsCopy(last)'
  <2>1. log'[last].value = m /\ log'[last].releases = last BY <1>9
  <2>2. last - 1 \in 1 .. Len(log)' /\ log'[last - 1].loc = SeqOf(m)
    BY <1>2, <1>8, <1>9, <1>10
  <2>3. PublishedBy(last)' \in 1 .. callbacks' /\ PublishedBy(last)' % 2 = m
    BY <1>3, <1>6, <1>11
  <2> QED BY <2>1, <2>2, <2>3 DEF FollowsCopy, SeqOf, published
<1>13. PublishedBy(NewestOf(published_slot)) = callbacks - 1
  BY <1>1, <1>5, <1>6, NewestIsNewest DEF WriterAt
<1>14. LogInv' /\ \A i \in Stores(published_slot) : PublishedBy(i)' = PublishedBy(i)
  <2>1. PublishedBy(NewestOf(published_slot)) <= PublishedBy(last)' BY <1>3, <1>11, <1>13
  <2>2. Fits(published_slot, m, last) BY <1>4, <1>12, <2>1 DEF Fits
  <2>3. callbacks <= callbacks' /\ usable \subseteq usable' /\ last <= last BY <1>3, <1>6, <1>8
  <2> HIDE DEF LogInv
  <2> QED BY <1>1, <1>2, <1>8, <2>2, <2>3, LogInvKept
<1>15. WriterAt(m, o)'
  <2>1. /\ Own(SeqOf(m))' = Own(SeqOf(m)) /\ Own(SeqOf(o))' = Own(SeqOf(o))
        /\ Own(published_slot)' = m /\ NewestOf(published_slot)' = last
    BY <1>1, <1>2, <1>4, <1>8, NewestGrows
  <2>2. ASSUME NEW k \in Stores(published_slot)', k = NewestOf(published_slot)'
        PROVE  PublishedBy(k)' = callbacks
    <3>1. k = last BY <2>1, <2>2
    <3> QED BY <1>11, <3>1
  <2> QED BY <1>3, <1>5, <1>6, <1>9, <2>1, <2>2 DEF WriterAt
<1>16. WriterInv'
  <2> SUFFICES ASSUME NEW p \in {0, 1}, NEW q \in {0, 1}, p = Mine', q = Other'
               PROVE  WriterAt(p, q)'
    BY DEF WriterInv
  <2> QED BY <1>7, <1>15
<1>17. CopyInv' BY <1>6 DEF CopyInv
<1> QED BY <1>14, <1>16, <1>17

LEMMA AvailableKeeps ==
  ASSUME ClockIInv, StoreAvailable
  PROVE  /\ LogInv' /\ WriterInv' /\ CopyInv'
         /\ \A i \in Stores(published_slot) : PublishedBy(i)' = PublishedBy(i)
<1>1. TypeOK /\ LogInv /\ PublishesFollow /\ WriterInv BY DEF ClockIInv, LogInv
<1>2. SUFFICES ASSUME NEW m \in {0, 1}, NEW o \in {0, 1}, m = Mine, o = Other,
                      NEW last, last = Len(log) + 1
               PROVE  /\ LogInv' /\ WriterInv' /\ CopyInv'
                      /\ \A i \in Stores(published_slot) : PublishedBy(i)' = PublishedBy(i)
  BY <1>1, WriterNames
<1>3. callbacks \in Nat /\ o = 1 - m /\ m = callbacks % 2
  BY <1>1, <1>2, WriterNames DEF Mine, Other
<1>4. /\ \A s \in {0, 1} : SeqOf(s) # timestamp_available
      /\ \A s \in {0, 1}, f \in Fields : timestamp_available # published(s, f)
      /\ published_slot # timestamp_available
  BY LocationsApart, SingleLocations DEF SeqOf
<1>5. WriterAt(m, o) BY <1>1, <1>2 DEF WriterInv
<1>6. /\ wpc = "available" /\ wpc' = "idle" /\ callbacks' = callbacks /\ usable' = usable
      /\ slot' = slot /\ callbacks \in usable
  BY <1>1, <1>5 DEF StoreAvailable, WriterAt
<1>7. Mine' = m /\ Other' = o BY <1>2, <1>6 DEF Mine, Other
<1>8. /\ Len(log) \in Nat /\ last \in Nat /\ TypeOK' /\ Store(timestamp_available, 1, last)
  BY <1>1, <1>2, AvailableWrites, LogIsTyped DEF Wrote
<1>9. log'[last] = [loc |-> timestamp_available, value |-> 1, releases |-> last]
  BY <1>1, <1>2, <1>8, EntryAppended
<1>10. /\ NewestOf(published_slot) = Len(log) /\ Len(log) \in Stores(published_slot)
       /\ PublishedBy(Len(log)) = callbacks
  <2>1. NewestOf(published_slot) = Len(log) BY <1>5, <1>6 DEF WriterAt
  <2>2. NewestOf(published_slot) \in Stores(published_slot) BY <1>1, NewestIsNewest
  <2> QED BY <1>3, <1>5, <1>6, <2>1, <2>2 DEF WriterAt
<1>11. FollowsPublish(last)'
  <2> SUFFICES ASSUME NEW k, k = last - 1 PROVE FollowsPublish(last)' OBVIOUS
  <2>1. k = Len(log) BY <1>2, <1>8
  <2>2. k \in Stores(published_slot) /\ PublishedBy(k) = callbacks BY <1>10, <2>1
  <2>3. PublishedBy(k)' = PublishedBy(k) BY <1>1, <1>8, <2>2, PublishesInRange, LogGrows
  <2>4. k \in Stores(published_slot)' BY <1>1, <1>8, <2>2, StoresGrow
  <2>5. log'[last].value = 1 /\ log'[last].releases = last BY <1>9
  <2>6. PublishedBy(last - 1)' = PublishedBy(k)' BY DEF PublishedBy
  <2> QED BY <1>6, <2>2, <2>3, <2>4, <2>5, <2>6 DEF FollowsPublish
<1>12. LogInv' /\ \A i \in Stores(published_slot) : PublishedBy(i)' = PublishedBy(i)
  <2>1. Fits(timestamp_available, 1, last) BY <1>4, <1>11 DEF Fits
  <2>2. callbacks <= callbacks' /\ usable \subseteq usable' /\ last <= last BY <1>3, <1>6, <1>8
  <2> HIDE DEF LogInv
  <2> QED BY <1>1, <1>2, <1>8, <2>1, <2>2, LogInvKept
<1>13. WriterAt(m, o)'
  <2>1. /\ Own(SeqOf(m))' = Own(SeqOf(m)) /\ Own(SeqOf(o))' = Own(SeqOf(o))
        /\ Own(published_slot)' = Own(published_slot)
    BY <1>1, <1>4, <1>8, NewestGrows
  <2>2. ASSUME NEW k \in Stores(published_slot)', k = NewestOf(published_slot)'
        PROVE  PublishedBy(k)' = callbacks
    <3>1. /\ k \in Stores(published_slot) /\ k = NewestOf(published_slot)
          /\ PublishedBy(k)' = PublishedBy(k)
      BY <1>1, <1>4, <1>8, <2>2, NewestPublishKept
    <3> QED BY <1>3, <1>5, <1>6, <3>1 DEF WriterAt
  <2> QED BY <1>3, <1>5, <1>6, <2>1, <2>2 DEF WriterAt
<1>14. WriterInv'
  <2> SUFFICES ASSUME NEW p \in {0, 1}, NEW q \in {0, 1}, p = Mine', q = Other'
               PROVE  WriterAt(p, q)'
    BY DEF WriterInv
  <2> QED BY <1>7, <1>13
<1>15. CopyInv' BY <1>6 DEF CopyInv
<1> QED BY <1>12, <1>14, <1>15

\* The callback's stores leave what the reader has seen as it was.
LEMMA ReaderKept ==
  ASSUME ClockIInv, NEW at, NEW value, NEW releases, Wrote(at, value, releases), LogInv',
         \A i \in Stores(published_slot) : PublishedBy(i)' = PublishedBy(i)
  PROVE  FloorInv' /\ ReturnedInv' /\ ReaderInv' /\ Noticed'
<1>1. /\ TypeOK /\ TypeOK' /\ FloorInv /\ ReturnedInv /\ ReaderInv /\ Noticed
      /\ value \in Nat /\ releases \in Nat /\ Store(at, value, releases)
      /\ callbacks <= callbacks' /\ usable \subseteq usable'
  BY DEF ClockIInv, Wrote
<1>2. /\ floor' = floor /\ fenced' = fenced /\ rpc' = rpc /\ index' = index
      /\ before' = before /\ got' = got /\ returned' = returned
  BY DEF Wrote, readerVars
<1>3. Len(log) \in Nat /\ callbacks \in Nat /\ callbacks' \in Nat /\ index \in {0, 1}
      /\ fenced \in 0 .. Len(log)
  BY <1>1 DEF TypeOK
<1>4. ASSUME NEW loc \in Locations
      PROVE  /\ floor[loc] \in Stores(loc) /\ floor'[loc] \in Stores(loc)'
             /\ floor[loc] \in 0 .. Len(log)
  <2>1. floor[loc] \in Stores(loc) BY <1>1 DEF FloorInv
  <2>2. Stores(loc) \subseteq Stores(loc)' BY <1>1, StoresGrow
  <2>3. Stores(loc) \in SUBSET (0 .. Len(log)) BY <1>1, <1>3, StoresInRange DEF Stores
  <2> QED BY <1>2, <2>1, <2>2, <2>3
<1>5. FloorInv' BY <1>4 DEF FloorInv
<1>6. ASSUME NEW loc \in Locations PROVE (Value(floor[loc]))' = Value(floor[loc])
  <2> SUFFICES ASSUME NEW k, k = floor[loc] PROVE (Value(floor[loc]))' = Value(floor[loc])
    OBVIOUS
  <2>1. Value(k)' = Value(k) BY <1>1, <1>4, LogGrows
  <2> QED BY <1>2, <2>1 DEF Value
<1>7. Seen' = Seen
  <2> SUFFICES ASSUME NEW k, k = floor[published_slot] PROVE Seen' = Seen OBVIOUS
  <2>1. PublishedBy(k)' = PublishedBy(k) BY <1>4, SingleLocations
  <2> QED BY <1>2, <2>1 DEF Seen, PublishedBy
<1>8. \A c : SinceUsable(c) => SinceUsable(c)' BY <1>1 DEF SinceUsable
<1>9. ReturnedInv'
  BY <1>1, <1>2, <1>7, <1>8 DEF ReturnedInv, SinceUsable
<1>10. Read' = Read BY <1>2 DEF Read
<1>11. SeqOf(index) \in Locations /\ \A f \in Fields : published(index, f) \in Locations
  BY <1>3, LocationsApart DEF SeqOf
<1>12. /\ (Value(floor[SeqOf(index)]))' = Value(floor[SeqOf(index)])
       /\ \A f \in Fields : (Value(floor[published(index, f)]))' = Value(floor[published(index, f)])
  <2>1. ASSUME NEW f \in Fields \union {"sequence"}
        PROVE  (Value(floor[published(index, f)]))' = Value(floor[published(index, f)])
    <3> SUFFICES ASSUME NEW loc, loc = published(index, f)
                 PROVE  (Value(floor[published(index, f)]))' = Value(floor[published(index, f)])
      OBVIOUS
    <3>1. loc \in Locations BY <1>3, LocationsApart
    <3>2. (Value(floor[loc]))' = Value(floor[loc]) BY <1>6, <3>1
    <3> QED BY <1>2, <3>2 DEF Value, published
  <2>2. (Value(floor[published(index, "sequence")]))' = Value(floor[published(index, "sequence")])
    BY <2>1
  <2> QED BY <2>1, <2>2 DEF SeqOf
<1>13. CopyKnown => CopyKnown'
  <2> SUFFICES ASSUME CopyKnown PROVE CopyKnown' OBVIOUS
  <2>1. Read' \in 1 .. callbacks' /\ Read' % 2 = index' BY <1>1, <1>2, <1>3, <1>10 DEF CopyKnown
  <2>2. SinceUsable(Read)' /\ (returned' # <<>> => returned'[1] <= Read')
    BY <1>2, <1>8, <1>10 DEF CopyKnown, SinceUsable
  <2>3. before' <= (Value(floor[SeqOf(index)]))' BY <1>2, <1>12 DEF CopyKnown
  <2>4. \A f \in Fields : Read' <= (Value(floor[published(index, f)]))'
    BY <1>10, <1>12 DEF CopyKnown
  <2>5. Read' - 1 <= Seen' BY <1>7, <1>10 DEF CopyKnown
  <2>6. Len(got)' <= Len(LoadOrder) /\ \A n \in 1 .. Len(got)' : Read' <= got'[n]
    BY <1>2, <1>10 DEF CopyKnown
  <2> QED BY <2>1, <2>2, <2>3, <2>4, <2>5, <2>6 DEF CopyKnown
<1>14. ReaderInv'
  BY <1>1, <1>2, <1>7, <1>8, <1>12, <1>13 DEF ReaderInv, SinceUsable
<1>15. Noticed'
  <2>1. ASSUME rpc' = "fields", NEW n \in 1 .. Len(got)', got'[n] > Read'
        PROVE  (\E r \in StoresTo(SeqOf(index), fenced) : Value(r) > before)'
    <3>1. PICK r \in StoresTo(SeqOf(index), fenced) : Value(r) > before
      BY <1>1, <1>2, <1>10, <2>1 DEF Noticed
    <3> SUFFICES ASSUME NEW loc, loc = SeqOf(index), NEW p, p = fenced
                 PROVE  (\E k \in StoresTo(SeqOf(index), fenced) : Value(k) > before)'
      OBVIOUS
    <3>2. p \in 0 .. Len(log) /\ r \in StoresTo(loc, p) BY <1>3, <3>1
    <3>3. r \in 0 .. Len(log) /\ StoresTo(loc, p)' = StoresTo(loc, p)
      <4>1. StoresTo(loc, p) \in SUBSET (0 .. p) BY <1>1, <3>2, StoresInRange
      <4>2. StoresTo(loc, p)' = StoresTo(loc, p) BY <1>1, <3>2, StoresGrow
      <4> QED BY <1>3, <3>2, <4>1, <4>2
    <3>4. Value(r)' = Value(r) BY <1>1, <3>3, LogGrows
    <3>5. Value(r)' > before' BY <1>2, <3>1, <3>4
    <3>6. r \in StoresTo(SeqOf(index), fenced)'
      BY <1>2, <3>2, <3>3 DEF StoresTo, SeqOf, published
    <3> QED BY <3>5, <3>6
  <2>2. ASSUME rpc' = "recheck", NEW n \in 1 .. Len(got)', got'[n] > Read'
        PROVE  (Value(floor[SeqOf(index)]) > before)'
    BY <1>1, <1>2, <1>10, <1>12, <2>2 DEF Noticed
  <2>3. rpc' = "return" => \A n \in 1 .. Len(got)' : got'[n] = Read'
    BY <1>1, <1>2, <1>10 DEF Noticed
  <2>4. rpc' \in {"recheck", "return"} => Len(got)' = Len(LoadOrder)
    BY <1>1, <1>2 DEF Noticed
  <2> QED BY <2>1, <2>2, <2>3, <2>4 DEF Noticed
<1> QED BY <1>5, <1>9, <1>14, <1>15

----------------------------------------------------------------------------
\* The reader's steps.

LEMMA LogUntouched ==
  ASSUME ClockIInv, UNCHANGED writerVars
  PROVE  /\ LogInv' /\ WriterInv' /\ CopyInv'
         /\ \A i : Value(i)' = Value(i) /\ Released(i)' = Released(i)
                   /\ PublishedBy(i)' = PublishedBy(i)
         /\ \A loc : Stores(loc)' = Stores(loc)
         /\ \A loc, p : StoresTo(loc, p)' = StoresTo(loc, p)
<1>1. LogInv /\ WriterInv /\ CopyInv BY DEF ClockIInv
<1>2. /\ log' = log /\ callbacks' = callbacks /\ usable' = usable /\ wpc' = wpc
      /\ slot' = slot /\ stored' = stored
  BY DEF writerVars
<1>3. \A i : Value(i)' = Value(i) /\ Released(i)' = Released(i)
             /\ PublishedBy(i)' = PublishedBy(i)
  BY <1>2 DEF Value, Released, PublishedBy
<1>4. \A loc, p : StoresTo(loc, p)' = StoresTo(loc, p) BY <1>2 DEF StoresTo
<1>5. \A loc : Stores(loc)' = Stores(loc) BY <1>2 DEF Stores, StoresTo
<1>6. SequencesGrow' /\ CountersGrow' /\ PublishesGrow'
  <2>1. \A loc : Sorted(loc) => Sorted(loc)'
    <3> SUFFICES ASSUME NEW loc, Sorted(loc) PROVE Sorted(loc)' OBVIOUS
    <3> QED BY <1>3, <1>5 DEF Sorted
  <2>2. SequencesGrow'
    <3> SUFFICES ASSUME NEW s \in {0, 1} PROVE Sorted(SeqOf(s))'
      BY DEF SequencesGrow, Sorted, SeqOf, published
    <3> QED BY <1>1, <2>1 DEF LogInv, SequencesGrow, Sorted
  <2>3. CountersGrow'
    <3> SUFFICES ASSUME NEW s \in {0, 1}, NEW f \in Fields PROVE Sorted(published(s, f))'
      BY DEF CountersGrow, Sorted, published
    <3> QED BY <1>1, <2>1 DEF LogInv, CountersGrow, Sorted
  <2>4. PublishesGrow'
    <3>1. Stores(published_slot)' = Stores(published_slot) BY <1>5
    <3> QED BY <1>1, <1>3, <3>1 DEF LogInv, PublishesGrow
  <2> QED BY <2>2, <2>3, <2>4
<1>7. EvensEndCopies'
  <2> SUFFICES ASSUME NEW s \in {0, 1}, NEW i \in Stores(SeqOf(s))', i # 0,
                      Value(i)' % 2 = 0, NEW c, c = Value(i)' - s
               PROVE  EndsCopy(s, i, c)'
    BY DEF EvensEndCopies, EndsCopy, Value, SeqOf, published
  <2>1. i \in Stores(SeqOf(s)) /\ Value(i) % 2 = 0 /\ c = Value(i) - s BY <1>3, <1>5
  <2>2. EndsCopy(s, i, c) BY <1>1, <2>1 DEF LogInv, EvensEndCopies
  <2>3. c \in 1 .. callbacks' /\ c % 2 = s /\ log'[i].releases = i BY <1>2, <2>2 DEF EndsCopy
  <2>4. ASSUME NEW f \in Fields
        PROVE  (\E j \in StoresTo(published(s, f), i) : Value(j) = c)'
    <3>1. PICK j \in StoresTo(published(s, f), i) : Value(j) = c BY <2>2 DEF EndsCopy
    <3>2. j \in StoresTo(published(s, f), i)' BY <1>4, <3>1
    <3> QED BY <1>3, <3>1, <3>2
  <2>5. (\E j \in StoresTo(published_slot, i) : PublishedBy(j) = c - 1)'
    <3>1. PICK j \in StoresTo(published_slot, i) : PublishedBy(j) = c - 1 BY <2>2 DEF EndsCopy
    <3>2. j \in StoresTo(published_slot, i)' BY <1>4, <3>1
    <3> QED BY <1>3, <3>1, <3>2
  <2> QED BY <2>3, <2>4, <2>5 DEF EndsCopy
<1>8. CountersFenced' /\ PublishesFollow' /\ AvailableFollows' /\ ReleasesPast'
  BY <1>1, <1>2 DEF LogInv, CountersFenced, Fenced, PublishesFollow, FollowsCopy,
                    AvailableFollows, FollowsPublish, ReleasesPast, Stores, StoresTo, Value,
                    PublishedBy, SeqOf, published, published_slot, timestamp_available
<1>9. WriterInv'
  <2>1. \A loc : Own(loc)' = Own(loc) /\ NewestOf(loc)' = NewestOf(loc)
    BY <1>2 DEF Own, NewestOf, StoresTo, Value
  <2> SUFFICES ASSUME NEW p \in {0, 1}, NEW q \in {0, 1}, p = Mine', q = Other'
               PROVE  WriterAt(p, q)'
    BY DEF WriterInv
  <2>2. p = Mine /\ q = Other BY <1>2 DEF Mine, Other
  <2>3. WriterAt(p, q) BY <1>1, <2>2 DEF WriterInv
  <2>4. /\ Own(SeqOf(p))' = Own(SeqOf(p)) /\ Own(SeqOf(q))' = Own(SeqOf(q))
        /\ Own(published_slot)' = Own(published_slot)
        /\ NewestOf(SeqOf(p))' = NewestOf(SeqOf(p))
        /\ NewestOf(published_slot)' = NewestOf(published_slot)
        /\ Stores(published_slot)' = Stores(published_slot)
    BY <1>5, <2>1
  <2> QED BY <1>2, <1>3, <2>3, <2>4 DEF WriterAt
<1>10. CopyInv' BY <1>1, <1>2 DEF CopyInv, CopyAt, Mine, SeqOf, published
<1> QED BY <1>3, <1>4, <1>5, <1>6, <1>7, <1>8, <1>9, <1>10 DEF LogInv

\* What may be read next is raised to what was read and acquired, no further
\* than stores there are.
LEMMA RaisedFloor ==
  ASSUME TypeOK, FloorInv, NEW loc \in Locations, NEW i \in Stores(loc),
         NEW prefix \in 0 .. Len(log), NEW l \in Locations
  PROVE  /\ Raised(loc, i, prefix)[l] \in Stores(l)
         /\ floor[l] <= Raised(loc, i, prefix)[l]
         /\ \A j \in StoresTo(l, prefix) : j <= Raised(loc, i, prefix)[l]
         /\ l = loc => i <= Raised(loc, i, prefix)[l]
<1> DEFINE S == StoresTo(l, prefix) \union {floor[l]} \union IF l = loc THEN {i} ELSE {}
<1>1. Len(log) \in Nat BY LogIsTyped
<1>2. /\ StoresTo(l, prefix) \subseteq Stores(l) /\ floor[l] \in Stores(l)
      /\ Stores(l) \in SUBSET (0 .. Len(log))
  BY <1>1, StoresInRange DEF FloorInv, Stores
<1>3. S \in SUBSET (0 .. Len(log)) /\ S # {} /\ S \subseteq Stores(l) BY <1>2
<1>4. Latest(S) \in S /\ \A j \in S : j <= Latest(S) BY <1>1, <1>3, LatestIsLatest
<1>5. Raised(loc, i, prefix)[l] = Latest(S) BY DEF Raised
<1> HIDE DEF S
<1>6. floor[l] \in S /\ StoresTo(l, prefix) \subseteq S /\ (l = loc => i \in S) BY DEF S
<1> QED BY <1>3, <1>4, <1>5, <1>6

\* How a step's floors relate to those before it, and that they stay floors.
Raises == \A l \in Locations :
  floor'[l] \in Stores(l) /\ floor[l] \in Stores(l) /\ floor[l] <= floor'[l]

LEMMA ReleasedInLog ==
  ASSUME TypeOK, LogInv, NEW i \in 0 .. Len(log)
  PROVE  Released(i) \in 0 .. Len(log)
<1>1. Len(log) \in Nat BY LogIsTyped
<1>2. CASE i = 0 BY <1>1, <1>2 DEF Released
<1>3. CASE i # 0
  <2>1. i \in 1 .. Len(log) BY <1>1, <1>3
  <2>2. log[i].releases \in Nat /\ log[i].releases <= i
    BY <2>1, LogIsTyped DEF LogInv, ReleasesPast
  <2> QED BY <1>1, <1>3, <2>1, <2>2 DEF Released
<1> QED BY <1>2, <1>3

LEMMA AcquireRaises ==
  ASSUME TypeOK, LogInv, FloorInv, NEW loc \in Locations, NEW i, Acquire(loc, i)
  PROVE  /\ Raises /\ floor' \in [Locations -> 0 .. Len(log)] /\ fenced' = fenced
         /\ i \in Stores(loc) /\ floor[loc] <= i /\ i <= floor'[loc]
         /\ \A l \in Locations : \A j \in StoresTo(l, Released(i)) : j <= floor'[l]
<1>1. Len(log) \in Nat BY LogIsTyped
<1>2. i \in Stores(loc) /\ floor[loc] <= i /\ floor' = Raised(loc, i, Released(i))
      /\ fenced' = fenced
  BY <1>1 DEF Acquire, Visible, Stores
<1>3. i \in 0 .. Len(log) BY <1>1, <1>2, StoresInRange DEF Stores
<1>4. Released(i) \in 0 .. Len(log) BY <1>3, ReleasedInLog
<1>5. ASSUME NEW l \in Locations
      PROVE  /\ floor'[l] \in Stores(l) /\ floor[l] <= floor'[l]
             /\ \A j \in StoresTo(l, Released(i)) : j <= floor'[l]
             /\ l = loc => i <= floor'[l]
  BY <1>2, <1>4, RaisedFloor
<1>6. \A l \in Locations : Stores(l) \in SUBSET (0 .. Len(log))
  BY <1>1, StoresInRange DEF Stores
<1>7. floor' \in [Locations -> 0 .. Len(log)]
  <2>1. DOMAIN floor' = Locations /\ floor' = [l \in Locations |-> floor'[l]]
    BY <1>2 DEF Raised
  <2> QED BY <2>1, <1>5, <1>6
<1>8. Raises BY <1>5 DEF Raises, FloorInv
<1> QED BY <1>2, <1>5, <1>7, <1>8

LEMMA LatestOfTwo ==
  ASSUME NEW n \in Nat, NEW a \in 0 .. n, NEW b \in 0 .. n
  PROVE  Latest({a, b}) \in 0 .. n /\ a <= Latest({a, b}) /\ b <= Latest({a, b})
<1>1. {a, b} \in SUBSET (0 .. n) /\ {a, b} # {} OBVIOUS
<1>2. Latest({a, b}) \in {a, b} /\ \A j \in {a, b} : j <= Latest({a, b})
  BY <1>1, LatestIsLatest
<1> QED BY <1>2

LEMMA RelaxedRaises ==
  ASSUME TypeOK, LogInv, FloorInv, NEW loc \in Locations, NEW i, LoadRelaxed(loc, i)
  PROVE  /\ Raises /\ floor' \in [Locations -> 0 .. Len(log)]
         /\ fenced' \in 0 .. Len(log) /\ fenced <= fenced' /\ Released(i) <= fenced'
         /\ i \in Stores(loc) /\ floor[loc] <= i /\ i <= floor'[loc]
<1>1. Len(log) \in Nat BY LogIsTyped
<1>2. i \in Stores(loc) /\ floor[loc] <= i /\ floor' = Raised(loc, i, 0)
      /\ fenced' = Latest({fenced, Released(i)})
  BY <1>1 DEF LoadRelaxed, Visible, Stores
<1>3. i \in 0 .. Len(log) BY <1>1, <1>2, StoresInRange DEF Stores
<1>4. Released(i) \in 0 .. Len(log) /\ fenced \in 0 .. Len(log) /\ 0 \in 0 .. Len(log)
  BY <1>1, <1>3, ReleasedInLog DEF TypeOK
<1>5. ASSUME NEW l \in Locations
      PROVE  /\ floor'[l] \in Stores(l) /\ floor[l] <= floor'[l]
             /\ l = loc => i <= floor'[l]
  BY <1>2, <1>4, RaisedFloor
<1>6. \A l \in Locations : Stores(l) \in SUBSET (0 .. Len(log))
  BY <1>1, StoresInRange DEF Stores
<1>7. floor' \in [Locations -> 0 .. Len(log)]
  <2>1. DOMAIN floor' = Locations /\ floor' = [l \in Locations |-> floor'[l]]
    BY <1>2 DEF Raised
  <2> QED BY <2>1, <1>5, <1>6
<1>8. Raises BY <1>5 DEF Raises, FloorInv
<1>9. fenced' \in 0 .. Len(log) /\ fenced <= fenced' /\ Released(i) <= fenced'
  BY <1>1, <1>2, <1>4, LatestOfTwo
<1> QED BY <1>2, <1>5, <1>7, <1>8, <1>9

\* Reading only ever adds to what the reader has seen.
LEMMA SeesMore ==
  ASSUME ClockIInv, UNCHANGED writerVars, Raises
  PROVE  /\ FloorInv' /\ Seen \in 0 .. callbacks /\ Seen' \in 0 .. callbacks /\ Seen <= Seen'
         /\ \A s \in {0, 1}, f \in Fields \union {"sequence"} :
              /\ Value(floor[published(s, f)]) \in Nat /\ Value(floor'[published(s, f)]) \in Nat
              /\ Value(floor[published(s, f)]) <= Value(floor'[published(s, f)])
         /\ \A c : SinceUsable(c) => SinceUsable(c)'
<1>1. TypeOK /\ LogInv BY DEF ClockIInv
<1>2. Len(log) \in Nat /\ callbacks \in Nat BY <1>1 DEF TypeOK
<1>3. \A loc : Stores(loc) \in SUBSET (0 .. Len(log)) BY <1>1, <1>2, StoresInRange DEF Stores
<1>4. FloorInv'
  <2>1. \A loc : Stores(loc)' = Stores(loc) BY LogUntouched
  <2> QED BY <2>1 DEF FloorInv, Raises
<1>5. /\ floor[published_slot] \in Stores(published_slot)
      /\ floor'[published_slot] \in Stores(published_slot)
      /\ floor[published_slot] <= floor'[published_slot]
  BY SingleLocations DEF Raises
<1>6. Seen' = PublishedBy(floor'[published_slot])
  <2>1. log' = log BY DEF writerVars
  <2> QED BY <2>1 DEF Seen, PublishedBy
<1>7. Seen <= Seen' BY <1>1, <1>5, <1>6 DEF LogInv, PublishesGrow, Seen
<1>8. Seen \in 0 .. callbacks /\ Seen' \in 0 .. callbacks
  BY <1>1, <1>5, <1>6, PublishesInRange DEF LogInv, Seen
<1>9. ASSUME NEW s \in {0, 1}, NEW f \in Fields \union {"sequence"}
      PROVE  /\ Value(floor[published(s, f)]) \in Nat /\ Value(floor'[published(s, f)]) \in Nat
             /\ Value(floor[published(s, f)]) <= Value(floor'[published(s, f)])
  <2> DEFINE loc == published(s, f)
  <2>1. loc \in Locations BY LocationsApart
  <2>2. floor[loc] \in Stores(loc) /\ floor'[loc] \in Stores(loc) /\ floor[loc] <= floor'[loc]
    BY <2>1 DEF Raises
  <2>3. Sorted(loc)
    <3>1. CASE f \in Fields BY <1>1, <3>1 DEF LogInv, CountersGrow, Sorted
    <3>2. CASE f = "sequence" BY <1>1, <3>2 DEF LogInv, SequencesGrow, Sorted, SeqOf
    <3> QED BY <3>1, <3>2
  <2>4. Value(floor[loc]) <= Value(floor'[loc]) BY <2>2, <2>3 DEF Sorted
  <2>5. Value(floor[loc]) \in Nat /\ Value(floor'[loc]) \in Nat
    BY <1>1, <1>3, <2>2, ValuesAreNumbers
  <2> QED BY <2>4, <2>5
<1>10. \A c : SinceUsable(c) => SinceUsable(c)' BY DEF SinceUsable, writerVars
<1> QED BY <1>4, <1>7, <1>8, <1>9, <1>10

LEMMA SinceLater ==
  ASSUME TypeOK, NEW c \in Int, NEW d \in Int, c <= d, SinceUsable(c)
  PROVE  SinceUsable(d) /\ d >= 1
<1>1. usable \subseteq 1 .. callbacks /\ callbacks \in Nat BY DEF TypeOK
<1>2. PICK u \in usable : u <= c BY DEF SinceUsable
<1>3. u \in Int /\ u >= 1 /\ u <= d BY <1>1, <1>2
<1> QED BY <1>2, <1>3 DEF SinceUsable

LEMMA ReturnedStays ==
  ASSUME ClockIInv, UNCHANGED writerVars, Raises, returned' = returned
  PROVE  ReturnedInv'
<1>1. ReturnedInv /\ TypeOK BY DEF ClockIInv
<1>2. Seen \in 0 .. callbacks /\ Seen' \in 0 .. callbacks /\ Seen <= Seen' /\ callbacks \in Nat
  BY <1>1, SeesMore DEF TypeOK
<1> SUFFICES ASSUME returned # <<>> PROVE ReturnedInv' BY DEF ReturnedInv
<1>3. returned[1] \in Nat
  <2>1. returned \in Seq(0 .. callbacks) /\ Len(returned) = 6
    BY <1>1, CounterNames DEF TypeOK, ReturnedInv
  <2> QED BY <1>2, <2>1
<1>4. returned[1] <= Seen' BY <1>1, <1>2, <1>3 DEF ReturnedInv
<1>5. SinceUsable(returned[1])' BY <1>1 DEF ReturnedInv, SinceUsable, writerVars
<1> QED BY <1>1, <1>4, <1>5 DEF ReturnedInv

\* The reader's steps keep the callback's part of the types.
LEMMA ReaderTypes ==
  ASSUME TypeOK, UNCHANGED writerVars,
         floor' \in [Locations -> 0 .. Len(log)], fenced' \in 0 .. Len(log),
         rpc' \in {"idle", "index", "before", "fields", "recheck", "return"},
         index' \in {0, 1}, before' \in Nat,
         got' \in Seq(0 .. callbacks), returned' \in Seq(0 .. callbacks)
  PROVE  TypeOK'
  BY DEF TypeOK, writerVars

\* A step that keeps the copy being read keeps what is known of it.
LEMMA CopyStaysKnown ==
  ASSUME ClockIInv, UNCHANGED writerVars, Raises, CopyKnown,
         index' = index, before' = before, returned' = returned,
         Len(got') <= Len(LoadOrder), \A n \in 1 .. Len(got') : Read <= got'[n]
  PROVE  CopyKnown'
<1>1. TypeOK /\ ReturnedInv BY DEF ClockIInv
<1>2. /\ index \in {0, 1} /\ before \in Nat /\ callbacks \in Nat /\ Read \in Int
      /\ callbacks' = callbacks /\ usable' = usable
  BY <1>1 DEF TypeOK, Read, writerVars
<1>3. Read' = Read BY DEF Read
<1>4. Read' \in 1 .. callbacks' /\ Read' % 2 = index'
  BY <1>2, <1>3 DEF CopyKnown
<1>5. SinceUsable(Read)' /\ (returned' # <<>> => returned'[1] <= Read')
  BY <1>2, <1>3 DEF CopyKnown, SinceUsable
<1>6. \A f \in Fields \union {"sequence"} :
         /\ Value(floor[published(index, f)]) \in Nat /\ Value(floor'[published(index, f)]) \in Nat
         /\ Value(floor[published(index, f)]) <= Value(floor'[published(index, f)])
  BY <1>2, SeesMore
<1>7. log' = log BY DEF writerVars
<1>8. before' <= (Value(floor[SeqOf(index)]))'
  <2>1. before <= Value(floor'[SeqOf(index)]) BY <1>2, <1>6 DEF CopyKnown, SeqOf
  <2>2. (Value(floor[SeqOf(index)]))' = Value(floor'[SeqOf(index)])
    BY <1>7 DEF Value, SeqOf, published
  <2> QED BY <2>1, <2>2
<1>9. ASSUME NEW f \in Fields PROVE Read' <= (Value(floor[published(index, f)]))'
  <2>1. Read <= Value(floor'[published(index, f)]) BY <1>2, <1>6 DEF CopyKnown
  <2>2. (Value(floor[published(index, f)]))' = Value(floor'[published(index, f)])
    BY <1>7 DEF Value, published
  <2> QED BY <1>3, <2>1, <2>2
<1>10. Read' - 1 <= Seen'
  <2>1. Seen \in 0 .. callbacks /\ Seen' \in 0 .. callbacks /\ Seen <= Seen' BY SeesMore
  <2> QED BY <1>2, <1>3, <2>1 DEF CopyKnown
<1>11. Len(got)' <= Len(LoadOrder) /\ \A n \in 1 .. Len(got)' : Read' <= got'[n] BY <1>3
<1> QED BY <1>4, <1>5, <1>8, <1>9, <1>10, <1>11 DEF CopyKnown

LEMMA ElementTyped ==
  ASSUME NEW S, NEW s \in Seq(S), NEW n \in 1 .. Len(s)
  PROVE  s[n] \in S
  OBVIOUS

LEMMA LoadAvailableKeeps ==
  ASSUME ClockIInv, NEW i, LoadAvailable(i)
  PROVE  TypeOK' /\ FloorInv' /\ ReturnedInv' /\ ReaderInv' /\ Noticed'
<1>1. TypeOK /\ LogInv /\ FloorInv /\ ReaderInv BY DEF ClockIInv
<1>2. /\ UNCHANGED writerVars /\ rpc = "idle" /\ Acquire(timestamp_available, i)
      /\ index' = index /\ before' = before /\ got' = got /\ returned' = returned
      /\ rpc' = IF Value(i) = 0 THEN "idle" ELSE "index"
  BY DEF LoadAvailable
<1>3. /\ Raises /\ floor' \in [Locations -> 0 .. Len(log)] /\ fenced' = fenced
      /\ i \in Stores(timestamp_available)
      /\ \A l \in Locations : \A j \in StoresTo(l, Released(i)) : j <= floor'[l]
  BY <1>1, <1>2, AcquireRaises, SingleLocations
<1>4. TypeOK'
  <2>1. /\ fenced' \in 0 .. Len(log) /\ index' \in {0, 1} /\ before' \in Nat
        /\ got' \in Seq(0 .. callbacks) /\ returned' \in Seq(0 .. callbacks)
        /\ rpc' \in {"idle", "index", "before", "fields", "recheck", "return"}
    BY <1>1, <1>2, <1>3 DEF TypeOK
  <2> QED BY <1>1, <1>2, <1>3, <2>1, ReaderTypes
<1>5. FloorInv' /\ ReturnedInv' BY <1>2, <1>3, SeesMore, ReturnedStays
<1>6. ASSUME Value(i) # 0 PROVE SinceUsable(Seen)'
  <2>1. Len(log) \in Nat /\ Stores(timestamp_available) \in SUBSET (0 .. Len(log))
    BY <1>1, StoresInRange, LogIsTyped DEF Stores
  <2>2. i # 0 /\ i \in 1 .. Len(log) BY <1>3, <1>6, <2>1 DEF Value
  <2>3. FollowsPublish(i) BY <1>1, <1>3, <2>2 DEF LogInv, AvailableFollows
  <2>4. Released(i) = i /\ i - 1 \in StoresTo(published_slot, i)
    BY <2>1, <2>2, <2>3 DEF FollowsPublish, Released, Stores, StoresTo
  <2>5. i - 1 <= floor'[published_slot] /\ floor'[published_slot] \in Stores(published_slot)
    BY <1>3, <2>4, SingleLocations DEF Raises
  <2>6. PublishedBy(i - 1) <= PublishedBy(floor'[published_slot])
    BY <1>1, <2>3, <2>5 DEF LogInv, PublishesGrow, FollowsPublish
  <2>7. Seen' = PublishedBy(floor'[published_slot])
    BY <1>2 DEF Seen, PublishedBy, writerVars
  <2> QED BY <1>2, <2>3, <2>6, <2>7 DEF FollowsPublish, SinceUsable, writerVars
<1>7. ReaderInv'
  <2>1. got' = <<>> BY <1>1, <1>2 DEF ReaderInv
  <2> QED BY <1>2, <1>6, <2>1 DEF ReaderInv
<1>8. Noticed' BY <1>2 DEF Noticed
<1> QED BY <1>4, <1>5, <1>7, <1>8

LEMMA LoadIndexKeeps ==
  ASSUME ClockIInv, NEW i, LoadIndex(i)
  PROVE  TypeOK' /\ FloorInv' /\ ReturnedInv' /\ ReaderInv' /\ Noticed'
<1>1. TypeOK /\ LogInv /\ FloorInv /\ ReaderInv BY DEF ClockIInv
<1>2. /\ UNCHANGED writerVars /\ rpc = "index" /\ Acquire(published_slot, i)
      /\ index' = Value(i) /\ rpc' = "before"
      /\ before' = before /\ got' = got /\ returned' = returned
  BY DEF LoadIndex
<1>3. /\ Raises /\ floor' \in [Locations -> 0 .. Len(log)] /\ fenced' = fenced
      /\ i \in Stores(published_slot) /\ floor[published_slot] <= i
      /\ i <= floor'[published_slot]
      /\ \A l \in Locations : \A j \in StoresTo(l, Released(i)) : j <= floor'[l]
  BY <1>1, <1>2, AcquireRaises, SingleLocations
<1>4. Len(log) \in Nat /\ Stores(published_slot) \in SUBSET (0 .. Len(log)) /\ callbacks \in Nat
  BY <1>1, StoresInRange, LogIsTyped DEF Stores, TypeOK
<1>5. /\ Seen <= PublishedBy(i) /\ PublishedBy(i) <= Seen'
      /\ Seen \in 0 .. callbacks /\ PublishedBy(i) \in 0 .. callbacks
      /\ Seen' = PublishedBy(floor'[published_slot])
  <2>1. floor[published_slot] \in Stores(published_slot)
        /\ floor'[published_slot] \in Stores(published_slot)
    BY <1>3, SingleLocations DEF Raises
  <2>2. Seen' = PublishedBy(floor'[published_slot])
    BY <1>2 DEF Seen, PublishedBy, writerVars
  <2>3. Seen <= PublishedBy(i) /\ PublishedBy(i) <= PublishedBy(floor'[published_slot])
    BY <1>1, <1>3, <2>1 DEF LogInv, PublishesGrow, Seen
  <2>4. Seen \in 0 .. callbacks /\ PublishedBy(i) \in 0 .. callbacks
    BY <1>1, <1>3, <2>1, PublishesInRange DEF LogInv, Seen
  <2> QED BY <2>2, <2>3, <2>4
<1>6. i # 0 /\ i \in 1 .. Len(log)
  <2>1. SinceUsable(Seen) BY <1>1, <1>2 DEF ReaderInv
  <2>2. Seen >= 1
    <3>1. Seen \in Int /\ Seen <= Seen BY <1>5
    <3> QED BY <1>1, <2>1, <3>1, SinceLater
  <2>3. PublishedBy(i) # 0 BY <1>5, <2>2
  <2> QED BY <1>3, <1>4, <2>3 DEF PublishedBy
<1>7. FollowsCopy(i) BY <1>1, <1>3, <1>6 DEF LogInv, PublishesFollow
<1>8. /\ Value(i) \in {0, 1} /\ Released(i) = i
      /\ i - 1 \in StoresTo(SeqOf(Value(i)), i) /\ i - 1 \in Stores(SeqOf(Value(i)))
      /\ Value(i - 1) = PublishedBy(i) + Value(i)
  <2>1. /\ log[i].value \in {0, 1} /\ log[i].releases = i
        /\ i - 1 \in 1 .. Len(log) /\ log[i - 1].loc = SeqOf(log[i].value)
    BY <1>7 DEF FollowsCopy
  <2>2. Value(i) = log[i].value /\ Released(i) = i BY <1>6, <2>1 DEF Value, Released
  <2>3. i - 1 \in 1 .. i /\ i - 1 # 0 BY <1>4, <1>6, <2>1
  <2>4. Value(i - 1) = log[i - 1].value BY <2>3 DEF Value
  <2>5. log[i - 1].value \in Nat BY <1>1, <2>1, LogIsTyped
  <2>6. PublishedBy(i) = log[i - 1].value - log[i].value BY <1>6 DEF PublishedBy
  <2>7. Value(i - 1) = PublishedBy(i) + Value(i) BY <2>1, <2>2, <2>4, <2>5, <2>6
  <2> QED BY <2>1, <2>2, <2>3, <2>7 DEF Stores, StoresTo
<1>9. TypeOK'
  <2>1. /\ fenced' \in 0 .. Len(log) /\ index' \in {0, 1} /\ before' \in Nat
        /\ got' \in Seq(0 .. callbacks) /\ returned' \in Seq(0 .. callbacks)
        /\ rpc' \in {"idle", "index", "before", "fields", "recheck", "return"}
    BY <1>1, <1>2, <1>3, <1>8 DEF TypeOK
  <2> QED BY <1>1, <1>2, <1>3, <2>1, ReaderTypes
<1>10. FloorInv' /\ ReturnedInv' BY <1>2, <1>3, SeesMore, ReturnedStays
<1>11. PublishedBy(i) = Seen'
  <2>1. floor' = Raised(published_slot, i, i) BY <1>2, <1>8 DEF Acquire
  <2> DEFINE S == StoresTo(published_slot, i) \union {floor[published_slot]} \union {i}
  <2>2. floor'[published_slot] = Latest(S) BY <2>1, SingleLocations DEF Raised
  <2>3. \A j \in S : j <= i BY <1>3, <1>4, <1>6 DEF StoresTo
  <2>4. S \in SUBSET (0 .. Len(log)) /\ S # {}
    <3>1. floor[published_slot] \in 0 .. Len(log) BY <1>1, SingleLocations DEF TypeOK
    <3> QED BY <1>4, <1>6, <3>1 DEF StoresTo
  <2>5. Latest(S) \in S BY <1>4, <2>4, LatestIsLatest
  <2>6. floor'[published_slot] <= i /\ floor'[published_slot] \in 0 .. Len(log)
    BY <2>2, <2>3, <2>4, <2>5
  <2>7. floor'[published_slot] = i BY <1>3, <1>4, <1>6, <2>6
  <2> QED BY <1>5, <2>7
<1>12. Seen' + index' <= (Value(floor[SeqOf(index)]))'
  <2>1. SeqOf(Value(i)) \in Locations BY <1>8, LocationsApart DEF SeqOf
  <2>2. i - 1 <= floor'[SeqOf(Value(i))]
        /\ floor'[SeqOf(Value(i))] \in Stores(SeqOf(Value(i)))
    BY <1>3, <1>8, <2>1 DEF Raises
  <2>3. Value(i - 1) <= Value(floor'[SeqOf(Value(i))])
    BY <1>1, <1>8, <2>2 DEF LogInv, SequencesGrow
  <2>4. (Value(floor[SeqOf(index)]))' = Value(floor'[SeqOf(Value(i))])
    BY <1>2 DEF Value, SeqOf, published, writerVars
  <2> QED BY <1>2, <1>8, <1>11, <2>3, <2>4
<1>13. SinceUsable(Seen)'
  <2>1. SinceUsable(Seen) BY <1>1, <1>2 DEF ReaderInv
  <2>2. Seen \in Int /\ PublishedBy(i) \in Int /\ Seen <= PublishedBy(i) BY <1>5
  <2>3. SinceUsable(PublishedBy(i)) BY <1>1, <2>1, <2>2, SinceLater
  <2> QED BY <1>2, <1>11, <2>3 DEF SinceUsable, writerVars
<1>14. ReaderInv'
  <2>1. got' = <<>> BY <1>1, <1>2 DEF ReaderInv
  <2> QED BY <1>2, <1>12, <1>13, <2>1 DEF ReaderInv
<1>15. Noticed' BY <1>2 DEF Noticed
<1> QED BY <1>9, <1>10, <1>14, <1>15

\* A step back to the slot's index forgets what was loaded.
LEMMA RetryKeeps ==
  ASSUME ClockIInv, UNCHANGED writerVars, Raises, rpc \notin {"idle"}, Retry,
         returned' = returned
  PROVE  ReaderInv' /\ Noticed'
<1>1. TypeOK /\ ReaderInv BY DEF ClockIInv
<1>2. SinceUsable(Seen) /\ rpc' = "index" /\ got' = <<>> BY <1>1 DEF ReaderInv, Retry
<1>3. Seen \in 0 .. callbacks /\ Seen' \in 0 .. callbacks /\ Seen <= Seen' BY SeesMore
<1>4. SinceUsable(Seen')
  <2>1. Seen \in Int /\ Seen' \in Int BY <1>1, <1>3 DEF TypeOK
  <2> QED BY <1>1, <1>2, <1>3, <2>1, SinceLater
<1>5. SinceUsable(Seen)' BY <1>4 DEF SinceUsable, writerVars
<1> QED BY <1>2, <1>5 DEF ReaderInv, Noticed

LEMMA LoadBeforeKeeps ==
  ASSUME ClockIInv, NEW i, LoadBefore(i)
  PROVE  TypeOK' /\ FloorInv' /\ ReturnedInv' /\ ReaderInv' /\ Noticed'
<1>1. TypeOK /\ LogInv /\ FloorInv /\ ReaderInv /\ ReturnedInv BY DEF ClockIInv
<1>2. /\ UNCHANGED writerVars /\ rpc = "before" /\ Acquire(SeqOf(index), i)
      /\ before' = Value(i) /\ index' = index /\ returned' = returned
      /\ IF Value(i) % 2 = 0 THEN rpc' = "fields" /\ got' = got ELSE Retry
  BY DEF LoadBefore, SeqOf
<1>3. index \in {0, 1} /\ SeqOf(index) \in Locations /\ Len(log) \in Nat /\ callbacks \in Nat
  BY <1>1, LocationsApart, LogIsTyped DEF TypeOK, SeqOf
<1>4. /\ Raises /\ floor' \in [Locations -> 0 .. Len(log)] /\ fenced' = fenced
      /\ i \in Stores(SeqOf(index)) /\ floor[SeqOf(index)] <= i /\ i <= floor'[SeqOf(index)]
      /\ \A l \in Locations : \A j \in StoresTo(l, Released(i)) : j <= floor'[l]
  BY <1>1, <1>2, <1>3, AcquireRaises
<1>5. Stores(SeqOf(index)) \in SUBSET (0 .. Len(log)) /\ Value(i) \in Nat
  BY <1>1, <1>3, <1>4, StoresInRange, ValuesAreNumbers DEF Stores
<1>6. got = <<>> /\ SinceUsable(Seen) /\ Seen + index <= Value(floor[SeqOf(index)])
  BY <1>1, <1>2 DEF ReaderInv
<1>7. /\ Seen \in 0 .. callbacks /\ Seen' \in 0 .. callbacks /\ Seen <= Seen' /\ FloorInv'
      /\ floor[SeqOf(index)] \in Stores(SeqOf(index))
      /\ floor'[SeqOf(index)] \in Stores(SeqOf(index))
  BY <1>2, <1>3, <1>4, SeesMore DEF Raises
<1>8. /\ Value(floor[SeqOf(index)]) <= Value(i) /\ Value(i) <= Value(floor'[SeqOf(index)])
      /\ Value(floor[SeqOf(index)]) \in Nat
  <2>1. Value(floor[SeqOf(index)]) \in Nat BY <1>2, <1>3, <1>4, SeesMore DEF SeqOf
  <2> QED BY <1>1, <1>3, <1>4, <1>7, <2>1 DEF LogInv, SequencesGrow
<1>9. TypeOK'
  <2>1. /\ fenced' \in 0 .. Len(log) /\ index' \in {0, 1} /\ before' \in Nat
        /\ got' \in Seq(0 .. callbacks) /\ returned' \in Seq(0 .. callbacks)
        /\ rpc' \in {"idle", "index", "before", "fields", "recheck", "return"}
    BY <1>1, <1>2, <1>4, <1>5, <1>6 DEF TypeOK, Retry
  <2> QED BY <1>1, <1>2, <1>4, <2>1, ReaderTypes
<1>10. ReturnedInv' BY <1>2, <1>4, ReturnedStays
<1>11. ASSUME Value(i) % 2 = 0 PROVE ReaderInv' /\ Noticed'
  <2>1. rpc' = "fields" /\ got' = <<>> BY <1>2, <1>6, <1>11
  <2>2. Seen >= 1
    <3>1. Seen \in Int /\ Seen <= Seen BY <1>7
    <3> QED BY <1>1, <1>6, <3>1, SinceLater
  <2>3. i # 0
    <3>1. Value(i) >= 1 BY <1>3, <1>5, <1>6, <1>7, <1>8, <2>2
    <3> QED BY <3>1 DEF Value
  <2> SUFFICES ASSUME NEW c, c = Value(i) - index
               PROVE  ReaderInv' /\ Noticed'
    OBVIOUS
  <2>4. EndsCopy(index, i, c)
    <3>1. EndsCopy(index, i, Value(i) - index)
      BY <1>1, <1>3, <1>4, <1>11, <2>3 DEF LogInv, EvensEndCopies
    <3> QED BY <3>1
  <2>5. c \in 1 .. callbacks /\ c % 2 = index /\ Read' = c
    BY <1>2, <2>4 DEF EndsCopy, Read
  <2>6. Seen <= c BY <1>3, <1>5, <1>6, <1>7, <1>8
  <2>7. Released(i) = i BY <2>3, <2>4 DEF EndsCopy, Released
  <2>8. SinceUsable(c)
    <3>1. Seen \in Int /\ c \in Int BY <1>7, <2>5
    <3> QED BY <1>1, <1>6, <2>6, <3>1, SinceLater
  <2>9. ASSUME returned # <<>> PROVE returned[1] <= c
    <3>1. returned \in Seq(0 .. callbacks) /\ Len(returned) = 6 /\ returned[1] <= Seen
      BY <1>1, <2>9, CounterNames DEF TypeOK, ReturnedInv
    <3>2. returned[1] \in 0 .. callbacks
      <4>1. 1 \in 1 .. Len(returned) BY <3>1
      <4> QED BY <3>1, <4>1, ElementTyped
    <3> QED BY <1>7, <2>5, <2>6, <3>1, <3>2
  <2>10. before' <= (Value(floor[SeqOf(index)]))'
    <3>1. (Value(floor[SeqOf(index)]))' = Value(floor'[SeqOf(index)])
      BY <1>2 DEF Value, SeqOf, published, writerVars
    <3> QED BY <1>2, <1>8, <3>1
  <2>11. ASSUME NEW f \in Fields PROVE Read' <= (Value(floor[published(index, f)]))'
    <3>1. published(index, f) \in Locations BY <1>3, LocationsApart
    <3>2. PICK j \in StoresTo(published(index, f), i) : Value(j) = c BY <2>4 DEF EndsCopy
    <3>3. j <= floor'[published(index, f)] BY <1>4, <2>7, <3>1, <3>2
    <3>4. j \in Stores(published(index, f))
      BY <1>3, <1>4, <1>5, <3>2 DEF Stores, StoresTo
    <3>5. Value(j) <= Value(floor'[published(index, f)])
      BY <1>1, <1>3, <1>4, <3>1, <3>3, <3>4 DEF LogInv, CountersGrow, Raises
    <3>6. (Value(floor[published(index, f)]))' = Value(floor'[published(index, f)])
      BY <1>2 DEF Value, published, writerVars
    <3> QED BY <2>5, <3>2, <3>5, <3>6
  <2>12. Read' - 1 <= Seen'
    <3>1. PICK j \in StoresTo(published_slot, i) : PublishedBy(j) = c - 1
      BY <2>4 DEF EndsCopy
    <3>2. j <= floor'[published_slot] BY <1>4, <2>7, <3>1, SingleLocations
    <3>3. j \in Stores(published_slot)
      BY <1>3, <1>4, <1>5, <3>1 DEF Stores, StoresTo
    <3>4. PublishedBy(j) <= PublishedBy(floor'[published_slot])
      BY <1>1, <1>4, <3>2, <3>3, SingleLocations DEF LogInv, PublishesGrow, Raises
    <3>5. Seen' = PublishedBy(floor'[published_slot])
      BY <1>2 DEF Seen, PublishedBy, writerVars
    <3> QED BY <2>5, <3>1, <3>4, <3>5
  <2>13. SinceUsable(Read)' /\ SinceUsable(Seen)'
    <3>1. SinceUsable(Seen')
      <4>1. Seen \in Int /\ Seen' \in Int BY <1>7
      <4> QED BY <1>1, <1>6, <1>7, <4>1, SinceLater
    <3> QED BY <1>2, <2>5, <2>8, <3>1 DEF SinceUsable, writerVars
  <2>14. /\ Read' \in 1 .. callbacks' /\ Read' % 2 = index'
         /\ (returned' # <<>> => returned'[1] <= Read')
         /\ Len(got)' <= Len(LoadOrder)
    BY <1>2, <2>1, <2>5, <2>9, CounterNames DEF writerVars
  <2>15. CopyKnown'
    BY <1>2, <2>1, <2>10, <2>11, <2>12, <2>13, <2>14 DEF CopyKnown
  <2>16. ReaderInv' BY <2>1, <2>13, <2>15 DEF ReaderInv
  <2>17. Noticed' BY <2>1 DEF Noticed
  <2> QED BY <2>16, <2>17
<1>12. ASSUME Value(i) % 2 # 0 PROVE ReaderInv' /\ Noticed'
  <2>1. Retry /\ rpc \notin {"idle"} BY <1>2, <1>12
  <2> QED BY <1>2, <1>4, <2>1, RetryKeeps
<1> QED BY <1>7, <1>9, <1>10, <1>11, <1>12

\* The counter that is loaded next is not of an earlier callback, and one of a
\* later callback brings its odd sequence behind the fence.
LEMMA LoadFieldKeeps ==
  ASSUME ClockIInv, NEW i, LoadField(i)
  PROVE  TypeOK' /\ FloorInv' /\ ReturnedInv' /\ ReaderInv' /\ Noticed'
<1>1. TypeOK /\ LogInv /\ FloorInv /\ ReaderInv /\ Noticed BY DEF ClockIInv
<1>2. SUFFICES ASSUME NEW f, f = LoadOrder[Len(got) + 1], NEW v, v = Value(i)
               PROVE  TypeOK' /\ FloorInv' /\ ReturnedInv' /\ ReaderInv' /\ Noticed'
  OBVIOUS
<1>3. /\ UNCHANGED writerVars /\ rpc = "fields" /\ LoadRelaxed(published(index, f), i)
      /\ index' = index /\ before' = before /\ returned' = returned /\ rpc' = rpc
      /\ got' = Append(got, v) /\ Len(got) < 6
  BY <1>2, CounterNames DEF LoadField
<1>4. /\ index \in {0, 1} /\ before \in Nat /\ Len(log) \in Nat /\ callbacks \in Nat
      /\ got \in Seq(0 .. callbacks) /\ Len(got) \in Nat
  BY <1>1, LogIsTyped DEF TypeOK
<1>5. f \in Fields /\ published(index, f) \in Locations
  <2>1. Len(got) + 1 \in 1 .. 6 BY <1>3, <1>4
  <2>2. f \in Fields BY <1>2, <2>1, CounterNames
  <2> QED BY <1>4, <2>2, LocationsApart
<1>6. /\ Raises /\ floor' \in [Locations -> 0 .. Len(log)]
      /\ fenced' \in 0 .. Len(log) /\ fenced <= fenced' /\ Released(i) <= fenced'
      /\ i \in Stores(published(index, f)) /\ floor[published(index, f)] <= i
  BY <1>1, <1>3, <1>5, RelaxedRaises
<1>7. /\ CopyKnown /\ SinceUsable(Seen) /\ Read \in 1 .. callbacks /\ Read % 2 = index
      /\ Read <= Value(floor[published(index, f)])
  BY <1>1, <1>3, <1>5 DEF ReaderInv, CopyKnown
<1>8. Read <= v /\ v \in Nat
  <2>1. Stores(published(index, f)) \in SUBSET (0 .. Len(log))
    BY <1>1, <1>4, StoresInRange DEF Stores
  <2>2. v \in Nat BY <1>1, <1>2, <1>6, <2>1, ValuesAreNumbers
  <2>3. floor[published(index, f)] \in Stores(published(index, f))
    BY <1>5, <1>6 DEF Raises
  <2>4. Value(floor[published(index, f)]) <= v
    BY <1>1, <1>2, <1>4, <1>5, <1>6, <2>3 DEF LogInv, CountersGrow
  <2>5. Value(floor[published(index, f)]) \in Nat
    BY <1>1, <2>1, <2>3, ValuesAreNumbers
  <2> QED BY <1>7, <2>2, <2>4, <2>5
<1>9. i # 0
  <2>1. v >= 1 BY <1>7, <1>8
  <2> QED BY <1>2, <2>1 DEF Value
<1>10. Fenced(index, i) BY <1>1, <1>4, <1>5, <1>6, <1>9 DEF LogInv, CountersFenced
<1>11. v \in 1 .. callbacks /\ v % 2 = index BY <1>2, <1>10 DEF Fenced
<1>12. Len(got') = Len(got) + 1 /\ got' \in Seq(0 .. callbacks)
       /\ (\A n \in 1 .. Len(got) : got'[n] = got[n]) /\ got'[Len(got) + 1] = v
  BY <1>3, <1>4, <1>11
<1>13. TypeOK'
  <2>1. /\ index' \in {0, 1} /\ before' \in Nat /\ returned' \in Seq(0 .. callbacks)
        /\ rpc' \in {"idle", "index", "before", "fields", "recheck", "return"}
    BY <1>1, <1>3 DEF TypeOK
  <2> QED BY <1>1, <1>3, <1>6, <1>12, <2>1, ReaderTypes
<1>14. FloorInv' /\ ReturnedInv' BY <1>3, <1>6, SeesMore, ReturnedStays
<1>15. ReaderInv'
  <2>1. Len(got') <= Len(LoadOrder) BY <1>3, <1>4, <1>12, CounterNames
  <2>2. ASSUME NEW n \in 1 .. Len(got') PROVE Read <= got'[n]
    <3>1. CASE n = Len(got) + 1 BY <1>8, <1>12, <3>1
    <3>2. CASE n # Len(got) + 1
      <4>1. n \in 1 .. Len(got) BY <1>4, <1>12, <3>2
      <4> QED BY <1>7, <1>12, <4>1 DEF CopyKnown
    <3> QED BY <3>1, <3>2
  <2>3. CopyKnown' BY <1>3, <1>6, <1>7, <2>1, <2>2, CopyStaysKnown
  <2>4. SinceUsable(Seen)'
    <3>1. Seen \in Int /\ Seen' \in Int /\ Seen <= Seen' BY <1>3, <1>6, SeesMore
    <3>2. SinceUsable(Seen') BY <1>1, <1>7, <3>1, SinceLater
    <3> QED BY <1>3, <3>2 DEF SinceUsable, writerVars
  <2> QED BY <1>3, <2>3, <2>4 DEF ReaderInv
<1>16. Noticed'
  <2>1. Read' = Read BY <1>3 DEF Read
  <2>2. ASSUME NEW n \in 1 .. Len(got'), got'[n] > Read
        PROVE  \E r \in StoresTo(SeqOf(index), fenced') : Value(r) > before
    <3>1. CASE n = Len(got) + 1
      <4>1. v > Read BY <1>12, <2>2, <3>1
      <4>2. Read + 2 <= v
        <5>1. Read \in Nat /\ v \in Nat /\ Read % 2 = v % 2 /\ Read < v
          BY <1>4, <1>7, <1>8, <1>11, <4>1
        <5> QED BY <5>1, SameSlotApart
      <4>3. PICK r : r = log[i].releases OBVIOUS
      <4>4. r \in StoresTo(SeqOf(index), i) /\ Value(r) = v + index - 1
        BY <1>2, <1>10, <4>3 DEF Fenced
      <4>5. r <= fenced' BY <1>6, <1>9, <4>3 DEF Released
      <4>6. r \in StoresTo(SeqOf(index), fenced')
        BY <1>4, <1>6, <4>4, <4>5 DEF StoresTo
      <4>7. Value(r) > before BY <1>4, <1>8, <4>2, <4>4 DEF Read
      <4> QED BY <4>6, <4>7
    <3>2. CASE n # Len(got) + 1
      <4>1. n \in 1 .. Len(got) /\ got[n] > Read BY <1>4, <1>12, <2>2, <3>2
      <4>2. PICK r \in StoresTo(SeqOf(index), fenced) : Value(r) > before
        BY <1>1, <1>3, <4>1 DEF Noticed
      <4>3. r \in StoresTo(SeqOf(index), fenced')
        <5>1. fenced \in 0 .. Len(log) BY <1>1 DEF TypeOK
        <5> QED BY <1>4, <1>6, <4>2, <5>1 DEF StoresTo
      <4> QED BY <4>2, <4>3
    <3> QED BY <3>1, <3>2
  <2>3. ASSUME NEW n \in 1 .. Len(got'), got'[n] > Read'
        PROVE  (\E r \in StoresTo(SeqOf(index), fenced) : Value(r) > before)'
    <3>1. PICK r \in StoresTo(SeqOf(index), fenced') : Value(r) > before BY <2>1, <2>2, <2>3
    <3>2. r \in StoresTo(SeqOf(index), fenced)'
      BY <1>3, <3>1 DEF StoresTo, SeqOf, published, writerVars
    <3>3. Value(r)' > before' BY <1>3, <3>1 DEF Value, writerVars
    <3> QED BY <3>2, <3>3
  <2> QED BY <1>3, <2>3 DEF Noticed
<1> QED BY <1>13, <1>14, <1>15, <1>16

LEMMA AcquireFenceKeeps ==
  ASSUME ClockIInv, AcquireFence
  PROVE  TypeOK' /\ FloorInv' /\ ReturnedInv' /\ ReaderInv' /\ Noticed'
<1>1. TypeOK /\ LogInv /\ FloorInv /\ ReaderInv /\ Noticed BY DEF ClockIInv
<1>2. /\ UNCHANGED writerVars /\ rpc = "fields" /\ rpc' = "recheck" /\ Len(got) = Len(LoadOrder)
      /\ floor' = Raised(published_slot, floor[published_slot], fenced) /\ fenced' = fenced
      /\ index' = index /\ before' = before /\ got' = got /\ returned' = returned
  BY DEF AcquireFence
<1>3. /\ index \in {0, 1} /\ before \in Nat /\ Len(log) \in Nat /\ fenced \in 0 .. Len(log)
      /\ SeqOf(index) \in Locations
  BY <1>1, LogIsTyped, LocationsApart DEF TypeOK, SeqOf
<1>4. ASSUME NEW l \in Locations
      PROVE  /\ floor'[l] \in Stores(l) /\ floor[l] <= floor'[l]
             /\ \A j \in StoresTo(l, fenced) : j <= floor'[l]
  <2>1. floor[published_slot] \in Stores(published_slot) /\ published_slot \in Locations
    BY <1>1, SingleLocations DEF FloorInv
  <2> QED BY <1>1, <1>2, <1>3, <2>1, RaisedFloor
<1>5. Raises BY <1>1, <1>4 DEF Raises, FloorInv
<1>6. floor' \in [Locations -> 0 .. Len(log)]
  <2>1. floor' = [l \in Locations |-> floor'[l]] BY <1>2 DEF Raised
  <2>2. \A l \in Locations : Stores(l) \in SUBSET (0 .. Len(log))
    BY <1>1, <1>3, StoresInRange DEF Stores
  <2> QED BY <1>4, <2>1, <2>2
<1>7. TypeOK'
  <2>1. /\ fenced' \in 0 .. Len(log) /\ index' \in {0, 1} /\ before' \in Nat
        /\ got' \in Seq(0 .. callbacks) /\ returned' \in Seq(0 .. callbacks)
        /\ rpc' \in {"idle", "index", "before", "fields", "recheck", "return"}
    BY <1>1, <1>2 DEF TypeOK
  <2> QED BY <1>1, <1>2, <1>6, <2>1, ReaderTypes
<1>8. FloorInv' /\ ReturnedInv' BY <1>2, <1>5, SeesMore, ReturnedStays
<1>9. CopyKnown /\ SinceUsable(Seen) BY <1>1, <1>2 DEF ReaderInv
<1>10. ReaderInv'
  <2>1. Len(got') <= Len(LoadOrder) /\ \A n \in 1 .. Len(got') : Read <= got'[n]
    BY <1>2, <1>9 DEF CopyKnown
  <2>2. CopyKnown' BY <1>2, <1>5, <1>9, <2>1, CopyStaysKnown
  <2>3. SinceUsable(Seen)'
    <3>1. Seen \in Int /\ Seen' \in Int /\ Seen <= Seen' BY <1>2, <1>5, SeesMore
    <3>2. SinceUsable(Seen') BY <1>1, <1>9, <3>1, SinceLater
    <3> QED BY <1>2, <3>2 DEF SinceUsable, writerVars
  <2> QED BY <1>2, <2>2, <2>3 DEF ReaderInv
<1>11. Noticed'
  <2>1. ASSUME NEW n \in 1 .. Len(got'), got'[n] > Read'
        PROVE  (Value(floor[SeqOf(index)]) > before)'
    <3>1. n \in 1 .. Len(got) /\ got[n] > Read BY <1>2, <2>1 DEF Read
    <3>2. PICK r \in StoresTo(SeqOf(index), fenced) : Value(r) > before
      BY <1>1, <1>2, <3>1 DEF Noticed
    <3>3. r <= floor'[SeqOf(index)] /\ floor'[SeqOf(index)] \in Stores(SeqOf(index))
      BY <1>3, <1>4, <3>2
    <3>4. r \in Stores(SeqOf(index)) BY <1>3, <3>2 DEF Stores, StoresTo
    <3>5. Value(r) <= Value(floor'[SeqOf(index)])
      BY <1>1, <1>3, <3>3, <3>4 DEF LogInv, SequencesGrow
    <3>6. Value(r) \in Nat /\ Value(floor'[SeqOf(index)]) \in Nat
      <4>1. Stores(SeqOf(index)) \in SUBSET (0 .. Len(log))
        BY <1>1, <1>3, StoresInRange DEF Stores
      <4> QED BY <1>1, <3>3, <3>4, <4>1, ValuesAreNumbers
    <3>7. (Value(floor[SeqOf(index)]))' = Value(floor'[SeqOf(index)])
      BY <1>2 DEF Value, SeqOf, published, writerVars
    <3> QED BY <1>2, <1>3, <3>2, <3>5, <3>6, <3>7
  <2> QED BY <1>2, <2>1 DEF Noticed
<1> QED BY <1>7, <1>8, <1>10, <1>11

\* The sequence read before still stands: every counter is that callback's.
LEMMA RecheckSequenceKeeps ==
  ASSUME ClockIInv, NEW i, RecheckSequence(i)
  PROVE  TypeOK' /\ FloorInv' /\ ReturnedInv' /\ ReaderInv' /\ Noticed'
<1>1. TypeOK /\ LogInv /\ FloorInv /\ ReaderInv /\ Noticed BY DEF ClockIInv
<1>2. /\ UNCHANGED writerVars /\ rpc = "recheck" /\ LoadRelaxed(SeqOf(index), i)
      /\ index' = index /\ before' = before /\ returned' = returned
      /\ IF Value(i) = before THEN rpc' = "return" /\ got' = got ELSE Retry
  BY DEF RecheckSequence, SeqOf
<1>3. /\ index \in {0, 1} /\ before \in Nat /\ Len(log) \in Nat /\ callbacks \in Nat
      /\ SeqOf(index) \in Locations
  BY <1>1, LogIsTyped, LocationsApart DEF TypeOK, SeqOf
<1>4. /\ Raises /\ floor' \in [Locations -> 0 .. Len(log)] /\ fenced' \in 0 .. Len(log)
      /\ i \in Stores(SeqOf(index)) /\ floor[SeqOf(index)] <= i
  BY <1>1, <1>2, <1>3, RelaxedRaises
<1>5. TypeOK'
  <2>1. index' \in {0, 1} /\ before' \in Nat /\ rpc' \in {"index", "return"}
        /\ got' \in {got, <<>>} /\ returned' = returned
    BY <1>1, <1>2 DEF TypeOK, Retry
  <2>2. got' \in Seq(0 .. callbacks) /\ returned' \in Seq(0 .. callbacks)
    <3>1. <<>> \in Seq(0 .. callbacks) /\ got \in Seq(0 .. callbacks)
          /\ returned \in Seq(0 .. callbacks)
      BY <1>1 DEF TypeOK
    <3> QED BY <2>1, <3>1
  <2> QED BY <1>1, <1>2, <1>4, <2>1, <2>2, ReaderTypes
<1>6. FloorInv' /\ ReturnedInv' BY <1>2, <1>4, SeesMore, ReturnedStays
<1>7. ASSUME Value(i) = before PROVE ReaderInv' /\ Noticed'
  <2>1. rpc' = "return" /\ got' = got BY <1>2, <1>7
  <2>2. CopyKnown /\ SinceUsable(Seen) /\ Len(got) = Len(LoadOrder)
    BY <1>1, <1>2 DEF ReaderInv, Noticed
  <2>3. Value(floor[SeqOf(index)]) <= before /\ Value(floor[SeqOf(index)]) \in Nat
    <3>1. floor[SeqOf(index)] \in Stores(SeqOf(index)) BY <1>3, <1>4 DEF Raises
    <3>2. Value(floor[SeqOf(index)]) <= Value(i)
      BY <1>1, <1>3, <1>4, <3>1 DEF LogInv, SequencesGrow
    <3>3. Value(floor[SeqOf(index)]) \in Nat BY <1>2, <1>3, <1>4, SeesMore DEF SeqOf
    <3> QED BY <1>7, <3>2, <3>3
  <2>4. ASSUME NEW n \in 1 .. Len(got') PROVE got'[n] = Read'
    <3>1. n \in 1 .. Len(got) /\ got'[n] = got[n] /\ Read' = Read BY <1>2, <2>1 DEF Read
    <3>2. Read <= got[n] BY <2>2, <3>1 DEF CopyKnown
    <3>3. ~ (got[n] > Read) BY <1>1, <1>2, <1>3, <2>3, <3>1 DEF Noticed
    <3>4. got[n] \in Int /\ Read \in Int
      <4>1. got \in Seq(0 .. callbacks) BY <1>1 DEF TypeOK
      <4>2. got[n] \in 0 .. callbacks BY <3>1, <4>1, ElementTyped
      <4> QED BY <1>3, <4>2 DEF Read
    <3> QED BY <3>1, <3>2, <3>3, <3>4
  <2>5. Noticed' BY <2>1, <2>2, <2>4 DEF Noticed
  <2>6. Len(got') <= Len(LoadOrder) /\ \A n \in 1 .. Len(got') : Read <= got'[n]
    BY <2>1, <2>2 DEF CopyKnown
  <2>7. CopyKnown' BY <1>2, <1>4, <2>2, <2>6, CopyStaysKnown
  <2>8. SinceUsable(Seen)'
    <3>1. Seen \in Int /\ Seen' \in Int /\ Seen <= Seen' BY <1>2, <1>4, SeesMore
    <3>2. SinceUsable(Seen') BY <1>1, <2>2, <3>1, SinceLater
    <3> QED BY <1>2, <3>2 DEF SinceUsable, writerVars
  <2> QED BY <2>1, <2>5, <2>7, <2>8 DEF ReaderInv
<1>8. ASSUME Value(i) # before PROVE ReaderInv' /\ Noticed'
  <2>1. Retry /\ rpc \notin {"idle"} BY <1>2, <1>8
  <2> QED BY <1>2, <1>4, <2>1, RetryKeeps
<1> QED BY <1>5, <1>6, <1>7, <1>8

\* The slot is still the published one: by the callback whose copy was read, or
\* by a later one of the same slot.
LEMMA SlotIsPublished ==
  ASSUME ClockIInv, NEW i, RecheckSlot(i), Value(i) = index
  PROVE  Read <= Seen' /\ \A n \in 1 .. Len(got) : got[n] = Read
<1>1. TypeOK /\ LogInv /\ FloorInv /\ ReaderInv /\ Noticed BY DEF ClockIInv
<1>2. UNCHANGED writerVars /\ rpc = "return" /\ LoadRelaxed(published_slot, i)
  BY DEF RecheckSlot
<1>3. /\ Raises /\ i \in Stores(published_slot) /\ floor[published_slot] <= i
      /\ i <= floor'[published_slot]
  BY <1>1, <1>2, SingleLocations, RelaxedRaises
<1>4. CopyKnown /\ SinceUsable(Seen) /\ \A n \in 1 .. Len(got) : got[n] = Read
  BY <1>1, <1>2 DEF ReaderInv, Noticed
<1>5. /\ floor[published_slot] \in Stores(published_slot)
      /\ floor'[published_slot] \in Stores(published_slot)
  BY <1>3, SingleLocations DEF Raises
<1>6. Seen' = PublishedBy(floor'[published_slot])
  BY <1>2 DEF Seen, PublishedBy, writerVars
<1>7. Seen <= PublishedBy(i) /\ PublishedBy(i) <= Seen'
  BY <1>1, <1>3, <1>5, <1>6 DEF LogInv, PublishesGrow, Seen
<1>8. Seen \in 0 .. callbacks /\ PublishedBy(i) \in 0 .. callbacks /\ Seen' \in 0 .. callbacks
      /\ callbacks \in Nat
  BY <1>1, <1>2, <1>3, <1>5, PublishesInRange, SeesMore DEF LogInv, Seen, TypeOK
<1>9. i # 0
  <2>1. Seen >= 1
    <3>1. Seen \in Int /\ Seen <= Seen BY <1>8
    <3> QED BY <1>1, <1>4, <3>1, SinceLater
  <2>2. PublishedBy(i) # 0 BY <1>7, <1>8, <2>1
  <2> QED BY <2>2 DEF PublishedBy
<1>10. PublishedBy(i) % 2 = index
  BY <1>1, <1>3, <1>9 DEF LogInv, PublishesFollow, FollowsCopy, Value
<1>11. Read \in 1 .. callbacks /\ Read % 2 = index /\ Read - 1 <= Seen BY <1>4 DEF CopyKnown
<1>12. Read <= PublishedBy(i)
  <2>1. PublishedBy(i) \in Nat /\ Read \in Nat /\ Read - 1 <= PublishedBy(i)
    BY <1>7, <1>8, <1>11
  <2>2. PublishedBy(i) < Read => PublishedBy(i) + 2 <= Read
    BY <1>10, <1>11, <2>1, SameSlotApart
  <2> QED BY <2>1, <2>2
<1> QED BY <1>4, <1>7, <1>8, <1>11, <1>12

LEMMA RecheckSlotKeeps ==
  ASSUME ClockIInv, NEW i, RecheckSlot(i)
  PROVE  TypeOK' /\ FloorInv' /\ ReturnedInv' /\ ReaderInv' /\ Noticed'
<1>1. TypeOK /\ LogInv /\ FloorInv /\ ReaderInv /\ Noticed BY DEF ClockIInv
<1>2. /\ UNCHANGED writerVars /\ rpc = "return" /\ LoadRelaxed(published_slot, i)
      /\ index' = index /\ before' = before
      /\ IF Value(i) = index
         THEN rpc' = "idle" /\ returned' = got /\ got' = <<>>
         ELSE Retry /\ returned' = returned
  BY DEF RecheckSlot
<1>3. /\ Raises /\ floor' \in [Locations -> 0 .. Len(log)] /\ fenced' \in 0 .. Len(log)
  BY <1>1, <1>2, SingleLocations, RelaxedRaises
<1>4. TypeOK'
  <2>1. index' \in {0, 1} /\ before' \in Nat /\ rpc' \in {"index", "idle"}
        /\ got' = <<>> /\ returned' \in {got, returned}
    BY <1>1, <1>2 DEF TypeOK, Retry
  <2>2. got' \in Seq(0 .. callbacks) /\ returned' \in Seq(0 .. callbacks)
    BY <1>1, <2>1 DEF TypeOK
  <2> QED BY <1>1, <1>2, <1>3, <2>1, <2>2, ReaderTypes
<1>5. FloorInv' BY <1>2, <1>3, SeesMore
<1>6. ASSUME Value(i) = index PROVE ReturnedInv' /\ ReaderInv' /\ Noticed'
  <2>1. rpc' = "idle" /\ returned' = got /\ got' = <<>> BY <1>2, <1>6
  <2>2. Read <= Seen' /\ \A n \in 1 .. Len(got) : got[n] = Read BY <1>6, SlotIsPublished
  <2>3. CopyKnown /\ Len(got) = Len(LoadOrder) BY <1>1, <1>2 DEF ReaderInv, Noticed
  <2>4. ReturnedInv'
    <3>1. got[1] = Read /\ \A n \in 1 .. Len(LoadOrder) : got[n] = got[1]
      BY <2>2, <2>3, CounterNames
    <3>2. SinceUsable(returned[1])'
      BY <1>2, <2>1, <2>3, <3>1 DEF CopyKnown, SinceUsable, writerVars
    <3> QED BY <2>1, <2>2, <2>3, <3>1, <3>2 DEF ReturnedInv
  <2> QED BY <2>1, <2>4 DEF ReaderInv, Noticed
<1>7. ASSUME Value(i) # index PROVE ReturnedInv' /\ ReaderInv' /\ Noticed'
  <2>1. Retry /\ rpc \notin {"idle"} /\ returned' = returned BY <1>2, <1>7
  <2> QED BY <1>2, <1>3, <2>1, RetryKeeps, ReturnedStays
<1> QED BY <1>4, <1>5, <1>6, <1>7

----------------------------------------------------------------------------
\* The invariant, step by step.

LEMMA ClockInit == Init => ClockIInv
<1> SUFFICES ASSUME Init PROVE ClockIInv OBVIOUS
<1> USE DEF Init
<1>1. Len(log) = 0 /\ \A loc : Stores(loc) = {0} BY SMT DEF Stores, StoresTo
<1>2. TypeOK
  <2>1. /\ log \in Seq([loc : Locations, value : Nat, releases : Nat])
        /\ got \in Seq(0 .. callbacks) /\ returned \in Seq(0 .. callbacks)
    OBVIOUS
  <2>2. stored \in 0 .. Len(StoreOrder) BY CounterNames
  <2>3. floor \in [Locations -> 0 .. Len(log)] BY <1>1
  <2>4. callbacks \in 0 .. MaxCallbacks BY ClockAssumption
  <2> QED BY <1>1, <2>1, <2>2, <2>3, <2>4 DEF TypeOK
<1>3. Value(0) = 0 /\ PublishedBy(0) = 0 BY DEF Value, PublishedBy
<1>4. LogInv
  BY <1>1, <1>3 DEF LogInv, ReleasesPast, SequencesGrow, CountersGrow, PublishesGrow,
                    EvensEndCopies, CountersFenced, PublishesFollow, AvailableFollows
<1>5. FloorInv BY <1>1 DEF FloorInv
<1>6. \A loc : NewestOf(loc) = 0 /\ Own(loc) = 0
  <2> SUFFICES ASSUME NEW loc PROVE NewestOf(loc) = 0 /\ Own(loc) = 0 OBVIOUS
  <2>1. {0} \in SUBSET (0 .. 0) /\ {0} # {} OBVIOUS
  <2>2. Latest({0}) = 0 BY <2>1, LatestIsLatest
  <2> QED BY <1>1, <1>3, <2>2 DEF NewestOf, Own, Stores
<1>7. WriterInv
  <2> SUFFICES ASSUME NEW m \in {0, 1}, NEW o \in {0, 1}, m = Mine, o = Other
               PROVE  WriterAt(m, o)
    BY DEF WriterInv
  <2>1. m = 0 /\ o = 1 BY DEF Mine, Other
  <2> QED BY <1>1, <1>3, <1>6, <2>1 DEF WriterAt
<1>8. CopyInv /\ ReturnedInv /\ ReaderInv /\ Noticed
  BY DEF CopyInv, ReturnedInv, ReaderInv, Noticed
<1> QED BY <1>2, <1>4, <1>5, <1>7, <1>8 DEF ClockIInv

LEMMA CallbackKeeps ==
  ASSUME ClockIInv, Callback
  PROVE  ClockIInv'
<1>1. SUFFICES ASSUME NEW at, NEW value, NEW releases, Wrote(at, value, releases),
                      LogInv', WriterInv', CopyInv',
                      \A i \in Stores(published_slot) : PublishedBy(i)' = PublishedBy(i)
               PROVE  ClockIInv'
  <2> DEFINE Kept == /\ LogInv' /\ WriterInv' /\ CopyInv'
                     /\ \A i \in Stores(published_slot) : PublishedBy(i)' = PublishedBy(i)
  <2>1. (\E at, value, releases : Wrote(at, value, releases)) /\ Kept
    <3>1. CASE \E carries \in BOOLEAN : BeginCallback(carries)
      <4>1. PICK carries \in BOOLEAN : BeginCallback(carries) BY <3>1
      <4>2. Wrote(SeqOf(Other), callbacks + Other, 0) BY <4>1, BeginWrites
      <4>3. Kept BY <4>1, BeginKeeps
      <4> QED BY <4>2, <4>3
    <3>2. CASE StoreField
      <4>1. Wrote(published(Mine, StoreOrder[stored + 1]), callbacks, Len(log) - stored)
        BY <3>2, FieldWrites
      <4>2. Kept BY <3>2, FieldKeeps
      <4> QED BY <4>1, <4>2
    <3>3. CASE StoreEven
      <4>1. Wrote(SeqOf(Mine), callbacks + Mine, Len(log) + 1) BY <3>3, EvenWrites
      <4>2. Kept BY <3>3, EvenKeeps
      <4> QED BY <4>1, <4>2
    <3>4. CASE Publish
      <4>1. Wrote(published_slot, Mine, Len(log) + 1) BY <3>4, PublishWrites
      <4>2. Kept BY <3>4, PublishKeeps
      <4> QED BY <4>1, <4>2
    <3>5. CASE StoreAvailable
      <4>1. Wrote(timestamp_available, 1, Len(log) + 1) BY <3>5, AvailableWrites
      <4>2. Kept BY <3>5, AvailableKeeps
      <4> QED BY <4>1, <4>2
    <3> HIDE DEF Kept
    <3> QED BY <3>1, <3>2, <3>3, <3>4, <3>5 DEF Callback
  <2> QED BY <2>1
<1>2. TypeOK' BY <1>1 DEF Wrote
<1>3. FloorInv' /\ ReturnedInv' /\ ReaderInv' /\ Noticed' BY <1>1, ReaderKept
<1> QED BY <1>1, <1>2, <1>3 DEF ClockIInv

LEMMA ReadingKeeps ==
  ASSUME ClockIInv, AcquireFence \/ \E i \in 0 .. Len(log) : Load(i)
  PROVE  ClockIInv'
<1>1. /\ UNCHANGED writerVars
      /\ TypeOK' /\ FloorInv' /\ ReturnedInv' /\ ReaderInv' /\ Noticed'
  <2>1. CASE AcquireFence BY <2>1, AcquireFenceKeeps DEF AcquireFence
  <2>2. CASE \E i \in 0 .. Len(log) : Load(i)
    <3>1. PICK i \in 0 .. Len(log) : Load(i) BY <2>2
    <3>2. CASE LoadAvailable(i) BY <3>2, LoadAvailableKeeps DEF LoadAvailable
    <3>3. CASE LoadIndex(i) BY <3>3, LoadIndexKeeps DEF LoadIndex
    <3>4. CASE LoadBefore(i) BY <3>4, LoadBeforeKeeps DEF LoadBefore
    <3>5. CASE LoadField(i) BY <3>5, LoadFieldKeeps DEF LoadField
    <3>6. CASE RecheckSequence(i) BY <3>6, RecheckSequenceKeeps DEF RecheckSequence
    <3>7. CASE RecheckSlot(i) BY <3>7, RecheckSlotKeeps DEF RecheckSlot
    <3> QED BY <3>1, <3>2, <3>3, <3>4, <3>5, <3>6, <3>7 DEF Load
  <2> QED BY <2>1, <2>2
<1>2. LogInv' /\ WriterInv' /\ CopyInv' BY <1>1, LogUntouched
<1> QED BY <1>1, <1>2 DEF ClockIInv

LEMMA StandingKeeps ==
  ASSUME ClockIInv, UNCHANGED vars
  PROVE  ClockIInv'
<1>1. UNCHANGED writerVars BY DEF vars
<1>2. /\ log' = log /\ callbacks' = callbacks /\ usable' = usable /\ floor' = floor
      /\ fenced' = fenced /\ rpc' = rpc /\ index' = index /\ before' = before
      /\ got' = got /\ returned' = returned
  BY DEF vars, writerVars, readerVars
<1>3. LogInv' /\ WriterInv' /\ CopyInv' BY <1>1, LogUntouched
<1>4. TypeOK' BY <1>1, <1>2, ReaderTypes DEF ClockIInv, TypeOK
<1>5. Raises
  <2>1. TypeOK /\ FloorInv BY DEF ClockIInv
  <2>2. \A l \in Locations : floor[l] \in 0 .. Len(log) /\ floor[l] \in Stores(l)
    BY <2>1 DEF TypeOK, FloorInv
  <2>3. Len(log) \in Nat BY <2>1, LogIsTyped
  <2> QED BY <1>2, <2>2, <2>3 DEF Raises
<1>6. FloorInv' /\ ReturnedInv' BY <1>1, <1>2, <1>5, SeesMore, ReturnedStays
<1>7. Seen' = Seen /\ Read' = Read BY <1>2 DEF Seen, PublishedBy, Read
<1>8. ReaderInv'
  BY <1>2, <1>7 DEF ClockIInv, ReaderInv, CopyKnown, SinceUsable, Value, SeqOf, published
<1>9. Noticed'
  BY <1>2, <1>7 DEF ClockIInv, Noticed, StoresTo, Value, SeqOf, published
<1> QED BY <1>3, <1>4, <1>6, <1>8, <1>9 DEF ClockIInv

LEMMA ClockNext == ClockIInv /\ [Next]_vars => ClockIInv'
  BY CallbackKeeps, ReadingKeeps, StandingKeeps DEF Next

\* In every state the log, the copy under way and what the reader has seen fit
\* together as the invariant says.
THEOREM ClockInvariant == Spec => []ClockIInv
  BY ClockInit, ClockNext, PTL DEF Spec

\* The invariant implies what the run checks.
LEMMA ClockImplied == ClockIInv => ClockInv
<1> SUFFICES ASSUME ClockIInv PROVE ClockInv OBVIOUS
<1>1. TypeOK /\ LogInv /\ PublishesFollow /\ WriterInv /\ FloorInv /\ ReturnedInv
  BY DEF ClockIInv, LogInv
<1>2. callbacks \in Nat /\ Len(log) \in Nat BY <1>1, LogIsTyped DEF TypeOK
<1>3. ASSUME returned # <<>>
      PROVE  /\ Len(returned) = 6 /\ \A i \in 1 .. 6 : returned[i] = returned[1]
             /\ returned[1] \in 0 .. callbacks
             /\ returned[1] <= Seen /\ SinceUsable(returned[1])
  <2>1. /\ Len(returned) = 6 /\ \A i \in 1 .. 6 : returned[i] = returned[1]
        /\ returned[1] <= Seen /\ SinceUsable(returned[1])
    BY <1>1, <1>3, CounterNames DEF ReturnedInv
  <2>2. returned \in Seq(0 .. callbacks) /\ 1 \in 1 .. Len(returned) BY <1>1, <2>1 DEF TypeOK
  <2>3. returned[1] \in 0 .. callbacks BY <2>2, ElementTyped
  <2> QED BY <2>1, <2>3
<1>4. SnapshotWhole
  <2>1. returned \in Seq(0 .. callbacks) BY <1>1 DEF TypeOK
  <2>2. DOMAIN returned = 1 .. Len(returned) BY <2>1
  <2> SUFFICES ASSUME NEW i \in 1 .. Len(returned), NEW j \in 1 .. Len(returned)
               PROVE  returned[i] = returned[j]
    BY <2>2 DEF SnapshotWhole
  <2>3. returned # <<>> BY <2>1
  <2> QED BY <1>3, <2>3
<1>5. ReadingPublished
  <2> SUFFICES ASSUME returned # <<>>
               PROVE  /\ \E u \in usable : u <= returned[1]
                      /\ returned[1] < callbacks \/ wpc \in {"idle", "available"}
    BY DEF ReadingPublished
  <2>1. \E u \in usable : u <= returned[1] BY <1>3 DEF SinceUsable
  <2>2. ASSUME wpc \in {"fill", "publish"} PROVE returned[1] < callbacks
    <3>1. PICK m \in {0, 1}, o \in {0, 1} : m = Mine /\ o = Other BY <1>1, WriterNames
    <3>2. WriterAt(m, o) BY <1>1, <3>1 DEF WriterInv
    <3>3. NewestOf(published_slot) \in Stores(published_slot)
          /\ \A j \in Stores(published_slot) : j <= NewestOf(published_slot)
      BY <1>1, NewestIsNewest
    <3>4. PublishedBy(NewestOf(published_slot)) = callbacks - 1
      BY <2>2, <3>2, <3>3 DEF WriterAt
    <3>5. floor[published_slot] \in Stores(published_slot)
      BY <1>1, SingleLocations DEF FloorInv
    <3>6. Seen <= callbacks - 1
      BY <1>1, <3>3, <3>4, <3>5 DEF LogInv, PublishesGrow, Seen
    <3>7. Seen \in 0 .. callbacks BY <1>1, <3>5, PublishesInRange DEF Seen
    <3> QED BY <1>2, <1>3, <3>6, <3>7
  <2>3. wpc \in {"idle", "fill", "publish", "available"} BY <1>1 DEF TypeOK
  <2> QED BY <2>1, <2>2, <2>3
<1> QED BY <1>1, <1>4, <1>5 DEF ClockInv

\* What a reader returns is the counters of one callback, of one that has
\* published them, and of none before the first usable timestamp: for any number
\* of callbacks and wherever a store or a load is reordered to.
THEOREM SnapshotsAreGenuine == Spec => []ClockInv
  BY ClockInvariant, ClockImplied, PTL

LEMMA StepNotBackward ==
  ASSUME ClockIInv, [Next]_vars
  PROVE  returned # <<>> => \A i \in DOMAIN returned : returned[i] <= returned'[i]
<1> SUFFICES ASSUME returned # <<>>, NEW i \in DOMAIN returned
             PROVE  returned[i] <= returned'[i]
  OBVIOUS
<1>1. TypeOK /\ ReturnedInv /\ ReaderInv /\ Noticed BY DEF ClockIInv
<1>2. /\ returned \in Seq(0 .. callbacks) /\ callbacks \in Nat /\ Len(returned) = 6
      /\ \A n \in 1 .. 6 : returned[n] = returned[1]
  BY <1>1, CounterNames DEF TypeOK, ReturnedInv
<1>3. i \in 1 .. Len(returned) /\ i \in 1 .. 6 BY <1>2
<1>4. returned[i] \in 0 .. callbacks /\ returned[i] = returned[1] BY <1>2, <1>3, ElementTyped
<1>5. CASE returned' = returned BY <1>2, <1>4, <1>5
<1>6. CASE returned' # returned
  <2>1. PICK k \in 0 .. Len(log) : RecheckSlot(k) /\ Value(k) = index
    BY <1>6 DEF Next, Callback, Load, vars, readerVars, BeginCallback, StoreField, StoreEven,
                Publish, StoreAvailable, LoadAvailable, LoadIndex, LoadBefore, LoadField,
                AcquireFence, RecheckSequence, RecheckSlot
  <2>2. returned' = got /\ rpc = "return" BY <2>1 DEF RecheckSlot
  <2>3. CopyKnown /\ Len(got) = 6 BY <1>1, <2>2, CounterNames DEF ReaderInv, Noticed
  <2>4. got[i] = Read BY <1>3, <2>1, <2>3, SlotIsPublished
  <2>5. returned[1] <= Read BY <2>3 DEF CopyKnown
  <2> QED BY <1>4, <2>2, <2>4, <2>5
<1> QED BY <1>5, <1>6

\* No counter a reader is given goes backward, whatever it is told in between.
THEOREM ReadingsGoForward == Spec => NeverBackward
<1>1. ClockIInv /\ [Next]_vars
      => [returned # <<>> => \A i \in DOMAIN returned : returned[i] <= returned'[i]]_vars
  BY StepNotBackward
<1> QED BY <1>1, ClockInvariant, PTL DEF Spec, NeverBackward
====
