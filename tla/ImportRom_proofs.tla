-------------------------- MODULE ImportRom_proofs --------------------------
(***************************************************************************)
(* Theorems of ImportRom for a path of any depth, any set of hosts (their  *)
(* descriptors and pin budgets) and any number of upsets by others.        *)
(*                                                                         *)
(* The inductive invariant has three parts.  Shape: the tree stays a tree, *)
(* its nodes are taken in order and never more than the account allows,    *)
(* and each level is recorded once.  Owned: what the import holds a pin on *)
(* to unlink it, it made, as long as nobody came between a look and its    *)
(* use.  Hiding: there is one quarantine, and only what a take-back moved  *)
(* there is in it.                                                         *)
(*                                                                         *)
(* While nobody else acts a second invariant holds beside it, OrderInv: the*)
(* levels recorded are older the further out, each is where it was made    *)
(* until its turn comes, and the quarantine stands beside the outermost.   *)
(*                                                                         *)
(* With the descriptors a climb needs there is a third, DurableInv: the    *)
(* walk follows the path, the levels that are still pinned are the         *)
(* innermost, each by both its pins, and so a climb that wants a descriptor*)
(* frees one at most twice, in the destination and next to it; the parents *)
(* of the levels whose pins it gave up it has synced on its way out.       *)
(***************************************************************************)
EXTENDS ImportRom, SequenceTheorems, FiniteSetTheorems, WellFoundedInduction, TLAPS

---------------------------------------------------------------------------
(* Least and greatest members, and the path resolved anew.                 *)

\* Min of a set of naturals that is not empty is its least member.
LEMMA HasMin ==
  ASSUME NEW S \in SUBSET Nat, S # {}
  PROVE  Min(S) \in S /\ \A y \in S : Min(S) <= y
<1>1. PICK x \in S : \A y \in S : ~ (<<y, x>> \in OpToRel(<, Nat))
  BY NatLessThanWellFounded, WFMin
<1>2. ASSUME NEW y \in S PROVE x <= y
  <2>1. x \in Nat /\ y \in Nat OBVIOUS
  <2>2. y < x => <<y, x>> \in OpToRel(<, Nat) BY <2>1 DEF OpToRel
  <2>3. ~ (y < x) BY <1>1, <2>2
  <2> QED BY <2>1, <2>3
<1> QED BY <1>2 DEF Min

\* Max of a bounded set of naturals that is not empty is its greatest member.
LEMMA HasMax ==
  ASSUME NEW n \in Nat, NEW S \in SUBSET (0 .. n), S # {}
  PROVE  Max(S) \in S /\ \A y \in S : Max(S) >= y
<1> DEFINE T == {n - y : y \in S}
<1>1. \A y \in S : y \in 0 .. n /\ n - y \in Nat OBVIOUS
<1>2. T \in SUBSET Nat /\ T # {} BY <1>1
<1>3. Min(T) \in T /\ \A y \in T : Min(T) <= y BY <1>2, HasMin
<1>4. PICK x \in S : Min(T) = n - x BY <1>3
<1>5. ASSUME NEW y \in S PROVE x >= y
  <2>1. n - x <= n - y BY <1>3, <1>4
  <2> QED BY <2>1, <1>1
<1> QED BY <1>5 DEF Max

\* What the assumptions say of the constants.
LEMMA Sizes ==
  /\ Depth \in Nat \ {0} /\ MaxUpsets \in Nat /\ Levels = 1 .. Depth
  /\ Nodes = 0 .. (2 * Depth + 3 + MaxUpsets)
  /\ Root \in Nodes /\ None \notin Nodes /\ None \in Int
  /\ \A k \in Levels : LevelNames[k] \in Range(LevelNames)
<1>1. Depth \in Nat \ {0} BY ImportAssumption DEF Depth
<1>2. \A k \in Levels : LevelNames[k] \in Range(LevelNames)
  BY <1>1, ImportAssumption DEF Levels, Depth, Range
<1> QED BY <1>1, <1>2, UpsetsAssumption DEF Levels, Nodes, Root, None

\* A name leads to a node of that name there, or to none if there is none.
LEMMA EntryFound ==
  ASSUME NEW dir, NEW name
  PROVE  \/ /\ Entry(dir, name) = None
            /\ \A n \in Nodes : ~ (tree[n].dir = dir /\ tree[n].name = name)
         \/ /\ Entry(dir, name) \in Nodes /\ Entry(dir, name) # None
            /\ tree[Entry(dir, name)].dir = dir /\ tree[Entry(dir, name)].name = name
BY Sizes DEF Entry, Children

\* The recursion by which a path is resolved has a solution, so it is one.
LEMMA PathDefined ==
  \A k \in 0 .. Depth :
    Path[k] = IF k = 0 THEN Root
              ELSE IF IsDirectory(Path[k - 1]) THEN Entry(Path[k - 1], LevelNames[k]) ELSE None
<1> DEFINE Turn(f, k) ==
      IF k = 0 THEN Root
      ELSE IF IsDirectory(f[k - 1]) THEN Entry(f[k - 1], LevelNames[k]) ELSE None
<1> DEFINE Has(n) == \E f : f = [k \in 0 .. n |-> Turn(f, k)]
<1>1. \A n \in Nat : Has(n)
  <2> SUFFICES ASSUME \E n \in Nat : ~Has(n) PROVE FALSE OBVIOUS
  <2> DEFINE T == {n \in Nat : ~Has(n)}
  <2>1. PICK x \in T : \A y \in T : x <= y
    <3> HIDE DEF Has
    <3> QED BY HasMin
  <2>2. x \in Nat /\ ~Has(x) OBVIOUS
  <2>3. x # 0
    <3> DEFINE g == [k \in 0 .. 0 |-> Root]
    <3>1. g = [k \in 0 .. 0 |-> Turn(g, k)] OBVIOUS
    <3>2. Has(0) BY <3>1
    <3> QED BY <2>2, <3>2
  <2>4. x - 1 \in Nat BY <2>2, <2>3
  <2>5. Has(x - 1)
    <3> HIDE DEF Has
    <3> QED BY <2>1, <2>2, <2>4
  <2>6. PICK f : f = [k \in 0 .. x - 1 |-> Turn(f, k)] BY <2>5
  <2> DEFINE g == [k \in 0 .. x |-> IF k < x THEN f[k] ELSE Turn(f, k)]
  <2>7. ASSUME NEW k \in 0 .. x PROVE g[k] = Turn(g, k)
    <3>1. k # 0 => g[k - 1] = f[k - 1] BY <2>2
    <3>2. Turn(g, k) = Turn(f, k) BY <3>1
    <3>3. k < x => f[k] = Turn(f, k)
      <4> HIDE DEF Turn
      <4> QED BY <2>2, <2>6
    <3>4. g[k] = IF k < x THEN f[k] ELSE Turn(f, k) OBVIOUS
    <3> HIDE DEF g, Turn
    <3> QED BY <3>2, <3>3, <3>4
  <2>8. g = [k \in 0 .. x |-> Turn(g, k)]
    <3>1. g = [k \in 0 .. x |-> g[k]] OBVIOUS
    <3> HIDE DEF g, Turn
    <3> QED BY <2>7, <3>1
  <2>9. Has(x)
    <3> HIDE DEF Turn, g
    <3> QED BY <2>8
  <2> QED BY <2>2, <2>9
<1>2. Has(Depth) BY <1>1, Sizes
<1>3. Path = CHOOSE f : f = [k \in 0 .. Depth |-> Turn(f, k)] BY DEF Path
<1>4. Path = [k \in 0 .. Depth |-> Turn(Path, k)]
  <2> HIDE DEF Turn
  <2> QED BY <1>2, <1>3
<1>5. \A k \in 0 .. Depth : Path[k] = Turn(Path, k)
  <2> HIDE DEF Turn
  <2> QED BY <1>4
<1> QED BY <1>5

---------------------------------------------------------------------------
(* The tree, and the nodes that are left for it to grow into.              *)

Names ==
  Range(LevelNames) \union {"nameless", "pack", "temporary", Quarantined, Captured, Aside, Away}
Things == [dir : Pin, name : Names, kind : Kinds, maker : Makers]

\* Nodes keep to what they are, and a name leads to one node.
TreeSound ==
  /\ tree \in [Nodes -> Things]
  /\ tree[Root].dir = None /\ tree[Root].kind = "directory" /\ tree[Root].maker = "before"
  /\ \A n \in Nodes : tree[n].maker = "nobody" => tree[n] = Unused
  /\ \A n \in Nodes : tree[n].dir # None => tree[tree[n].dir].maker # "nobody"
  /\ \A c, d \in Nodes :
       c # d /\ tree[c].dir = tree[d].dir /\ tree[c].dir # None /\ tree[c].name = tree[d].name
         => tree[c].name = Away

\* Nodes are taken in order; k of them are.
Taken(k) == \A n \in Nodes : tree[n] = Unused <=> n >= k

\* A node has the fields it is made of.
LEMMA NodeFields ==
  ASSUME NEW dir, NEW name, NEW kind, NEW maker
  PROVE  /\ Node(dir, name, kind, maker).dir = dir
         /\ Node(dir, name, kind, maker).name = name
         /\ Node(dir, name, kind, maker).kind = kind
         /\ Node(dir, name, kind, maker).maker = maker
BY DEF Node

\* A node that was never made stands nowhere and is nobody's.
LEMMA UnusedFields == Unused.dir = None /\ Unused.name = "nameless" /\ Unused.maker = "nobody"
<1>1. Unused.dir = None BY DEF Unused, Node
<1>2. Unused.name = "nameless" BY DEF Unused, Node
<1>3. Unused.maker = "nobody" BY DEF Unused, Node
<1> QED BY <1>1, <1>2, <1>3

\* A node that stands has a maker, and every node has its types.
LEMMA UsedNode ==
  ASSUME TreeSound, NEW n \in Nodes
  PROVE  /\ tree[n].dir # None => tree[n].maker # "nobody"
         /\ Stands(n) => tree[n].maker # "nobody"
         /\ tree[n] = Unused <=> tree[n].maker = "nobody"
         /\ tree[n].dir \in Pin /\ tree[n].name \in Names
         /\ tree[n].kind \in Kinds /\ tree[n].maker \in Makers
<1>1. tree[n] \in Things BY DEF TreeSound
<1>2. /\ tree[n].dir \in Pin /\ tree[n].name \in Names
      /\ tree[n].kind \in Kinds /\ tree[n].maker \in Makers
  BY <1>1 DEF Things
<1>3. tree[n].maker = "nobody" => tree[n] = Unused BY DEF TreeSound
<1>4. Stands(n) => tree[n].maker # "nobody"
  BY <1>3, UnusedFields DEF TreeSound, Stands
<1> QED BY <1>2, <1>3, <1>4, UnusedFields

\* Nodes are taken in order, so the next one is the first unused.
LEMMA NewNodeUnused ==
  ASSUME NEW k \in Nodes, Taken(k)
  PROVE  NewNode = k /\ tree[k] = Unused
<1> DEFINE S == {n \in Nodes : tree[n] = Unused}
<1>1. S \in SUBSET Nat /\ k \in S BY Sizes DEF Taken
<1>2. Min(S) \in S /\ \A y \in S : Min(S) <= y BY <1>1, HasMin
<1>3. Min(S) = k BY <1>1, <1>2, Sizes DEF Taken
<1> QED BY <1>1, <1>3 DEF NewNode

\* A new entry under a vacant name.
LEMMA PutKeeps ==
  ASSUME TreeSound, NEW k \in Nodes, Taken(k), NEW dir \in Nodes, NEW name \in Names,
         NEW kind \in Kinds, NEW maker \in Makers, maker # "nobody",
         Vacant(dir, name), Put(NewNode, Node(dir, name, kind, maker))
  PROVE  /\ TreeSound' /\ Taken(k + 1)' /\ NewNode = k /\ tree[k] = Unused
         /\ tree'[k] = Node(dir, name, kind, maker)
         /\ \A n \in Nodes : n # k => tree'[n] = tree[n]
<1>1. NewNode = k /\ tree[k] = Unused BY NewNodeUnused
<1>2. tree' = [tree EXCEPT ![k] = Node(dir, name, kind, maker)] BY <1>1 DEF Put
<1>3. tree \in [Nodes -> Things] BY DEF TreeSound
<1>4. Node(dir, name, kind, maker) \in Things
  BY Sizes DEF Node, Things, Pin
<1>5. /\ tree' \in [Nodes -> Things] /\ tree'[k] = Node(dir, name, kind, maker)
      /\ \A n \in Nodes : n # k => tree'[n] = tree[n]
  BY <1>2, <1>3, <1>4
<1>6. tree[dir].maker # "nobody" BY UsedNode DEF Vacant
<1>7. k # Root /\ dir # k
  <2>1. tree[Root].maker = "before" /\ tree[k].maker = "nobody"
    BY <1>1, UnusedFields DEF TreeSound
  <2> QED BY <2>1, <1>6
<1>8. tree'[k] # Unused /\ tree'[k].maker # "nobody"
  <2>1. tree'[k].maker = maker BY <1>5, NodeFields
  <2> QED BY <2>1, UnusedFields
<1>9. Taken(k + 1)'
  <2> SUFFICES ASSUME NEW n \in Nodes PROVE (tree'[n] = Unused) <=> n >= k + 1
    BY DEF Taken
  <2>1. n \in Int /\ k \in Int BY Sizes
  <2> QED BY <1>5, <1>8, <2>1 DEF Taken
<1>10. TreeSound'
  <2>1. tree'[Root] = tree[Root] BY <1>5, <1>7, Sizes
  <2>2. \A n \in Nodes : tree'[n].maker = "nobody" => tree'[n] = Unused
    BY <1>5, <1>8 DEF TreeSound
  <2>3. ASSUME NEW n \in Nodes, tree'[n].dir # None
        PROVE  tree'[tree'[n].dir].maker # "nobody"
    <3>1. CASE n = k
      <4>1. tree'[n].dir = dir BY <3>1, <1>5, NodeFields
      <4> QED BY <4>1, <1>5, <1>6, <1>7
    <3>2. CASE n # k
      <4>1. tree'[n].dir = tree[n].dir /\ tree[n].dir \in Nodes
        BY <3>2, <2>3, <1>5, UsedNode DEF Pin
      <4>2. tree[tree[n].dir].maker # "nobody" BY <2>3, <4>1 DEF TreeSound
      <4>3. tree[k].maker = "nobody" BY <1>1, UnusedFields
      <4> QED BY <4>1, <4>2, <4>3, <1>5
    <3> QED BY <3>1, <3>2
  <2>4. ASSUME NEW c \in Nodes, NEW d \in Nodes, c # d, tree'[c].dir = tree'[d].dir,
               tree'[c].dir # None, tree'[c].name = tree'[d].name
        PROVE  tree'[c].name = Away
    <3>1. \A n \in Nodes : ~ (tree[n].dir = dir /\ tree[n].name = name)
      BY EntryFound, Sizes DEF Vacant
    <3>2. tree'[k].dir = dir /\ tree'[k].name = name BY <1>5, NodeFields
    <3>3. c # k /\ d # k BY <2>4, <3>1, <3>2, <1>5
    <3> QED BY <2>4, <3>3, <1>5 DEF TreeSound
  <2> QED BY <1>5, <2>1, <2>2, <2>3, <2>4 DEF TreeSound
<1> QED BY <1>1, <1>5, <1>9, <1>10

\* An entry that moves to a name vacant there, or to the place nothing is
\* looked up in, and one that is removed or renamed over another.
LEMMA ChangeKeeps ==
  ASSUME TreeSound, NEW k \in Nat, Taken(k), NEW m \in Nodes, tree[m].dir # None,
         NEW dir \in Pin, NEW name \in Names, NEW gone \in Pin,
         dir # None => tree[dir].maker # "nobody",
         \A n \in Nodes :
           n # m /\ n # gone /\ dir # None /\ tree[n].dir = dir => tree[n].name # name \/ name = Away,
         tree' \in [Nodes -> Things],
         tree'[m].dir = dir, tree'[m].name = name, tree'[m].maker = tree[m].maker,
         \A n \in Nodes : n # m /\ n # gone => tree'[n] = tree[n],
         gone # None /\ gone # m =>
           /\ tree[gone].dir # None /\ tree'[gone].dir = None
           /\ tree'[gone].maker = tree[gone].maker
  PROVE  TreeSound' /\ Taken(k)' /\ \A n \in Nodes : tree'[n].maker = tree[n].maker
<1>1. m # Root /\ (gone # m => gone # Root)
  BY Sizes DEF TreeSound, Root, None
<1>2. ASSUME NEW n \in Nodes
      PROVE  /\ tree'[n].maker = tree[n].maker
             /\ tree[n].maker = "nobody" => tree'[n] = tree[n]
             /\ tree'[n] = Unused <=> tree[n] = Unused
  <2>1. tree'[n].maker = tree[n].maker BY <1>2, Sizes DEF Pin
  <2>2. ASSUME tree[n].maker = "nobody" PROVE tree'[n] = tree[n]
    <3>1. tree[n].dir = None BY <2>2, UsedNode
    <3> QED BY <3>1, Sizes
  <2>3. Unused.maker = "nobody" BY UnusedFields
  <2> QED BY <2>1, <2>2, <2>3, UsedNode
<1>3. Taken(k)' BY <1>2 DEF Taken
<1>4. tree'[Root] = tree[Root] BY <1>1, Sizes
<1>5. \A n \in Nodes : tree'[n].maker = "nobody" => tree'[n] = Unused
  BY <1>2 DEF TreeSound
<1>6. ASSUME NEW n \in Nodes, tree'[n].dir # None
      PROVE  tree'[tree'[n].dir].maker # "nobody"
  <2>1. tree'[n].dir \in Nodes
    <3>1. tree'[n] \in Things OBVIOUS
    <3> QED BY <3>1, <1>6 DEF Things, Pin
  <2>2. tree[tree'[n].dir].maker # "nobody"
    <3>1. CASE n = m BY <3>1, <1>6
    <3>2. CASE n # m
      <4>1. n # gone BY <3>2, <1>6, Sizes
      <4> QED BY <3>2, <4>1, <1>6 DEF TreeSound
    <3> QED BY <3>1, <3>2
  <2> QED BY <2>1, <2>2, <1>2
<1>7. ASSUME NEW c \in Nodes, NEW d \in Nodes, c # d, tree'[c].dir = tree'[d].dir,
             tree'[c].dir # None, tree'[c].name = tree'[d].name
      PROVE  tree'[c].name = Away
  <2>1. CASE c = m
    <3>1. d # m /\ d # gone BY <2>1, <1>7, Sizes
    <3>2. tree'[d] = tree[d] BY <3>1
    <3> QED BY <2>1, <3>1, <3>2, <1>7
  <2>2. CASE d = m
    <3>1. c # m /\ c # gone BY <2>2, <1>7, Sizes
    <3>2. tree'[c] = tree[c] BY <3>1
    <3> QED BY <2>2, <3>1, <3>2, <1>7
  <2>3. CASE c # m /\ d # m
    <3>1. c # gone /\ d # gone BY <2>3, <1>7, Sizes
    <3>2. tree'[c] = tree[c] /\ tree'[d] = tree[d] BY <2>3, <3>1
    <3> QED BY <3>2, <1>7 DEF TreeSound
  <2> QED BY <2>1, <2>2, <2>3
<1>8. TreeSound' BY <1>4, <1>5, <1>6, <1>7 DEF TreeSound
<1> QED BY <1>2, <1>3, <1>8

---------------------------------------------------------------------------
(* The levels recorded, and the pins on them that are given up.            *)

LevelRecords ==
  [level : Levels, node : Nodes, parent : Pin, own : Pin, parent_node : Nodes, synced : BOOLEAN]

Recorded(levels) ==
  /\ levels \in Seq(LevelRecords)
  /\ \A i \in DOMAIN levels :
       /\ levels[i].own \in {None, levels[i].node}
       /\ levels[i].parent \in {None, levels[i].parent_node}
       /\ i <= levels[i].level
       /\ \A j \in 1 .. (i - 1) : levels[j].level < levels[i].level

LetGo(levels, old) ==
  /\ levels \in Seq(LevelRecords) /\ Len(levels) = Len(old)
  /\ \A i \in 1 .. Len(old) :
       /\ levels[i].level = old[i].level /\ levels[i].node = old[i].node
       /\ levels[i].parent_node = old[i].parent_node
       /\ levels[i].own \in {None, old[i].own} /\ levels[i].parent \in {None, old[i].parent}

\* The fields of a recorded level.
LEMMA LevelTyped ==
  ASSUME NEW levels \in Seq(LevelRecords), NEW i \in 1 .. Len(levels)
  PROVE  /\ levels[i] \in LevelRecords /\ Len(levels) \in Nat /\ i \in Nat
         /\ levels[i].level \in Levels /\ levels[i].node \in Nodes
         /\ levels[i].parent \in Pin /\ levels[i].own \in Pin
         /\ levels[i].parent_node \in Nodes /\ levels[i].synced \in BOOLEAN
<1> DEFINE R == LevelRecords
<1>1. levels \in Seq(R) OBVIOUS
<1> HIDE DEF R
<1>2. levels[i] \in R /\ Len(levels) \in Nat /\ i \in Nat BY <1>1
<1> QED BY <1>2 DEF R, LevelRecords

\* Levels are recorded further and further in, so there are at most Depth.
LEMMA RecordedLength ==
  ASSUME NEW levels, Recorded(levels)
  PROVE  Len(levels) \in 0 .. Depth /\ DOMAIN levels = 1 .. Len(levels)
<1> DEFINE n == Len(levels)
<1>1. n \in Nat /\ DOMAIN levels = 1 .. n BY DEF Recorded
<1>2. CASE n = 0 BY <1>1, <1>2, Sizes
<1>3. CASE n # 0
  <2>1. n \in 1 .. Len(levels) BY <1>1, <1>3
  <2>2. levels[n].level \in Levels BY <2>1, LevelTyped DEF Recorded
  <2>3. n <= levels[n].level BY <1>1, <2>1 DEF Recorded
  <2> QED BY <1>1, <2>2, <2>3, Sizes
<1> QED BY <1>2, <1>3

\* Levels that only lose pins and gain syncs are levels let go of.
LEMMA LetGoOf ==
  ASSUME NEW old \in Seq(LevelRecords), NEW new,
         new = [i \in 1 .. Len(old) |-> new[i]],
         \A i \in 1 .. Len(old) :
           /\ new[i].level = old[i].level /\ new[i].node = old[i].node
           /\ new[i].parent_node = old[i].parent_node
           /\ new[i].own \in {None, old[i].own} /\ new[i].parent \in {None, old[i].parent}
           /\ new[i] = [level |-> new[i].level, node |-> new[i].node, parent |-> new[i].parent,
                        own |-> new[i].own, parent_node |-> new[i].parent_node,
                        synced |-> new[i].synced]
           /\ new[i].synced \in BOOLEAN
  PROVE  LetGo(new, old)
<1> DEFINE R == LevelRecords
<1>1. Len(old) \in Nat BY DEF R
<1>2. ASSUME NEW i \in 1 .. Len(old) PROVE new[i] \in R
  <2>1. /\ new[i].level \in Levels /\ new[i].node \in Nodes /\ new[i].parent \in Pin
        /\ new[i].own \in Pin /\ new[i].parent_node \in Nodes
    BY LevelTyped DEF Pin
  <2>2. new[i] = [level |-> new[i].level, node |-> new[i].node, parent |-> new[i].parent,
                  own |-> new[i].own, parent_node |-> new[i].parent_node,
                  synced |-> new[i].synced]
    OBVIOUS
  <2>3. new[i].synced \in BOOLEAN OBVIOUS
  <2> QED BY <2>1, <2>2, <2>3 DEF R, LevelRecords
<1>3. new \in Seq(R) /\ Len(new) = Len(old)
  <2> HIDE DEF R
  <2>1. new \in [1 .. Len(old) -> R] BY <1>2
  <2> QED BY <1>1, <2>1
<1> QED BY <1>3 DEF LetGo

LEMMA LetGoSelf == ASSUME NEW levels \in Seq(LevelRecords) PROVE LetGo(levels, levels)
BY DEF LetGo

\* Letting go twice is letting go.
LEMMA LetGoTwice ==
  ASSUME NEW old, NEW mid, NEW new, LetGo(mid, old), LetGo(new, mid)
  PROVE  LetGo(new, old)
BY DEF LetGo

\* Levels let go of are still recorded once each.
LEMMA LetGoRecorded ==
  ASSUME NEW old, NEW new, Recorded(old), LetGo(new, old)
  PROVE  Recorded(new)
<1> DEFINE n == Len(old)
<1>1. /\ n \in Nat /\ DOMAIN old = 1 .. n /\ DOMAIN new = 1 .. n /\ new \in Seq(LevelRecords)
      /\ old \in Seq(LevelRecords)
  BY DEF Recorded, LetGo
<1>2. ASSUME NEW i \in 1 .. n
      PROVE  /\ new[i].own \in {None, new[i].node}
             /\ new[i].parent \in {None, new[i].parent_node}
             /\ i <= new[i].level
             /\ \A j \in 1 .. (i - 1) : new[j].level < new[i].level
  <2>1. \A j \in 1 .. (i - 1) : j \in 1 .. n BY <1>1
  <2> QED BY <1>1, <2>1 DEF Recorded, LetGo
<1> QED BY <1>1, <1>2 DEF Recorded

\* Giving up an own pin lets go.
LEMMA LetGoOwn ==
  ASSUME NEW levels \in Seq(LevelRecords), NEW i
  PROVE  LetGo([levels EXCEPT ![i].own = None], levels)
<1> DEFINE new == [levels EXCEPT ![i].own = None]
<1>1. new = [j \in 1 .. Len(levels) |-> new[j]] OBVIOUS
<1>2. ASSUME NEW j \in 1 .. Len(levels)
      PROVE  /\ new[j].level = levels[j].level /\ new[j].node = levels[j].node
             /\ new[j].parent_node = levels[j].parent_node
             /\ new[j].own \in {None, levels[j].own} /\ new[j].parent \in {None, levels[j].parent}
             /\ new[j] = [level |-> new[j].level, node |-> new[j].node, parent |-> new[j].parent,
                        own |-> new[j].own, parent_node |-> new[j].parent_node,
                        synced |-> new[j].synced]
             /\ new[j].synced \in BOOLEAN
  <2>1. levels[j] \in LevelRecords BY LevelTyped
  <2>2. new[j] = IF i = j THEN [levels[j] EXCEPT !.own = None] ELSE levels[j] OBVIOUS
  <2> HIDE DEF new
  <2> QED BY <2>1, <2>2 DEF LevelRecords
<1> HIDE DEF new
<1>3. LetGo(new, levels) BY <1>1, <1>2, LetGoOf
<1> QED BY <1>3 DEF new

\* The other ways a level's record changes.
LEMMA LetGoEach ==
  ASSUME NEW levels \in Seq(LevelRecords), NEW new,
         new = [i \in 1 .. Len(levels) |-> new[i]],
         \A i \in 1 .. Len(levels) :
           \E own \in {None, levels[i].own}, parent \in {None, levels[i].parent},
              synced \in BOOLEAN :
             new[i] = [levels[i] EXCEPT !.own = own, !.parent = parent, !.synced = synced]
  PROVE  LetGo(new, levels)
<1>1. ASSUME NEW j \in 1 .. Len(levels)
      PROVE  /\ new[j].level = levels[j].level /\ new[j].node = levels[j].node
             /\ new[j].parent_node = levels[j].parent_node
             /\ new[j].own \in {None, levels[j].own} /\ new[j].parent \in {None, levels[j].parent}
             /\ new[j] = [level |-> new[j].level, node |-> new[j].node, parent |-> new[j].parent,
                        own |-> new[j].own, parent_node |-> new[j].parent_node,
                        synced |-> new[j].synced]
             /\ new[j].synced \in BOOLEAN
  <2>1. PICK own \in {None, levels[j].own}, parent \in {None, levels[j].parent}, synced \in BOOLEAN :
          new[j] = [levels[j] EXCEPT !.own = own, !.parent = parent, !.synced = synced]
    OBVIOUS
  <2>2. levels[j] \in LevelRecords BY LevelTyped
  <2> QED BY <2>1, <2>2 DEF LevelRecords
<1> QED BY <1>1, LetGoOf

\* The lemmas below are about updates of one level of a sequence of them.
LEMMA LevelSame ==
  ASSUME NEW r \in LevelRecords
  PROVE  r = [r EXCEPT !.own = r.own, !.parent = r.parent, !.synced = r.synced]
BY DEF LevelRecords

LEMMA UpdatedAt ==
  ASSUME NEW S, NEW f \in Seq(S), NEW i, NEW r
  PROVE  [f EXCEPT ![i] = r] = [j \in 1 .. Len(f) |-> IF j = i THEN r ELSE f[j]]
OBVIOUS

LEMMA LevelsUpdated ==
  ASSUME NEW levels \in Seq(LevelRecords), NEW i, NEW r
  PROVE  [levels EXCEPT ![i] = r] = [j \in 1 .. Len(levels) |-> IF j = i THEN r ELSE levels[j]]
BY UpdatedAt

\* An update of one level that only drops pins and adds a sync lets go.
LEMMA LetGoAt ==
  ASSUME NEW levels \in Seq(LevelRecords), NEW i, NEW r,
         i \in 1 .. Len(levels) =>
           \E own \in {None, levels[i].own}, parent \in {None, levels[i].parent}, synced \in BOOLEAN :
             r = [levels[i] EXCEPT !.own = own, !.parent = parent, !.synced = synced]
  PROVE  LetGo([levels EXCEPT ![i] = r], levels)
<1> DEFINE new == [levels EXCEPT ![i] = r]
<1>1. new = [j \in 1 .. Len(levels) |-> IF j = i THEN r ELSE levels[j]] BY LevelsUpdated
<1> HIDE DEF new
<1>2. new = [j \in 1 .. Len(levels) |-> new[j]] BY <1>1
<1>3. ASSUME NEW j \in 1 .. Len(levels)
      PROVE  \E own \in {None, levels[j].own}, parent \in {None, levels[j].parent}, synced \in BOOLEAN :
               new[j] = [levels[j] EXCEPT !.own = own, !.parent = parent, !.synced = synced]
  <2>1. CASE j = i
    <3>1. new[j] = r BY <1>1, <2>1
    <3> QED BY <2>1, <3>1
  <2>2. CASE j # i
    <3>1. levels[j] \in LevelRecords /\ levels[j].synced \in BOOLEAN BY LevelTyped
    <3>2. new[j] = levels[j] BY <1>1, <2>2
    <3>3. levels[j] = [levels[j] EXCEPT !.own = levels[j].own, !.parent = levels[j].parent,
                                        !.synced = levels[j].synced]
      BY <3>1, LevelSame
    <3> QED BY <3>1, <3>2, <3>3
  <2> QED BY <2>1, <2>2
<1>4. LetGo(new, levels) BY <1>2, <1>3, LetGoEach
<1> QED BY <1>4 DEF new

LEMMA TwoFields ==
  ASSUME NEW f, NEW i, NEW a, NEW b
  PROVE  [f EXCEPT ![i].own = a, ![i].parent = b]
           = [f EXCEPT ![i] = [f[i] EXCEPT !.own = a, !.parent = b]]
OBVIOUS

LEMMA SyncedField ==
  ASSUME NEW f, NEW i, NEW a
  PROVE  [f EXCEPT ![i].synced = a] = [f EXCEPT ![i] = [f[i] EXCEPT !.synced = a]]
OBVIOUS

LEMMA LetGoThree ==
  ASSUME NEW levels \in Seq(LevelRecords), NEW i, NEW c \in BOOLEAN
  PROVE  LetGo([levels EXCEPT ![i].own = None, ![i].parent = None, ![i].synced = c], levels)
<1>1. SUFFICES ASSUME NEW r, r = [levels[i] EXCEPT !.own = None, !.parent = None, !.synced = c]
               PROVE  LetGo([levels EXCEPT ![i].own = None, ![i].parent = None, ![i].synced = c],
                            levels)
  OBVIOUS
<1>2. [levels EXCEPT ![i].own = None, ![i].parent = None, ![i].synced = c]
        = [levels EXCEPT ![i] = r]
  BY <1>1
<1>3. LetGo([levels EXCEPT ![i] = r], levels)
  <2>1. i \in 1 .. Len(levels) =>
          \E own \in {None, levels[i].own}, parent \in {None, levels[i].parent}, synced \in BOOLEAN :
            r = [levels[i] EXCEPT !.own = own, !.parent = parent, !.synced = synced]
    BY <1>1
  <2> QED BY <2>1, LetGoAt
<1> QED BY <1>2, <1>3

\* Giving up the outermost pin lets go, and so does each way to give up others.
LEMMA ShedLetsGo ==
  ASSUME NEW levels \in Seq(LevelRecords), NEW standing
  PROVE  LetGo(Shed(levels, standing), levels)
<1> DEFINE i == Min(Pinned(levels))
<1> DEFINE unsynced == levels[i].parent # None /\ ~levels[i].synced
<1> DEFINE full == Full(levels, standing)
<1> DEFINE spare == Unshared(levels, standing)
<1> DEFINE freed == IF unsynced /\ full /\ spare # {}
                      THEN [levels EXCEPT ![Max(spare)].own = None] ELSE levels
<1> DEFINE done == levels[i].synced \/ (unsynced /\ (~full \/ spare # {}))
<1> DEFINE new == [freed EXCEPT ![i].own = None, ![i].parent = None, ![i].synced = done]
<1>1. Shed(levels, standing) = new BY DEF Shed
<1>2. LetGo(freed, levels) BY LetGoOwn, LetGoSelf
<1>3. done \in BOOLEAN OBVIOUS
<1> HIDE DEF freed, i, done
<1>4. freed \in Seq(LevelRecords) BY <1>2 DEF LetGo
<1>5. LetGo(new, freed) BY <1>3, <1>4, LetGoThree
<1> HIDE DEF new
<1> QED BY <1>1, <1>2, <1>5, LetGoTwice

LEMMA TrimLetsGo ==
  ASSUME NEW levels \in Seq(LevelRecords), NEW standing
  PROVE  LetGo(Trim(levels, standing), levels)
BY ShedLetsGo, LetGoSelf DEF Trim

LEMMA SyncedInLetsGo ==
  ASSUME NEW levels \in Seq(LevelRecords), NEW here
  PROVE  LetGo(SyncedIn(levels, here), levels)
<1> DEFINE new == SyncedIn(levels, here)
<1>1. new = [i \in DOMAIN levels |->
               [levels[i] EXCEPT !.synced = @ \/ levels[i].parent_node = here]]
  BY DEF SyncedIn
<1>2. DOMAIN levels = 1 .. Len(levels) OBVIOUS
<1> HIDE DEF new
<1>3. new = [j \in 1 .. Len(levels) |-> new[j]] BY <1>1, <1>2
<1>4. ASSUME NEW j \in 1 .. Len(levels)
      PROVE  \E own \in {None, levels[j].own}, parent \in {None, levels[j].parent}, synced \in BOOLEAN :
               new[j] = [levels[j] EXCEPT !.own = own, !.parent = parent, !.synced = synced]
  <2> DEFINE done == levels[j].synced \/ levels[j].parent_node = here
  <2>1. levels[j] \in LevelRecords BY LevelTyped
  <2>2. new[j] = [levels[j] EXCEPT !.synced = done] BY <1>1, <1>2
  <2>3. done \in BOOLEAN OBVIOUS
  <2> HIDE DEF done
  <2>4. new[j] = [levels[j] EXCEPT !.own = levels[j].own, !.parent = levels[j].parent,
                                   !.synced = done]
    BY <2>1, <2>2 DEF LevelRecords
  <2> QED BY <2>3, <2>4
<1>5. LetGo(new, levels) BY <1>3, <1>4, LetGoEach
<1> QED BY <1>5 DEF new

LEMMA ReleaseLetsGo ==
  ASSUME NEW levels \in Seq(LevelRecords)
  PROVE  LetGo(Release(levels), levels)
<1> DEFINE closing == {i \in DOMAIN levels :
                         /\ levels[i].synced /\ levels[i].parent # None
                         /\ \A j \in DOMAIN levels : levels[j].own # levels[i].parent}
<1> DEFINE drops(i) == levels[i].synced /\ (closing = {} \/ i >= Max(closing))
<1> DEFINE dropped == [i \in DOMAIN levels |->
                         IF levels[i].synced /\ (closing = {} \/ i >= Max(closing))
                           THEN [levels[i] EXCEPT !.parent = None] ELSE levels[i]]
<1> DEFINE spare == Unshared(dropped, None)
<1>1. Release(levels) = IF closing = {} /\ spare # {}
                          THEN [dropped EXCEPT ![Max(spare)].own = None] ELSE dropped
  BY DEF Release
<1>2. dropped = [i \in DOMAIN levels |->
                   IF drops(i) THEN [levels[i] EXCEPT !.parent = None] ELSE levels[i]]
  OBVIOUS
<1> HIDE DEF drops, closing, dropped, spare
<1>3. DOMAIN levels = 1 .. Len(levels) OBVIOUS
<1>4. dropped = [j \in 1 .. Len(levels) |-> dropped[j]] BY <1>2, <1>3, SMTT(30)
<1>5. ASSUME NEW j \in 1 .. Len(levels)
      PROVE  \E own \in {None, levels[j].own}, parent \in {None, levels[j].parent}, synced \in BOOLEAN :
               dropped[j] = [levels[j] EXCEPT !.own = own, !.parent = parent, !.synced = synced]
  <2>1. levels[j] \in LevelRecords /\ levels[j].synced \in BOOLEAN BY LevelTyped
  <2>2. CASE drops(j)
    <3>1. dropped[j] = [levels[j] EXCEPT !.parent = None] BY <1>2, <1>3, <2>2
    <3>2. dropped[j] = [levels[j] EXCEPT !.own = levels[j].own, !.parent = None,
                                         !.synced = levels[j].synced]
      BY <2>1, <3>1 DEF LevelRecords
    <3> QED BY <2>1, <3>2
  <2>3. CASE ~drops(j)
    <3>1. dropped[j] = levels[j] BY <1>2, <1>3, <2>3
    <3>2. levels[j] = [levels[j] EXCEPT !.own = levels[j].own, !.parent = levels[j].parent,
                                        !.synced = levels[j].synced]
      BY <2>1, LevelSame
    <3> QED BY <2>1, <3>1, <3>2
  <2> QED BY <2>2, <2>3
<1>6. LetGo(dropped, levels) BY <1>4, <1>5, LetGoEach
<1>7. dropped \in Seq(LevelRecords) BY <1>6 DEF LetGo
<1>8. LetGo([dropped EXCEPT ![Max(spare)].own = None], dropped) BY <1>7, LetGoOwn
<1>9. LetGo([dropped EXCEPT ![Max(spare)].own = None], levels) BY <1>6, <1>8, LetGoTwice
<1> QED BY <1>1, <1>6, <1>9

\* A step that syncs one level, or closes the pins of another for it.
LEMMA SyncLetsGo ==
  ASSUME NEW levels \in Seq(LevelRecords), NEW i
  PROVE  /\ LetGo([levels EXCEPT ![i].synced = TRUE], levels)
         /\ LetGo([levels EXCEPT ![i].own = None, ![i].parent = None], levels)
<1>1. LetGo([levels EXCEPT ![i].synced = TRUE], levels)
  <2> DEFINE r == [levels[i] EXCEPT !.synced = TRUE]
  <2>1. [levels EXCEPT ![i].synced = TRUE] = [levels EXCEPT ![i] = r] BY SyncedField
  <2>2. ASSUME i \in 1 .. Len(levels)
        PROVE  r = [levels[i] EXCEPT !.own = levels[i].own, !.parent = levels[i].parent,
                                     !.synced = TRUE]
    <3>1. levels[i] \in LevelRecords BY <2>2, LevelTyped
    <3> QED BY <3>1 DEF LevelRecords
  <2> HIDE DEF r
  <2>3. LetGo([levels EXCEPT ![i] = r], levels) BY <2>2, LetGoAt
  <2> QED BY <2>1, <2>3
<1>2. LetGo([levels EXCEPT ![i].own = None, ![i].parent = None], levels)
  <2> DEFINE r == [levels[i] EXCEPT !.own = None, !.parent = None]
  <2>1. [levels EXCEPT ![i].own = None, ![i].parent = None] = [levels EXCEPT ![i] = r]
    BY TwoFields
  <2>2. ASSUME i \in 1 .. Len(levels)
        PROVE  /\ r = [levels[i] EXCEPT !.own = None, !.parent = None,
                                        !.synced = levels[i].synced]
               /\ levels[i].synced \in BOOLEAN
    <3>1. levels[i] \in LevelRecords BY <2>2, LevelTyped
    <3> QED BY <3>1 DEF LevelRecords
  <2> HIDE DEF r
  <2>3. LetGo([levels EXCEPT ![i] = r], levels) BY <2>2, LetGoAt
  <2> QED BY <2>1, <2>3
<1> QED BY <1>1, <1>2

---------------------------------------------------------------------------
(* Where an import can be, and what it holds there.                        *)

Walking == {"make", "existing", "identify", "entry", "reopen"}
Backing == {"undo", "claim", "vouch", "capture", "check", "unlink", "putback"}
Pcs == {"survey", "start"} \union Walking \union Backing
       \union {"acquire", "climb", "levels", "temporary", "assemble", "publish", "discard"}
       \union {"tidy", "remove", "done", "failed"}

WalkControls ==
  /\ pc \in Pcs /\ host \in Hosts /\ upsets \in 0 .. host.upsets /\ depth \in 1 .. (Depth + 1)
  /\ pc = "survey" => depth = 1
  /\ pc \in {"survey", "start"} \union Walking =>
       depth <= Depth /\ \A i \in DOMAIN created : created[i].level < depth
  /\ walk \in Pin /\ (pc \in Walking => walk # None)
  /\ fresh \in [node : Pin, synced : BOOLEAN]
  /\ pc \in {"entry", "reopen", "climb"} => fresh.node # None

UndoControls ==
  /\ dest \in Pin /\ temp \in Pin /\ home \in Pin /\ quarantine \in Pin
  /\ cursor \in 0 .. (Depth + 1)
  /\ pc \in {"temporary", "assemble", "publish"} => dest # None
  /\ pc = "levels" => cursor # 0
  /\ pc \in Backing => cursor <= Len(created)
  /\ pc \in Backing \ {"undo"} => cursor # 0 /\ created[cursor].parent # None
  /\ pc = "vouch" \/ quarantine # None => home # None
  /\ pc \in {"capture", "check", "unlink", "putback", "tidy", "remove"} => quarantine # None
  /\ pc \in {"survey", "start", "acquire", "climb", "levels", "temporary", "assemble",
             "publish", "discard", "claim", "vouch", "done"} \union Walking => quarantine = None

PackControls ==
  /\ temp # None => tree[temp].maker = "temporary"
  /\ pc \in {"assemble", "publish", "discard"} =>
       temp # None /\ tree[temp].dir # None /\ tree[temp].kind # "directory"
  /\ pc \in {"assemble", "publish"} => tree[temp].dir = dest /\ tree[temp].name = "temporary"

\* The nodes an import has used by then, at most: the level being made, the
\* temporary pack and the quarantine are one each.
LevelsUsed(p, d) == IF p \in {"survey", "start", "make", "existing"} THEN d - 1
                    ELSE IF p \in {"identify", "entry", "reopen"} THEN d ELSE Depth
PacksUsed(p) ==
  IF p \in {"survey", "start", "acquire", "climb", "levels", "temporary"} \union Walking
  THEN 0 ELSE 1
HidesUsed(p, q) == IF q = None /\ p \notin {"vouch", "failed"} THEN 0 ELSE 1
Allotted(p, d, q, u) ==
  2 + Depth + LevelsUsed(p, d) + PacksUsed(p) + HidesUsed(p, q) + u

Supplied ==
  \E k \in Nat : Taken(k) /\ 1 <= k /\ k <= Allotted(pc, depth, quarantine, upsets)

Shape ==
  TreeSound /\ Supplied /\ Recorded(created) /\ WalkControls /\ UndoControls /\ PackControls

\* The types of a node that is made, and of the names in use.
LEMMA NodeTyped ==
  ASSUME NEW dir \in Pin, NEW name \in Names, NEW kind \in Kinds, NEW maker \in Makers
  PROVE  Node(dir, name, kind, maker) \in Things
BY DEF Node, Things

LEMMA NamesTyped ==
  /\ None \in Pin /\ "nameless" \in Names /\ "pack" \in Names /\ "temporary" \in Names
  /\ Quarantined \in Names /\ Captured \in Names /\ Aside \in Names /\ Away \in Names
  /\ Range(LevelNames) \subseteq Names
  /\ {"directory", "unfinished", "pack", "former", "rom"} = Kinds
  /\ {"nobody", "before", "level", "temporary", "quarantine", "other"} = Makers
BY DEF Pin, Names, Kinds, Makers

\* The tree an import finds is a tree, its nodes taken in order.
LEMMA FirstTree ==
  ASSUME NEW top \in Nat, top >= 1, tree = [n \in Nodes |-> tree[n]],
         tree[Root] = Node(None, "nameless", "directory", "before"),
         \A n \in Nodes :
           /\ n >= top => tree[n] = Unused
           /\ 0 < n /\ n < top =>
                \E name \in Names, kind \in Kinds : tree[n] = Node(n - 1, name, kind, "before")
  PROVE  TreeSound /\ Taken(top)
<1>1. Root \in Nodes /\ Root = 0 BY Sizes DEF Root
<1>2. ASSUME NEW n \in Nodes PROVE n \in Int /\ n >= 0 /\ (n > 0 => n - 1 \in Nodes) BY Sizes
<1>3. ASSUME NEW n \in Nodes
      PROVE  /\ tree[n] \in Things
             /\ n < top => tree[n].maker = "before"
             /\ tree[n].dir # None => n < top /\ tree[n].dir = n - 1 /\ n > 0
  <2>1. CASE n = 0
    <3>1. tree[n] = Node(None, "nameless", "directory", "before") BY <1>1, <2>1
    <3>2. tree[n] \in Things BY <3>1, NodeTyped, NamesTyped
    <3>3. tree[n].maker = "before" BY <3>1, NodeFields
    <3>4. tree[n].dir = None BY <3>1, NodeFields
    <3> QED BY <3>2, <3>3, <3>4
  <2>2. CASE 0 < n /\ n < top
    <3>1. PICK name \in Names, kind \in Kinds : tree[n] = Node(n - 1, name, kind, "before")
      BY <2>2
    <3>2. n - 1 \in Pin BY <1>2, <2>2 DEF Pin
    <3>3. tree[n] \in Things BY <3>1, <3>2 DEF Things, Makers, Node
    <3>4. tree[n].maker = "before" BY <3>1, NodeFields
    <3>5. tree[n].dir = n - 1 BY <3>1, NodeFields
    <3> QED BY <3>3, <3>4, <3>5, <2>2
  <2>3. CASE n >= top
    <3>1. tree[n] = Unused BY <2>3
    <3>2. tree[n] \in Things BY <3>1, NodeTyped, NamesTyped DEF Unused
    <3>3. tree[n].dir = None BY <3>1, UnusedFields
    <3> QED BY <3>2, <3>3, <1>2, <2>3
  <2> QED BY <2>1, <2>2, <2>3, <1>2
<1>4. tree \in [Nodes -> Things] BY <1>3
<1>5. tree[Root].dir = None BY NodeFields
<1>6. tree[Root].kind = "directory" BY NodeFields
<1>7. tree[Root].maker = "before" BY NodeFields
<1>8. \A n \in Nodes : tree[n].maker = "nobody" => tree[n] = Unused
  <2> SUFFICES ASSUME NEW n \in Nodes, tree[n].maker = "nobody" PROVE n >= top OBVIOUS
  <2>1. ~ (n < top) BY <1>3
  <2> QED BY <2>1, <1>2
<1>9. ASSUME NEW n \in Nodes, tree[n].dir # None PROVE tree[tree[n].dir].maker # "nobody"
  <2>1. n - 1 \in Nodes /\ n - 1 < top /\ tree[n].dir = n - 1 BY <1>2, <1>3, <1>9
  <2> QED BY <2>1, <1>3
<1>10. \A c, d \in Nodes : tree[c].dir = tree[d].dir /\ tree[c].dir # None => c = d
  BY <1>2, <1>3
<1>11. Taken(top)
  <2> SUFFICES ASSUME NEW n \in Nodes PROVE tree[n] = Unused <=> n >= top BY DEF Taken
  <2>1. n < top => tree[n] # Unused BY <1>3, UnusedFields
  <2> QED BY <2>1, <1>2
<1> QED BY <1>4, <1>5, <1>6, <1>7, <1>8, <1>9, <1>10, <1>11 DEF TreeSound

LEMMA ShapeInit == Init => Shape
<1> SUFFICES ASSUME Init PROVE Shape OBVIOUS
<1>1. PICK there \in 0 .. Depth, occupant \in {"nothing", "former", "rom", "directory"} :
        tree = [n \in Nodes |->
             CASE n = Root -> Node(None, "nameless", "directory", "before")
               [] n \in 1 .. there -> Node(n - 1, LevelNames[n], "directory", "before")
               [] n = there + 1 /\ occupant # "nothing" -> Node(there, "pack", occupant, "before")
               [] OTHER -> Unused]
  BY DEF Init
<1>2. tree = [n \in Nodes |-> tree[n]] BY <1>1
<1>3. ASSUME NEW n \in Nodes
      PROVE  /\ n = Root => tree[n] = Node(None, "nameless", "directory", "before")
             /\ n \in 1 .. there => tree[n] = Node(n - 1, LevelNames[n], "directory", "before")
             /\ n = there + 1 /\ occupant # "nothing"
                  => tree[n] = Node(there, "pack", occupant, "before")
             /\ n # Root /\ n \notin 1 .. there /\ ~ (n = there + 1 /\ occupant # "nothing")
                  => tree[n] = Unused
  <2>1. there \in Nat /\ Root = 0 BY Sizes DEF Root
  <2>2. tree[n] = CASE n = Root -> Node(None, "nameless", "directory", "before")
               [] n \in 1 .. there -> Node(n - 1, LevelNames[n], "directory", "before")
               [] n = there + 1 /\ occupant # "nothing" -> Node(there, "pack", occupant, "before")
               [] OTHER -> Unused
    BY <1>1
  <2>3. n \in 1 .. there => n # Root BY <2>1
  <2>4. n = there + 1 => n # Root /\ n \notin 1 .. there BY <2>1
  <2> QED BY <2>2, <2>3, <2>4, Zenon
<1>4. PICK top \in Nat : /\ top = IF occupant # "nothing" THEN there + 2 ELSE there + 1
                         /\ top >= 1 /\ top <= 2 + Depth
  <2>1. there \in Nat /\ there <= Depth /\ Depth \in Nat BY Sizes
  <2>2. CASE occupant = "nothing"
    <3>1. there + 1 \in Nat /\ there + 1 >= 1 /\ there + 1 <= 2 + Depth BY <2>1
    <3> QED BY <2>2, <3>1
  <2>3. CASE occupant # "nothing"
    <3>1. there + 2 \in Nat /\ there + 2 >= 1 /\ there + 2 <= 2 + Depth BY <2>1
    <3> QED BY <2>3, <3>1
  <2> QED BY <2>2, <2>3
<1>5. TreeSound /\ Taken(top)
  <2>1. Root \in Nodes /\ Root = 0 /\ there \in Nat /\ there <= Depth BY Sizes DEF Root
  <2>2. tree[Root] = Node(None, "nameless", "directory", "before") BY <1>3, <2>1
  <2>3. ASSUME NEW n \in Nodes, n >= top PROVE tree[n] = Unused
    <3>1. n \in Int BY Sizes
    <3>2. n # Root /\ n \notin 1 .. there /\ ~ (n = there + 1 /\ occupant # "nothing")
      BY <1>4, <2>1, <2>3, <3>1
    <3> QED BY <1>3, <3>2
  <2>4. ASSUME NEW n \in Nodes, 0 < n, n < top
        PROVE  \E name \in Names, kind \in Kinds : tree[n] = Node(n - 1, name, kind, "before")
    <3>1. n \in Int BY Sizes
    <3>2. n \in 1 .. there \/ (n = there + 1 /\ occupant # "nothing") BY <1>4, <2>1, <2>4, <3>1
    <3>3. CASE n \in 1 .. there
      <4>1. tree[n] = Node(n - 1, LevelNames[n], "directory", "before") BY <1>3, <3>3
      <4>2. n \in Levels BY <2>1, <3>3, Sizes
      <4>3. LevelNames[n] \in Names /\ "directory" \in Kinds BY <4>2, Sizes, NamesTyped
      <4> QED BY <4>1, <4>3
    <3>4. CASE n = there + 1 /\ occupant # "nothing"
      <4>1. tree[n] = Node(there, "pack", occupant, "before") BY <1>3, <3>4
      <4>2. there = n - 1 BY <2>1, <3>4
      <4>3. occupant \in Kinds /\ "pack" \in Names BY <3>4, NamesTyped
      <4> QED BY <4>1, <4>2, <4>3
    <3> QED BY <3>2, <3>3, <3>4
  <2> QED BY <1>2, <1>4, <2>2, <2>3, <2>4, FirstTree
<1>6. Supplied
  <2>1. /\ pc = "survey" /\ depth = 1 /\ quarantine = None /\ upsets = 0 BY DEF Init
  <2>2. Allotted("survey", 1, None, 0) = 2 + Depth
    BY Sizes DEF Allotted, LevelsUsed, PacksUsed, HidesUsed
  <2> QED BY <2>1, <2>2, <1>4, <1>5 DEF Supplied
<1>7. Recorded(created)
  <2>1. created = <<>> BY DEF Init
  <2> QED BY <2>1 DEF Recorded
<1>8. WalkControls
  <2>1. host \in Hosts /\ host.upsets \in Nat BY ImportAssumption DEF Init
  <2> QED BY <2>1, Sizes DEF Init, WalkControls, Pcs, Walking, Pin
<1>9. UndoControls /\ PackControls
  BY Sizes DEF Init, UndoControls, PackControls, Backing, Walking, Pin
<1> QED BY <1>5, <1>6, <1>7, <1>8, <1>9 DEF Shape

---------------------------------------------------------------------------
(* Steps that look but leave every node where it is.                       *)

\* The account grows with the levels made, the pack, the quarantine and the
\* upsets, and never shrinks.
LEMMA AllottedGrows ==
  ASSUME NEW p, NEW q, NEW d \in 1 .. (Depth + 1), NEW u \in Nat,
         NEW p2, NEW q2, NEW d2 \in 1 .. (Depth + 1),
         LevelsUsed(p, d) <= LevelsUsed(p2, d2), PacksUsed(p) <= PacksUsed(p2),
         HidesUsed(p, q) <= HidesUsed(p2, q2)
  PROVE  /\ Allotted(p, d, q, u) <= Allotted(p2, d2, q2, u)
         /\ Allotted(p2, d2, q2, u) \in Int
         /\ Allotted(p, d, q, u) \in Int
<1>1. /\ LevelsUsed(p, d) \in Int /\ LevelsUsed(p2, d2) \in Int
      /\ PacksUsed(p) \in Int /\ PacksUsed(p2) \in Int
      /\ HidesUsed(p, q) \in Int /\ HidesUsed(p2, q2) \in Int /\ Depth \in Int
      /\ Allotted(p, d, q, u) \in Int /\ Allotted(p2, d2, q2, u) \in Int
  BY Sizes DEF LevelsUsed, PacksUsed, HidesUsed, Allotted
<1> QED BY <1>1 DEF Allotted

LEMMA SuppliedKept ==
  ASSUME Supplied, WalkControls, UNCHANGED <<tree, upsets>>, depth' \in 1 .. (Depth + 1),
         LevelsUsed(pc, depth) <= LevelsUsed(pc', depth'), PacksUsed(pc) <= PacksUsed(pc'),
         HidesUsed(pc, quarantine) <= HidesUsed(pc', quarantine')
  PROVE  Supplied'
<1>1. PICK k \in Nat : Taken(k) /\ 1 <= k /\ k <= Allotted(pc, depth, quarantine, upsets)
  BY DEF Supplied
<1>2. SUFFICES ASSUME NEW p2, NEW d2, NEW q2, p2 = pc', d2 = depth', q2 = quarantine'
               PROVE  Supplied'
  OBVIOUS
<1>3. upsets \in Nat /\ depth \in 1 .. (Depth + 1) /\ d2 \in 1 .. (Depth + 1)
  <2>1. host.upsets \in Nat BY ImportAssumption DEF WalkControls
  <2> QED BY <2>1, <1>2 DEF WalkControls
<1>4. /\ LevelsUsed(pc, depth) <= LevelsUsed(p2, d2) /\ PacksUsed(pc) <= PacksUsed(p2)
      /\ HidesUsed(pc, quarantine) <= HidesUsed(p2, q2)
  BY <1>2
<1>5. /\ Allotted(pc, depth, quarantine, upsets) <= Allotted(p2, d2, q2, upsets)
      /\ Allotted(p2, d2, q2, upsets) \in Int /\ Allotted(pc, depth, quarantine, upsets) \in Int
  BY <1>3, <1>4, AllottedGrows
<1>6. k <= Allotted(p2, d2, q2, upsets) BY <1>1, <1>5
<1>7. Taken(k)' BY <1>1 DEF Taken
<1> QED BY <1>1, <1>2, <1>6, <1>7 DEF Supplied

\* A step that leaves the tree alone keeps it sound.
LEMMA ShapeStays ==
  ASSUME Shape, UNCHANGED <<tree, upsets>>, depth' \in 1 .. (Depth + 1),
         LevelsUsed(pc, depth) <= LevelsUsed(pc', depth'), PacksUsed(pc) <= PacksUsed(pc'),
         HidesUsed(pc, quarantine) <= HidesUsed(pc', quarantine'),
         Recorded(created'), WalkControls', UndoControls', PackControls'
  PROVE  Shape'
<1>1. TreeSound' BY DEF Shape, TreeSound
<1>2. Supplied' BY SuppliedKept DEF Shape
<1> QED BY <1>1, <1>2 DEF Shape

\* A path leads to a node or to none.
LEMMA PathTyped ==
  ASSUME TreeSound, NEW k \in 0 .. Depth
  PROVE  Path[k] \in Pin /\ (Path[k] # None => tree[Path[k]].maker # "nobody")
<1>1. CASE k = 0 BY <1>1, PathDefined, Sizes DEF TreeSound, Pin
<1>2. CASE k # 0
  <2>1. k \in 1 .. Depth BY <1>2, Sizes
  <2>2. \/ Path[k] = None
        \/ Path[k] = Entry(Path[k - 1], LevelNames[k]) /\ IsDirectory(Path[k - 1])
    BY <2>1, <1>2, PathDefined
  <2>3. CASE Path[k] = None BY <2>3 DEF Pin
  <2>4. CASE Path[k] # None
    <3>1. Path[k] \in Nodes /\ tree[Path[k]].dir = Path[k - 1] /\ Path[k - 1] # None
      BY <2>2, <2>4, EntryFound DEF IsDirectory
    <3> QED BY <3>1, UsedNode DEF Pin
  <2> QED BY <2>3, <2>4
<1> QED BY <1>1, <1>2

LEMMA SurveyKeepsShape ==
  ASSUME Shape, Survey, UNCHANGED <<host, upsets, raced>>
  PROVE  Shape'
<1> DEFINE S == {k \in 0 .. Depth : IsDirectory(Path[k])}
<1>1. S \in SUBSET (0 .. Depth) /\ 0 \in S
  BY PathDefined, Sizes DEF IsDirectory, Shape, TreeSound
<1>2. Max(S) \in 0 .. Depth BY <1>1, HasMax, Sizes
<1>3. PICK there \in 0 .. Depth :
        /\ depth' = there + 1
        /\ pc' = IF there = Depth THEN "acquire" ELSE "start"
  <2> HIDE DEF S
  <2> QED BY <1>2 DEF Survey, S
<1>4. there \in Nat /\ Depth \in Nat /\ there + 1 \in 1 .. (Depth + 1)
      /\ (there # Depth => there + 1 <= Depth)
  BY Sizes
<1>5. /\ pc = "survey" /\ depth = 1
      /\ UNCHANGED <<tree, walk, fresh, created, dest, temp, undoing, host, upsets>>
  BY DEF Survey, Shape, WalkControls
<1>6. Recorded(created') BY <1>5 DEF Shape
<1>7. WalkControls'
  <2>1. ASSUME NEW i \in DOMAIN created PROVE created[i].level < there + 1
    <3>1. created[i].level \in Levels
      BY RecordedLength, LevelTyped DEF Shape, Recorded
    <3>2. created[i].level < 1 BY <1>5 DEF Shape, WalkControls
    <3> QED BY <3>1, <3>2, Sizes
  <2>2. pc' \in {"acquire", "start"} /\ (pc' = "start" => there + 1 <= Depth)
    BY <1>3, <1>4
  <2>3. depth' \in 1 .. (Depth + 1) BY <1>3, <1>4
  <2>4. /\ host' = host /\ upsets' = upsets /\ created' = created /\ walk' = walk
        /\ fresh' = fresh
    BY <1>5
  <2>5. pc' = "start" => depth' <= Depth /\ \A i \in DOMAIN created : created[i].level < depth'
    BY <2>1, <2>2, <1>3
  <2> QED BY <2>2, <2>3, <2>4, <2>5 DEF Shape, WalkControls, Walking, Pcs
<1>8. UndoControls' /\ PackControls'
  BY <1>3, <1>5 DEF Shape, UndoControls, PackControls, Walking, Backing, undoing
<1>9. /\ LevelsUsed(pc, depth) <= LevelsUsed(pc', depth') /\ PacksUsed(pc) <= PacksUsed(pc')
      /\ HidesUsed(pc, quarantine) <= HidesUsed(pc', quarantine')
  BY <1>3, <1>4, <1>5 DEF LevelsUsed, PacksUsed, HidesUsed, Walking, undoing
<1> QED BY <1>3, <1>4, <1>5, <1>6, <1>7, <1>8, <1>9, ShapeStays

\* A step of the way in that fails starts the take-back.
LEMMA FailureKeepsShape ==
  ASSUME Shape, TakeBack(created'), Recorded(created'),
         pc \in {"start", "levels", "temporary"} \union Walking,
         UNCHANGED <<tree, host, upsets, depth, dest, temp, home, quarantine>>,
         walk' \in Pin, fresh' \in [node : Pin, synced : BOOLEAN]
  PROVE  Shape'
<1>1. pc' = "undo" /\ cursor' = Len(created') BY DEF TakeBack
<1>2. cursor' \in 0 .. Depth BY <1>1, RecordedLength
<1>3. depth \in 1 .. (Depth + 1) /\ depth' \in 1 .. (Depth + 1) /\ quarantine = None
  BY DEF Shape, WalkControls, UndoControls
<1>4. WalkControls'
  BY <1>1, <1>3 DEF Shape, WalkControls, Walking, Pcs, Backing
<1>5. UndoControls'
  BY <1>1, <1>2, <1>3, Sizes DEF Shape, UndoControls, Walking, Backing
<1>6. PackControls' BY <1>1 DEF Shape, PackControls
<1>7. LevelsUsed(pc, depth) <= LevelsUsed(pc', depth')
  BY <1>1, <1>3, Sizes DEF LevelsUsed, Walking, Shape, WalkControls
<1>8. PacksUsed(pc) <= PacksUsed(pc') /\ HidesUsed(pc, quarantine) <= HidesUsed(pc', quarantine')
  BY <1>1, <1>3 DEF PacksUsed, HidesUsed, Walking
<1> QED BY <1>3, <1>4, <1>5, <1>6, <1>7, <1>8, ShapeStays

\* One that stays where it is, or looks on from there, with pins given up.
LEMMA LookKeepsShape ==
  ASSUME Shape, LetGo(created', created),
         \/ pc' = pc /\ pc \in {"existing", "entry", "reopen", "acquire", "temporary"}
         \/ pc = "entry" /\ pc' = "reopen",
         UNCHANGED <<tree, host, upsets, depth, walk, dest, temp, cursor, home, quarantine>>,
         fresh' \in [node : Pin, synced : BOOLEAN], fresh'.node = fresh.node
  PROVE  Shape'
<1>1. Recorded(created') BY LetGoRecorded DEF Shape
<1>2. \A i \in DOMAIN created' : i \in DOMAIN created /\ created'[i].level = created[i].level
  BY <1>1, RecordedLength DEF Shape, LetGo
<1>3. WalkControls' BY <1>2 DEF Shape, WalkControls, Walking, Pcs
<1>4. UndoControls' BY DEF Shape, UndoControls, Walking, Backing
<1>5. PackControls' BY DEF Shape, PackControls
<1>6. /\ depth \in 1 .. (Depth + 1)
      /\ LevelsUsed(pc, depth) = LevelsUsed(pc', depth') /\ LevelsUsed(pc, depth) \in Int
  BY Sizes DEF LevelsUsed, Shape, WalkControls
<1>7. PacksUsed(pc) <= PacksUsed(pc') /\ HidesUsed(pc, quarantine) <= HidesUsed(pc', quarantine')
  BY DEF PacksUsed, HidesUsed, Walking
<1> QED BY <1>1, <1>3, <1>4, <1>5, <1>6, <1>7, ShapeStays

\* The levels recorded, typed.
LEMMA CreatedTyped ==
  ASSUME Shape
  PROVE  /\ created \in Seq(LevelRecords) /\ Recorded(created)
         /\ Len(created) \in 0 .. Depth /\ DOMAIN created = 1 .. Len(created)
         /\ LetGo(created, created)
BY RecordedLength, LetGoSelf DEF Shape, Recorded

\* On to the next level, or to the destination once the last one is passed.
LEMMA NextLevelKeepsShape ==
  ASSUME Shape, NextLevel, pc \in {"existing", "reopen"}, Recorded(created'),
         \A i \in DOMAIN created' :
           created'[i].level = depth \/ \E j \in DOMAIN created : created'[i].level = created[j].level,
         UNCHANGED <<tree, host, upsets, fresh, dest, temp, cursor, home, quarantine>>,
         walk' \in Nodes
  PROVE  Shape'
<1>1. /\ depth' = depth + 1 /\ pc' = (IF depth = Depth THEN "acquire" ELSE "make")
      /\ depth \in Int /\ depth >= 1 /\ depth <= Depth /\ Depth \in Int
  BY Sizes DEF NextLevel, Shape, WalkControls, Walking
<1>2. depth + 1 \in 1 .. (Depth + 1) /\ (depth # Depth => depth + 1 <= Depth) BY <1>1
<1>3. ASSUME NEW i \in DOMAIN created' PROVE created'[i].level < depth + 1
  <2>1. \A j \in DOMAIN created : created[j].level < depth /\ created[j].level \in Int
    <3> TAKE j \in DOMAIN created
    <3>1. created[j].level \in Levels BY CreatedTyped, LevelTyped
    <3> QED BY <3>1, Sizes DEF Shape, WalkControls, Walking
  <2> QED BY <2>1, <1>1
<1>4. WalkControls'
  <2>1. pc' \in {"acquire", "make"} /\ (pc' = "make" => depth' <= Depth) BY <1>1, <1>2
  <2>2. \A i \in DOMAIN created' : created'[i].level < depth' BY <1>1, <1>3
  <2>3. depth' \in 1 .. (Depth + 1) BY <1>1, <1>2
  <2>4. walk' # None /\ walk' \in Pin BY Sizes DEF Pin
  <2> QED BY <2>1, <2>2, <2>3, <2>4 DEF Shape, WalkControls, Walking, Pcs
<1>5. UndoControls' BY <1>1 DEF Shape, UndoControls, Walking, Backing
<1>6. PackControls' BY <1>1 DEF Shape, PackControls
<1>7. LevelsUsed(pc, depth) <= LevelsUsed(pc', depth')
  <2>1. LevelsUsed(pc, depth) <= depth BY <1>1 DEF LevelsUsed
  <2>2. LevelsUsed(pc', depth') = depth
    <3>1. SUFFICES ASSUME NEW p2, NEW d2, p2 = pc', d2 = depth' PROVE LevelsUsed(p2, d2) = depth
      OBVIOUS
    <3> QED BY <1>1, <3>1 DEF LevelsUsed
  <2>3. LevelsUsed(pc, depth) \in Int BY <1>1 DEF LevelsUsed
  <2> QED BY <2>1, <2>2
<1>8. PacksUsed(pc) <= PacksUsed(pc') /\ HidesUsed(pc, quarantine) <= HidesUsed(pc', quarantine')
  BY <1>1 DEF PacksUsed, HidesUsed, Walking
<1>9. depth' \in 1 .. (Depth + 1) BY <1>1, <1>2
<1> QED BY <1>4, <1>5, <1>6, <1>7, <1>8, <1>9, ShapeStays

LEMMA OpenStartKeepsShape ==
  ASSUME Shape, OpenStart, UNCHANGED <<host, upsets, raced>>
  PROVE  Shape'
<1>1. /\ pc = "start" /\ UNCHANGED <<tree, depth, fresh, dest, temp, home, quarantine>>
      /\ depth \in 1 .. Depth /\ Depth \in Int
  BY Sizes DEF OpenStart, Idle, Shape, WalkControls
<1>2. CASE Fails /\ UNCHANGED walk
  BY <1>1, <1>2, FailureKeepsShape DEF Fails, Shape, WalkControls
<1>3. ASSUME IsDirectory(Path[depth - 1]), walk' = Path[depth - 1], pc' = "make",
             UNCHANGED <<created, cursor>>
      PROVE  Shape'
  <2>1. walk' \in Pin /\ walk' # None
    <3>1. depth - 1 \in 0 .. Depth BY <1>1
    <3> QED BY <1>3, <3>1, PathTyped DEF Shape, IsDirectory
  <2>2. WalkControls'
    BY <1>1, <1>3, <2>1 DEF Shape, WalkControls, Walking, Pcs
  <2>3. UndoControls' /\ PackControls'
    BY <1>1, <1>3 DEF Shape, UndoControls, PackControls, Walking, Backing
  <2>4. LevelsUsed(pc, depth) <= LevelsUsed(pc', depth') BY <1>1, <1>3 DEF LevelsUsed
  <2>5. PacksUsed(pc) <= PacksUsed(pc') /\ HidesUsed(pc, quarantine) <= HidesUsed(pc', quarantine')
    BY <1>1, <1>3 DEF PacksUsed, HidesUsed, Walking
  <2>6. Recorded(created') BY <1>3 DEF Shape
  <2>7. depth' \in 1 .. (Depth + 1) BY <1>1
  <2> QED BY <1>1, <2>2, <2>3, <2>4, <2>5, <2>6, <2>7, ShapeStays
<1> QED BY <1>2, <1>3 DEF OpenStart

LEMMA OpenExistingKeepsShape ==
  ASSUME Shape, OpenExisting, UNCHANGED <<host, upsets, raced>>
  PROVE  Shape'
<1>1. pc = "existing" /\ UNCHANGED <<tree, fresh, dest, temp, home, quarantine>>
  BY DEF OpenExisting, Idle
<1>2. CASE Fails /\ UNCHANGED <<walk, depth>>
  BY <1>1, <1>2, FailureKeepsShape DEF Fails, Shape, WalkControls, Walking
<1>3. ASSUME IsDirectory(Entry(walk, AtLevel)), walk' = Entry(walk, AtLevel), NextLevel,
             UNCHANGED <<created, cursor>>
      PROVE  Shape'
  <2>1. walk' \in Nodes BY <1>3, EntryFound DEF IsDirectory
  <2> QED BY <1>1, <1>3, <2>1, NextLevelKeepsShape DEF Shape
<1> QED BY <1>2, <1>3 DEF OpenExisting

LEMMA IdentifyKeepsShape ==
  ASSUME Shape, Identify, UNCHANGED <<host, upsets, raced>>
  PROVE  Shape'
<1>1. pc = "identify" /\ UNCHANGED <<tree, depth, walk, dest, temp, home, quarantine>>
  BY DEF Identify, Idle
<1>2. CASE Fails /\ UNCHANGED fresh
  BY <1>1, <1>2, FailureKeepsShape DEF Fails, Shape, WalkControls, Walking
<1>3. ASSUME IsDirectory(Entry(walk, AtLevel)),
             fresh' = [node |-> Entry(walk, AtLevel), synced |-> FALSE], pc' = "entry",
             UNCHANGED <<created, cursor>>
      PROVE  Shape'
  <2>1. Entry(walk, AtLevel) \in Nodes BY <1>3, EntryFound DEF IsDirectory
  <2>2. fresh' \in [node : Pin, synced : BOOLEAN] /\ fresh'.node # None
    BY <1>3, <2>1, Sizes DEF Pin
  <2>3. WalkControls' BY <1>1, <1>3, <2>2 DEF Shape, WalkControls, Walking, Pcs
  <2>4. UndoControls' /\ PackControls'
    BY <1>1, <1>3 DEF Shape, UndoControls, PackControls, Walking, Backing
  <2>5. depth \in 1 .. (Depth + 1) /\ depth' \in 1 .. (Depth + 1)
    BY <1>1 DEF Shape, WalkControls
  <2>6. LevelsUsed(pc, depth) <= LevelsUsed(pc', depth') BY <1>1, <1>3, <2>5 DEF LevelsUsed
  <2>7. PacksUsed(pc) <= PacksUsed(pc') /\ HidesUsed(pc, quarantine) <= HidesUsed(pc', quarantine')
    BY <1>1, <1>3 DEF PacksUsed, HidesUsed, Walking
  <2>8. Recorded(created') BY <1>3 DEF Shape
  <2> QED BY <1>1, <2>3, <2>4, <2>5, <2>6, <2>7, <2>8, ShapeStays
<1> QED BY <1>2, <1>3 DEF Identify

LEMMA SyncEntryKeepsShape ==
  ASSUME Shape, SyncEntry, UNCHANGED <<host, upsets, raced>>
  PROVE  Shape'
<1>1. PICK synced \in BOOLEAN : fresh' = [fresh EXCEPT !.synced = synced] BY DEF SyncEntry
<1>2. fresh \in [node : Pin, synced : BOOLEAN] BY DEF Shape, WalkControls
<1>3. fresh' \in [node : Pin, synced : BOOLEAN] /\ fresh'.node = fresh.node BY <1>1, <1>2
<1>4. /\ pc = "entry" /\ pc' = "reopen"
      /\ UNCHANGED <<tree, depth, walk, created, dest, temp, cursor, home, quarantine>>
  BY DEF SyncEntry, undoing
<1> QED BY <1>3, <1>4, CreatedTyped, LookKeepsShape

LEMMA GiveUpPinKeepsShape ==
  ASSUME Shape, GiveUpPin, UNCHANGED <<host, upsets, raced>>
  PROVE  Shape'
<1>1. LetGo(created', created) BY CreatedTyped, ShedLetsGo DEF GiveUpPin
<1>2. /\ pc' = pc /\ pc \in {"existing", "entry", "reopen", "acquire", "temporary"}
      /\ UNCHANGED <<tree, depth, walk, fresh, dest, temp, cursor, home, quarantine>>
  BY DEF GiveUpPin, undoing
<1>3. fresh' \in [node : Pin, synced : BOOLEAN] /\ fresh'.node = fresh.node
  BY <1>2 DEF Shape, WalkControls
<1> QED BY <1>1, <1>2, <1>3, LookKeepsShape

\* Append, typed and by index.
LEMMA Appended ==
  ASSUME NEW S, NEW s \in Seq(S), NEW e \in S
  PROVE  /\ Append(s, e) \in Seq(S) /\ DOMAIN Append(s, e) = 1 .. (Len(s) + 1)
         /\ Append(s, e)[Len(s) + 1] = e /\ \A i \in 1 .. Len(s) : Append(s, e)[i] = s[i]
OBVIOUS

\* A level that is appended is the innermost.
LEMMA RecordKeeps ==
  ASSUME Shape, pc = "reopen", NEW own \in {None, fresh.node}
  PROVE  LET new == Append(created, Record(own))
         IN /\ Recorded(new) /\ new \in Seq(LevelRecords)
            /\ \A i \in DOMAIN new :
                 new[i].level = depth \/ \E j \in DOMAIN created : new[i].level = created[j].level
<1> DEFINE new == Append(created, Record(own))
<1> DEFINE n == Len(created)
<1>1. /\ created \in Seq(LevelRecords) /\ n \in Nat /\ DOMAIN created = 1 .. n
      /\ depth \in 1 .. Depth /\ Depth \in Int
      /\ walk \in Nodes /\ fresh.node \in Nodes /\ fresh.synced \in BOOLEAN
  BY CreatedTyped, Sizes DEF Shape, WalkControls, Walking, Pin
<1>2. Record(own) \in LevelRecords BY <1>1, Sizes DEF Record, LevelRecords, Pin
<1>3. /\ Record(own).level = depth /\ Record(own).own \in {None, Record(own).node}
      /\ Record(own).parent = Record(own).parent_node
  BY DEF Record
<1>4. /\ new \in Seq(LevelRecords) /\ DOMAIN new = 1 .. (n + 1) /\ new[n + 1] = Record(own)
      /\ \A i \in 1 .. n : new[i] = created[i]
  BY <1>1, <1>2, Appended
<1> HIDE DEF new
<1>5. \A j \in 1 .. n : created[j].level \in Int /\ created[j].level < depth
  <2> TAKE j \in 1 .. n
  <2>1. created[j].level \in Levels BY <1>1, LevelTyped
  <2> QED BY <2>1, <1>1, Sizes DEF Shape, WalkControls, Walking
<1>6. n < depth
  <2>1. CASE n = 0 BY <2>1, <1>1
  <2>2. CASE n # 0
    <3>1. n \in 1 .. n BY <1>1, <2>2
    <3>2. n <= created[n].level BY <1>1, <3>1 DEF Shape, Recorded
    <3> QED BY <1>1, <1>5, <3>1, <3>2
  <2> QED BY <2>1, <2>2
<1>7. ASSUME NEW i \in 1 .. (n + 1)
      PROVE  /\ new[i].own \in {None, new[i].node}
             /\ new[i].parent \in {None, new[i].parent_node}
             /\ i <= new[i].level
             /\ \A j \in 1 .. (i - 1) : new[j].level < new[i].level
             /\ new[i].level = depth \/ \E j \in DOMAIN created : new[i].level = created[j].level
  <2>1. CASE i = n + 1
    <3>1. \A j \in 1 .. (i - 1) : j \in 1 .. n BY <1>1, <2>1
    <3>2. i <= depth BY <1>1, <1>6, <2>1
    <3> QED BY <1>1, <1>3, <1>4, <1>5, <2>1, <3>1, <3>2
  <2>2. CASE i # n + 1
    <3>1. i \in 1 .. n BY <1>1, <2>2
    <3>2. \A j \in 1 .. (i - 1) : j \in 1 .. n BY <1>1, <3>1
    <3>3. new[i] = created[i] /\ \A j \in 1 .. (i - 1) : new[j] = created[j] BY <1>4, <3>1, <3>2
    <3> QED BY <1>1, <3>1, <3>2, <3>3 DEF Shape, Recorded
  <2> QED BY <2>1, <2>2
<1>8. Recorded(new) BY <1>4, <1>7 DEF Recorded
<1>9. \A i \in DOMAIN new :
        new[i].level = depth \/ \E j \in DOMAIN created : new[i].level = created[j].level
  BY <1>4, <1>7
<1> QED BY <1>4, <1>8, <1>9 DEF new

LEMMA ReopenKeepsShape ==
  ASSUME Shape, Reopen, UNCHANGED <<host, upsets, raced>>
  PROVE  Shape'
<1> DEFINE found == Entry(walk, AtLevel)
<1> DEFINE recorded == Append(created, Record(found))
<1>1. /\ pc = "reopen" /\ UNCHANGED <<tree, fresh, dest, temp, home, quarantine>>
      /\ fresh \in [node : Pin, synced : BOOLEAN] /\ fresh.node \in Nodes /\ walk \in Pin
  BY DEF Reopen, Idle, Shape, WalkControls, Pin
<1>2. CASE Fails /\ UNCHANGED <<walk, depth>>
  BY <1>1, <1>2, FailureKeepsShape DEF Fails, Shape, Walking
<1>3. ASSUME created' = Append(created, Record(None)), TakeBack(created'),
             UNCHANGED <<walk, depth>>
      PROVE  Shape'
  <2>1. Recorded(created') BY <1>1, <1>3, RecordKeeps
  <2> QED BY <1>1, <1>3, <2>1, FailureKeepsShape DEF Walking
<1>4. ASSUME found = fresh.node, created' = recorded, TakeBack(recorded), UNCHANGED <<walk, depth>>
      PROVE  Shape'
  <2>1. Recorded(created') BY <1>1, <1>4, RecordKeeps
  <2> QED BY <1>1, <1>4, <2>1, FailureKeepsShape DEF Walking
<1>5. ASSUME found = fresh.node, created' = Trim(recorded, found), walk' = found, NextLevel,
             UNCHANGED cursor
      PROVE  Shape'
  <2> HIDE DEF recorded, found
  <2>1. /\ Recorded(recorded) /\ recorded \in Seq(LevelRecords)
        /\ \A i \in DOMAIN recorded :
             recorded[i].level = depth
               \/ \E j \in DOMAIN created : recorded[i].level = created[j].level
    BY <1>1, <1>5, RecordKeeps DEF recorded
  <2>2. LetGo(created', recorded) BY <1>5, <2>1, TrimLetsGo
  <2>3. Recorded(created') BY <2>1, <2>2, LetGoRecorded
  <2>4. \A i \in DOMAIN created' :
          i \in DOMAIN recorded /\ created'[i].level = recorded[i].level
    BY <2>1, <2>2, <2>3, RecordedLength DEF LetGo
  <2>5. walk' \in Nodes BY <1>1, <1>5
  <2>6. \A i \in DOMAIN created' :
          created'[i].level = depth \/ \E j \in DOMAIN created : created'[i].level = created[j].level
    BY <2>1, <2>4
  <2> QED BY <1>1, <1>5, <2>3, <2>5, <2>6, NextLevelKeepsShape
<1> QED BY <1>2, <1>3, <1>4, <1>5 DEF Reopen

\* From the destination through the syncs to the temporary pack.
LEMMA OnwardKeepsShape ==
  ASSUME Shape, LetGo(created', created),
         UNCHANGED <<tree, host, upsets, depth, temp, home, quarantine>>,
         <<pc, pc'>> \in {<<"acquire", "climb">>, <<"acquire", "levels">>, <<"climb", "climb">>,
                          <<"climb", "levels">>, <<"levels", "levels">>, <<"levels", "temporary">>},
         dest' \in Pin, pc' = "temporary" => dest' # None,
         walk' \in Pin, fresh' \in [node : Pin, synced : BOOLEAN],
         pc' = "climb" => fresh'.node # None,
         cursor' \in 0 .. (Depth + 1), pc' = "levels" => cursor' # 0
  PROVE  Shape'
<1>1. pc \in {"acquire", "climb", "levels"} /\ pc' \in {"climb", "levels", "temporary"}
  OBVIOUS
<1>2. Recorded(created') BY LetGoRecorded DEF Shape
<1>3. WalkControls' BY <1>1 DEF Shape, WalkControls, Walking, Pcs
<1>4. UndoControls' BY <1>1 DEF Shape, UndoControls, Walking, Backing
<1>5. PackControls' BY <1>1 DEF Shape, PackControls
<1>6. LevelsUsed(pc, depth) <= LevelsUsed(pc', depth')
  BY <1>1, Sizes DEF LevelsUsed
<1>7. PacksUsed(pc) <= PacksUsed(pc') /\ HidesUsed(pc, quarantine) <= HidesUsed(pc', quarantine')
  BY <1>1 DEF PacksUsed, HidesUsed, Walking
<1>8. depth' \in 1 .. (Depth + 1) BY DEF Shape, WalkControls
<1> QED BY <1>2, <1>3, <1>4, <1>5, <1>6, <1>7, <1>8, ShapeStays

LEMMA AcquireKeepsShape ==
  ASSUME Shape, Acquire, UNCHANGED <<host, upsets, raced>>
  PROVE  Shape'
<1>1. /\ pc = "acquire" /\ walk' = None
      /\ UNCHANGED <<tree, depth, temp, home, quarantine>>
  BY DEF Acquire, Idle
<1>2. walk \in Pin /\ Path[Depth] \in Pin /\ None \in Pin /\ 1 \in 0 .. (Depth + 1)
  BY PathTyped, Sizes DEF Shape, WalkControls, Pin
<1>3. /\ cursor \in 0 .. (Depth + 1) /\ dest \in Pin /\ fresh \in [node : Pin, synced : BOOLEAN]
  BY DEF Shape, WalkControls, UndoControls
<1>4. ASSUME NEW found \in Pin, IsDirectory(found), dest' = found, pc' = "climb",
             fresh' = [node |-> found, synced |-> FALSE], UNCHANGED <<created, cursor>>
      PROVE  Shape'
  <2>1. fresh' \in [node : Pin, synced : BOOLEAN] /\ fresh'.node # None BY <1>4 DEF IsDirectory
  <2> QED BY <1>1, <1>2, <1>3, <1>4, <2>1, CreatedTyped, OnwardKeepsShape
<1>5. ASSUME pc' = "levels", cursor' = 1, UNCHANGED <<created, dest, fresh>> PROVE Shape'
  BY <1>1, <1>2, <1>3, <1>5, CreatedTyped, OnwardKeepsShape
<1> QED BY <1>2, <1>4, <1>5 DEF Acquire

\* A climb only gives up pins and adds syncs, and so does the loop after it.
LEMMA ClimbLetsGo ==
  ASSUME Shape, Climb
  PROVE  LetGo(created', created) /\ pc' \in {"climb", "levels"}
<1> DEFINE here == fresh.node
<1> DEFINE reached == IF \E i \in DOMAIN created :
                            Shedded(created[i]) /\ created[i].parent_node = here
                      THEN SyncedIn(created, here) ELSE created
<1> DEFINE released == Release(SyncedIn(created, here))
<1>1. pc = "climb" BY DEF Climb
<1>2. LetGo(SyncedIn(created, here), created) BY CreatedTyped, SyncedInLetsGo
<1>3. LetGo(reached, created) BY <1>2, CreatedTyped
<1>4. LetGo(released, created)
  <2>1. SyncedIn(created, here) \in Seq(LevelRecords) BY <1>2 DEF LetGo
  <2>2. LetGo(released, SyncedIn(created, here)) BY <2>1, ReleaseLetsGo
  <2> QED BY <1>2, <2>2, LetGoTwice
<1>5. created' \in {reached, released} /\ pc' \in {"climb", "levels"}
  BY <1>1 DEF Climb, Descend, ClimbOn
<1> HIDE DEF reached, released, here
<1> QED BY <1>3, <1>4, <1>5

LEMMA SyncLevelLetsGo == ASSUME Shape, SyncLevel PROVE LetGo(created', created)
<1> DEFINE i == Min({k \in Pinned(created) : k < cursor})
<1> DEFINE last == Len(created)
<1>1. \/ created' = created
      \/ created' = [created EXCEPT ![cursor].synced = TRUE]
      \/ created' = [created EXCEPT ![i].own = None, ![i].parent = None]
      \/ created' = [created EXCEPT ![last].own = None]
  BY DEF SyncLevel
<1> HIDE DEF i, last
<1>2. LetGo([created EXCEPT ![cursor].synced = TRUE], created) BY CreatedTyped, SyncLetsGo
<1>3. LetGo([created EXCEPT ![i].own = None, ![i].parent = None], created)
  BY CreatedTyped, SyncLetsGo
<1>4. LetGo([created EXCEPT ![last].own = None], created) BY CreatedTyped, LetGoOwn
<1> QED BY <1>1, <1>2, <1>3, <1>4, CreatedTyped

LEMMA ClimbKeepsShape ==
  ASSUME Shape, Climb, UNCHANGED <<host, upsets, raced>>
  PROVE  Shape'
<1> DEFINE here == fresh.node
<1> DEFINE reached == IF \E i \in DOMAIN created :
                            Shedded(created[i]) /\ created[i].parent_node = here
                      THEN SyncedIn(created, here) ELSE created
<1> DEFINE released == Release(SyncedIn(created, here))
<1>1. /\ pc = "climb" /\ UNCHANGED <<tree, depth, walk, dest, temp, home, quarantine>>
      /\ here \in Nodes /\ fresh \in [node : Pin, synced : BOOLEAN]
      /\ cursor \in 0 .. (Depth + 1) /\ dest \in Pin /\ walk \in Pin /\ 1 \in 0 .. (Depth + 1)
  BY Sizes DEF Climb, Idle, Shape, WalkControls, UndoControls, Pin
<1>2. LetGo(reached, created) BY CreatedTyped, SyncedInLetsGo
<1>3. LetGo(released, created)
  <2>1. LetGo(SyncedIn(created, here), created) BY CreatedTyped, SyncedInLetsGo
  <2>2. SyncedIn(created, here) \in Seq(LevelRecords) BY <2>1 DEF LetGo
  <2>3. LetGo(released, SyncedIn(created, here)) BY <2>2, ReleaseLetsGo
  <2> QED BY <2>1, <2>3, LetGoTwice
<1>4. ASSUME NEW levels \in {reached, released}, Descend(levels) PROVE Shape'
  BY <1>1, <1>2, <1>3, <1>4, OnwardKeepsShape DEF Descend
<1>5. ASSUME NEW levels \in {reached, released}, NEW up \in Nodes, ClimbOn(levels, up) PROVE Shape'
  <2>1. fresh' = [fresh EXCEPT !.node = up] /\ UNCHANGED <<pc, cursor>> /\ created' = levels
    BY <1>5 DEF ClimbOn
  <2>2. fresh' \in [node : Pin, synced : BOOLEAN] /\ fresh'.node # None
    BY <1>1, <2>1, Sizes DEF Pin
  <2> QED BY <1>1, <1>2, <1>3, <2>1, <2>2, OnwardKeepsShape
<1>6. ASSUME here # Root, Stands(here) PROVE tree[here].dir \in Nodes
  BY <1>1, <1>6, UsedNode DEF Stands, Shape, Pin
<1>7. \/ Descend(reached) \/ Descend(released)
      \/ here # Root /\ Stands(here) /\ ClimbOn(reached, tree[here].dir)
      \/ ClimbOn(released, here)
  BY DEF Climb
<1> HIDE DEF reached, released, here
<1> QED BY <1>1, <1>4, <1>5, <1>6, <1>7

LEMMA SyncLevelKeepsShape ==
  ASSUME Shape, SyncLevel, UNCHANGED <<host, upsets, raced>>
  PROVE  Shape'
<1>1. /\ pc = "levels" /\ pc' = "levels" /\ cursor <= Len(created)
      /\ UNCHANGED <<tree, depth, walk, fresh, dest, temp, home, quarantine>>
      /\ cursor' \in {cursor, cursor + 1}
  BY DEF SyncLevel, Idle
<1>2. LetGo(created', created) BY SyncLevelLetsGo
<1>3. cursor \in 0 .. (Depth + 1) /\ cursor # 0 /\ Len(created) \in 0 .. Depth /\ Depth \in Int
  BY <1>1, CreatedTyped, Sizes DEF Shape, UndoControls
<1>4. cursor' \in 0 .. (Depth + 1) /\ cursor' # 0 BY <1>1, <1>3
<1>5. dest \in Pin /\ walk \in Pin /\ fresh \in [node : Pin, synced : BOOLEAN]
  BY DEF Shape, WalkControls, UndoControls
<1> QED BY <1>1, <1>2, <1>4, <1>5, OnwardKeepsShape

LEMMA CheckNameKeepsShape ==
  ASSUME Shape, CheckName, UNCHANGED <<host, upsets, raced>>
  PROVE  Shape'
<1>1. /\ pc = "levels" /\ UNCHANGED <<tree, depth, walk, fresh, dest, temp, home, quarantine>>
      /\ cursor \in 0 .. (Depth + 1)
      /\ dest \in Pin /\ walk \in Pin /\ fresh \in [node : Pin, synced : BOOLEAN]
  BY DEF CheckName, Idle, Shape, WalkControls, UndoControls
<1>2. CASE Fails BY <1>1, <1>2, FailureKeepsShape DEF Fails, Shape
<1>3. ASSUME dest # None, pc' = "temporary", UNCHANGED <<created, cursor>> PROVE Shape'
  BY <1>1, <1>3, CreatedTyped, OnwardKeepsShape
<1> QED BY <1>2, <1>3 DEF CheckName

---------------------------------------------------------------------------
(* Steps that change the tree.                                             *)

\* What is accounted for always fits into the nodes.
LEMMA Accounts ==
  ASSUME Shape
  PROVE  /\ upsets \in Nat /\ upsets <= host.upsets /\ host.upsets <= MaxUpsets
         /\ host.upsets \in Nat /\ depth \in 1 .. (Depth + 1)
         /\ Allotted(pc, depth, quarantine, upsets) \in Int
         /\ Allotted(pc, depth, quarantine, upsets) <= 2 * Depth + 4 + upsets
<1>1. host \in Hosts /\ upsets \in 0 .. host.upsets /\ depth \in 1 .. (Depth + 1)
  BY DEF Shape, WalkControls
<1>2. host.upsets \in Nat /\ host.upsets <= MaxUpsets
  BY <1>1, ImportAssumption, UpsetsAssumption
<1>3. upsets \in Nat /\ upsets <= host.upsets BY <1>1, <1>2
<1>4. /\ LevelsUsed(pc, depth) \in Int /\ LevelsUsed(pc, depth) <= Depth
      /\ PacksUsed(pc) \in {0, 1} /\ HidesUsed(pc, quarantine) \in {0, 1} /\ Depth \in Int
  <2>1. LevelsUsed(pc, depth) \in Int /\ LevelsUsed(pc, depth) <= Depth
    BY <1>1, Sizes DEF LevelsUsed, Shape, WalkControls, Walking
  <2> QED BY <2>1, Sizes DEF PacksUsed, HidesUsed
<1>5. /\ Allotted(pc, depth, quarantine, upsets) \in Int
      /\ Allotted(pc, depth, quarantine, upsets) <= 2 * Depth + 4 + upsets
  BY <1>3, <1>4 DEF Allotted
<1> QED BY <1>1, <1>2, <1>3, <1>5

\* The nodes used grow no faster than what is allotted.
LEMMA ShapeGrows ==
  ASSUME Shape, TreeSound', NEW k \in Nat, 1 <= k, NEW more \in {0, 1},
         Taken(k + more)', NEW p2, NEW d2, NEW q2, NEW u2,
         p2 = pc', d2 = depth', q2 = quarantine', u2 = upsets',
         k + more <= Allotted(p2, d2, q2, u2),
         Recorded(created'), WalkControls', UndoControls', PackControls'
  PROVE  Shape'
<1>1. k + more \in Nat /\ 1 <= k + more OBVIOUS
<1>2. Supplied' BY <1>1 DEF Supplied
<1> QED BY <1>2 DEF Shape

\* A rename, and then a removal, of one node leaves a sound tree and all others.
LEMMA MoveKeeps ==
  ASSUME TreeSound, NEW k \in Nat, Taken(k), NEW n \in Nodes, tree[n].dir # None,
         NEW dir \in Nodes, NEW name \in Names, Stands(dir), Vacant(dir, name) \/ name = Away,
         Move(n, dir, name)
  PROVE  /\ TreeSound' /\ Taken(k)'
         /\ tree'[n].dir = dir /\ tree'[n].name = name /\ tree'[n].kind = tree[n].kind
         /\ \A m \in Nodes : m # n => tree'[m] = tree[m]
         /\ \A m \in Nodes : tree'[m].maker = tree[m].maker
<1>1. tree \in [Nodes -> Things] /\ dir \in Pin /\ None \in Pin BY DEF TreeSound, Pin
<1>2. SUFFICES ASSUME NEW r, r = [tree[n] EXCEPT !.dir = dir, !.name = name],
                      tree' = [tree EXCEPT ![n] = r]
               PROVE  /\ TreeSound' /\ Taken(k)'
                      /\ tree'[n].dir = dir /\ tree'[n].name = name /\ tree'[n].kind = tree[n].kind
                      /\ \A m \in Nodes : m # n => tree'[m] = tree[m]
                      /\ \A m \in Nodes : tree'[m].maker = tree[m].maker
  <2>1. tree' = [tree EXCEPT ![n].dir = dir, ![n].name = name] BY DEF Move
  <2>2. [tree EXCEPT ![n].dir = dir, ![n].name = name]
          = [tree EXCEPT ![n] = [tree[n] EXCEPT !.dir = dir, !.name = name]]
    OBVIOUS
  <2> QED BY <2>1, <2>2
<1>3. tree[n] \in Things BY <1>1
<1>4. r \in Things /\ r.dir = dir /\ r.name = name /\ r.kind = tree[n].kind /\ r.maker = tree[n].maker
  BY <1>1, <1>2, <1>3 DEF Things
<1>5. /\ tree' \in [Nodes -> Things] /\ tree'[n] = r
      /\ \A m \in Nodes : m # n => tree'[m] = tree[m]
  BY <1>1, <1>2, <1>4
<1>6. tree[dir].maker # "nobody" BY UsedNode
<1>7. \A m \in Nodes :
        m # n /\ m # None /\ dir # None /\ tree[m].dir = dir => tree[m].name # name \/ name = Away
  BY EntryFound, Sizes DEF Vacant
<1>8. TreeSound' /\ Taken(k)' /\ \A m \in Nodes : tree'[m].maker = tree[m].maker
  BY <1>1, <1>4, <1>5, <1>6, <1>7, ChangeKeeps
<1> QED BY <1>4, <1>5, <1>8

LEMMA UnlinkKeeps ==
  ASSUME TreeSound, NEW k \in Nat, Taken(k), NEW n \in Nodes, tree[n].dir # None, Unlink(n)
  PROVE  /\ TreeSound' /\ Taken(k)'
         /\ tree'[n].dir = None
         /\ \A m \in Nodes : m # n => tree'[m] = tree[m]
         /\ \A m \in Nodes : tree'[m].maker = tree[m].maker /\ tree'[m].name = tree[m].name
<1>1. tree \in [Nodes -> Things] /\ None \in Pin BY DEF TreeSound, Pin
<1>2. SUFFICES ASSUME NEW r, r = [tree[n] EXCEPT !.dir = None], tree' = [tree EXCEPT ![n] = r]
               PROVE  /\ TreeSound' /\ Taken(k)' /\ tree'[n].dir = None
                      /\ \A m \in Nodes : m # n => tree'[m] = tree[m]
                      /\ \A m \in Nodes : /\ tree'[m].maker = tree[m].maker
                                          /\ tree'[m].name = tree[m].name
  BY DEF Unlink
<1>3. tree[n] \in Things BY <1>1
<1>4. r \in Things /\ r.dir = None /\ r.name = tree[n].name /\ r.maker = tree[n].maker
  BY <1>1, <1>2, <1>3 DEF Things
<1>5. /\ tree' \in [Nodes -> Things] /\ tree'[n] = r
      /\ \A m \in Nodes : m # n => tree'[m] = tree[m]
  BY <1>1, <1>2, <1>4
<1>6. tree[n].name \in Names BY UsedNode
<1>7. TreeSound' /\ Taken(k)' /\ \A m \in Nodes : tree'[m].maker = tree[m].maker
  BY <1>1, <1>4, <1>5, <1>6, ChangeKeeps
<1> QED BY <1>4, <1>5, <1>7

\* The level that is made, the temporary pack and the quarantine.
LEMMA MakeLevelEffect ==
  ASSUME Shape, pc = "make", Vacant(walk, AtLevel),
         Put(NewNode, Node(walk, AtLevel, "directory", "level"))
  PROVE  \E k \in Nodes :
           /\ Taken(k) /\ 1 <= k /\ k <= Allotted(pc, depth, quarantine, upsets)
           /\ TreeSound' /\ Taken(k + 1)' /\ NewNode = k /\ tree[k] = Unused
           /\ tree'[k] = Node(walk, AtLevel, "directory", "level")
           /\ \A n \in Nodes : n # k => tree'[n] = tree[n]
<1>1. PICK k \in Nat : Taken(k) /\ 1 <= k /\ k <= Allotted(pc, depth, quarantine, upsets)
  BY DEF Shape, Supplied
<1>2. /\ walk \in Nodes /\ depth \in 1 .. Depth /\ quarantine = None /\ TreeSound
      /\ depth \in Levels
  BY <1>1, Sizes DEF Shape, WalkControls, UndoControls, Walking, Pin
<1>3. k \in Nodes
  <2>1. upsets \in Nat /\ upsets <= MaxUpsets BY Accounts, Sizes
  <2>2. Allotted("make", depth, None, upsets) = 2 + Depth + (depth - 1) + upsets
    BY <1>2, <2>1, Sizes DEF Allotted, LevelsUsed, PacksUsed, HidesUsed, Walking
  <2> QED BY <1>1, <1>2, <2>1, <2>2, Sizes
<1>4. AtLevel \in Names /\ "directory" \in Kinds /\ "level" \in Makers /\ "level" # "nobody"
  BY <1>2, Sizes, NamesTyped DEF AtLevel
<1>5. /\ TreeSound' /\ Taken(k + 1)' /\ NewNode = k /\ tree[k] = Unused
      /\ tree'[k] = Node(walk, AtLevel, "directory", "level")
      /\ \A n \in Nodes : n # k => tree'[n] = tree[n]
  BY <1>1, <1>2, <1>3, <1>4, PutKeeps
<1> QED BY <1>1, <1>3, <1>5

\* The level made is accounted for.
LEMMA MakeLevelKeepsShape ==
  ASSUME Shape, MakeLevel, UNCHANGED <<host, upsets, raced>>
  PROVE  Shape'
<1>1. /\ pc = "make"
      /\ UNCHANGED <<depth, walk, fresh, dest, temp, home, quarantine>>
      /\ depth \in 1 .. Depth /\ depth \in 1 .. (Depth + 1) /\ Depth \in Int
      /\ fresh \in [node : Pin, synced : BOOLEAN] /\ walk \in Pin
      /\ quarantine = None /\ temp \in Pin
  BY Sizes DEF MakeLevel, Idle, Shape, WalkControls, UndoControls, Walking
<1>2. CASE Fails /\ UNCHANGED tree
  BY <1>1, <1>2, FailureKeepsShape DEF Fails, Shape, Walking
<1>3. CASE pc' = "existing" /\ UNCHANGED <<tree, created, cursor>>
  <2>1. WalkControls' BY <1>1, <1>3 DEF Shape, WalkControls, Walking, Pcs
  <2>2. UndoControls' /\ PackControls'
    BY <1>1, <1>3 DEF Shape, UndoControls, PackControls, Walking, Backing
  <2>3. LevelsUsed(pc, depth) <= LevelsUsed(pc', depth') BY <1>1, <1>3 DEF LevelsUsed
  <2>4. PacksUsed(pc) <= PacksUsed(pc') /\ HidesUsed(pc, quarantine) <= HidesUsed(pc', quarantine')
    BY <1>1, <1>3 DEF PacksUsed, HidesUsed, Walking
  <2>5. Recorded(created') BY <1>3 DEF Shape
  <2> QED BY <1>1, <1>3, <2>1, <2>2, <2>3, <2>4, <2>5, ShapeStays
<1>4. ASSUME Vacant(walk, AtLevel), Put(NewNode, Node(walk, AtLevel, "directory", "level")),
             pc' = "identify", UNCHANGED <<created, cursor>>
      PROVE  Shape'
  <2>1. PICK k \in Nodes :
           /\ Taken(k) /\ 1 <= k /\ k <= Allotted(pc, depth, quarantine, upsets)
           /\ TreeSound' /\ Taken(k + 1)' /\ NewNode = k /\ tree[k] = Unused
           /\ tree'[k] = Node(walk, AtLevel, "directory", "level")
           /\ \A n \in Nodes : n # k => tree'[n] = tree[n]
    BY <1>1, <1>4, MakeLevelEffect
  <2>2. WalkControls' BY <1>1, <1>4 DEF Shape, WalkControls, Walking, Pcs
  <2>3. UndoControls' BY <1>1, <1>4 DEF Shape, UndoControls, Walking, Backing
  <2>4. PackControls'
    <3>1. tree[k].maker = "nobody" BY <2>1, UnusedFields
    <3>2. temp # None => temp \in Nodes /\ temp # k
      BY <1>1, <3>1 DEF Shape, PackControls, Pin
    <3>3. temp # None => tree'[temp] = tree[temp] BY <2>1, <3>2
    <3> QED BY <1>1, <1>4, <3>3 DEF Shape, PackControls
  <2>5. k \in Nat /\ upsets \in Nat BY Accounts, Sizes
  <2>6. k + 1 <= Allotted("identify", depth, None, upsets)
    <3>1. Allotted("make", depth, None, upsets) = 2 + Depth + (depth - 1) + upsets
      BY <1>1, <2>5 DEF Allotted, LevelsUsed, PacksUsed, HidesUsed, Walking
    <3>2. Allotted("identify", depth, None, upsets) = 2 + Depth + depth + upsets
      BY <1>1, <2>5 DEF Allotted, LevelsUsed, PacksUsed, HidesUsed, Walking
    <3> QED BY <1>1, <2>1, <2>5, <3>1, <3>2
  <2>7. Recorded(created') BY <1>4 DEF Shape
  <2>8. pc' = "identify" /\ depth' = depth /\ quarantine' = None /\ upsets' = upsets BY <1>1, <1>4
  <2> QED BY <2>1, <2>2, <2>3, <2>4, <2>5, <2>6, <2>7, <2>8, ShapeGrows
<1> QED BY <1>2, <1>3, <1>4 DEF MakeLevel

\* The temporary pack, likewise.
LEMMA TemporaryEffect ==
  ASSUME Shape, pc = "temporary", Vacant(dest, "temporary"),
         Put(NewNode, Node(dest, "temporary", "unfinished", "temporary"))
  PROVE  \E k \in Nodes :
           /\ Taken(k) /\ 1 <= k /\ k <= Allotted(pc, depth, quarantine, upsets)
           /\ TreeSound' /\ Taken(k + 1)' /\ NewNode = k /\ tree[k] = Unused
           /\ tree'[k] = Node(dest, "temporary", "unfinished", "temporary")
           /\ \A n \in Nodes : n # k => tree'[n] = tree[n]
<1>1. PICK k \in Nat : Taken(k) /\ 1 <= k /\ k <= Allotted(pc, depth, quarantine, upsets)
  BY DEF Shape, Supplied
<1>2. dest \in Nodes /\ depth \in 1 .. (Depth + 1) /\ quarantine = None /\ TreeSound
  BY Sizes DEF Shape, WalkControls, UndoControls, Pin
<1>3. k \in Nodes
  <2>1. upsets \in Nat /\ upsets <= MaxUpsets BY Accounts, Sizes
  <2>2. Allotted("temporary", depth, None, upsets) = 2 + Depth + Depth + upsets
    BY <1>2, <2>1, Sizes DEF Allotted, LevelsUsed, PacksUsed, HidesUsed, Walking
  <2> QED BY <1>1, <1>2, <2>1, <2>2, Sizes
<1>4. /\ "temporary" \in Names /\ "unfinished" \in Kinds /\ "temporary" \in Makers
      /\ "temporary" # "nobody"
  BY NamesTyped
<1>5. /\ TreeSound' /\ Taken(k + 1)' /\ NewNode = k /\ tree[k] = Unused
      /\ tree'[k] = Node(dest, "temporary", "unfinished", "temporary")
      /\ \A n \in Nodes : n # k => tree'[n] = tree[n]
  BY <1>1, <1>2, <1>3, <1>4, PutKeeps
<1> QED BY <1>1, <1>3, <1>5

LEMMA CreateTemporaryKeepsShape ==
  ASSUME Shape, CreateTemporary, UNCHANGED <<host, upsets, raced>>
  PROVE  Shape'
<1>1. /\ pc = "temporary" /\ UNCHANGED <<depth, walk, fresh, dest, home, quarantine>>
      /\ depth \in 1 .. (Depth + 1) /\ Depth \in Int
      /\ fresh \in [node : Pin, synced : BOOLEAN] /\ walk \in Pin
      /\ quarantine = None /\ temp \in Pin /\ dest \in Nodes
  BY Sizes DEF CreateTemporary, Idle, Shape, WalkControls, UndoControls, Walking, Pin
<1>2. CASE Fails /\ UNCHANGED <<tree, temp>>
  BY <1>1, <1>2, FailureKeepsShape DEF Fails, Shape
<1>3. ASSUME Vacant(dest, "temporary"), temp' = NewNode,
             Put(NewNode, Node(dest, "temporary", "unfinished", "temporary")),
             pc' = "assemble", UNCHANGED <<created, cursor>>
      PROVE  Shape'
  <2>1. PICK k \in Nodes :
           /\ Taken(k) /\ 1 <= k /\ k <= Allotted(pc, depth, quarantine, upsets)
           /\ TreeSound' /\ Taken(k + 1)' /\ NewNode = k /\ tree[k] = Unused
           /\ tree'[k] = Node(dest, "temporary", "unfinished", "temporary")
           /\ \A n \in Nodes : n # k => tree'[n] = tree[n]
    BY <1>1, <1>3, TemporaryEffect
  <2>2. WalkControls' BY <1>1, <1>3 DEF Shape, WalkControls, Walking, Pcs
  <2>3. temp' = k /\ temp' \in Pin BY <1>3, <2>1 DEF Pin
  <2>4. UndoControls' BY <1>1, <1>3, <2>3, Sizes DEF Shape, UndoControls, Walking, Backing
  <2>5. PackControls'
    <3>1. tree'[k].dir = dest BY <2>1, NodeFields
    <3>2. tree'[k].name = "temporary" BY <2>1, NodeFields
    <3>3. tree'[k].kind = "unfinished" BY <2>1, NodeFields
    <3>4. tree'[k].maker = "temporary" BY <2>1, NodeFields
    <3> QED BY <1>1, <1>3, <2>3, <3>1, <3>2, <3>3, <3>4, Sizes DEF PackControls
  <2>6. k \in Nat /\ upsets \in Nat BY Accounts, Sizes
  <2>7. k + 1 <= Allotted("assemble", depth, None, upsets)
    <3>1. Allotted("temporary", depth, None, upsets) = 2 + Depth + Depth + upsets
      BY <1>1, <2>6 DEF Allotted, LevelsUsed, PacksUsed, HidesUsed, Walking
    <3>2. Allotted("assemble", depth, None, upsets) = 2 + Depth + Depth + 1 + upsets
      BY <1>1, <2>6 DEF Allotted, LevelsUsed, PacksUsed, HidesUsed, Walking
    <3> QED BY <1>1, <2>1, <2>6, <3>1, <3>2
  <2>8. Recorded(created') BY <1>3 DEF Shape
  <2>9. pc' = "assemble" /\ depth' = depth /\ quarantine' = None /\ upsets' = upsets BY <1>1, <1>3
  <2> QED BY <2>1, <2>2, <2>4, <2>5, <2>6, <2>7, <2>8, <2>9, ShapeGrows
<1> QED BY <1>2, <1>3 DEF CreateTemporary

\* The quarantine, likewise.
LEMMA ClaimEffect ==
  ASSUME Shape, pc = "claim", NEW beside \in Nodes, Vacant(beside, Quarantined),
         Put(NewNode, Node(beside, Quarantined, "directory", "quarantine"))
  PROVE  \E k \in Nodes :
           /\ Taken(k) /\ 1 <= k /\ k <= Allotted(pc, depth, quarantine, upsets)
           /\ TreeSound' /\ Taken(k + 1)' /\ NewNode = k /\ tree[k] = Unused
           /\ tree'[k] = Node(beside, Quarantined, "directory", "quarantine")
           /\ \A n \in Nodes : n # k => tree'[n] = tree[n]
<1>1. PICK k \in Nat : Taken(k) /\ 1 <= k /\ k <= Allotted(pc, depth, quarantine, upsets)
  BY DEF Shape, Supplied
<1>2. depth \in 1 .. (Depth + 1) /\ quarantine = None /\ TreeSound
  BY Sizes DEF Shape, WalkControls, UndoControls, Pin
<1>3. k \in Nodes
  <2>1. upsets \in Nat /\ upsets <= MaxUpsets BY Accounts, Sizes
  <2>2. Allotted("claim", depth, None, upsets) = 2 + Depth + Depth + 1 + upsets
    BY <1>2, <2>1, Sizes DEF Allotted, LevelsUsed, PacksUsed, HidesUsed, Walking
  <2> QED BY <1>1, <1>2, <2>1, <2>2, Sizes
<1>4. /\ Quarantined \in Names /\ "directory" \in Kinds /\ "quarantine" \in Makers
      /\ "quarantine" # "nobody"
  BY NamesTyped
<1>5. /\ TreeSound' /\ Taken(k + 1)' /\ NewNode = k /\ tree[k] = Unused
      /\ tree'[k] = Node(beside, Quarantined, "directory", "quarantine")
      /\ \A n \in Nodes : n # k => tree'[n] = tree[n]
  BY <1>1, <1>2, <1>3, <1>4, PutKeeps
<1> QED BY <1>1, <1>3, <1>5

LEMMA AssembleKeepsShape ==
  ASSUME Shape, Assemble, UNCHANGED <<host, upsets, raced>>
  PROVE  Shape'
<1>1. /\ pc = "assemble" /\ pc' \in {"publish", "discard"}
      /\ UNCHANGED <<depth, walk, fresh, created, dest, temp, cursor, home, quarantine>>
      /\ temp \in Nodes /\ tree[temp].dir = dest /\ dest \in Nodes
      /\ tree[temp].name = "temporary" /\ tree[temp].kind # "directory"
      /\ tree[temp].maker = "temporary" /\ TreeSound
  BY Sizes DEF Assemble, undoing, Shape, UndoControls, PackControls, Pin
<1>2. PICK k \in Nat : Taken(k) /\ 1 <= k /\ k <= Allotted(pc, depth, quarantine, upsets)
  BY DEF Shape, Supplied
<1>3. /\ TreeSound' /\ Taken(k)'
      /\ tree'[temp].dir = dest /\ tree'[temp].name = "temporary"
      /\ tree'[temp].kind # "directory" /\ tree'[temp].maker = "temporary"
  <2>1. CASE UNCHANGED tree BY <1>1, <1>2, <2>1 DEF TreeSound, Taken
  <2>2. CASE tree' = [tree EXCEPT ![temp].kind = "pack"]
    <3>1. SUFFICES ASSUME NEW r, r = [tree[temp] EXCEPT !.kind = "pack"],
                          tree' = [tree EXCEPT ![temp] = r]
                   PROVE  /\ TreeSound' /\ Taken(k)'
                          /\ tree'[temp].dir = dest /\ tree'[temp].name = "temporary"
                          /\ tree'[temp].kind # "directory" /\ tree'[temp].maker = "temporary"
      BY <2>2
    <3>2. tree \in [Nodes -> Things] /\ tree[temp] \in Things BY <1>1 DEF TreeSound
    <3>3. /\ r \in Things /\ r.dir = dest /\ r.name = "temporary" /\ r.kind = "pack"
          /\ r.maker = "temporary"
      BY <1>1, <3>1, <3>2, NamesTyped DEF Things
    <3>4. /\ tree' \in [Nodes -> Things] /\ tree'[temp] = r
          /\ \A m \in Nodes : m # temp => tree'[m] = tree[m]
      BY <1>1, <3>1, <3>2, <3>3
    <3>5. dest # None /\ dest \in Pin /\ None \in Pin /\ "temporary" \in Names /\ "temporary" # Away
      BY <1>1, Sizes, NamesTyped DEF Pin, Away
    <3>6. tree[dest].maker # "nobody" BY <1>1, <3>5 DEF TreeSound
    <3>7. \A n \in Nodes : n # temp /\ n # None /\ dest # None /\ tree[n].dir = dest
            => tree[n].name # "temporary" \/ "temporary" = Away
      BY <1>1, <3>5 DEF TreeSound
    <3>8. TreeSound' /\ Taken(k)'
      BY <1>1, <1>2, <3>3, <3>4, <3>5, <3>6, <3>7, ChangeKeeps
    <3> QED BY <3>3, <3>4, <3>8
  <2> QED BY <2>1, <2>2 DEF Assemble
<1>4. WalkControls' BY <1>1 DEF Shape, WalkControls, Walking, Pcs
<1>5. UndoControls' BY <1>1 DEF Shape, UndoControls, Walking, Backing
<1>6. PackControls' BY <1>1, <1>3, Sizes DEF Shape, PackControls
<1>7. Recorded(created') BY <1>1 DEF Shape
<1>8. k + 0 = k /\ k <= Allotted(pc', depth, quarantine, upsets)
  <2>1. SUFFICES ASSUME NEW p2 \in {"publish", "discard"} PROVE k <= Allotted(p2, depth, quarantine, upsets)
    BY <1>1
  <2>2. Allotted(p2, depth, quarantine, upsets) = Allotted("assemble", depth, quarantine, upsets)
    BY DEF Allotted, LevelsUsed, PacksUsed, HidesUsed, Walking
  <2> QED BY <1>1, <1>2, <2>2
<1> QED BY <1>1, <1>2, <1>3, <1>4, <1>5, <1>6, <1>7, <1>8, ShapeGrows

LEMMA PublishKeepsShape ==
  ASSUME Shape, Publish, UNCHANGED <<host, upsets, raced>>
  PROVE  Shape'
<1>1. /\ pc = "publish" /\ pc' \in {"done", "discard"}
      /\ UNCHANGED <<depth, walk, fresh, created, dest, temp, cursor, home, quarantine>>
      /\ temp \in Nodes /\ tree[temp].dir = dest /\ dest \in Nodes
      /\ tree[temp].name = "temporary"
      /\ tree[temp].maker = "temporary" /\ TreeSound
  BY Sizes DEF Publish, undoing, Shape, UndoControls, PackControls, Pin
<1>2. PICK k \in Nat : Taken(k) /\ 1 <= k /\ k <= Allotted(pc, depth, quarantine, upsets)
  BY DEF Shape, Supplied
<1>3. TreeSound' /\ Taken(k)' /\ tree'[temp].maker = "temporary" /\ tree'[temp].dir # None
  <2>1. CASE UNCHANGED tree BY <1>1, <1>2, <2>1, Sizes DEF TreeSound, Taken
  <2>2. ASSUME tree' = [n \in Nodes |->
                 IF n = temp THEN [tree[n] EXCEPT !.name = "pack"]
                 ELSE IF n = Entry(dest, "pack") THEN [tree[n] EXCEPT !.dir = None] ELSE tree[n]]
        PROVE  TreeSound' /\ Taken(k)' /\ tree'[temp].maker = "temporary" /\ tree'[temp].dir # None
    <3>1. SUFFICES ASSUME NEW gone, gone = Entry(dest, "pack")
                   PROVE  TreeSound' /\ Taken(k)' /\ tree'[temp].maker = "temporary"
                          /\ tree'[temp].dir # None
      OBVIOUS
    <3>2. \/ gone = None /\ \A n \in Nodes : ~ (tree[n].dir = dest /\ tree[n].name = "pack")
          \/ gone \in Nodes /\ tree[gone].dir = dest /\ tree[gone].name = "pack"
      BY <3>1, EntryFound
    <3>3. dest # None /\ dest \in Pin /\ gone \in Pin /\ "pack" \in Names /\ "pack" # Away
      BY <1>1, <3>2, Sizes, NamesTyped DEF Pin, Away
    <3>4. \A n \in Nodes : tree[n] \in Things BY <1>1 DEF TreeSound
    <3>5. /\ tree'[temp] = [tree[temp] EXCEPT !.name = "pack"]
          /\ \A n \in Nodes : n # temp /\ n = gone => tree'[n] = [tree[n] EXCEPT !.dir = None]
          /\ \A n \in Nodes : n # temp /\ n # gone => tree'[n] = tree[n]
          /\ tree' = [n \in Nodes |-> tree'[n]]
      BY <1>1, <2>2, <3>1
    <3>6. /\ tree'[temp] \in Things /\ tree'[temp].dir = dest /\ tree'[temp].name = "pack"
          /\ tree'[temp].maker = tree[temp].maker
      BY <1>1, <3>3, <3>4, <3>5 DEF Things
    <3>7. gone # None /\ gone # temp =>
            /\ tree'[gone] \in Things /\ tree'[gone].dir = None
            /\ tree'[gone].maker = tree[gone].maker /\ tree[gone].dir # None
      <4> SUFFICES ASSUME gone # None, gone # temp
                   PROVE  /\ tree'[gone] \in Things /\ tree'[gone].dir = None
                          /\ tree'[gone].maker = tree[gone].maker /\ tree[gone].dir # None
        OBVIOUS
      <4>1. gone \in Nodes /\ tree[gone] \in Things /\ tree[gone].dir # None BY <3>2, <3>3, <3>4
      <4>2. tree'[gone] = [tree[gone] EXCEPT !.dir = None] BY <3>5, <4>1
      <4>3. None \in Pin BY DEF Pin
      <4> QED BY <4>1, <4>2, <4>3 DEF Things
    <3>8. tree' \in [Nodes -> Things]
      <4>1. ASSUME NEW n \in Nodes PROVE tree'[n] \in Things
        BY <3>4, <3>5, <3>6, <3>7, Sizes
      <4> QED BY <3>5, <4>1
    <3>9. \A n \in Nodes : n # temp /\ n # gone /\ dest # None /\ tree[n].dir = dest
            => tree[n].name # "pack" \/ "pack" = Away
      <4> SUFFICES ASSUME NEW n \in Nodes, n # temp, n # gone, tree[n].dir = dest,
                          tree[n].name = "pack"
                   PROVE  FALSE
        OBVIOUS
      <4>1. gone \in Nodes /\ tree[gone].dir = dest /\ tree[gone].name = "pack" BY <3>2
      <4> QED BY <1>1, <3>3, <4>1 DEF TreeSound
    <3>10. tree[dest].maker # "nobody" BY <1>1, <3>3 DEF TreeSound
    <3>11. gone # None /\ gone # temp =>
             /\ tree[gone].dir # None /\ tree'[gone].dir = None
             /\ tree'[gone].maker = tree[gone].maker
      BY <3>7
    <3>12. tree[temp].dir # None BY <1>1, <3>3
    <3>13. TreeSound' /\ Taken(k)'
      <4> SUFFICES ASSUME NEW name, name = "pack" PROVE TreeSound' /\ Taken(k)' OBVIOUS
      <4>1. name \in Names /\ tree'[temp].name = name BY <3>3, <3>6
      <4>2. \A n \in Nodes : n # temp /\ n # gone /\ dest # None /\ tree[n].dir = dest
              => tree[n].name # name \/ name = Away
        BY <3>9
      <4>3. \A n \in Nodes : n # temp /\ n # gone => tree'[n] = tree[n] BY <3>5
      <4>4. dest # None => tree[dest].maker # "nobody" BY <3>10
      <4>5. tree'[temp].dir = dest /\ tree'[temp].maker = tree[temp].maker BY <3>6
      <4> QED BY <1>1, <1>2, <3>3, <3>8, <3>11, <3>12, <4>1, <4>2, <4>3, <4>4, <4>5, ChangeKeeps
    <3> QED BY <1>1, <3>3, <3>6, <3>13
  <2> QED BY <2>1, <2>2 DEF Publish
<1>4. WalkControls' BY <1>1 DEF Shape, WalkControls, Walking, Pcs
<1>5. UndoControls' BY <1>1 DEF Shape, UndoControls, Walking, Backing
<1>6. PackControls'
  <2>1. pc' = "discard" => UNCHANGED tree BY DEF Publish
  <2>2. tree[temp].kind # "directory" BY <1>1 DEF Shape, PackControls
  <2> QED BY <1>1, <1>3, <2>1, <2>2, Sizes DEF PackControls
<1>7. Recorded(created') BY <1>1 DEF Shape
<1>8. k + 0 = k /\ k <= Allotted(pc', depth, quarantine, upsets)
  <2>1. SUFFICES ASSUME NEW p2 \in {"done", "discard"} PROVE k <= Allotted(p2, depth, quarantine, upsets)
    BY <1>1
  <2>2. Allotted(p2, depth, quarantine, upsets) = Allotted("publish", depth, quarantine, upsets)
    BY DEF Allotted, LevelsUsed, PacksUsed, HidesUsed, Walking
  <2> QED BY <1>1, <1>2, <2>2
<1> QED BY <1>1, <1>2, <1>3, <1>4, <1>5, <1>6, <1>7, <1>8, ShapeGrows

\* Each step of the take-back.
LEMMA UndoKeepsShape ==
  ASSUME Shape, TreeSound', \A k \in Nat : Taken(k) => Taken(k)',
         pc \in Backing \union {"discard", "tidy", "remove"},
         pc' \in Backing \union {"tidy", "remove", "failed"},
         UNCHANGED <<host, upsets, depth, walk, fresh, created, dest>>,
         temp' = None \/ (temp' = temp /\ tree'[temp].maker = tree[temp].maker),
         HidesUsed(pc, quarantine) <= HidesUsed(pc', quarantine'),
         UndoControls'
  PROVE  Shape'
<1>1. PICK k \in Nat : Taken(k) /\ 1 <= k /\ k <= Allotted(pc, depth, quarantine, upsets)
  BY DEF Shape, Supplied
<1>2. WalkControls' BY DEF Shape, WalkControls, Walking, Backing, Pcs
<1>3. PackControls' BY DEF Shape, PackControls, Backing
<1>4. /\ LevelsUsed(pc, depth) <= LevelsUsed(pc', depth) /\ PacksUsed(pc) <= PacksUsed(pc')
      /\ upsets \in Nat /\ depth \in 1 .. (Depth + 1)
  BY Accounts, Sizes DEF LevelsUsed, PacksUsed, Backing, Walking
<1>5. k <= Allotted(pc', depth, quarantine', upsets)
  <2>1. SUFFICES ASSUME NEW p2, NEW q2, p2 = pc', q2 = quarantine'
                 PROVE  k <= Allotted(p2, depth, q2, upsets)
    OBVIOUS
  <2>2. /\ LevelsUsed(pc, depth) <= LevelsUsed(p2, depth) /\ PacksUsed(pc) <= PacksUsed(p2)
        /\ HidesUsed(pc, quarantine) <= HidesUsed(p2, q2)
    BY <1>4, <2>1
  <2>3. /\ Allotted(pc, depth, quarantine, upsets) <= Allotted(p2, depth, q2, upsets)
        /\ Allotted(p2, depth, q2, upsets) \in Int
        /\ Allotted(pc, depth, quarantine, upsets) \in Int
    BY <1>4, <2>2, AllottedGrows
  <2> QED BY <1>1, <2>3
<1>6. k + 0 = k /\ Taken(k)' BY <1>1
<1>7. Recorded(created') BY DEF Shape
<1> QED BY <1>1, <1>2, <1>3, <1>5, <1>6, <1>7, ShapeGrows

\* A tree left alone stays sound.
LEMMA SameTree ==
  ASSUME TreeSound, UNCHANGED tree
  PROVE  TreeSound' /\ \A k \in Nat : Taken(k) => Taken(k)'
BY DEF TreeSound, Taken

\* Where the take-back is: the level at the cursor is recorded and its parent held.
LEMMA AtCursor ==
  ASSUME Shape, pc \in Backing
  PROVE  /\ Len(created) \in 0 .. Depth /\ Depth \in Nat /\ DOMAIN created = 1 .. Len(created)
         /\ cursor \in 0 .. Len(created) /\ cursor \in Nat
         /\ cursor # 0 => /\ cursor \in DOMAIN created /\ created[cursor] \in LevelRecords
                          /\ created[cursor].level \in Levels /\ LevelName \in Names
                          /\ created[cursor].parent \in Pin /\ created[cursor].own \in Pin
         /\ pc # "undo" => cursor # 0 /\ created[cursor].parent \in Nodes
<1>1. /\ Len(created) \in 0 .. Depth /\ DOMAIN created = 1 .. Len(created)
      /\ created \in Seq(LevelRecords) /\ Depth \in Nat
  BY CreatedTyped, Sizes
<1>2. cursor \in 0 .. (Depth + 1) /\ cursor <= Len(created) BY DEF Shape, UndoControls
<1>3. cursor \in 0 .. Len(created) /\ cursor \in Nat BY <1>1, <1>2
<1>4. ASSUME cursor # 0
      PROVE  /\ cursor \in DOMAIN created /\ created[cursor] \in LevelRecords
             /\ created[cursor].level \in Levels /\ LevelName \in Names
             /\ created[cursor].parent \in Pin /\ created[cursor].own \in Pin
  <2>1. cursor \in 1 .. Len(created) BY <1>1, <1>3, <1>4
  <2>2. /\ created[cursor] \in LevelRecords /\ created[cursor].level \in Levels
        /\ created[cursor].parent \in Pin /\ created[cursor].own \in Pin
    BY <1>1, <2>1, LevelTyped
  <2>3. LevelName \in Names BY <2>2, Sizes, NamesTyped DEF LevelName, Level
  <2> QED BY <1>1, <2>1, <2>2, <2>3
<1>5. pc # "undo" => cursor # 0 /\ created[cursor].parent # None
  BY DEF Shape, UndoControls, Backing
<1> QED BY <1>1, <1>3, <1>4, <1>5 DEF Pin

LEMMA DiscardKeepsShape ==
  ASSUME Shape, Discard, UNCHANGED <<host, upsets, raced>>
  PROVE  Shape'
<1>1. /\ pc = "discard" /\ pc' = "undo" /\ temp' = None /\ cursor' = Len(created)
      /\ UNCHANGED <<depth, walk, fresh, created, dest, home, quarantine>>
      /\ Unlink(temp) \/ UNCHANGED tree
  BY DEF Discard, Idle, Fails, TakeBack
<1>2. temp \in Nodes /\ tree[temp].dir # None /\ quarantine = None /\ TreeSound
  BY <1>1 DEF Shape, UndoControls, PackControls, Pin
<1>3. TreeSound' /\ \A k \in Nat : Taken(k) => Taken(k)'
  <2>1. PICK k \in Nat : Taken(k) BY DEF Shape, Supplied
  <2>2. CASE UNCHANGED tree BY <2>2, SameTree DEF Shape
  <2>3. CASE Unlink(temp)
    <3>1. TreeSound' BY <1>2, <2>1, <2>3, UnlinkKeeps
    <3>2. ASSUME NEW m \in Nat, Taken(m) PROVE Taken(m)' BY <1>2, <2>3, <3>2, UnlinkKeeps
    <3> QED BY <3>1, <3>2
  <2> QED BY <1>1, <2>2, <2>3
<1>4. Len(created) \in 0 .. (Depth + 1) BY CreatedTyped, Sizes
<1>5. UndoControls'
  BY <1>1, <1>2, <1>4, Sizes DEF Shape, UndoControls, Backing, Walking, Pin
<1>6. HidesUsed(pc, quarantine) <= HidesUsed(pc', quarantine')
  BY <1>1 DEF HidesUsed
<1> QED BY <1>1, <1>3, <1>5, <1>6, UndoKeepsShape DEF Backing

LEMMA LookUpKeepsShape ==
  ASSUME Shape, LookUp, UNCHANGED <<host, upsets, raced>>
  PROVE  Shape'
<1>1. /\ pc = "undo" /\ UNCHANGED <<tree, depth, walk, fresh, created, dest, temp, home, quarantine>>
  BY DEF LookUp, Undoing
<1>2. /\ cursor \in 0 .. Len(created) /\ cursor \in Nat /\ Len(created) \in 0 .. Depth
      /\ Depth \in Nat
  BY <1>1, AtCursor DEF Backing
<1>3. \/ Stop /\ UNCHANGED cursor
      \/ cursor > 0 /\ NextOut
      \/ /\ cursor > 0 /\ created[cursor].parent # None
         /\ pc' = (IF quarantine = None THEN "claim" ELSE "capture") /\ UNCHANGED cursor
  BY DEF LookUp, Level
<1>4. cursor > 0 => cursor - 1 \in 0 .. Len(created) /\ cursor - 1 \in 0 .. (Depth + 1)
      /\ cursor - 1 <= Len(created)
  BY <1>2
<1>5. UndoControls'
  <2>1. CASE Stop /\ UNCHANGED cursor
    BY <1>1, <2>1, <1>2 DEF Shape, UndoControls, Backing, Walking, Stop
  <2>2. CASE cursor > 0 /\ NextOut
    BY <1>1, <2>2, <1>4 DEF Shape, UndoControls, Backing, Walking, NextOut
  <2>3. CASE /\ cursor > 0 /\ created[cursor].parent # None
             /\ pc' = (IF quarantine = None THEN "claim" ELSE "capture") /\ UNCHANGED cursor
    BY <1>1, <2>3, <1>2 DEF Shape, UndoControls, Backing, Walking
  <2> QED BY <1>3, <2>1, <2>2, <2>3
<1>6. HidesUsed(pc, quarantine) <= HidesUsed(pc', quarantine') BY <1>1 DEF HidesUsed
<1>7. pc' \in Backing \union {"tidy", "remove", "failed"}
  BY <1>3 DEF Stop, NextOut, Backing
<1>8. TreeSound' /\ \A k \in Nat : Taken(k) => Taken(k)' BY <1>1, SameTree DEF Shape
<1>9. temp' = temp /\ tree'[temp].maker = tree[temp].maker BY <1>1
<1>10. pc \in Backing BY <1>1 DEF Backing
<1> QED BY <1>1, <1>5, <1>6, <1>7, <1>8, <1>9, <1>10, UndoKeepsShape

\* The quarantine is made in the parent of the outermost level that is held.
LEMMA BesideOutermost ==
  ASSUME Shape, Claim
  PROVE  /\ home' \in Nodes /\ \E i \in DOMAIN created : home' = created[i].parent /\ home' # None
<1> DEFINE S == {i \in DOMAIN created : created[i].parent # None}
<1>1. /\ cursor \in DOMAIN created /\ created[cursor].parent \in Nodes
      /\ DOMAIN created = 1 .. Len(created) /\ created \in Seq(LevelRecords)
      /\ Len(created) \in Nat
  BY AtCursor, CreatedTyped DEF Claim, Backing
<1>2. cursor \in S /\ S \in SUBSET Nat BY <1>1, Sizes
<1>3. Min(S) \in S
  <2> HIDE DEF S
  <2> QED BY <1>2, HasMin
<1>4. home' = created[Min(S)].parent BY DEF Claim
<1>5. PICK i \in DOMAIN created : home' = created[i].parent /\ created[i].parent # None
  BY <1>3, <1>4
<1>6. created[i].parent \in Pin BY <1>1, LevelTyped
<1> QED BY <1>5, <1>6 DEF Pin

LEMMA ClaimKeepsShape ==
  ASSUME Shape, Claim, UNCHANGED <<host, upsets, raced>>
  PROVE  Shape'
<1>1. /\ pc = "claim" /\ UNCHANGED <<depth, walk, fresh, created, dest, temp, cursor, quarantine>>
      /\ home' \in Nodes /\ home' # None /\ quarantine = None
  BY BesideOutermost, Sizes DEF Claim, Undoing, Shape, UndoControls
<1>2. CASE Stop /\ UNCHANGED tree
  <2>1. TreeSound' /\ \A k \in Nat : Taken(k) => Taken(k)' BY <1>2, SameTree DEF Shape
  <2>2. pc' = "failed" BY <1>1, <1>2 DEF Stop
  <2>3. UndoControls'
    BY <1>1, <2>2 DEF Shape, UndoControls, Backing, Walking, Pin
  <2>4. HidesUsed(pc, quarantine) <= HidesUsed(pc', quarantine') BY <1>1, <2>2 DEF HidesUsed
  <2>5. temp' = temp /\ tree'[temp].maker = tree[temp].maker BY <1>1, <1>2
  <2>6. pc \in Backing BY <1>1 DEF Backing
  <2> QED BY <1>1, <2>1, <2>2, <2>3, <2>4, <2>5, <2>6, UndoKeepsShape
<1>3. ASSUME Vacant(home', Quarantined),
             Put(NewNode, Node(home', Quarantined, "directory", "quarantine")), pc' = "vouch"
      PROVE  Shape'
  <2>1. SUFFICES ASSUME NEW beside \in Nodes, beside = home', Vacant(beside, Quarantined),
                        Put(NewNode, Node(beside, Quarantined, "directory", "quarantine"))
                 PROVE  Shape'
    BY <1>1, <1>3
  <2>2. PICK k \in Nodes :
           /\ Taken(k) /\ 1 <= k /\ k <= Allotted(pc, depth, quarantine, upsets)
           /\ TreeSound' /\ Taken(k + 1)' /\ NewNode = k /\ tree[k] = Unused
           /\ tree'[k] = Node(beside, Quarantined, "directory", "quarantine")
           /\ \A n \in Nodes : n # k => tree'[n] = tree[n]
    BY <1>1, <2>1, ClaimEffect
  <2>3. WalkControls' BY <1>1, <1>3 DEF Shape, WalkControls, Walking, Pcs, Backing
  <2>4. UndoControls'
    BY <1>1, <1>3 DEF Shape, UndoControls, Walking, Backing, Pin
  <2>5. PackControls'
    <3>1. temp # None => temp # k
      BY <2>2, UnusedFields DEF Shape, PackControls
    <3>2. temp # None => temp \in Nodes BY DEF Shape, UndoControls, Pin
    <3> QED BY <1>1, <1>3, <2>2, <3>1, <3>2 DEF Shape, PackControls
  <2>6. k \in Nat /\ upsets \in Nat /\ depth \in 1 .. (Depth + 1) BY Accounts, Sizes
  <2>7. k + 1 <= Allotted("vouch", depth, None, upsets)
    <3>1. Allotted("claim", depth, None, upsets) = 2 + Depth + Depth + 1 + upsets
      BY <1>1, <2>6, Sizes DEF Allotted, LevelsUsed, PacksUsed, HidesUsed, Walking
    <3>2. Allotted("vouch", depth, None, upsets) = 2 + Depth + Depth + 1 + 1 + upsets
      BY <1>1, <2>6, Sizes DEF Allotted, LevelsUsed, PacksUsed, HidesUsed, Walking
    <3> QED BY <1>1, <2>2, <2>6, <3>1, <3>2, Sizes
  <2>8. Recorded(created') BY <1>1 DEF Shape
  <2>9. pc' = "vouch" /\ depth' = depth /\ quarantine' = None /\ upsets' = upsets BY <1>1, <1>3
  <2> QED BY <2>2, <2>3, <2>4, <2>5, <2>6, <2>7, <2>8, <2>9, ShapeGrows
<1> QED BY <1>2, <1>3 DEF Claim

LEMMA VouchKeepsShape ==
  ASSUME Shape, Vouch, UNCHANGED <<host, upsets, raced>>
  PROVE  Shape'
<1>1. /\ pc = "vouch" /\ UNCHANGED <<tree, depth, walk, fresh, created, dest, temp, cursor, home>>
      /\ quarantine = None /\ home # None /\ pc' \in {"capture", "failed"}
      /\ pc' = "capture" => quarantine' # None
      /\ pc' = "failed" => quarantine' = quarantine
  <2>1. home # None /\ quarantine = None BY DEF Vouch, Shape, UndoControls
  <2> QED BY <2>1 DEF Vouch, Undoing
<1>2. quarantine' \in Pin
  <2>1. quarantine' = quarantine \/ (quarantine' = Entry(home, Quarantined) /\ quarantine' # None)
    BY DEF Vouch
  <2>2. Entry(home, Quarantined) = None \/ Entry(home, Quarantined) \in Nodes BY EntryFound
  <2> QED BY <2>1, <2>2 DEF Shape, UndoControls, Pin
<1>3. UndoControls' BY <1>1, <1>2 DEF Shape, UndoControls, Backing, Walking
<1>4. HidesUsed(pc, quarantine) <= HidesUsed(pc', quarantine') BY <1>1 DEF HidesUsed
<1>5. TreeSound' /\ \A k \in Nat : Taken(k) => Taken(k)' BY <1>1, SameTree DEF Shape
<1>6. temp' = temp /\ tree'[temp].maker = tree[temp].maker BY <1>1
<1>7. pc \in Backing /\ pc' \in Backing \union {"failed"} BY <1>1 DEF Backing
<1> QED BY <1>1, <1>3, <1>4, <1>5, <1>6, <1>7, UndoKeepsShape

\* What the name leads to, if anything, is a node of the tree.
LEMMA CaughtNode ==
  ASSUME Shape, NEW dir, NEW name, Entry(dir, name) # None, dir # None
  PROVE  /\ Entry(dir, name) \in Nodes /\ tree[Entry(dir, name)].dir # None
         /\ tree[Entry(dir, name)].dir = dir /\ tree[Entry(dir, name)].name = name
BY EntryFound

\* A removal or a rename takes no node.
LEMMA TakenKept ==
  ASSUME Shape, NEW n \in Nodes, tree[n].dir # None,
         \/ Unlink(n)
         \/ \E dir \in Nodes, name \in Names :
              Stands(dir) /\ (Vacant(dir, name) \/ name = Away) /\ Move(n, dir, name)
  PROVE  /\ TreeSound' /\ \A k \in Nat : Taken(k) => Taken(k)'
         /\ \A m \in Nodes : tree'[m].maker = tree[m].maker
<1>1. TreeSound BY DEF Shape
<1>2. PICK k \in Nat : Taken(k) BY DEF Shape, Supplied
<1>3. CASE Unlink(n)
  <2>1. TreeSound' /\ \A m \in Nodes : tree'[m].maker = tree[m].maker
    BY <1>1, <1>2, <1>3, UnlinkKeeps
  <2>2. ASSUME NEW j \in Nat, Taken(j) PROVE Taken(j)' BY <1>1, <1>3, <2>2, UnlinkKeeps
  <2> QED BY <2>1, <2>2
<1>4. ASSUME NEW dir \in Nodes, NEW name \in Names, Stands(dir), Vacant(dir, name) \/ name = Away,
             Move(n, dir, name)
      PROVE  /\ TreeSound' /\ \A j \in Nat : Taken(j) => Taken(j)'
             /\ \A m \in Nodes : tree'[m].maker = tree[m].maker
  <2>1. TreeSound' /\ \A m \in Nodes : tree'[m].maker = tree[m].maker
    BY <1>1, <1>2, <1>4, MoveKeeps
  <2>2. ASSUME NEW j \in Nat, Taken(j) PROVE Taken(j)' BY <1>1, <1>4, <2>2, MoveKeeps
  <2> QED BY <2>1, <2>2
<1> QED BY <1>3, <1>4

\* The temporary pack stays what it is.
LEMMA TempKept ==
  ASSUME Shape, \A m \in Nodes : tree'[m].maker = tree[m].maker
  PROVE  temp = None \/ tree'[temp].maker = tree[temp].maker
BY DEF Shape, UndoControls, Pin

LEMMA CaptureKeepsShape ==
  ASSUME Shape, Capture, UNCHANGED <<host, upsets, raced>>
  PROVE  Shape'
<1> DEFINE found == Entry(Level.parent, LevelName)
<1>1. /\ pc = "capture" /\ UNCHANGED <<depth, walk, fresh, created, dest, temp, home, quarantine>>
      /\ quarantine # None /\ quarantine \in Nodes /\ pc \in Backing
      /\ cursor \in 1 .. Len(created) /\ Len(created) \in 0 .. Depth /\ Depth \in Nat
      /\ created[cursor].parent \in Nodes
  <2>1. pc = "capture" BY DEF Capture
  <2>2. quarantine # None /\ quarantine \in Nodes BY <2>1 DEF Shape, UndoControls, Pin
  <2> QED BY <2>1, <2>2, AtCursor DEF Capture, Undoing, Backing
<1>2. /\ TreeSound' /\ \A k \in Nat : Taken(k) => Taken(k)'
      /\ \A m \in Nodes : tree'[m].maker = tree[m].maker
  <2>1. CASE UNCHANGED tree BY <2>1, SameTree DEF Shape
  <2>2. CASE found # None /\ Vacant(quarantine, Captured) /\ Move(found, quarantine, Captured)
    <3>1. found \in Nodes /\ tree[found].dir # None
      BY <1>1, <2>2, CaughtNode, Sizes DEF Level
    <3>2. Captured \in Names /\ Stands(quarantine) BY <2>2, NamesTyped DEF Vacant
    <3> HIDE DEF found
    <3> QED BY <1>1, <2>2, <3>1, <3>2, TakenKept
  <2> QED BY <2>1, <2>2 DEF Capture
<1>3. \/ pc' = "check" /\ UNCHANGED cursor
      \/ NextOut
      \/ Stop /\ UNCHANGED cursor
  BY DEF Capture
<1>4. cursor - 1 \in 0 .. (Depth + 1) /\ cursor - 1 <= Len(created) BY <1>1
<1>5. UndoControls'
  <2>1. CASE pc' = "check" /\ UNCHANGED cursor
    BY <1>1, <2>1 DEF Shape, UndoControls, Backing, Walking
  <2>2. CASE NextOut BY <1>1, <2>2, <1>4 DEF Shape, UndoControls, Backing, Walking, NextOut
  <2>3. CASE Stop /\ UNCHANGED cursor
    BY <1>1, <2>3 DEF Shape, UndoControls, Backing, Walking, Stop
  <2> QED BY <1>3, <2>1, <2>2, <2>3
<1>6. HidesUsed(pc, quarantine) <= HidesUsed(pc', quarantine') BY <1>1 DEF HidesUsed
<1>7. pc' \in Backing \union {"tidy", "remove", "failed"} BY <1>3 DEF Stop, NextOut, Backing
<1>8. temp' = None \/ (temp' = temp /\ tree'[temp].maker = tree[temp].maker)
  BY <1>1, <1>2, TempKept
<1> QED BY <1>1, <1>2, <1>5, <1>6, <1>7, <1>8, UndoKeepsShape

LEMMA CheckCaptureKeepsShape ==
  ASSUME Shape, CheckCapture, UNCHANGED <<host, upsets, raced>>
  PROVE  Shape'
<1>1. /\ pc = "check" /\ pc' \in {"unlink", "putback"}
      /\ UNCHANGED <<tree, depth, walk, fresh, created, dest, temp, cursor, home, quarantine>>
  BY DEF CheckCapture, Undoing
<1>2. UndoControls' BY <1>1 DEF Shape, UndoControls, Backing, Walking
<1>3. HidesUsed(pc, quarantine) <= HidesUsed(pc', quarantine') BY <1>1 DEF HidesUsed
<1>4. TreeSound' /\ \A k \in Nat : Taken(k) => Taken(k)' BY <1>1, SameTree DEF Shape
<1>5. temp' = temp /\ tree'[temp].maker = tree[temp].maker BY <1>1
<1>6. pc \in Backing /\ pc' \in Backing BY <1>1 DEF Backing
<1> QED BY <1>1, <1>2, <1>3, <1>4, <1>5, <1>6, UndoKeepsShape

LEMMA UnlinkCaptureKeepsShape ==
  ASSUME Shape, UnlinkCapture, UNCHANGED <<host, upsets, raced>>
  PROVE  Shape'
<1> DEFINE found == Entry(quarantine, Captured)
<1>1. /\ pc = "unlink" /\ UNCHANGED <<depth, walk, fresh, created, dest, temp, home, quarantine>>
      /\ quarantine # None /\ quarantine \in Nodes /\ pc \in Backing
      /\ cursor \in 1 .. Len(created) /\ Len(created) \in 0 .. Depth /\ Depth \in Nat
  <2>1. pc = "unlink" BY DEF UnlinkCapture
  <2>2. quarantine # None /\ quarantine \in Nodes BY <2>1 DEF Shape, UndoControls, Pin
  <2> QED BY <2>1, <2>2, AtCursor DEF UnlinkCapture, Undoing, Backing
<1>2. /\ TreeSound' /\ \A k \in Nat : Taken(k) => Taken(k)'
      /\ \A m \in Nodes : tree'[m].maker = tree[m].maker
  <2>1. CASE UNCHANGED tree BY <2>1, SameTree DEF Shape
  <2>2. CASE found # None /\ Unlink(found)
    <3>1. found \in Nodes /\ tree[found].dir # None BY <1>1, <2>2, CaughtNode
    <3> HIDE DEF found
    <3> QED BY <2>2, <3>1, TakenKept
  <2> QED BY <2>1, <2>2 DEF UnlinkCapture
<1>3. NextOut \/ (pc' = "putback" /\ UNCHANGED cursor) BY DEF UnlinkCapture
<1>4. cursor - 1 \in 0 .. (Depth + 1) /\ cursor - 1 <= Len(created) BY <1>1
<1>5. UndoControls'
  <2>1. CASE pc' = "putback" /\ UNCHANGED cursor
    BY <1>1, <2>1 DEF Shape, UndoControls, Backing, Walking
  <2>2. CASE NextOut BY <1>1, <2>2, <1>4 DEF Shape, UndoControls, Backing, Walking, NextOut
  <2> QED BY <1>3, <2>1, <2>2
<1>6. HidesUsed(pc, quarantine) <= HidesUsed(pc', quarantine') BY <1>1 DEF HidesUsed
<1>7. pc' \in Backing BY <1>3 DEF NextOut, Backing
<1>8. temp' = None \/ (temp' = temp /\ tree'[temp].maker = tree[temp].maker)
  BY <1>1, <1>2, TempKept
<1> QED BY <1>1, <1>2, <1>5, <1>6, <1>7, <1>8, UndoKeepsShape

LEMMA PutBackKeepsShape ==
  ASSUME Shape, PutBack, UNCHANGED <<host, upsets, raced>>
  PROVE  Shape'
<1> DEFINE found == Entry(quarantine, Captured)
<1>1. /\ pc = "putback" /\ UNCHANGED <<depth, walk, fresh, created, dest, temp, home, quarantine>>
      /\ quarantine # None /\ quarantine \in Nodes /\ pc \in Backing
      /\ cursor \in 1 .. Len(created) /\ Len(created) \in 0 .. Depth /\ Depth \in Nat
      /\ created[cursor].parent \in Nodes /\ LevelName \in Names
  <2>1. pc = "putback" BY DEF PutBack
  <2>2. quarantine # None /\ quarantine \in Nodes BY <2>1 DEF Shape, UndoControls, Pin
  <2> QED BY <2>1, <2>2, AtCursor DEF PutBack, Undoing, Backing
<1>2. /\ TreeSound' /\ \A k \in Nat : Taken(k) => Taken(k)'
      /\ \A m \in Nodes : tree'[m].maker = tree[m].maker
  <2>1. CASE UNCHANGED tree BY <2>1, SameTree DEF Shape
  <2>2. ASSUME NEW name \in {LevelName, Aside}, found # None, Vacant(Level.parent, name),
               Move(found, Level.parent, name)
        PROVE  /\ TreeSound' /\ \A k \in Nat : Taken(k) => Taken(k)'
               /\ \A m \in Nodes : tree'[m].maker = tree[m].maker
    <3>1. found \in Nodes /\ tree[found].dir # None BY <1>1, <2>2, CaughtNode
    <3>2. name \in Names /\ Stands(Level.parent) BY <1>1, <2>2, NamesTyped DEF Vacant
    <3>3. Level.parent \in Nodes BY <1>1 DEF Level
    <3> HIDE DEF found
    <3> QED BY <2>2, <3>1, <3>2, <3>3, TakenKept
  <2> QED BY <2>1, <2>2 DEF PutBack
<1>3. NextOut \/ (Stop /\ UNCHANGED cursor) BY DEF PutBack
<1>4. cursor - 1 \in 0 .. (Depth + 1) /\ cursor - 1 <= Len(created) BY <1>1
<1>5. UndoControls'
  <2>1. CASE Stop /\ UNCHANGED cursor
    BY <1>1, <2>1 DEF Shape, UndoControls, Backing, Walking, Stop
  <2>2. CASE NextOut BY <1>1, <2>2, <1>4 DEF Shape, UndoControls, Backing, Walking, NextOut
  <2> QED BY <1>3, <2>1, <2>2
<1>6. HidesUsed(pc, quarantine) <= HidesUsed(pc', quarantine') BY <1>1 DEF HidesUsed
<1>7. pc' \in Backing \union {"tidy", "remove", "failed"} BY <1>3 DEF Stop, NextOut, Backing
<1>8. temp' = None \/ (temp' = temp /\ tree'[temp].maker = tree[temp].maker)
  BY <1>1, <1>2, TempKept
<1> QED BY <1>1, <1>2, <1>5, <1>6, <1>7, <1>8, UndoKeepsShape

LEMMA TidyKeepsShape ==
  ASSUME Shape, Tidy, UNCHANGED <<host, upsets, raced>>
  PROVE  Shape'
<1>1. /\ pc = "tidy" /\ pc' \in {"remove", "failed"}
      /\ UNCHANGED <<tree, depth, walk, fresh, created, dest, temp, cursor, home, quarantine>>
  BY DEF Tidy, Undoing, undoing
<1>2. UndoControls' BY <1>1 DEF Shape, UndoControls, Backing, Walking
<1>3. HidesUsed(pc, quarantine) <= HidesUsed(pc', quarantine') BY <1>1 DEF HidesUsed
<1>4. TreeSound' /\ \A k \in Nat : Taken(k) => Taken(k)' BY <1>1, SameTree DEF Shape
<1>5. temp' = temp /\ tree'[temp].maker = tree[temp].maker BY <1>1
<1> QED BY <1>1, <1>2, <1>3, <1>4, <1>5, UndoKeepsShape

LEMMA RemoveQuarantineKeepsShape ==
  ASSUME Shape, RemoveQuarantine, UNCHANGED <<host, upsets, raced>>
  PROVE  Shape'
<1> DEFINE found == Entry(home, Quarantined)
<1>1. /\ pc = "remove" /\ pc' = "failed" /\ quarantine' = None /\ quarantine # None /\ home # None
      /\ UNCHANGED <<depth, walk, fresh, created, dest, temp, cursor, home>>
  BY DEF RemoveQuarantine, Undoing, Shape, UndoControls
<1>2. /\ TreeSound' /\ \A k \in Nat : Taken(k) => Taken(k)'
      /\ \A m \in Nodes : tree'[m].maker = tree[m].maker
  <2>1. CASE UNCHANGED tree BY <2>1, SameTree DEF Shape
  <2>2. CASE found # None /\ Unlink(found)
    <3>1. found \in Nodes /\ tree[found].dir # None BY <1>1, <2>2, CaughtNode
    <3> HIDE DEF found
    <3> QED BY <2>2, <3>1, TakenKept
  <2> QED BY <2>1, <2>2 DEF RemoveQuarantine
<1>3. UndoControls' BY <1>1 DEF Shape, UndoControls, Backing, Walking, Pin
<1>4. HidesUsed(pc, quarantine) <= HidesUsed(pc', quarantine') BY <1>1 DEF HidesUsed
<1>5. temp' = None \/ (temp' = temp /\ tree'[temp].maker = tree[temp].maker)
  BY <1>1, <1>2, TempKept
<1> QED BY <1>1, <1>2, <1>3, <1>4, <1>5, UndoKeepsShape

\* What others do.
LEMMA LookedUpNames == ASSUME NEW dir PROVE LookedUp(dir) \subseteq Names
<1> SUFFICES ASSUME NEW name \in LookedUp(dir) PROVE name \in Names OBVIOUS
<1>1. CASE name = Captured BY <1>1, NamesTyped
<1>2. CASE name \in {"pack", Aside} BY <1>2, NamesTyped
<1>3. ASSUME NEW k \in 0 .. Depth, k # Depth, name = LevelNames[k + 1] PROVE name \in Names
  <2>1. k + 1 \in Levels BY <1>3, Sizes DEF Levels
  <2> QED BY <1>3, <2>1, Sizes, NamesTyped
<1>4. \/ name = Captured \/ name \in {"pack", Aside}
      \/ \E k \in 0 .. Depth : k # Depth /\ name = LevelNames[k + 1]
  BY DEF LookedUp
<1> QED BY <1>1, <1>2, <1>3, <1>4

\* A directory carried off and another put in its place.
LEMMA SwapKeeps ==
  ASSUME TreeSound, NEW k \in Nodes, Taken(k), NEW n \in Nodes, n # Root, tree[n].dir # None,
         tree' = [tree EXCEPT ![n].dir = Root, ![n].name = Away,
                              ![NewNode] = Node(tree[n].dir, tree[n].name, "directory", "other")]
  PROVE  /\ TreeSound' /\ Taken(k + 1)' /\ NewNode = k /\ tree[k] = Unused /\ k # n
         /\ tree'[k] = Node(tree[n].dir, tree[n].name, "directory", "other")
         /\ tree'[n].dir = Root /\ tree'[n].name = Away /\ tree'[n].kind = tree[n].kind
         /\ tree'[n].maker = tree[n].maker
         /\ \A m \in Nodes : m # k /\ m # n => tree'[m] = tree[m]
<1>1. NewNode = k /\ tree[k] = Unused /\ tree[k].maker = "nobody" /\ k # n
  <2>1. NewNode = k /\ tree[k] = Unused BY NewNodeUnused
  <2> QED BY <2>1, UnusedFields
<1>2. tree \in [Nodes -> Things] /\ tree[n] \in Things BY DEF TreeSound
<1>3. SUFFICES ASSUME NEW r, r = [tree[n] EXCEPT !.dir = Root, !.name = Away],
                      NEW new, new = Node(tree[n].dir, tree[n].name, "directory", "other")
               PROVE  /\ TreeSound' /\ Taken(k + 1)'
                      /\ tree'[k] = new
                      /\ tree'[n].dir = Root /\ tree'[n].name = Away /\ tree'[n].kind = tree[n].kind
                      /\ tree'[n].maker = tree[n].maker
                      /\ \A m \in Nodes : m # k /\ m # n => tree'[m] = tree[m]
  BY <1>1
<1>4. tree[n].dir \in Nodes /\ tree[n].name \in Names /\ tree[n].maker # "nobody"
  BY UsedNode DEF Pin
<1>5. /\ r \in Things /\ r.dir = Root /\ r.name = Away /\ r.kind = tree[n].kind
      /\ r.maker = tree[n].maker
  BY <1>2, <1>3, Sizes, NamesTyped DEF Things, Pin
<1>6. /\ new \in Things /\ new.dir = tree[n].dir /\ new.name = tree[n].name /\ new.maker = "other"
  <2>1. "directory" \in Kinds /\ "other" \in Makers /\ tree[n].dir \in Pin
    BY <1>4, NamesTyped DEF Pin
  <2>2. new \in Things BY <1>3, <1>4, <2>1, NodeTyped
  <2> QED BY <1>3, <2>2, NodeFields
<1>7. tree' = [tree EXCEPT ![n] = r, ![k] = new] BY <1>1, <1>3
<1>8. /\ tree' \in [Nodes -> Things] /\ tree'[k] = new /\ tree'[n] = r
      /\ \A m \in Nodes : m # k /\ m # n => tree'[m] = tree[m]
  BY <1>1, <1>2, <1>5, <1>6, <1>7
<1>9. k # Root BY <1>1 DEF TreeSound
<1>10. /\ tree'[k].maker # "nobody" /\ tree'[n].maker # "nobody"
       /\ tree'[k] # Unused /\ tree'[n] # Unused /\ tree[n] # Unused
  <2>1. tree'[k].maker # "nobody" BY <1>6, <1>8
  <2>2. tree'[n].maker # "nobody" BY <1>4, <1>5, <1>8
  <2> QED BY <2>1, <2>2, <1>4, UnusedFields
<1>11. Taken(k + 1)'
  <2> SUFFICES ASSUME NEW m \in Nodes PROVE (tree'[m] = Unused) <=> m >= k + 1
    BY DEF Taken
  <2>1. m \in Int /\ k \in Int /\ n \in Int BY Sizes
  <2>2. m = n => m < k
    BY <1>10, <2>1 DEF Taken
  <2> QED BY <1>8, <1>10, <2>1, <2>2 DEF Taken
<1>12. tree'[Root] = tree[Root] BY <1>8, <1>9, Sizes
<1>13. \A m \in Nodes : tree'[m].maker = "nobody" => tree'[m] = Unused
  BY <1>8, <1>10 DEF TreeSound
<1>14. \A m \in Nodes : tree[m].maker # "nobody" => tree'[m].maker # "nobody"
  BY <1>8, <1>10
<1>15. ASSUME NEW m \in Nodes, tree'[m].dir # None PROVE tree'[tree'[m].dir].maker # "nobody"
  <2>1. CASE m = n
    <3>1. tree'[m].dir = Root BY <1>5, <1>8, <2>1
    <3>2. tree[Root].maker = "before" BY DEF TreeSound
    <3> QED BY <3>1, <3>2, <1>12
  <2>2. CASE m = k
    <3>1. tree'[m].dir = tree[n].dir BY <1>6, <1>8, <2>2
    <3>2. tree[tree[n].dir].maker # "nobody" BY DEF TreeSound
    <3> QED BY <3>1, <3>2, <1>4, <1>14
  <2>3. CASE m # n /\ m # k
    <3>1. tree'[m].dir = tree[m].dir BY <1>8, <2>3
    <3>2. tree[m].dir \in Nodes BY <1>15, <3>1, UsedNode DEF Pin
    <3>3. tree[tree[m].dir].maker # "nobody" BY <1>15, <3>1 DEF TreeSound
    <3> QED BY <3>1, <3>2, <3>3, <1>14
  <2> QED BY <2>1, <2>2, <2>3
<1>16. ASSUME NEW d \in Nodes, d # k, tree'[d].dir = tree[n].dir, tree'[d].name = tree[n].name
       PROVE  tree[n].name = Away
  <2>1. CASE d = n BY <2>1, <1>16, <1>5, <1>8
  <2>2. CASE d # n
    <3>1. tree[d] = tree'[d] BY <1>8, <1>16, <2>2
    <3> QED BY <3>1, <2>2, <1>16 DEF TreeSound
  <2> QED BY <2>1, <2>2
<1>17. ASSUME NEW c \in Nodes, NEW d \in Nodes, c # d, tree'[c].dir = tree'[d].dir,
              tree'[c].dir # None, tree'[c].name = tree'[d].name
       PROVE  tree'[c].name = Away
  <2>1. CASE c = k BY <2>1, <1>6, <1>8, <1>16, <1>17
  <2>2. CASE d = k BY <2>2, <1>6, <1>8, <1>16, <1>17
  <2>3. CASE c = n \/ d = n BY <2>3, <1>5, <1>8, <1>17
  <2>4. CASE c # k /\ d # k /\ c # n /\ d # n
    <3>1. tree'[c] = tree[c] /\ tree'[d] = tree[d] BY <2>4, <1>8
    <3> QED BY <3>1, <1>17 DEF TreeSound
  <2> QED BY <2>1, <2>2, <2>3, <2>4
<1>18. TreeSound' BY <1>8, <1>12, <1>13, <1>15, <1>17 DEF TreeSound
<1> QED BY <1>5, <1>8, <1>11, <1>18

\* An upset is counted, and there is a node for what it makes.
LEMMA UpsetRoom ==
  ASSUME Shape, NEW dir, Upset(dir)
  PROVE  /\ upsets \in Nat /\ upsets' = upsets + 1 /\ upsets + 1 <= host.upsets
         /\ host.upsets \in Nat
         /\ \A k \in Nat : 1 <= k /\ k <= Allotted(pc, depth, quarantine, upsets) => k \in Nodes
         /\ UNCHANGED <<host, pc, depth, walk, fresh, created, dest, temp, cursor, home, quarantine>>
<1>1. /\ upsets \in Nat /\ upsets <= host.upsets /\ host.upsets <= MaxUpsets
      /\ host.upsets \in Nat /\ Allotted(pc, depth, quarantine, upsets) \in Int
      /\ Allotted(pc, depth, quarantine, upsets) <= 2 * Depth + 4 + upsets
      /\ Depth \in Nat /\ MaxUpsets \in Nat
  BY Accounts, Sizes
<1>2. upsets < host.upsets /\ upsets' = upsets + 1 BY DEF Upset
<1>3. ASSUME NEW k \in Nat, 1 <= k, k <= Allotted(pc, depth, quarantine, upsets)
      PROVE  k \in Nodes
  <2>1. k <= 2 * Depth + 3 + MaxUpsets BY <1>1, <1>2, <1>3
  <2> QED BY <1>1, <2>1, Sizes
<1>4. UNCHANGED <<host, pc, depth, walk, fresh, created, dest, temp, cursor, home, quarantine>>
  BY DEF Upset, progress, undoing
<1> QED BY <1>1, <1>2, <1>3, <1>4

LEMMA UpsetKeepsShape ==
  ASSUME Shape, NEW dir, Upset(dir), TreeSound', NEW k \in Nat, 1 <= k,
         k <= Allotted(pc, depth, quarantine, upsets), NEW more \in {0, 1}, Taken(k + more)',
         \A m \in Nodes : tree[m].maker # "nobody" => tree'[m].maker = tree[m].maker,
         \A m \in Nodes : tree[m].dir # None /\ tree[m].kind # "directory" => tree'[m] = tree[m]
  PROVE  Shape'
<1>1. /\ upsets \in Nat /\ upsets' = upsets + 1 /\ upsets + 1 <= host.upsets
      /\ host.upsets \in Nat
      /\ UNCHANGED <<host, pc, depth, walk, fresh, created, dest, temp, cursor, home, quarantine>>
  BY UpsetRoom
<1>2. upsets + 1 \in 0 .. host.upsets BY <1>1
<1>3. WalkControls' BY <1>1, <1>2 DEF Shape, WalkControls
<1>4. UndoControls' BY <1>1 DEF Shape, UndoControls
<1>5. PackControls'
  <2>1. temp # None => temp \in Nodes BY DEF Shape, UndoControls, Pin
  <2> QED BY <1>1, <2>1 DEF Shape, PackControls
<1>6. k + more <= Allotted(pc, depth, quarantine, upsets + 1)
  <2>1. Allotted(pc, depth, quarantine, upsets + 1) = Allotted(pc, depth, quarantine, upsets) + 1
    <3>1. /\ LevelsUsed(pc, depth) \in Int /\ PacksUsed(pc) \in Int /\ Depth \in Int
          /\ HidesUsed(pc, quarantine) \in Int
      BY Sizes DEF LevelsUsed, PacksUsed, HidesUsed, Shape, WalkControls
    <3> QED BY <1>1, <3>1 DEF Allotted
  <2>2. Allotted(pc, depth, quarantine, upsets) \in Int BY Accounts
  <2> QED BY <2>1, <2>2
<1>7. Recorded(created') BY <1>1 DEF Shape
<1> QED BY <1>1, <1>3, <1>4, <1>5, <1>6, <1>7, ShapeGrows

LEMMA TakeNameKeepsShape ==
  ASSUME Shape, NEW dir \in Nodes, NEW name \in LookedUp(dir), TakeName(dir, name)
  PROVE  Shape'
<1>1. /\ Upset(dir) /\ Vacant(dir, name) /\ Put(NewNode, Node(dir, name, "directory", "other"))
      /\ TreeSound
  BY DEF TakeName, Shape
<1>2. PICK k \in Nat : Taken(k) /\ 1 <= k /\ k <= Allotted(pc, depth, quarantine, upsets)
  BY DEF Shape, Supplied
<1>3. k \in Nodes /\ name \in Names /\ "directory" \in Kinds /\ "other" \in Makers
  BY <1>1, <1>2, UpsetRoom, LookedUpNames, NamesTyped
<1>4. /\ TreeSound' /\ Taken(k + 1)' /\ tree[k] = Unused
      /\ \A n \in Nodes : n # k => tree'[n] = tree[n]
  <2>1. "other" # "nobody" OBVIOUS
  <2> QED BY <1>1, <1>2, <1>3, <2>1, PutKeeps
<1>5. tree[k].maker = "nobody" BY <1>4, UnusedFields
<1>6. tree[k].dir = None BY <1>4, UnusedFields
<1> QED BY <1>1, <1>2, <1>4, <1>5, <1>6, UpsetKeepsShape

LEMMA CarryOffKeepsShape ==
  ASSUME Shape, NEW n \in Directories, n # Root, CarryOff(n)
  PROVE  Shape'
<1>1. /\ n \in Nodes /\ tree[n].dir # None /\ tree[n].kind = "directory" /\ TreeSound
      /\ Upset(tree[n].dir) /\ Move(n, Root, Away)
  BY DEF Directories, Stands, IsDirectory, CarryOff, Shape
<1>2. PICK k \in Nat : Taken(k) /\ 1 <= k /\ k <= Allotted(pc, depth, quarantine, upsets)
  BY DEF Shape, Supplied
<1>3. Root \in Nodes /\ Stands(Root) /\ Away \in Names BY Sizes, NamesTyped DEF Stands
<1>4. /\ TreeSound' /\ Taken(k)' /\ \A m \in Nodes : m # n => tree'[m] = tree[m]
      /\ \A m \in Nodes : tree'[m].maker = tree[m].maker
  BY <1>1, <1>2, <1>3, MoveKeeps
<1>5. k + 0 = k OBVIOUS
<1> QED BY <1>1, <1>2, <1>4, <1>5, UpsetKeepsShape

LEMMA RemoveEmptyKeepsShape ==
  ASSUME Shape, NEW n \in Directories, n # Root, RemoveEmpty(n)
  PROVE  Shape'
<1>1. /\ n \in Nodes /\ tree[n].dir # None /\ tree[n].kind = "directory" /\ TreeSound
      /\ Upset(tree[n].dir) /\ Unlink(n)
  BY DEF Directories, Stands, IsDirectory, RemoveEmpty, Shape
<1>2. PICK k \in Nat : Taken(k) /\ 1 <= k /\ k <= Allotted(pc, depth, quarantine, upsets)
  BY DEF Shape, Supplied
<1>3. /\ TreeSound' /\ Taken(k)' /\ \A m \in Nodes : m # n => tree'[m] = tree[m]
      /\ \A m \in Nodes : tree'[m].maker = tree[m].maker
  BY <1>1, <1>2, UnlinkKeeps
<1>4. k + 0 = k OBVIOUS
<1> QED BY <1>1, <1>2, <1>3, <1>4, UpsetKeepsShape

LEMMA SwapKeepsShape ==
  ASSUME Shape, NEW n \in Directories, n # Root, Swap(n)
  PROVE  Shape'
<1>1. /\ n \in Nodes /\ tree[n].dir # None /\ tree[n].kind = "directory" /\ TreeSound
      /\ Upset(tree[n].dir)
      /\ tree' = [tree EXCEPT ![n].dir = Root, ![n].name = Away,
                              ![NewNode] = Node(tree[n].dir, tree[n].name, "directory", "other")]
  BY DEF Directories, Stands, IsDirectory, Swap, Shape
<1>2. PICK k \in Nat : Taken(k) /\ 1 <= k /\ k <= Allotted(pc, depth, quarantine, upsets)
  BY DEF Shape, Supplied
<1>3. k \in Nodes BY <1>1, <1>2, UpsetRoom
<1>4. /\ TreeSound' /\ Taken(k + 1)' /\ tree[k] = Unused
      /\ tree'[n].maker = tree[n].maker
      /\ \A m \in Nodes : m # k /\ m # n => tree'[m] = tree[m]
  BY <1>1, <1>2, <1>3, SwapKeeps
<1>5. tree[k].maker = "nobody" BY <1>4, UnusedFields
<1>6. tree[k].dir = None BY <1>4, UnusedFields
<1> QED BY <1>1, <1>2, <1>4, <1>5, <1>6, UpsetKeepsShape

LEMMA OtherKeepsShape == ASSUME Shape, Other PROVE Shape'
<1>1. PICK n \in Directories :
        \/ \E name \in LookedUp(n) : TakeName(n, name)
        \/ n # Root /\ tree[n].name # Away /\ (CarryOff(n) \/ Swap(n) \/ RemoveEmpty(n))
  BY DEF Other
<1>2. n \in Nodes BY DEF Directories
<1> QED BY <1>1, <1>2, TakeNameKeepsShape, CarryOffKeepsShape, SwapKeepsShape, RemoveEmptyKeepsShape

LEMMA ImportKeepsShape == ASSUME Shape, Import PROVE Shape'
<1>1. UNCHANGED <<host, upsets, raced>> BY DEF Import
<1>2. \/ Survey \/ OpenStart \/ MakeLevel \/ OpenExisting \/ Identify \/ SyncEntry \/ Reopen
      \/ GiveUpPin \/ Acquire \/ Climb \/ SyncLevel
      \/ CheckName \/ CreateTemporary \/ Assemble \/ Publish \/ Discard
      \/ LookUp \/ Claim \/ Vouch \/ Capture \/ CheckCapture \/ UnlinkCapture \/ PutBack
      \/ Tidy \/ RemoveQuarantine
  BY DEF Import
<1>3. CASE \/ Survey \/ OpenStart \/ MakeLevel \/ OpenExisting \/ Identify \/ SyncEntry \/ Reopen
           \/ GiveUpPin
  BY <1>1, <1>3, SurveyKeepsShape, OpenStartKeepsShape, MakeLevelKeepsShape,
     OpenExistingKeepsShape, IdentifyKeepsShape, SyncEntryKeepsShape, ReopenKeepsShape,
     GiveUpPinKeepsShape
<1>4. CASE \/ Acquire \/ Climb \/ SyncLevel \/ CheckName \/ CreateTemporary \/ Assemble
           \/ Publish \/ Discard
  BY <1>1, <1>4, AcquireKeepsShape, ClimbKeepsShape, SyncLevelKeepsShape, CheckNameKeepsShape,
     CreateTemporaryKeepsShape, AssembleKeepsShape, PublishKeepsShape, DiscardKeepsShape
<1>5. CASE \/ LookUp \/ Claim \/ Vouch \/ Capture \/ CheckCapture \/ UnlinkCapture \/ PutBack
           \/ Tidy \/ RemoveQuarantine
  BY <1>1, <1>5, LookUpKeepsShape, ClaimKeepsShape, VouchKeepsShape, CaptureKeepsShape,
     CheckCaptureKeepsShape, UnlinkCaptureKeepsShape, PutBackKeepsShape, TidyKeepsShape,
     RemoveQuarantineKeepsShape
<1> QED BY <1>2, <1>3, <1>4, <1>5

\* Shape is inductive by itself, and it implies the types.
LEMMA ShapeStep == Shape /\ [Next]_vars => Shape'
<1> SUFFICES ASSUME Shape, [Next]_vars PROVE Shape' OBVIOUS
<1>1. CASE Import BY <1>1, ImportKeepsShape
<1>2. CASE Other BY <1>2, OtherKeepsShape
<1>3. CASE UNCHANGED vars
  <2>1. UNCHANGED <<tree, host, pc, depth, walk, fresh, created, dest, temp, cursor, home,
                    quarantine, upsets>>
    BY <1>3 DEF vars, progress, undoing
  <2>2. TreeSound' BY <2>1 DEF Shape, TreeSound
  <2>3. Supplied'
    <3>1. PICK k \in Nat : Taken(k) /\ 1 <= k /\ k <= Allotted(pc, depth, quarantine, upsets)
      BY DEF Shape, Supplied
    <3>2. Taken(k)' BY <2>1, <3>1 DEF Taken
    <3>3. k <= Allotted(pc', depth', quarantine', upsets') BY <2>1, <3>1
    <3> QED BY <3>1, <3>2, <3>3 DEF Supplied
  <2>4. Recorded(created') BY <2>1 DEF Shape
  <2>5. WalkControls' BY <2>1 DEF Shape, WalkControls
  <2>6. UndoControls' /\ PackControls' BY <2>1 DEF Shape, UndoControls, PackControls
  <2> QED BY <2>2, <2>3, <2>4, <2>5, <2>6 DEF Shape
<1> QED BY <1>1, <1>2, <1>3 DEF Next

LEMMA ShapeAlways == Spec => []Shape
BY ShapeInit, ShapeStep, PTL DEF Spec

LEMMA ShapeTyped == Shape => TypeOK
<1> SUFFICES ASSUME Shape PROVE TypeOK OBVIOUS
<1>1. \A n \in Nodes : tree[n].dir \in Pin /\ tree[n].kind \in Kinds /\ tree[n].maker \in Makers
  BY UsedNode DEF Shape
<1>2. \A n \in Nodes : \A c, d \in Children(n) :
        c # d => tree[c].name # tree[d].name \/ tree[c].name = Away
  <2> SUFFICES ASSUME NEW n \in Nodes, NEW c \in Children(n), NEW d \in Children(n), c # d,
                      tree[c].name = tree[d].name
               PROVE  tree[c].name = Away
    OBVIOUS
  <2>1. c \in Nodes /\ d \in Nodes /\ tree[c].dir = n /\ tree[d].dir = n /\ n # None
    BY Sizes DEF Children
  <2> QED BY <2>1 DEF Shape, TreeSound
<1>3. \A i \in DOMAIN created :
        /\ created[i].level \in Levels /\ created[i].node \in Nodes
        /\ created[i].own \in {None, created[i].node}
        /\ created[i].parent \in {None, created[i].parent_node}
        /\ \A j \in 1..(i - 1) : created[j].level < created[i].level
  <2> TAKE i \in DOMAIN created
  <2>1. created[i].level \in Levels /\ created[i].node \in Nodes BY CreatedTyped, LevelTyped
  <2> QED BY <2>1 DEF Shape, Recorded
<1>4. {walk, fresh.node, dest, temp, home, quarantine} \subseteq Pin
  BY DEF Shape, WalkControls, UndoControls
<1>5. cursor \in 0..(Depth + 1) /\ upsets \in 0..MaxUpsets
  <2>1. upsets \in Nat /\ upsets <= host.upsets /\ host.upsets <= MaxUpsets /\ host.upsets \in Nat
    BY Accounts
  <2> QED BY <2>1, Sizes DEF Shape, UndoControls
<1> QED BY <1>1, <1>2, <1>3, <1>4, <1>5 DEF TypeOK

---------------------------------------------------------------------------
(* What is the import's own, unless somebody came between a look and use.  *)

OwnPins ==
  ~raced => \A i \in DOMAIN created :
              created[i].own # None => tree[created[i].own].maker = "level"
FreshMade ==
  ~raced => /\ pc \in {"entry", "reopen"} => tree[fresh.node].maker = "level"
            /\ pc = "identify" =>
                 \A n \in Nodes : tree[n].dir = walk /\ tree[n].name = AtLevel
                                    => tree[n].maker = "level"
QuarantineMade ==
  ~raced => /\ quarantine # None => tree[quarantine].maker = "quarantine"
            /\ pc = "vouch" =>
                 \A n \in Nodes : tree[n].dir = home /\ tree[n].name = Quarantined
                                    => tree[n].maker = "quarantine"
            /\ pc = "remove" =>
                 \A n \in Nodes : tree[n].dir = home /\ tree[n].name = Quarantined
                                    => n = quarantine
            /\ pc = "unlink" =>
                 \A n \in Nodes : tree[n].dir = quarantine /\ tree[n].name = Captured
                                    => n = created[cursor].own
Owned == OwnPins /\ FreshMade /\ QuarantineMade

\* What a quarantine holds: no level the import pinned, and only what it took.
Parents ==
  /\ \A i \in DOMAIN created :
       created[i].parent # None => tree[created[i].parent].maker \notin {"quarantine", "nobody"}
  /\ walk # None => tree[walk].maker # "nobody"
OneQuarantine ==
  /\ quarantine = None /\ pc \notin {"vouch", "failed"} =>
       \A n \in Nodes : tree[n].maker # "quarantine"
  /\ \A m, n \in Nodes : tree[m].maker = "quarantine" /\ tree[n].maker = "quarantine" => m = n
Hidden(n) == tree[n].dir # None /\ tree[tree[n].dir].maker = "quarantine"
\* The directory a level is to go back to is itself gone.
Lost == /\ cursor \in DOMAIN created /\ created[cursor].parent \in Nodes
        /\ ~Stands(created[cursor].parent)
\* No put-back could help it: the directory is gone, or the names are.
Excused == Lost \/ denied \intersect {"names", "putback"} # {}
HiddenFew ==
  ~raced => \A n \in Nodes : Hidden(n) =>
    /\ tree[n].name = Captured
    /\ pc \in {"check", "unlink", "putback", "tidy", "remove", "failed"}
    /\ pc \in {"tidy", "remove", "failed"} => Excused
Hiding == Parents /\ OneQuarantine /\ HiddenFew

\* What a node is, and who made it, a step leaves alone.
Persist == \A n \in Nodes : tree[n].maker # "nobody" => tree'[n].maker = tree[n].maker
Unclaimed == \A n \in Nodes : tree[n].maker = "nobody" => tree'[n].maker # "quarantine"

\* At first nothing is pinned and there is no quarantine.
LEMMA InitHolds == Init => Owned /\ Hiding
<1> SUFFICES ASSUME Init PROVE Owned /\ Hiding OBVIOUS
<1>1. /\ pc = "survey" /\ walk = None /\ created = <<>> /\ quarantine = None
      /\ DOMAIN created = {}
  BY DEF Init
<1>2. Owned BY <1>1 DEF Owned, OwnPins, FreshMade, QuarantineMade
<1>3. PICK there \in 0 .. Depth, occupant \in {"nothing", "former", "rom", "directory"} :
        tree = [n \in Nodes |->
             CASE n = Root -> Node(None, "nameless", "directory", "before")
               [] n \in 1 .. there -> Node(n - 1, LevelNames[n], "directory", "before")
               [] n = there + 1 /\ occupant # "nothing" -> Node(there, "pack", occupant, "before")
               [] OTHER -> Unused]
  BY DEF Init
<1>4. ASSUME NEW n \in Nodes
      PROVE  \/ tree[n] = Node(None, "nameless", "directory", "before")
             \/ n \in 1 .. there /\ tree[n] = Node(n - 1, LevelNames[n], "directory", "before")
             \/ tree[n] = Node(there, "pack", occupant, "before")
             \/ tree[n] = Unused
  <2>1. tree[n] = CASE n = Root -> Node(None, "nameless", "directory", "before")
               [] n \in 1 .. there -> Node(n - 1, LevelNames[n], "directory", "before")
               [] n = there + 1 /\ occupant # "nothing" -> Node(there, "pack", occupant, "before")
               [] OTHER -> Unused
    BY <1>3
  <2> QED BY <2>1, Zenon
<1>5. ASSUME NEW n \in Nodes PROVE tree[n].maker # "quarantine"
  <2>1. CASE tree[n] = Node(None, "nameless", "directory", "before") BY <2>1, NodeFields
  <2>2. CASE n \in 1 .. there /\ tree[n] = Node(n - 1, LevelNames[n], "directory", "before")
    <3>1. tree[n].maker = "before" BY <2>2, NodeFields
    <3> QED BY <3>1
  <2>3. CASE tree[n] = Node(there, "pack", occupant, "before") BY <2>3, NodeFields
  <2>4. CASE tree[n] = Unused BY <2>4, UnusedFields
  <2> QED BY <1>4, <2>1, <2>2, <2>3, <2>4
<1>6. Parents BY <1>1 DEF Parents
<1>7. OneQuarantine BY <1>5 DEF OneQuarantine
<1>9. HiddenFew
  <2> SUFFICES ASSUME NEW n \in Nodes, Hidden(n) PROVE FALSE BY DEF HiddenFew
  <2>1. tree[n].dir \in Nodes BY ShapeInit, UsedNode DEF Hidden, Shape, Pin
  <2> QED BY <2>1, <1>5 DEF Hidden
<1> QED BY <1>2, <1>6, <1>7, <1>9 DEF Hiding

\* A step that pins nothing new keeps what is pinned the import's own.
LEMMA OwnedPersists ==
  ASSUME Shape, Owned, Persist, ~raced' => ~raced, LetGo(created', created),
         quarantine' \in {quarantine, None},
         ~raced' => pc' \notin {"identify", "vouch", "remove", "unlink"},
         ~raced' /\ pc' \in {"entry", "reopen"} =>
           pc \in {"entry", "reopen"} /\ fresh'.node = fresh.node
  PROVE  Owned'
<1> SUFFICES ASSUME ~raced' PROVE Owned'
  BY DEF Owned, OwnPins, FreshMade, QuarantineMade
<1>1. OwnPins'
  <2> SUFFICES ASSUME NEW i \in DOMAIN created', created'[i].own # None
               PROVE  tree'[created'[i].own].maker = "level"
    BY DEF OwnPins
  <2>1. /\ DOMAIN created = 1 .. Len(created) /\ DOMAIN created' = 1 .. Len(created)
        /\ created \in Seq(LevelRecords)
    BY CreatedTyped DEF LetGo
  <2>2. created'[i].own = created[i].own BY <2>1 DEF LetGo
  <2>3. created[i].own \in Nodes BY <2>1, <2>2, LevelTyped DEF Pin
  <2>4. tree[created[i].own].maker = "level" BY <2>1, <2>2 DEF Owned, OwnPins
  <2> QED BY <2>2, <2>3, <2>4 DEF Persist
<1>2. FreshMade'
  <2>1. ASSUME pc' \in {"entry", "reopen"} PROVE tree'[fresh'.node].maker = "level"
    <3>1. fresh'.node = fresh.node /\ fresh.node \in Nodes /\ tree[fresh.node].maker = "level"
      BY <2>1 DEF Owned, FreshMade, Shape, WalkControls, Pin
    <3> QED BY <3>1 DEF Persist
  <2> QED BY <2>1 DEF FreshMade
<1>3. QuarantineMade'
  <2>1. ASSUME quarantine' # None PROVE tree'[quarantine'].maker = "quarantine"
    <3>1. quarantine' = quarantine /\ quarantine \in Nodes /\ tree[quarantine].maker = "quarantine"
      BY <2>1 DEF Owned, QuarantineMade, Shape, UndoControls, Pin
    <3> QED BY <3>1 DEF Persist
  <2> QED BY <2>1 DEF QuarantineMade
<1> QED BY <1>1, <1>2, <1>3 DEF Owned

\* The levels' parents are directories and none of them is the quarantine.
LEMMA ParentsPersist ==
  ASSUME Shape, Parents, Persist, UNCHANGED walk \/ walk' = None, LetGo(created', created)
  PROVE  Parents'
<1>1. ASSUME NEW i \in DOMAIN created', created'[i].parent # None
      PROVE  tree'[created'[i].parent].maker \notin {"quarantine", "nobody"}
  <2>1. /\ DOMAIN created = 1 .. Len(created) /\ DOMAIN created' = 1 .. Len(created)
        /\ created \in Seq(LevelRecords)
    BY CreatedTyped DEF LetGo
  <2>2. created'[i].parent = created[i].parent BY <1>1, <2>1 DEF LetGo
  <2>3. created[i].parent \in Nodes BY <1>1, <2>1, <2>2, LevelTyped DEF Pin
  <2>4. tree[created[i].parent].maker \notin {"quarantine", "nobody"}
    BY <1>1, <2>1, <2>2 DEF Parents
  <2> QED BY <2>2, <2>3, <2>4 DEF Persist
<1>2. ASSUME walk' # None PROVE tree'[walk'].maker # "nobody"
  <2>1. walk' = walk /\ walk \in Nodes /\ tree[walk].maker # "nobody"
    BY <1>2 DEF Parents, Shape, WalkControls, Pin
  <2> QED BY <2>1 DEF Persist
<1> QED BY <1>1, <1>2 DEF Parents

\* A step that makes no quarantine keeps the one there is.
LEMMA OneQuarantinePersists ==
  ASSUME Shape, OneQuarantine, Persist, Unclaimed,
         quarantine' = None /\ pc' \notin {"vouch", "failed"} =>
           quarantine = None /\ pc \notin {"vouch", "failed"}
  PROVE  OneQuarantine'
<1>1. \A n \in Nodes : tree'[n].maker = "quarantine" => tree[n].maker = "quarantine"
  BY DEF Persist, Unclaimed
<1> QED BY <1>1 DEF OneQuarantine

\* Before there is a quarantine.
LEMMA EarlyHiding ==
  ASSUME Shape, Shape', Hiding, Persist, Unclaimed, Parents', quarantine = None, quarantine' = None,
         pc \notin {"vouch", "failed", "tidy", "remove"}, pc' # "vouch"
  PROVE  Hiding'
<1>1. \A n \in Nodes : tree[n].maker # "quarantine" BY DEF Hiding, OneQuarantine
<1>2. \A n \in Nodes : tree'[n].maker # "quarantine" BY <1>1 DEF Persist, Unclaimed
<1>3. OneQuarantine' BY <1>2 DEF OneQuarantine
<1>4. HiddenFew'
  <2> SUFFICES ASSUME NEW n \in Nodes, Hidden(n)' PROVE FALSE BY DEF HiddenFew
  <2>1. tree'[n].dir \in Pin
    <3>1. tree'[n] \in Things BY DEF Shape, TreeSound
    <3> QED BY <3>1 DEF Things
  <2> QED BY <2>1, <1>2 DEF Hidden, Pin
<1> QED BY <1>3, <1>4 DEF Hiding

\* A look that leaves the tree alone.
LEMMA LookHiding ==
  ASSUME Shape, Hiding, UNCHANGED <<tree, raced, created, walk>>, denied \subseteq denied',
         quarantine' = None /\ pc' \notin {"vouch", "failed"} =>
           quarantine = None /\ pc \notin {"vouch", "failed"},
         \/ ~raced => \A n \in Nodes : ~Hidden(n)
         \/ /\ UNCHANGED cursor
            /\ <<pc, pc'>> \in {<<"check", "unlink">>, <<"check", "putback">>,
                                <<"unlink", "putback">>, <<"tidy", "remove">>,
                                <<"tidy", "failed">>, <<"remove", "failed">>}
  PROVE  Hiding'
<1>1. Persist /\ Unclaimed BY DEF Persist, Unclaimed
<1>2. LetGo(created', created) BY CreatedTyped
<1>3. Parents' BY <1>1, <1>2, ParentsPersist DEF Hiding
<1>4. OneQuarantine' BY <1>1, OneQuarantinePersists DEF Hiding
<1>5. HiddenFew'
  <2> SUFFICES ASSUME ~raced, NEW n \in Nodes, Hidden(n)'
               PROVE  /\ tree'[n].name = Captured
                      /\ pc' \in {"check", "unlink", "putback", "tidy", "remove", "failed"}
                      /\ pc' \in {"tidy", "remove", "failed"} => Excused'
    BY DEF HiddenFew
  <2>1. Hidden(n) BY DEF Hidden
  <2>2. /\ tree[n].name = Captured
        /\ pc \in {"tidy", "remove", "failed"} => Excused
    BY <2>1 DEF Hiding, HiddenFew
  <2>3. /\ UNCHANGED cursor
        /\ <<pc, pc'>> \in {<<"check", "unlink">>, <<"check", "putback">>,
                            <<"unlink", "putback">>, <<"tidy", "remove">>,
                            <<"tidy", "failed">>, <<"remove", "failed">>}
    BY <2>1
  <2>4. UNCHANGED cursor /\ Lost => Lost' BY DEF Stands, Lost
  <2>5. denied \intersect {"names", "putback"} # {} => denied' \intersect {"names", "putback"} # {}
    OBVIOUS
  <2> QED BY <2>2, <2>3, <2>4, <2>5 DEF Excused
<1> QED BY <1>3, <1>4, <1>5 DEF Hiding

\* What the take-back was denied is never forgotten.
LEMMA DeniedGrows ==
  ASSUME \/ Discard \/ LookUp \/ Claim \/ Vouch \/ Capture \/ CheckCapture \/ UnlinkCapture
         \/ PutBack \/ Tidy \/ RemoveQuarantine
  PROVE  denied \subseteq denied'
<1>1. Granted => denied \subseteq denied' BY DEF Granted
<1>2. ASSUME NEW possible, CameToNothing(possible) PROVE denied \subseteq denied'
  BY <1>2 DEF CameToNothing
<1>3. NoteNames => denied \subseteq denied' BY DEF NoteNames
<1>4. CASE Discard \/ CheckCapture BY <1>1, <1>2, <1>4 DEF Discard, CheckCapture
<1>5. CASE LookUp BY <1>1, <1>2, <1>5 DEF LookUp
<1>6. CASE Claim \/ Vouch BY <1>1, <1>2, <1>6 DEF Claim, Vouch
<1>7. CASE Capture \/ UnlinkCapture BY <1>1, <1>2, <1>7 DEF Capture, UnlinkCapture
<1>8. CASE PutBack BY <1>1, <1>2, <1>3, <1>8 DEF PutBack
<1>9. CASE Tidy \/ RemoveQuarantine BY <1>1, <1>2, <1>9 DEF Tidy, RemoveQuarantine
<1> QED BY <1>4, <1>5, <1>6, <1>7, <1>8, <1>9

\* Between two levels nothing is in the quarantine.
LEMMA NothingHidden ==
  ASSUME Hiding, pc \in {"undo", "claim", "vouch", "capture"}
  PROVE  ~raced => \A n \in Nodes : ~Hidden(n)
BY DEF Hiding, HiddenFew

---------------------------------------------------------------------------
(* The way in, level by level.                                             *)

Early == {"survey", "start", "acquire", "climb", "levels", "temporary", "assemble", "publish",
          "discard", "undo", "claim"} \union Walking

LEMMA QuietParents ==
  ASSUME Shape, Shape', Parents, LetGo(created', created), UNCHANGED tree,
         walk' \in {walk, None} \/ tree[walk'].maker # "nobody"
  PROVE  Parents'
<1>1. Persist BY DEF Persist
<1>2. CASE walk' \in {walk, None} BY <1>1, <1>2, ParentsPersist
<1>3. CASE tree[walk'].maker # "nobody"
  <2>1. ASSUME NEW i \in DOMAIN created', created'[i].parent # None
        PROVE  tree'[created'[i].parent].maker \notin {"quarantine", "nobody"}
    <3>1. /\ DOMAIN created = 1 .. Len(created) /\ DOMAIN created' = 1 .. Len(created)
          /\ created \in Seq(LevelRecords)
      BY CreatedTyped DEF LetGo
    <3>2. created'[i].parent = created[i].parent BY <2>1, <3>1 DEF LetGo
    <3> QED BY <2>1, <3>1, <3>2 DEF Parents
  <2> QED BY <1>3, <2>1 DEF Parents
<1> QED BY <1>2, <1>3

LEMMA QuietKeeps ==
  ASSUME Shape, Shape', Owned, Hiding, UNCHANGED <<tree, raced>>,
         quarantine = None, quarantine' = None, pc \in Early,
         pc' \notin {"vouch", "identify", "remove", "unlink"}, LetGo(created', created),
         walk' \in {walk, None} \/ tree[walk'].maker # "nobody",
         pc' \in {"entry", "reopen"} => pc \in {"entry", "reopen"} /\ fresh'.node = fresh.node
  PROVE  Owned' /\ Hiding'
<1>1. Persist /\ Unclaimed BY DEF Persist, Unclaimed, Hiding, OneQuarantine, Early, Walking
<1>2. Owned' BY <1>1, OwnedPersists
<1>3. Parents' BY QuietParents DEF Hiding
<1>4. pc \notin {"vouch", "failed", "tidy", "remove"} BY DEF Early, Walking
<1>5. Hiding' BY <1>1, <1>3, <1>4, EarlyHiding
<1> QED BY <1>2, <1>5

LEMMA SurveyKeeps ==
  ASSUME Shape, Shape', Owned, Hiding, Survey, UNCHANGED <<host, upsets, raced>>
  PROVE  Owned' /\ Hiding'
<1>1. /\ pc = "survey" /\ pc' \in {"acquire", "start"} /\ UNCHANGED <<tree, walk, created, quarantine>>
      /\ quarantine = None
  BY DEF Survey, undoing, Shape, UndoControls
<1>2. pc \in Early BY <1>1 DEF Early
<1> QED BY <1>1, <1>2, CreatedTyped, QuietKeeps

LEMMA FailureKeeps ==
  ASSUME Shape, Shape', Owned, Hiding, Fails, pc \in Early, quarantine = None,
         UNCHANGED <<tree, raced, walk, quarantine>>
  PROVE  Owned' /\ Hiding'
<1>1. pc' = "undo" /\ LetGo(created', created) BY CreatedTyped DEF Fails, TakeBack
<1> QED BY <1>1, QuietKeeps

LEMMA OpenStartKeeps ==
  ASSUME Shape, Shape', Owned, Hiding, OpenStart, UNCHANGED <<host, upsets, raced>>
  PROVE  Owned' /\ Hiding'
<1>1. /\ pc = "start" /\ pc \in Early /\ UNCHANGED <<tree, quarantine>> /\ quarantine = None
      /\ depth \in 1 .. Depth /\ Depth \in Int
  BY Sizes DEF OpenStart, Idle, Shape, WalkControls, UndoControls, Early
<1>2. CASE Fails /\ UNCHANGED walk BY <1>1, <1>2, FailureKeeps
<1>3. ASSUME IsDirectory(Path[depth - 1]), walk' = Path[depth - 1], pc' = "make",
             UNCHANGED <<created, cursor>>
      PROVE  Owned' /\ Hiding'
  <2>1. tree[walk'].maker # "nobody"
    <3>1. depth - 1 \in 0 .. Depth BY <1>1
    <3> QED BY <1>3, <3>1, PathTyped DEF Shape, IsDirectory
  <2>2. LetGo(created', created) BY <1>3, CreatedTyped
  <2> QED BY <1>1, <1>3, <2>1, <2>2, QuietKeeps
<1> QED BY <1>2, <1>3 DEF OpenStart

LEMMA OpenExistingKeeps ==
  ASSUME Shape, Shape', Owned, Hiding, OpenExisting, UNCHANGED <<host, upsets, raced>>
  PROVE  Owned' /\ Hiding'
<1>1. /\ pc = "existing" /\ pc \in Early /\ UNCHANGED <<tree, quarantine>> /\ quarantine = None
      /\ walk # None
  BY DEF OpenExisting, Idle, Shape, WalkControls, UndoControls, Early, Walking
<1>2. CASE Fails /\ UNCHANGED <<walk, depth>> BY <1>1, <1>2, FailureKeeps
<1>3. ASSUME IsDirectory(Entry(walk, AtLevel)), walk' = Entry(walk, AtLevel), NextLevel,
             UNCHANGED <<created, cursor>>
      PROVE  Owned' /\ Hiding'
  <2>1. tree[walk'].maker # "nobody"
    <3>1. walk' \in Nodes /\ tree[walk'].dir # None BY <1>1, <1>3, EntryFound DEF IsDirectory
    <3> QED BY <3>1, UsedNode DEF Shape
  <2>2. pc' \in {"acquire", "make"} BY <1>3 DEF NextLevel
  <2>3. LetGo(created', created) BY <1>3, CreatedTyped
  <2> QED BY <1>1, <2>1, <2>2, <2>3, QuietKeeps
<1> QED BY <1>2, <1>3 DEF OpenExisting

LEMMA IdentifyKeeps ==
  ASSUME Shape, Shape', Owned, Hiding, Identify, UNCHANGED <<host, upsets, raced>>
  PROVE  Owned' /\ Hiding'
<1>1. /\ pc = "identify" /\ pc \in Early /\ UNCHANGED <<tree, walk, quarantine>>
      /\ quarantine = None /\ walk # None
  BY DEF Identify, Idle, Shape, WalkControls, UndoControls, Early, Walking
<1>2. CASE Fails /\ UNCHANGED fresh BY <1>1, <1>2, FailureKeeps
<1>3. ASSUME IsDirectory(Entry(walk, AtLevel)),
             fresh' = [node |-> Entry(walk, AtLevel), synced |-> FALSE], pc' = "entry",
             UNCHANGED <<created, cursor>>
      PROVE  Owned' /\ Hiding'
  <2>1. Persist /\ Unclaimed BY <1>1 DEF Persist, Unclaimed, Hiding, OneQuarantine
  <2>2. LetGo(created', created) BY <1>3, CreatedTyped
  <2>3. Parents' BY <1>1, <2>2, QuietParents DEF Hiding
  <2>4. Hiding' BY <1>1, <1>3, <2>1, <2>3, EarlyHiding
  <2>5. ~raced => tree[Entry(walk, AtLevel)].maker = "level"
    <3>1. /\ Entry(walk, AtLevel) \in Nodes /\ tree[Entry(walk, AtLevel)].dir = walk
          /\ tree[Entry(walk, AtLevel)].name = AtLevel
      BY <1>3, EntryFound DEF IsDirectory
    <3> QED BY <1>1, <3>1 DEF Owned, FreshMade
  <2>6. OwnPins' BY <1>1, <1>3 DEF Owned, OwnPins
  <2>7. FreshMade' BY <1>1, <1>3, <2>5 DEF FreshMade
  <2>8. QuarantineMade' BY <1>1, <1>3 DEF QuarantineMade
  <2> QED BY <2>4, <2>6, <2>7, <2>8 DEF Owned
<1> QED BY <1>2, <1>3 DEF Identify

LEMMA SyncEntryKeeps ==
  ASSUME Shape, Shape', Owned, Hiding, SyncEntry, UNCHANGED <<host, upsets, raced>>
  PROVE  Owned' /\ Hiding'
<1>1. PICK synced \in BOOLEAN : fresh' = [fresh EXCEPT !.synced = synced] BY DEF SyncEntry
<1>2. fresh \in [node : Pin, synced : BOOLEAN] BY DEF Shape, WalkControls
<1>3. fresh'.node = fresh.node BY <1>1, <1>2
<1>4. /\ pc = "entry" /\ pc' = "reopen" /\ UNCHANGED <<tree, walk, created, quarantine>>
      /\ quarantine = None /\ pc \in Early
  BY DEF SyncEntry, undoing, Shape, UndoControls, Early, Walking
<1> QED BY <1>3, <1>4, CreatedTyped, QuietKeeps

LEMMA GiveUpPinKeeps ==
  ASSUME Shape, Shape', Owned, Hiding, GiveUpPin, UNCHANGED <<host, upsets, raced>>
  PROVE  Owned' /\ Hiding'
<1>1. LetGo(created', created) BY CreatedTyped, ShedLetsGo DEF GiveUpPin
<1>2. /\ pc' = pc /\ pc \in {"existing", "entry", "reopen", "acquire", "temporary"}
      /\ pc \in Early /\ UNCHANGED <<tree, walk, fresh, quarantine>> /\ quarantine = None
  BY DEF GiveUpPin, undoing, Shape, UndoControls, Early, Walking
<1> QED BY <1>1, <1>2, QuietKeeps

LEMMA MakeLevelKeeps ==
  ASSUME Shape, Shape', Owned, Hiding, MakeLevel, UNCHANGED <<host, upsets, raced>>
  PROVE  Owned' /\ Hiding'
<1>1. /\ pc = "make" /\ pc \in Early /\ UNCHANGED <<depth, walk, fresh, quarantine>>
      /\ quarantine = None /\ walk \in Nodes /\ depth \in Levels
  BY Sizes DEF MakeLevel, Idle, Shape, WalkControls, UndoControls, Early, Walking, Pin
<1>2. CASE Fails /\ UNCHANGED tree BY <1>1, <1>2, FailureKeeps
<1>3. CASE pc' = "existing" /\ UNCHANGED <<tree, created, cursor>>
  BY <1>1, <1>3, CreatedTyped, QuietKeeps
<1>4. ASSUME Vacant(walk, AtLevel), Put(NewNode, Node(walk, AtLevel, "directory", "level")),
             pc' = "identify", UNCHANGED <<created, cursor>>
      PROVE  Owned' /\ Hiding'
  <2>1. PICK k \in Nodes :
           /\ tree[k] = Unused /\ tree'[k] = Node(walk, AtLevel, "directory", "level")
           /\ \A n \in Nodes : n # k => tree'[n] = tree[n]
    BY <1>1, <1>4, MakeLevelEffect
  <2>2. tree'[k].maker = "level" BY <2>1, NodeFields
  <2>4. tree[k].maker = "nobody" BY <2>1, UnusedFields
  <2>5. Persist /\ Unclaimed
    BY <1>1, <2>1, <2>2, <2>4 DEF Persist, Unclaimed, Hiding, OneQuarantine
  <2>6. LetGo(created', created) BY <1>4, CreatedTyped
  <2>7. Parents' BY <1>1, <2>5, <2>6, ParentsPersist DEF Hiding
  <2>9. Hiding' BY <1>1, <1>4, <2>5, <2>7, EarlyHiding
  <2>10. OwnPins'
    <3> SUFFICES ASSUME ~raced, NEW i \in DOMAIN created, created[i].own # None
                 PROVE  tree'[created[i].own].maker = "level"
      BY <1>4 DEF OwnPins
    <3>1. created[i].own \in Nodes BY CreatedTyped, LevelTyped DEF Pin
    <3>2. tree[created[i].own].maker = "level" BY DEF Owned, OwnPins
    <3> QED BY <3>1, <3>2, <2>5 DEF Persist
  <2>11. FreshMade'
    <3> SUFFICES ASSUME NEW n \in Nodes, tree'[n].dir = walk, tree'[n].name = AtLevel
                 PROVE  tree'[n].maker = "level"
      BY <1>1, <1>4 DEF FreshMade, AtLevel
    <3>1. \A m \in Nodes : ~ (tree[m].dir = walk /\ tree[m].name = AtLevel)
      BY <1>4, EntryFound, Sizes DEF Vacant
    <3> QED BY <2>1, <2>2, <3>1
  <2>12. QuarantineMade' BY <1>1, <1>4 DEF QuarantineMade
  <2> QED BY <2>9, <2>10, <2>11, <2>12 DEF Owned
<1> QED BY <1>2, <1>3, <1>4 DEF MakeLevel

\* The level that is recorded was made here, in a directory that is no quarantine.
LEMMA RecordingKeeps ==
  ASSUME Shape, Shape', Owned, Hiding, pc = "reopen", NEW own \in {None, fresh.node},
         LetGo(created', Append(created, Record(own))),
         UNCHANGED <<tree, raced, quarantine>>, pc' \in {"undo", "acquire", "make"},
         walk' = walk \/ tree[walk'].maker # "nobody"
  PROVE  Owned' /\ Hiding'
<1> DEFINE new == Append(created, Record(own))
<1> DEFINE n == Len(created)
<1>1. /\ quarantine = None /\ walk \in Nodes /\ walk # None /\ pc \in Early
      /\ created \in Seq(LevelRecords) /\ n \in Nat /\ DOMAIN created = 1 .. n
      /\ fresh.node \in Nodes /\ fresh.synced \in BOOLEAN /\ depth \in 1 .. Depth
  BY CreatedTyped, Sizes DEF Shape, WalkControls, UndoControls, Walking, Pin, Early
<1>2. Persist /\ Unclaimed BY <1>1 DEF Persist, Unclaimed, Hiding, OneQuarantine
<1>3. new \in Seq(LevelRecords) BY RecordKeeps
<1>4. Record(own) \in LevelRecords BY <1>1, Sizes DEF Record, LevelRecords, Pin
<1>5. /\ DOMAIN new = 1 .. (n + 1) /\ new[n + 1] = Record(own) /\ Len(new) = n + 1
      /\ \A i \in 1 .. n : new[i] = created[i]
  BY <1>1, <1>4, Appended
<1>6. Record(own).own = own /\ Record(own).parent = walk BY DEF Record
<1>7. LetGo(created', new) OBVIOUS
<1> HIDE DEF new
<1>8. ASSUME NEW i \in DOMAIN created'
      PROVE  /\ i \in 1 .. (n + 1)
             /\ created'[i].own \in {None, new[i].own} /\ created'[i].parent \in {None, new[i].parent}
  BY <1>1, <1>5, <1>7 DEF LetGo
<1>9. ASSUME ~raced, NEW i \in DOMAIN created', created'[i].own # None
      PROVE  tree[created'[i].own].maker = "level"
  <2>1. created'[i].own = new[i].own BY <1>8, <1>9
  <2>2. CASE i = n + 1
    <3>1. created'[i].own = fresh.node BY <1>5, <1>6, <1>9, <2>1, <2>2
    <3> QED BY <3>1, <1>9 DEF Owned, FreshMade
  <2>3. CASE i # n + 1
    <3>1. i \in 1 .. n BY <1>1, <1>8, <2>3
    <3>2. created'[i].own = created[i].own BY <1>5, <2>1, <3>1
    <3> QED BY <1>1, <1>9, <3>1, <3>2 DEF Owned, OwnPins
  <2> QED BY <2>2, <2>3
<1>10. ASSUME NEW i \in DOMAIN created', created'[i].parent # None
       PROVE  tree[created'[i].parent].maker \notin {"quarantine", "nobody"}
  <2>1. created'[i].parent = new[i].parent BY <1>8, <1>10
  <2>2. CASE i = n + 1
    <3>1. created'[i].parent = walk BY <1>5, <1>6, <2>1, <2>2
    <3> QED BY <3>1, <1>1 DEF Hiding, Parents, OneQuarantine
  <2>3. CASE i # n + 1
    <3>1. i \in 1 .. n BY <1>1, <1>8, <2>3
    <3>2. created'[i].parent = created[i].parent BY <1>5, <2>1, <3>1
    <3> QED BY <1>1, <1>10, <3>1, <3>2 DEF Hiding, Parents
  <2> QED BY <2>2, <2>3
<1>11. OwnPins' BY <1>9 DEF OwnPins
<1>12. FreshMade' BY DEF FreshMade
<1>13. QuarantineMade' BY <1>1 DEF QuarantineMade
<1>14. Parents' BY <1>10 DEF Hiding, Parents
<1>15. Hiding' BY <1>1, <1>2, <1>14, EarlyHiding
<1> QED BY <1>11, <1>12, <1>13, <1>15 DEF Owned

LEMMA ReopenOwned ==
  ASSUME Shape, Shape', Owned, Hiding, Reopen, UNCHANGED <<host, upsets, raced>>
  PROVE  Owned' /\ Hiding'
<1> DEFINE found == Entry(walk, AtLevel)
<1> DEFINE recorded == Append(created, Record(found))
<1>1. /\ pc = "reopen" /\ pc \in Early /\ UNCHANGED <<tree, quarantine>> /\ quarantine = None
      /\ walk # None /\ fresh.node \in Nodes /\ fresh.node # None
  BY Sizes DEF Reopen, Idle, Shape, WalkControls, UndoControls, Early, Walking, Pin
<1>2. CASE Fails /\ UNCHANGED <<walk, depth>> BY <1>1, <1>2, FailureKeeps
<1>3. ASSUME created' = Append(created, Record(None)), TakeBack(created'), UNCHANGED <<walk, depth>>
      PROVE  Owned' /\ Hiding'
  <2>1. Append(created, Record(None)) \in Seq(LevelRecords) BY <1>1, RecordKeeps
  <2>2. LetGo(created', Append(created, Record(None))) BY <1>3, <2>1, LetGoSelf
  <2>3. pc' = "undo" BY <1>3 DEF TakeBack
  <2> QED BY <1>1, <1>3, <2>2, <2>3, RecordingKeeps
<1>4. ASSUME found = fresh.node, created' = recorded, TakeBack(recorded), UNCHANGED <<walk, depth>>
      PROVE  Owned' /\ Hiding'
  <2>1. recorded = Append(created, Record(fresh.node)) BY <1>4
  <2>2. Append(created, Record(fresh.node)) \in Seq(LevelRecords) BY <1>1, RecordKeeps
  <2>3. LetGo(created', Append(created, Record(fresh.node))) BY <1>4, <2>1, <2>2, LetGoSelf
  <2>4. pc' = "undo" BY <1>4 DEF TakeBack
  <2> QED BY <1>1, <1>4, <2>3, <2>4, RecordingKeeps
<1>5. ASSUME found = fresh.node, created' = Trim(recorded, found), walk' = found, NextLevel,
             UNCHANGED cursor
      PROVE  Owned' /\ Hiding'
  <2>1. recorded = Append(created, Record(fresh.node)) BY <1>5
  <2>2. Append(created, Record(fresh.node)) \in Seq(LevelRecords) BY <1>1, RecordKeeps
  <2>3. LetGo(created', Append(created, Record(fresh.node))) BY <1>5, <2>1, <2>2, TrimLetsGo
  <2>4. pc' \in {"acquire", "make"} BY <1>5 DEF NextLevel
  <2>5. tree[walk'].maker # "nobody"
    <3>1. tree[found].dir # None /\ found \in Nodes BY <1>1, <1>5, EntryFound
    <3> QED BY <1>5, <3>1, UsedNode DEF Shape
  <2> QED BY <1>1, <2>3, <2>4, <2>5, RecordingKeeps
<1> QED BY <1>2, <1>3, <1>4, <1>5 DEF Reopen

LEMMA AcquireKeeps ==
  ASSUME Shape, Shape', Owned, Hiding, Acquire, UNCHANGED <<host, upsets, raced>>
  PROVE  Owned' /\ Hiding'
<1>1. /\ pc = "acquire" /\ pc \in Early /\ walk' = None /\ pc' \in {"climb", "levels"}
      /\ UNCHANGED <<tree, created, quarantine>> /\ quarantine = None
  BY DEF Acquire, Idle, Shape, UndoControls, Early
<1> QED BY <1>1, CreatedTyped, QuietKeeps

LEMMA ClimbKeeps ==
  ASSUME Shape, Shape', Owned, Hiding, Climb, UNCHANGED <<host, upsets, raced>>
  PROVE  Owned' /\ Hiding'
<1>1. /\ pc = "climb" /\ pc \in Early /\ UNCHANGED <<tree, walk, quarantine>> /\ quarantine = None
  BY DEF Climb, Idle, Shape, UndoControls, Early
<1>2. LetGo(created', created) /\ pc' \in {"climb", "levels"} BY ClimbLetsGo
<1> QED BY <1>1, <1>2, QuietKeeps

LEMMA SyncLevelKeeps ==
  ASSUME Shape, Shape', Owned, Hiding, SyncLevel, UNCHANGED <<host, upsets, raced>>
  PROVE  Owned' /\ Hiding'
<1>1. /\ pc = "levels" /\ pc \in Early /\ pc' = "levels" /\ UNCHANGED <<tree, walk, quarantine>>
      /\ quarantine = None
  BY DEF SyncLevel, Idle, Shape, UndoControls, Early
<1> QED BY <1>1, SyncLevelLetsGo, QuietKeeps

LEMMA CheckNameKeeps ==
  ASSUME Shape, Shape', Owned, Hiding, CheckName, UNCHANGED <<host, upsets, raced>>
  PROVE  Owned' /\ Hiding'
<1>1. /\ pc = "levels" /\ pc \in Early /\ UNCHANGED <<tree, walk, quarantine>> /\ quarantine = None
  BY DEF CheckName, Idle, Shape, UndoControls, Early
<1>2. CASE Fails BY <1>1, <1>2, FailureKeeps
<1>3. CASE pc' = "temporary" /\ UNCHANGED <<created, cursor>>
  BY <1>1, <1>3, CreatedTyped, QuietKeeps
<1> QED BY <1>2, <1>3 DEF CheckName

\* A step on the pack alone.
LEMMA PackKeeps ==
  ASSUME Shape, Shape', Owned, Hiding, UNCHANGED <<raced, walk, created>>,
         pc \in {"temporary", "assemble", "publish", "discard"},
         pc' \in {"assemble", "publish", "discard", "undo", "done"},
         quarantine = None, quarantine' = None, Persist, Unclaimed
  PROVE  Owned' /\ Hiding'
<1>1. LetGo(created', created) BY CreatedTyped
<1>2. Owned' BY <1>1, OwnedPersists
<1>3. Parents' BY <1>1, ParentsPersist DEF Hiding
<1>4. Hiding' BY <1>3, EarlyHiding
<1> QED BY <1>2, <1>4

LEMMA CreateTemporaryKeeps ==
  ASSUME Shape, Shape', Owned, Hiding, CreateTemporary, UNCHANGED <<host, upsets, raced>>
  PROVE  Owned' /\ Hiding'
<1>1. /\ pc = "temporary" /\ pc \in Early /\ UNCHANGED <<walk, quarantine>> /\ quarantine = None
  BY DEF CreateTemporary, Idle, Shape, UndoControls, Early
<1>2. CASE Fails /\ UNCHANGED <<tree, temp>> BY <1>1, <1>2, FailureKeeps
<1>3. ASSUME Vacant(dest, "temporary"), pc' = "assemble", UNCHANGED <<created, cursor>>,
             Put(NewNode, Node(dest, "temporary", "unfinished", "temporary"))
      PROVE  Owned' /\ Hiding'
  <2>1. PICK k \in Nodes :
           /\ tree[k] = Unused /\ tree'[k] = Node(dest, "temporary", "unfinished", "temporary")
           /\ \A n \in Nodes : n # k => tree'[n] = tree[n]
    BY <1>1, <1>3, TemporaryEffect
  <2>2. tree'[k].maker = "temporary" BY <2>1, NodeFields
  <2>3. tree[k].maker = "nobody" BY <2>1, UnusedFields
  <2>4. Persist /\ Unclaimed
    BY <1>1, <2>1, <2>2, <2>3 DEF Persist, Unclaimed, Hiding, OneQuarantine
  <2> QED BY <1>1, <1>3, <2>4, PackKeeps
<1> QED BY <1>2, <1>3 DEF CreateTemporary

LEMMA AssembleKeeps ==
  ASSUME Shape, Shape', Owned, Hiding, Assemble, UNCHANGED <<host, upsets, raced>>
  PROVE  Owned' /\ Hiding'
<1>1. /\ pc = "assemble" /\ pc' \in {"publish", "discard"} /\ UNCHANGED <<walk, created, quarantine>>
      /\ quarantine = None /\ temp \in Nodes /\ tree \in [Nodes -> Things]
  BY DEF Assemble, undoing, Shape, UndoControls, PackControls, Pin, TreeSound
<1>2. \A n \in Nodes : /\ tree'[n].maker = tree[n].maker /\ tree'[n].dir = tree[n].dir
                       /\ tree'[n].name = tree[n].name
  <2>1. CASE UNCHANGED tree BY <2>1
  <2>2. CASE tree' = [tree EXCEPT ![temp].kind = "pack"]
    <3>1. tree' = [tree EXCEPT ![temp] = [tree[temp] EXCEPT !.kind = "pack"]] BY <2>2
    <3>2. tree[temp] \in Things BY <1>1
    <3>3. \A n \in Nodes : tree'[n] = IF n = temp THEN [tree[temp] EXCEPT !.kind = "pack"] ELSE tree[n]
      BY <1>1, <3>1
    <3> QED BY <3>2, <3>3 DEF Things
  <2> QED BY <2>1, <2>2 DEF Assemble
<1>3. Persist /\ Unclaimed BY <1>1, <1>2 DEF Persist, Unclaimed, Hiding, OneQuarantine
<1> QED BY <1>1, <1>2, <1>3, PackKeeps

LEMMA PublishKeeps ==
  ASSUME Shape, Shape', Owned, Hiding, Publish, UNCHANGED <<host, upsets, raced>>
  PROVE  Owned' /\ Hiding'
<1>1. /\ pc = "publish" /\ pc' \in {"done", "discard"} /\ UNCHANGED <<walk, created, quarantine>>
      /\ quarantine = None /\ temp \in Nodes /\ tree \in [Nodes -> Things]
  BY DEF Publish, undoing, Shape, UndoControls, PackControls, Pin, TreeSound
<1>2. \A n \in Nodes : /\ tree'[n].maker = tree[n].maker
                       /\ tree'[n].dir # None => tree[n].dir # None
                       /\ tree'[n].name = tree[n].name \/ tree'[n].name = "pack"
  <2>1. CASE UNCHANGED tree BY <2>1
  <2>2. CASE tree' = [n \in Nodes |->
                 IF n = temp THEN [tree[n] EXCEPT !.name = "pack"]
                 ELSE IF n = Entry(dest, "pack") THEN [tree[n] EXCEPT !.dir = None] ELSE tree[n]]
    <3> TAKE n \in Nodes
    <3>1. tree[n] \in Things BY <1>1
    <3>2. tree'[n] = IF n = temp THEN [tree[n] EXCEPT !.name = "pack"]
                     ELSE IF n = Entry(dest, "pack") THEN [tree[n] EXCEPT !.dir = None] ELSE tree[n]
      BY <2>2
    <3> QED BY <3>1, <3>2 DEF Things
  <2> QED BY <2>1, <2>2 DEF Publish
<1>3. Persist /\ Unclaimed BY <1>1, <1>2 DEF Persist, Unclaimed, Hiding, OneQuarantine
<1> QED BY <1>1, <1>3, PackKeeps

LEMMA DiscardKeeps ==
  ASSUME Shape, Shape', Owned, Hiding, Discard, UNCHANGED <<host, upsets, raced>>
  PROVE  Owned' /\ Hiding'
<1>1. /\ pc = "discard" /\ pc' = "undo" /\ UNCHANGED <<walk, created, quarantine>>
      /\ Unlink(temp) \/ UNCHANGED tree
      /\ quarantine = None /\ temp \in Nodes /\ tree[temp].dir # None
  BY DEF Discard, Idle, Fails, TakeBack, Shape, UndoControls, PackControls, Pin
<1>2. \A m \in Nodes : tree'[m].maker = tree[m].maker
  <2>1. PICK k \in Nat : Taken(k) BY DEF Shape, Supplied
  <2>2. CASE Unlink(temp) BY <1>1, <2>1, <2>2, UnlinkKeeps DEF Shape
  <2>3. CASE UNCHANGED tree BY <2>3
  <2> QED BY <1>1, <2>2, <2>3
<1>3. Persist /\ Unclaimed BY <1>1, <1>2 DEF Persist, Unclaimed, Hiding, OneQuarantine
<1> QED BY <1>1, <1>3, PackKeeps

---------------------------------------------------------------------------
(* Taking back.                                                            *)

LEMMA LookUpKeeps ==
  ASSUME Shape, Shape', Owned, Hiding, LookUp, UNCHANGED <<host, upsets, raced>>
  PROVE  Owned' /\ Hiding'
<1>1. /\ pc = "undo" /\ UNCHANGED <<tree, walk, created, quarantine>>
      /\ pc' \in {"undo", "claim", "capture", "tidy", "failed"}
  BY DEF LookUp, Undoing, Stop, NextOut
<1>2. Persist BY <1>1 DEF Persist
<1>3. Owned' BY <1>1, <1>2, CreatedTyped, OwnedPersists
<1>4. ~raced => \A n \in Nodes : ~Hidden(n) BY <1>1, NothingHidden
<1>5. Hiding' BY <1>1, <1>4, DeniedGrows, LookHiding
<1> QED BY <1>3, <1>5

LEMMA ClaimKeeps ==
  ASSUME Shape, Shape', Owned, Hiding, Claim, UNCHANGED <<host, upsets, raced>>
  PROVE  Owned' /\ Hiding'
<1>1. /\ pc = "claim" /\ UNCHANGED <<walk, created, quarantine>> /\ quarantine = None
      /\ home' \in Nodes
  BY BesideOutermost DEF Claim, Undoing, Shape, UndoControls
<1>2. CASE Stop /\ UNCHANGED tree
  <2>1. pc' = "failed" BY <1>1, <1>2 DEF Stop
  <2>2. Persist BY <1>2 DEF Persist
  <2>3. Owned' BY <1>1, <2>1, <2>2, CreatedTyped, OwnedPersists
  <2>4. ~raced => \A n \in Nodes : ~Hidden(n) BY <1>1, NothingHidden
  <2>5. Hiding' BY <1>1, <1>2, <2>1, <2>4, DeniedGrows, LookHiding
  <2> QED BY <2>3, <2>5
<1>3. ASSUME Vacant(home', Quarantined),
             Put(NewNode, Node(home', Quarantined, "directory", "quarantine")), pc' = "vouch"
      PROVE  Owned' /\ Hiding'
  <2>1. SUFFICES ASSUME NEW beside \in Nodes, beside = home', Vacant(beside, Quarantined),
                        Put(NewNode, Node(beside, Quarantined, "directory", "quarantine"))
                 PROVE  Owned' /\ Hiding'
    BY <1>1, <1>3
  <2>2. PICK k \in Nodes :
           /\ tree[k] = Unused /\ tree'[k] = Node(beside, Quarantined, "directory", "quarantine")
           /\ \A n \in Nodes : n # k => tree'[n] = tree[n]
    BY <1>1, <2>1, ClaimEffect
  <2>3. tree'[k].maker = "quarantine" BY <2>2, NodeFields
  <2>4. tree'[k].name = Quarantined BY <2>2, NodeFields
  <2>5. tree'[k].dir = beside BY <2>2, NodeFields
  <2>6. tree[k].maker = "nobody" BY <2>2, UnusedFields
  <2>7. Persist BY <2>2, <2>6 DEF Persist
  <2>8. Parents' BY <1>1, <2>7, CreatedTyped, ParentsPersist DEF Hiding
  <2>9. \A n \in Nodes : tree[n].maker # "quarantine" BY <1>1 DEF Hiding, OneQuarantine
  <2>10. OneQuarantine' BY <1>3, <2>2, <2>9 DEF OneQuarantine
  <2>12. HiddenFew'
    <3> SUFFICES ASSUME NEW n \in Nodes, Hidden(n)' PROVE FALSE BY DEF HiddenFew
    <3>1. tree[beside].maker # "nobody" BY <2>1, UsedNode DEF Vacant, Shape
    <3>2. CASE n = k
      <4>1. beside # k BY <3>1, <2>6
      <4> QED BY <3>2, <4>1, <2>2, <2>5, <2>9 DEF Hidden
    <3>3. CASE n # k
      <4>1. tree[n].dir \in Nodes /\ tree'[n] = tree[n] BY <3>3, <2>2, UsedNode DEF Hidden, Shape, Pin
      <4>2. tree[tree[n].dir].maker # "nobody" BY <4>1, Sizes DEF Shape, TreeSound
      <4> QED BY <4>1, <4>2, <2>2, <2>6, <2>9 DEF Hidden
    <3> QED BY <3>2, <3>3
  <2>13. OwnPins'
    <3> SUFFICES ASSUME ~raced, NEW i \in DOMAIN created, created[i].own # None
                 PROVE  tree'[created[i].own].maker = "level"
      BY <1>1 DEF OwnPins
    <3>1. created[i].own \in Nodes BY CreatedTyped, LevelTyped DEF Pin
    <3>2. tree[created[i].own].maker = "level" BY DEF Owned, OwnPins
    <3> QED BY <3>1, <3>2, <2>7 DEF Persist
  <2>14. FreshMade' BY <1>3 DEF FreshMade
  <2>15. QuarantineMade'
    <3> SUFFICES ASSUME NEW n \in Nodes, tree'[n].dir = beside, tree'[n].name = Quarantined
                 PROVE  tree'[n].maker = "quarantine"
      BY <1>1, <1>3, <2>1 DEF QuarantineMade
    <3>1. \A m \in Nodes : ~ (tree[m].dir = beside /\ tree[m].name = Quarantined)
      BY <2>1, EntryFound, Sizes DEF Vacant
    <3> QED BY <2>2, <2>3, <3>1
  <2> QED BY <2>8, <2>10, <2>12, <2>13, <2>14, <2>15 DEF Owned, Hiding
<1> QED BY <1>2, <1>3 DEF Claim

LEMMA OwnPinsStay ==
  ASSUME Owned, UNCHANGED <<tree, raced, created>>
  PROVE  OwnPins'
BY DEF Owned, OwnPins

LEMMA VouchKeeps ==
  ASSUME Shape, Shape', Owned, Hiding, Vouch, UNCHANGED <<host, upsets, raced>>
  PROVE  Owned' /\ Hiding'
<1> DEFINE found == Entry(home, Quarantined)
<1>1. /\ pc = "vouch" /\ UNCHANGED <<tree, walk, created, home>>
      /\ quarantine = None /\ home # None /\ pc' \in {"capture", "failed"}
      /\ pc' = "capture" => quarantine' = found /\ found # None
      /\ pc' = "failed" => quarantine' = quarantine
  <2>1. home # None /\ quarantine = None BY DEF Vouch, Shape, UndoControls
  <2> QED BY <2>1 DEF Vouch, Undoing
<1>2. ~raced => \A n \in Nodes : ~Hidden(n) BY <1>1, NothingHidden
<1>3. Hiding' BY <1>1, <1>2, DeniedGrows, LookHiding
<1>4. OwnPins' /\ FreshMade' BY <1>1, OwnPinsStay DEF FreshMade
<1>5. QuarantineMade'
  <2>1. ~raced /\ found # None => tree[found].maker = "quarantine"
    BY <1>1, EntryFound DEF Owned, QuarantineMade
  <2> HIDE DEF found
  <2> QED BY <1>1, <2>1 DEF QuarantineMade
<1> QED BY <1>3, <1>4, <1>5 DEF Owned

\* Moved or unlinked, a node stays what it is.
LEMMA HiddenBefore ==
  ASSUME Shape, Persist, NEW m \in Nodes, tree'[m] = tree[m], Hidden(m)'
  PROVE  Hidden(m)
<1>1. tree[m].dir # None /\ tree[m].dir \in Nodes BY UsedNode DEF Hidden, Shape, Pin
<1>2. tree[tree[m].dir].maker # "nobody" BY <1>1 DEF Shape, TreeSound
<1> QED BY <1>1, <1>2 DEF Hidden, Persist

\* All the quarantine holds is what goes by the one name in it.
LEMMA OnlyCaptured ==
  ASSUME Shape, Owned, Hiding, ~raced, quarantine # None, NEW m \in Nodes, Hidden(m)
  PROVE  m = Entry(quarantine, Captured)
<1>1. quarantine \in Nodes /\ tree[quarantine].maker = "quarantine"
  BY DEF Owned, QuarantineMade, Shape, UndoControls, Pin
<1>2. tree[m].dir # None /\ tree[m].dir \in Nodes /\ tree[tree[m].dir].maker = "quarantine"
  BY UsedNode DEF Hidden, Shape, Pin
<1>3. tree[m].dir = quarantine /\ tree[m].name = Captured
  BY <1>1, <1>2 DEF Hiding, OneQuarantine, HiddenFew
<1>4. /\ Entry(quarantine, Captured) \in Nodes /\ tree[Entry(quarantine, Captured)].dir = quarantine
      /\ tree[Entry(quarantine, Captured)].name = Captured
  BY <1>3, EntryFound
<1>5. Captured # Away BY DEF Captured, Away
<1> QED BY <1>2, <1>3, <1>4, <1>5 DEF Shape, TreeSound

LEMMA CaptureKeeps ==
  ASSUME Shape, Shape', Owned, Hiding, Capture, UNCHANGED <<host, upsets, raced>>
  PROVE  Owned' /\ Hiding'
<1>1. /\ pc = "capture" /\ UNCHANGED <<walk, created, quarantine>>
      /\ quarantine # None /\ quarantine \in Nodes /\ pc \in Backing
      /\ pc' \in {"check", "undo", "tidy"}
  BY DEF Capture, Undoing, Stop, NextOut, Shape, UndoControls, Pin, Backing
<1>2. ~raced => \A n \in Nodes : ~Hidden(n) BY <1>1, NothingHidden
<1>3. CASE UNCHANGED tree
  <2>1. Persist BY <1>3 DEF Persist
  <2>2. Owned' BY <1>1, <2>1, CreatedTyped, OwnedPersists
  <2>3. Hiding' BY <1>1, <1>2, <1>3, DeniedGrows, LookHiding
  <2> QED BY <2>2, <2>3
<1>4. ASSUME NEW found, found = Entry(Level.parent, LevelName), found # None,
             Vacant(quarantine, Captured), Move(found, quarantine, Captured), pc' = "check"
      PROVE  Owned' /\ Hiding'
  <2>1. found \in Nodes /\ tree[found].dir # None
    <3>1. Level.parent # None BY <1>1, AtCursor, Sizes DEF Level
    <3> QED BY <1>4, <3>1, CaughtNode
  <2>2. Captured \in Names /\ Stands(quarantine) BY <1>4, NamesTyped DEF Vacant
  <2>3. PICK k \in Nat : Taken(k) BY DEF Shape, Supplied
  <2>4. /\ tree'[found].name = Captured
        /\ \A m \in Nodes : m # found => tree'[m] = tree[m]
        /\ \A m \in Nodes : tree'[m].maker = tree[m].maker
    BY <1>1, <1>4, <2>1, <2>2, <2>3, MoveKeeps DEF Shape
  <2>5. Persist BY <2>4 DEF Persist
  <2>6. Unclaimed BY <2>4 DEF Unclaimed
  <2>7. Owned' BY <1>1, <1>4, <2>5, CreatedTyped, OwnedPersists
  <2>8. Parents' BY <1>1, <2>5, CreatedTyped, ParentsPersist DEF Hiding
  <2>9. OneQuarantine' BY <1>1, <2>5, <2>6, OneQuarantinePersists DEF Hiding
  <2>11. HiddenFew'
    <3> SUFFICES ASSUME ~raced, NEW n \in Nodes, Hidden(n)'
                 PROVE  tree'[n].name = Captured
      BY <1>4 DEF HiddenFew
    <3>1. n = found BY <1>2, <2>4, <2>5, HiddenBefore
    <3> QED BY <2>4, <3>1
  <2> QED BY <2>7, <2>8, <2>9, <2>11 DEF Hiding
<1> QED BY <1>3, <1>4 DEF Capture

LEMMA CheckCaptureKeeps ==
  ASSUME Shape, Shape', Owned, Hiding, CheckCapture, UNCHANGED <<host, upsets, raced>>
  PROVE  Owned' /\ Hiding'
<1>1. /\ pc = "check" /\ pc' \in {"unlink", "putback"}
      /\ UNCHANGED <<tree, walk, created, cursor, quarantine>> /\ quarantine # None
  BY DEF CheckCapture, Undoing, Shape, UndoControls
<1>2. Hiding'
  <2>1. <<pc, pc'>> \in {<<"check", "unlink">>, <<"check", "putback">>} BY <1>1
  <2> QED BY <1>1, <2>1, DeniedGrows, LookHiding
<1>3. OwnPins' /\ FreshMade' BY <1>1, OwnPinsStay DEF FreshMade
<1>4. QuarantineMade'
  <2>1. ASSUME pc' = "unlink", NEW n \in Nodes, tree[n].dir = quarantine, tree[n].name = Captured
        PROVE  n = created[cursor].own
    <3>1. Entry(quarantine, Captured) = created[cursor].own
      <4>1. ours' = (Entry(quarantine, Captured) = Level.own) /\ ours' BY <2>1 DEF CheckCapture
      <4> QED BY <4>1 DEF Level
    <3>2. /\ Entry(quarantine, Captured) \in Nodes /\ tree[Entry(quarantine, Captured)].dir = quarantine
          /\ tree[Entry(quarantine, Captured)].name = Captured
      BY <2>1, EntryFound
    <3>3. Captured # Away BY DEF Captured, Away
    <3> QED BY <1>1, <2>1, <3>1, <3>2, <3>3 DEF Shape, TreeSound
  <2> QED BY <1>1, <2>1 DEF Owned, QuarantineMade
<1> QED BY <1>2, <1>3, <1>4 DEF Owned

LEMMA UnlinkCaptureKeeps ==
  ASSUME Shape, Shape', Owned, Hiding, UnlinkCapture, UNCHANGED <<host, upsets, raced>>
  PROVE  Owned' /\ Hiding'
<1>1. /\ pc = "unlink" /\ UNCHANGED <<walk, created, quarantine>>
      /\ quarantine # None /\ quarantine \in Nodes
  BY DEF UnlinkCapture, Undoing, Shape, UndoControls, Pin
<1>2. CASE pc' = "putback" /\ UNCHANGED <<tree, cursor>>
  <2>1. Persist BY <1>2 DEF Persist
  <2>2. Owned' BY <1>1, <1>2, <2>1, CreatedTyped, OwnedPersists
  <2>3. <<pc, pc'>> = <<"unlink", "putback">> BY <1>1, <1>2
  <2>4. Hiding' BY <1>1, <1>2, <2>3, DeniedGrows, LookHiding
  <2> QED BY <2>2, <2>4
<1>3. ASSUME NEW found, found = Entry(quarantine, Captured), found # None, Unlink(found), NextOut
      PROVE  Owned' /\ Hiding'
  <2>1. found \in Nodes /\ tree[found].dir # None BY <1>1, <1>3, CaughtNode
  <2>2. PICK k \in Nat : Taken(k) BY DEF Shape, Supplied
  <2>3. /\ tree'[found].dir = None
        /\ \A m \in Nodes : m # found => tree'[m] = tree[m]
        /\ \A m \in Nodes : tree'[m].maker = tree[m].maker
    BY <1>3, <2>1, <2>2, UnlinkKeeps DEF Shape
  <2>4. Persist /\ Unclaimed BY <1>1, <2>3 DEF Persist, Unclaimed
  <2>5. pc' = "undo" BY <1>3 DEF NextOut
  <2>6. Owned' BY <1>1, <2>4, <2>5, CreatedTyped, OwnedPersists
  <2>7. Parents' BY <1>1, <2>4, CreatedTyped, ParentsPersist DEF Hiding
  <2>8. OneQuarantine' BY <1>1, <2>4, OneQuarantinePersists DEF Hiding
  <2>10. HiddenFew'
    <3> SUFFICES ASSUME ~raced, NEW n \in Nodes, Hidden(n)' PROVE FALSE
      BY <1>1 DEF HiddenFew
    <3>1. n # found BY <2>3 DEF Hidden
    <3>2. Hidden(n) BY <2>3, <2>4, <3>1, HiddenBefore
    <3> QED BY <1>1, <1>3, <3>1, <3>2, OnlyCaptured
  <2> QED BY <2>6, <2>7, <2>8, <2>10 DEF Hiding
<1> QED BY <1>2, <1>3 DEF UnlinkCapture

LEMMA PutBackKeeps ==
  ASSUME Shape, Shape', Owned, Hiding, PutBack, UNCHANGED <<host, upsets, raced>>
  PROVE  Owned' /\ Hiding'
<1>1. /\ pc = "putback" /\ UNCHANGED <<walk, created, quarantine>> /\ pc \in Backing
      /\ quarantine # None /\ quarantine \in Nodes /\ pc' \in {"undo", "tidy"}
  BY DEF PutBack, Undoing, Shape, UndoControls, Pin, Backing, Stop, NextOut
<1>2. /\ cursor \in DOMAIN created /\ created[cursor].parent \in Nodes
      /\ created[cursor].parent # None
      /\ tree[created[cursor].parent].maker \notin {"quarantine", "nobody"}
  <2>1. /\ cursor \in DOMAIN created /\ created[cursor].parent \in Nodes
        /\ created[cursor].parent # None
    BY <1>1, AtCursor, Sizes
  <2> QED BY <2>1 DEF Hiding, Parents
<1> DEFINE found == Entry(quarantine, Captured)
           free == {name \in {LevelName, Aside} : Vacant(Level.parent, name)}
<1>3. CASE found = None
  <2>1. UNCHANGED tree BY <1>3 DEF PutBack
  <2>2. Persist BY <2>1 DEF Persist
  <2>3. Owned' BY <1>1, <2>2, CreatedTyped, OwnedPersists
  <2>4. ~raced => \A n \in Nodes : ~Hidden(n)
    BY <1>1, <1>3, OnlyCaptured, Sizes
  <2>5. Hiding' BY <1>1, <2>1, <2>4, DeniedGrows, LookHiding
  <2> QED BY <2>3, <2>5
<1>4. ASSUME found # None, NEW name \in free, Move(found, Level.parent, name), Stop
      PROVE  Owned' /\ Hiding'
  <2>2. pc' = "tidy" BY <1>1, <1>4 DEF Stop
  <2>3. found \in Nodes /\ tree[found].dir # None BY <1>1, <1>4, CaughtNode
  <2>4. PICK k \in Nat : Taken(k) BY DEF Shape, Supplied
  <2>5. /\ name \in Names /\ Stands(Level.parent) /\ Level.parent \in Nodes
        /\ Vacant(Level.parent, name)
    BY <1>1, <1>2, <1>4, AtCursor, NamesTyped DEF Vacant, Level
  <2> HIDE DEF found, free
  <2>6. /\ tree'[found].dir = Level.parent
        /\ \A m \in Nodes : m # found => tree'[m] = tree[m]
        /\ \A m \in Nodes : tree'[m].maker = tree[m].maker
    BY <1>4, <2>3, <2>4, <2>5, MoveKeeps DEF Shape
  <2>7. Persist BY <2>6 DEF Persist
  <2>8. Unclaimed BY <2>6 DEF Unclaimed
  <2>9. Owned' BY <1>1, <2>2, <2>7, CreatedTyped, OwnedPersists
  <2>10. Parents' BY <1>1, <2>7, CreatedTyped, ParentsPersist DEF Hiding
  <2>11. OneQuarantine' BY <1>1, <2>7, <2>8, OneQuarantinePersists DEF Hiding
  <2>12. HiddenFew'
    <3> SUFFICES ASSUME ~raced, NEW n \in Nodes, Hidden(n)' PROVE FALSE
      BY <1>1 DEF HiddenFew
    <3>1. n # found
      <4>1. tree'[found].dir = created[cursor].parent BY <2>6 DEF Level
      <4>2. tree'[created[cursor].parent].maker # "quarantine" BY <1>2, <2>6
      <4> QED BY <4>1, <4>2 DEF Hidden
    <3>2. Hidden(n) BY <2>6, <2>7, <3>1, HiddenBefore
    <3> QED BY <1>1, <1>4, <3>1, <3>2, OnlyCaptured DEF found
  <2> QED BY <2>9, <2>10, <2>11, <2>12 DEF Hiding
<1>5. ASSUME Stop, UNCHANGED <<tree, cursor>>, (free = {} /\ NoteNames) \/ CameToNothing(TRUE)
      PROVE  Owned' /\ Hiding'
  <2>2. pc' = "tidy" BY <1>1, <1>5 DEF Stop
  <2>3. Excused'
    <3>1. CASE CameToNothing(TRUE) BY <1>1, <3>1 DEF CameToNothing, Excused
    <3>2. CASE free = {} /\ NoteNames /\ Stands(Level.parent)
      <4>1. \A name \in {LevelName, Aside} : ~Vacant(Level.parent, name) BY <3>2
      <4>2. NamesTaken BY <3>2, <4>1 DEF NamesTaken, Vacant
      <4> QED BY <3>2, <4>2 DEF NoteNames, Excused
    <3>3. CASE ~Stands(Level.parent)
      <4>1. Lost' BY <1>1, <1>2, <1>5, <3>3 DEF Lost, Stands, Level
      <4> QED BY <4>1 DEF Excused
    <3> QED BY <1>5, <3>1, <3>2, <3>3
  <2>4. Persist /\ Unclaimed BY <1>1, <1>5 DEF Persist, Unclaimed
  <2>5. Owned' BY <1>1, <2>2, <2>4, CreatedTyped, OwnedPersists
  <2>6. Parents' BY <1>1, <2>4, CreatedTyped, ParentsPersist DEF Hiding
  <2>7. OneQuarantine' BY <1>1, <2>4, OneQuarantinePersists DEF Hiding
  <2>8. HiddenFew'
    <3> SUFFICES ASSUME ~raced, NEW n \in Nodes, Hidden(n)'
                 PROVE  tree'[n].name = Captured
      BY <1>1, <2>2, <2>3 DEF HiddenFew
    <3>1. Hidden(n) BY <1>5 DEF Hidden
    <3> QED BY <1>5, <3>1 DEF Hiding, HiddenFew
  <2> QED BY <2>5, <2>6, <2>7, <2>8 DEF Hiding
<1> QED BY <1>3, <1>4, <1>5 DEF PutBack

LEMMA TidyKeeps ==
  ASSUME Shape, Shape', Owned, Hiding, Tidy, UNCHANGED <<host, upsets, raced>>
  PROVE  Owned' /\ Hiding'
<1>1. /\ pc = "tidy" /\ pc' \in {"remove", "failed"} /\ quarantine # None
      /\ UNCHANGED <<tree, walk, created, cursor, home, quarantine>>
  BY DEF Tidy, Undoing, undoing, Shape, UndoControls
<1>2. Hiding'
  <2>1. <<pc, pc'>> \in {<<"tidy", "remove">>, <<"tidy", "failed">>} BY <1>1
  <2> QED BY <1>1, <2>1, DeniedGrows, LookHiding
<1>3. OwnPins' /\ FreshMade' BY <1>1, OwnPinsStay DEF FreshMade
<1>4. QuarantineMade'
  <2>1. ASSUME pc' = "remove", NEW n \in Nodes, tree[n].dir = home, tree[n].name = Quarantined
        PROVE  n = quarantine
    <3>1. Entry(home, Quarantined) = quarantine BY <2>1 DEF Tidy
    <3>2. /\ Entry(home, Quarantined) \in Nodes /\ tree[Entry(home, Quarantined)].dir = home
          /\ tree[Entry(home, Quarantined)].name = Quarantined
      BY <2>1, EntryFound
    <3>3. Quarantined # Away /\ home # None
      BY <1>1 DEF Quarantined, Away, Shape, UndoControls
    <3> QED BY <2>1, <3>1, <3>2, <3>3 DEF Shape, TreeSound
  <2> QED BY <1>1, <2>1 DEF Owned, QuarantineMade
<1> QED BY <1>2, <1>3, <1>4 DEF Owned

LEMMA RemoveQuarantineKeeps ==
  ASSUME Shape, Shape', Owned, Hiding, RemoveQuarantine, UNCHANGED <<host, upsets, raced>>
  PROVE  Owned' /\ Hiding'
<1>1. /\ pc = "remove" /\ pc' = "failed" /\ quarantine' = None /\ home # None
      /\ UNCHANGED <<walk, created, cursor>>
  BY DEF RemoveQuarantine, Undoing, Shape, UndoControls
<1>2. CASE UNCHANGED tree
  <2>1. Persist BY <1>2 DEF Persist
  <2>2. Owned' BY <1>1, <2>1, CreatedTyped, OwnedPersists
  <2>3. <<pc, pc'>> = <<"remove", "failed">> BY <1>1
  <2>4. Hiding' BY <1>1, <1>2, <2>3, DeniedGrows, LookHiding
  <2> QED BY <2>2, <2>4
<1>3. ASSUME NEW found, found = Entry(home, Quarantined), found # None, Unlink(found)
      PROVE  Owned' /\ Hiding'
  <2>1. found \in Nodes /\ tree[found].dir # None BY <1>1, <1>3, CaughtNode
  <2>2. PICK k \in Nat : Taken(k) BY DEF Shape, Supplied
  <2>3. /\ tree'[found].dir = None
        /\ \A m \in Nodes : m # found => tree'[m] = tree[m]
        /\ \A m \in Nodes : tree'[m].maker = tree[m].maker
    BY <1>3, <2>1, <2>2, UnlinkKeeps DEF Shape
  <2>4. Persist BY <2>3 DEF Persist
  <2>5. Unclaimed BY <2>3 DEF Unclaimed
  <2>6. Owned' BY <1>1, <2>4, CreatedTyped, OwnedPersists
  <2>7. Parents' BY <1>1, <2>4, CreatedTyped, ParentsPersist DEF Hiding
  <2>8. OneQuarantine' BY <1>1, <2>4, <2>5, OneQuarantinePersists DEF Hiding
  <2>10. HiddenFew'
    <3> SUFFICES ASSUME ~raced, NEW n \in Nodes, Hidden(n)'
                 PROVE  tree'[n].name = Captured /\ Excused'
      BY <1>1 DEF HiddenFew
    <3>1. n # found BY <2>3 DEF Hidden
    <3>2. Hidden(n) BY <2>3, <2>4, <3>1, HiddenBefore
    <3>3. tree[n].name = Captured /\ Excused BY <1>1, <3>2 DEF Hiding, HiddenFew
    <3>4. Lost => Lost' BY <1>1, <2>3 DEF Lost, Stands
    <3>5. denied \subseteq denied' BY DeniedGrows
    <3> QED BY <2>3, <3>1, <3>3, <3>4, <3>5 DEF Excused
  <2> QED BY <2>6, <2>7, <2>8, <2>10 DEF Hiding
<1> QED BY <1>2, <1>3 DEF RemoveQuarantine

---------------------------------------------------------------------------
(* What others do.                                                         *)

LEMMA UpsetKeeps ==
  ASSUME Shape, Owned, Hiding, NEW dir, Upset(dir), Persist, Unclaimed,
         ~raced' => \A m \in Nodes : Hidden(m)' => Hidden(m) /\ tree'[m].name = tree[m].name,
         \A m \in Nodes : tree[m].maker # "nobody" /\ ~Stands(m) => ~Stands(m)'
  PROVE  Owned' /\ Hiding'
<1>1. UNCHANGED <<pc, walk, fresh, created, cursor, quarantine>> BY UpsetRoom
<1>2. (~raced' => ~raced) /\ (~raced' => pc \notin {"identify", "vouch", "unlink", "remove"})
  BY DEF Upset, Windows
<1>3. LetGo(created', created) BY <1>1, CreatedTyped
<1>4. Owned' BY <1>1, <1>2, <1>3, OwnedPersists
<1>5. Parents' BY <1>1, <1>3, ParentsPersist DEF Hiding
<1>6. OneQuarantine' BY <1>1, OneQuarantinePersists DEF Hiding
<1>7. HiddenFew'
  <2> SUFFICES ASSUME ~raced', NEW n \in Nodes, Hidden(n)'
               PROVE  /\ tree'[n].name = Captured
                      /\ pc \in {"check", "unlink", "putback", "tidy", "remove", "failed"}
                      /\ pc \in {"tidy", "remove", "failed"} => Excused'
    BY <1>1 DEF HiddenFew
  <2>1. Hidden(n) /\ tree'[n].name = tree[n].name OBVIOUS
  <2>2. /\ tree[n].name = Captured
        /\ pc \in {"check", "unlink", "putback", "tidy", "remove", "failed"}
        /\ pc \in {"tidy", "remove", "failed"} => Excused
    BY <1>2, <2>1 DEF Hiding, HiddenFew
  <2>3. ASSUME Lost PROVE Lost'
    <3>1. /\ cursor \in DOMAIN created /\ created[cursor].parent \in Nodes
          /\ created[cursor].parent # None /\ ~Stands(created[cursor].parent)
      BY <2>3, Sizes DEF Lost
    <3>2. tree[created[cursor].parent].maker # "nobody" BY <3>1 DEF Hiding, Parents
    <3>3. SUFFICES ASSUME NEW p \in Nodes, p = created[cursor].parent, ~Stands(p)' PROVE Lost'
      BY <3>1, <3>2
    <3> QED BY <1>1, <3>1, <3>3 DEF Lost, Stands
  <2>4. denied' = denied BY DEF Upset
  <2> QED BY <2>1, <2>2, <2>3, <2>4 DEF Excused
<1> QED BY <1>4, <1>5, <1>6, <1>7 DEF Hiding

LEMMA TakeNameKeeps ==
  ASSUME Shape, Owned, Hiding, NEW dir \in Nodes, NEW name \in LookedUp(dir), TakeName(dir, name)
  PROVE  Owned' /\ Hiding'
<1>1. /\ Upset(dir) /\ Vacant(dir, name) /\ Put(NewNode, Node(dir, name, "directory", "other"))
      /\ TreeSound
  BY DEF TakeName, Shape
<1>2. PICK k \in Nat : Taken(k) /\ 1 <= k /\ k <= Allotted(pc, depth, quarantine, upsets)
  BY DEF Shape, Supplied
<1>3. k \in Nodes /\ name \in Names /\ "directory" \in Kinds /\ "other" \in Makers
  BY <1>1, <1>2, UpsetRoom, LookedUpNames, NamesTyped
<1>4. /\ tree[k] = Unused /\ tree'[k] = Node(dir, name, "directory", "other")
      /\ \A n \in Nodes : n # k => tree'[n] = tree[n]
  <2>1. "other" # "nobody" OBVIOUS
  <2> QED BY <1>1, <1>2, <1>3, <2>1, PutKeeps
<1>5. tree'[k].maker = "other" BY <1>4, NodeFields
<1>6. tree'[k].dir = dir BY <1>4, NodeFields
<1>7. tree'[k].name = name BY <1>4, NodeFields
<1>8. tree[k].maker = "nobody" BY <1>4, UnusedFields
<1>9. Persist BY <1>4, <1>8 DEF Persist
<1>10. Unclaimed BY <1>4, <1>5, <1>8 DEF Unclaimed
<1>12. ASSUME ~raced', NEW m \in Nodes, Hidden(m)'
       PROVE  Hidden(m) /\ tree'[m].name = tree[m].name
  <2>1. m # k
    <3>1. tree[dir].maker # "quarantine" BY <1>1, <1>12 DEF Upset
    <3>2. tree[dir].maker # "nobody" BY <1>1, UsedNode DEF Vacant
    <3>3. tree'[dir].maker = tree[dir].maker BY <1>9, <3>2 DEF Persist
    <3> QED BY <1>6, <1>12, <3>1, <3>3 DEF Hidden
  <2> QED BY <1>4, <1>9, <1>12, <2>1, HiddenBefore
<1>13. ASSUME NEW m \in Nodes, tree[m].maker # "nobody", ~Stands(m) PROVE ~Stands(m)'
  BY <1>4, <1>8, <1>13 DEF Stands
<1> QED BY <1>1, <1>9, <1>10, <1>12, <1>13, UpsetKeeps

LEMMA CarryOffKeeps ==
  ASSUME Shape, Owned, Hiding, NEW n \in Directories, n # Root, CarryOff(n)
  PROVE  Owned' /\ Hiding'
<1>1. /\ n \in Nodes /\ tree[n].dir # None /\ tree[n].kind = "directory" /\ TreeSound
      /\ Upset(tree[n].dir) /\ Move(n, Root, Away)
  BY DEF Directories, Stands, IsDirectory, CarryOff, Shape
<1>2. PICK k \in Nat : Taken(k) BY DEF Shape, Supplied
<1>3. Root \in Nodes /\ Stands(Root) /\ Away \in Names BY Sizes, NamesTyped DEF Stands
<1>4. /\ tree'[n].dir = Root /\ tree'[n].name = Away
      /\ \A m \in Nodes : m # n => tree'[m] = tree[m]
      /\ \A m \in Nodes : tree'[m].maker = tree[m].maker
  BY <1>1, <1>2, <1>3, MoveKeeps
<1>5. Persist BY <1>4 DEF Persist
<1>6. Unclaimed BY <1>4 DEF Unclaimed
<1>8. ASSUME ~raced', NEW m \in Nodes, Hidden(m)'
      PROVE  Hidden(m) /\ tree'[m].name = tree[m].name
  <2>1. m # n
    <3>1. tree'[Root].maker = "before" BY <1>1, <1>3, <1>4 DEF TreeSound
    <3> QED BY <1>4, <1>8, <3>1 DEF Hidden
  <2> QED BY <1>4, <1>5, <1>8, <2>1, HiddenBefore
<1>9. ASSUME NEW m \in Nodes, tree[m].maker # "nobody", ~Stands(m) PROVE ~Stands(m)'
  BY <1>1, <1>4, <1>9 DEF Stands
<1> QED BY <1>1, <1>5, <1>6, <1>8, <1>9, UpsetKeeps

LEMMA RemoveEmptyKeeps ==
  ASSUME Shape, Owned, Hiding, NEW n \in Directories, n # Root, RemoveEmpty(n)
  PROVE  Owned' /\ Hiding'
<1>1. /\ n \in Nodes /\ tree[n].dir # None /\ TreeSound
      /\ Upset(tree[n].dir) /\ Unlink(n)
  BY DEF Directories, Stands, IsDirectory, RemoveEmpty, Shape
<1>2. PICK k \in Nat : Taken(k) BY DEF Shape, Supplied
<1>3. /\ tree'[n].dir = None
      /\ \A m \in Nodes : m # n => tree'[m] = tree[m]
      /\ \A m \in Nodes : tree'[m].maker = tree[m].maker
  BY <1>1, <1>2, UnlinkKeeps
<1>4. Persist BY <1>3 DEF Persist
<1>5. Unclaimed BY <1>3 DEF Unclaimed
<1>7. ASSUME ~raced', NEW m \in Nodes, Hidden(m)'
      PROVE  Hidden(m) /\ tree'[m].name = tree[m].name
  <2>1. m # n BY <1>3, <1>7 DEF Hidden
  <2> QED BY <1>3, <1>4, <1>7, <2>1, HiddenBefore
<1>8. ASSUME NEW m \in Nodes, tree[m].maker # "nobody", ~Stands(m) PROVE ~Stands(m)'
  BY <1>1, <1>3, <1>8 DEF Stands
<1> QED BY <1>1, <1>4, <1>5, <1>7, <1>8, UpsetKeeps

LEMMA SwapKeepsOwned ==
  ASSUME Shape, Owned, Hiding, NEW n \in Directories, n # Root, Swap(n)
  PROVE  Owned' /\ Hiding'
<1>1. /\ n \in Nodes /\ tree[n].dir # None /\ TreeSound /\ Upset(tree[n].dir)
      /\ tree' = [tree EXCEPT ![n].dir = Root, ![n].name = Away,
                              ![NewNode] = Node(tree[n].dir, tree[n].name, "directory", "other")]
  BY DEF Directories, Stands, IsDirectory, Swap, Shape
<1>2. PICK k \in Nat : Taken(k) /\ 1 <= k /\ k <= Allotted(pc, depth, quarantine, upsets)
  BY DEF Shape, Supplied
<1>3. k \in Nodes BY <1>1, <1>2, UpsetRoom
<1>4. /\ tree[k] = Unused /\ k # n
      /\ tree'[k] = Node(tree[n].dir, tree[n].name, "directory", "other")
      /\ tree'[n].dir = Root /\ tree'[n].name = Away /\ tree'[n].maker = tree[n].maker
      /\ \A m \in Nodes : m # k /\ m # n => tree'[m] = tree[m]
  BY <1>1, <1>2, <1>3, SwapKeeps
<1>5. tree'[k].maker = "other" BY <1>4, NodeFields
<1>6. tree'[k].dir = tree[n].dir BY <1>4, NodeFields
<1>7. tree'[k].name = tree[n].name BY <1>4, NodeFields
<1>8. tree[k].maker = "nobody" BY <1>4, UnusedFields
<1>9. Persist BY <1>4, <1>8 DEF Persist
<1>10. tree[n].maker # "nobody" BY <1>1, UsedNode
<1>11. Unclaimed BY <1>4, <1>5, <1>8, <1>10 DEF Unclaimed
<1>13. ASSUME ~raced', NEW m \in Nodes, Hidden(m)'
       PROVE  Hidden(m) /\ tree'[m].name = tree[m].name
  <2>1. m # k
    <3>1. tree[n].dir \in Nodes /\ tree[tree[n].dir].maker # "nobody"
      BY <1>1, UsedNode DEF TreeSound, Pin
    <3>2. tree[tree[n].dir].maker # "quarantine" BY <1>1, <1>13 DEF Upset
    <3>3. tree'[tree[n].dir].maker # "quarantine" BY <1>9, <3>1, <3>2 DEF Persist
    <3> QED BY <1>6, <1>13, <3>3 DEF Hidden
  <2>2. m # n
    <3>1. Root \in Nodes /\ tree[Root].maker = "before" BY <1>1, Sizes DEF TreeSound
    <3>2. tree'[Root].maker = "before" BY <1>9, <3>1 DEF Persist
    <3> QED BY <1>4, <1>13, <3>2 DEF Hidden
  <2> QED BY <1>4, <1>9, <1>13, <2>1, <2>2, HiddenBefore
<1>14. ASSUME NEW m \in Nodes, tree[m].maker # "nobody", ~Stands(m) PROVE ~Stands(m)'
  BY <1>1, <1>4, <1>8, <1>14 DEF Stands
<1> QED BY <1>1, <1>9, <1>11, <1>13, <1>14, UpsetKeeps

LEMMA OtherKeeps == ASSUME Shape, Owned, Hiding, Other PROVE Owned' /\ Hiding'
<1>1. PICK n \in Directories :
        \/ \E name \in LookedUp(n) : TakeName(n, name)
        \/ n # Root /\ tree[n].name # Away /\ (CarryOff(n) \/ Swap(n) \/ RemoveEmpty(n))
  BY DEF Other
<1>2. n \in Nodes BY DEF Directories
<1> QED BY <1>1, <1>2, TakeNameKeeps, CarryOffKeeps, SwapKeepsOwned, RemoveEmptyKeeps

LEMMA ImportKeeps == ASSUME Shape, Owned, Hiding, Import PROVE Owned' /\ Hiding'
<1>1. UNCHANGED <<host, upsets, raced>> BY DEF Import
<1>2. Shape' BY ImportKeepsShape
<1>3. \/ Survey \/ OpenStart \/ MakeLevel \/ OpenExisting \/ Identify \/ SyncEntry \/ Reopen
      \/ GiveUpPin \/ Acquire \/ Climb \/ SyncLevel
      \/ CheckName \/ CreateTemporary \/ Assemble \/ Publish \/ Discard
      \/ LookUp \/ Claim \/ Vouch \/ Capture \/ CheckCapture \/ UnlinkCapture \/ PutBack
      \/ Tidy \/ RemoveQuarantine
  BY DEF Import
<1>4. CASE \/ Survey \/ OpenStart \/ MakeLevel \/ OpenExisting \/ Identify \/ SyncEntry \/ Reopen
           \/ GiveUpPin
  BY <1>1, <1>2, <1>4, SurveyKeeps, OpenStartKeeps, MakeLevelKeeps, OpenExistingKeeps,
     IdentifyKeeps, SyncEntryKeeps, ReopenOwned, GiveUpPinKeeps
<1>5. CASE \/ Acquire \/ Climb \/ SyncLevel \/ CheckName \/ CreateTemporary \/ Assemble
           \/ Publish \/ Discard
  BY <1>1, <1>2, <1>5, AcquireKeeps, ClimbKeeps, SyncLevelKeeps, CheckNameKeeps,
     CreateTemporaryKeeps, AssembleKeeps, PublishKeeps, DiscardKeeps
<1>6. CASE \/ LookUp \/ Claim \/ Vouch \/ Capture \/ CheckCapture \/ UnlinkCapture \/ PutBack
           \/ Tidy \/ RemoveQuarantine
  BY <1>1, <1>2, <1>6, LookUpKeeps, ClaimKeeps, VouchKeeps, CaptureKeeps, CheckCaptureKeeps,
     UnlinkCaptureKeeps, PutBackKeeps, TidyKeeps, RemoveQuarantineKeeps
<1> QED BY <1>3, <1>4, <1>5, <1>6

ImportIInv == Shape /\ Owned /\ Hiding

LEMMA ImportIInvStep == ImportIInv /\ [Next]_vars => ImportIInv'
<1> SUFFICES ASSUME ImportIInv, [Next]_vars PROVE ImportIInv' OBVIOUS
<1>1. Shape' BY ShapeStep DEF ImportIInv
<1>2. CASE Import BY <1>1, <1>2, ImportKeeps DEF ImportIInv
<1>3. CASE Other BY <1>1, <1>3, OtherKeeps DEF ImportIInv
<1>4. CASE UNCHANGED vars
  <2>1. UNCHANGED <<tree, pc, walk, depth, fresh, created, cursor, home, quarantine, denied, raced>>
    BY <1>4 DEF vars, progress, undoing
  <2>2. Owned'
    BY <2>1 DEF ImportIInv, Owned, OwnPins, FreshMade, QuarantineMade, AtLevel
  <2>3. Parents' /\ OneQuarantine'
    BY <2>1 DEF ImportIInv, Hiding, Parents, OneQuarantine
  <2>4. HiddenFew'
    BY <2>1 DEF ImportIInv, Hiding, HiddenFew, Hidden, Excused, Lost, Stands
  <2> QED BY <1>1, <2>2, <2>3, <2>4 DEF ImportIInv, Hiding
<1> QED BY <1>2, <1>3, <1>4 DEF Next

LEMMA ImportIInvAlways == Spec => []ImportIInv
<1>1. Init => ImportIInv BY ShapeInit, InitHolds DEF ImportIInv
<1> QED BY <1>1, ImportIInvStep, PTL DEF Spec

\* The directories stay a tree, each level recorded once, and what a take-back
\* moved is left hidden in a quarantine only if, when it was put back, the
\* directory it came from was gone, others had its own name and every one beside
\* it, or the system refused the renames: for a path of any depth, any budget of
\* descriptors, any number of upsets and any calls refused
\* (import_rom/created_dirs/take_back/restore.rs, `put_back`).
THEOREM NothingIsStranded == Spec => []ImportInv
<1>1. ImportIInv => ImportInv
  <2> SUFFICES ASSUME ImportIInv PROVE ImportInv OBVIOUS
  <2>1. TypeOK BY ShapeTyped DEF ImportIInv
  <2>2. NothingStranded
    <3> SUFFICES ASSUME pc = "failed", ~raced, denied \intersect {"names", "putback"} = {},
                        NEW n \in Nodes, tree[n].dir # None,
                        tree[tree[n].dir].maker = "quarantine"
                 PROVE  ~Stands(created[cursor].parent)
      BY DEF NothingStranded
    <3>1. Hidden(n) BY DEF Hidden
    <3> QED BY <3>1 DEF ImportIInv, Hiding, HiddenFew, Excused, Lost
  <2> QED BY <2>1, <2>2 DEF ImportInv
<1> QED BY <1>1, ImportIInvAlways, PTL

---------------------------------------------------------------------------
(* What a step of the import unlinks.                                      *)

Spared ==
  \A n \in Nodes : Stands(n) /\ ~Stands(n)' /\ n \notin Made =>
    raced \/ (pc = "publish" /\ tree[n].kind # "directory")

\* A step that takes no node's place away spares all of them.
LEMMA PlacesKept ==
  ASSUME \A n \in Nodes : tree[n].dir # None => tree'[n].dir # None
  PROVE  Spared
BY DEF Spared, Stands

\* A node that is made stands nowhere before.
LEMMA MakingSpares ==
  ASSUME NEW k \in Nodes, tree[k] = Unused, \A n \in Nodes : n # k => tree'[n] = tree[n]
  PROVE  Spared
<1>1. tree[k].dir = None BY UnusedFields
<1> QED BY <1>1, PlacesKept

\* A removal by name takes the node the name leads to and no other.
LEMMA UnlinkingSpares ==
  ASSUME Shape, NEW n \in Nodes, tree[n].dir # None, Unlink(n), ~raced => n \in Made
  PROVE  Spared
<1>1. PICK k \in Nat : Taken(k) BY DEF Shape, Supplied
<1>2. \A m \in Nodes : m # n => tree'[m] = tree[m] BY <1>1, UnlinkKeeps DEF Shape
<1> QED BY <1>2 DEF Spared, Stands

LEMMA MovingSpares ==
  ASSUME Shape, NEW n \in Nodes, tree[n].dir # None, NEW dir \in Nodes, NEW name \in Names,
         Vacant(dir, name), Move(n, dir, name)
  PROVE  Spared
<1>1. PICK k \in Nat : Taken(k) BY DEF Shape, Supplied
<1>2. tree'[n].dir = dir /\ \A m \in Nodes : m # n => tree'[m] = tree[m]
  BY <1>1, MoveKeeps DEF Shape, Vacant
<1> QED BY <1>2, PlacesKept, Sizes

LEMMA WalkSpares == ASSUME Shape, MakeLevel PROVE Spared
<1>1. pc = "make" BY DEF MakeLevel
<1>2. CASE UNCHANGED tree BY <1>2, PlacesKept
<1>3. CASE Vacant(walk, AtLevel) /\ Put(NewNode, Node(walk, AtLevel, "directory", "level"))
  <2>1. PICK k \in Nodes : /\ tree[k] = Unused
                           /\ \A n \in Nodes : n # k => tree'[n] = tree[n]
    BY <1>1, <1>3, MakeLevelEffect
  <2> QED BY <2>1, MakingSpares
<1> QED BY <1>2, <1>3 DEF MakeLevel

LEMMA PackSpares ==
  ASSUME Shape, CreateTemporary \/ Assemble \/ Publish \/ Discard
  PROVE  Spared
<1> USE DEF Shape
<1>1. tree \in [Nodes -> Things] BY DEF TreeSound
<1>2. CASE UNCHANGED tree BY <1>2, PlacesKept
<1>3. CASE CreateTemporary
  <2>1. pc = "temporary" BY <1>3 DEF CreateTemporary
  <2>2. CASE Vacant(dest, "temporary")
             /\ Put(NewNode, Node(dest, "temporary", "unfinished", "temporary"))
    <3>1. PICK k \in Nodes : /\ tree[k] = Unused
                             /\ \A n \in Nodes : n # k => tree'[n] = tree[n]
      BY <2>1, <2>2, TemporaryEffect
    <3> QED BY <3>1, MakingSpares
  <2> QED BY <1>2, <1>3, <2>2 DEF CreateTemporary
<1>4. CASE Assemble
  <2>1. temp \in Nodes BY <1>4 DEF Assemble, UndoControls, PackControls, Pin
  <2>2. CASE tree' = [tree EXCEPT ![temp].kind = "pack"]
    <3>1. tree' = [tree EXCEPT ![temp] = [tree[temp] EXCEPT !.kind = "pack"]] BY <2>2
    <3>2. tree[temp] \in Things BY <1>1, <2>1
    <3>3. \A n \in Nodes :
            tree'[n] = IF n = temp THEN [tree[temp] EXCEPT !.kind = "pack"] ELSE tree[n]
      BY <1>1, <3>1
    <3>4. \A n \in Nodes : tree'[n].dir = tree[n].dir BY <3>2, <3>3 DEF Things
    <3> QED BY <3>4, PlacesKept
  <2> QED BY <1>2, <1>4, <2>2 DEF Assemble
<1>5. CASE Publish
  <2>1. pc = "publish" BY <1>5 DEF Publish
  <2>2. CASE /\ ~IsDirectory(Entry(dest, "pack"))
             /\ tree' = [n \in Nodes |->
                  IF n = temp THEN [tree[n] EXCEPT !.name = "pack"]
                  ELSE IF n = Entry(dest, "pack") THEN [tree[n] EXCEPT !.dir = None]
                  ELSE tree[n]]
    <3> SUFFICES ASSUME NEW n \in Nodes, Stands(n), ~Stands(n)'
                 PROVE  tree[n].kind # "directory"
      BY <2>1 DEF Spared
    <3>1. tree'[n] = IF n = temp THEN [tree[n] EXCEPT !.name = "pack"]
                     ELSE IF n = Entry(dest, "pack") THEN [tree[n] EXCEPT !.dir = None]
                     ELSE tree[n]
      BY <2>2
    <3>2. tree[n] \in Things BY <1>1
    <3>3. n = Entry(dest, "pack") BY <3>1, <3>2 DEF Stands, Things
    <3> QED BY <2>2, <3>3, Sizes DEF IsDirectory
  <2> QED BY <1>2, <1>5, <2>2 DEF Publish
<1>6. CASE Discard
  <2>1. /\ Unlink(temp) \/ UNCHANGED tree
        /\ temp \in Nodes /\ tree[temp].dir # None /\ tree[temp].maker = "temporary"
    BY <1>6 DEF Discard, UndoControls, PackControls, Pin
  <2>2. temp \in Made BY <2>1 DEF Made
  <2> QED BY <2>1, <2>2, PlacesKept, UnlinkingSpares
<1> QED BY <1>3, <1>4, <1>5, <1>6

LEMMA ClaimSpares == ASSUME Shape, Claim PROVE Spared
<1>1. pc = "claim" /\ home' \in Nodes BY BesideOutermost DEF Claim
<1>2. CASE UNCHANGED tree BY <1>2, PlacesKept
<1>3. CASE Vacant(home', Quarantined)
           /\ Put(NewNode, Node(home', Quarantined, "directory", "quarantine"))
  <2>1. SUFFICES ASSUME NEW beside \in Nodes, beside = home', Vacant(beside, Quarantined),
                        Put(NewNode, Node(beside, Quarantined, "directory", "quarantine"))
                 PROVE  Spared
    BY <1>1, <1>3
  <2>2. PICK k \in Nodes : /\ tree[k] = Unused
                           /\ \A n \in Nodes : n # k => tree'[n] = tree[n]
    BY <1>1, <2>1, ClaimEffect
  <2> QED BY <2>2, MakingSpares
<1> QED BY <1>2, <1>3 DEF Claim

LEMMA MovesSpare == ASSUME Shape, Capture \/ PutBack PROVE Spared
<1>1. /\ pc \in Backing /\ pc # "undo" /\ quarantine \in Nodes /\ quarantine # None
  BY DEF Capture, PutBack, Backing, Shape, UndoControls, Pin
<1>2. /\ Level.parent \in Nodes /\ Level.parent # None /\ LevelName \in Names
      /\ Captured \in Names /\ Aside \in Names
  BY <1>1, AtCursor, NamesTyped, Sizes DEF Level
<1>3. CASE UNCHANGED tree BY <1>3, PlacesKept
<1>4. ASSUME NEW found, found = Entry(Level.parent, LevelName), found # None,
             Vacant(quarantine, Captured), Move(found, quarantine, Captured)
      PROVE  Spared
  <2>1. found \in Nodes /\ tree[found].dir # None BY <1>2, <1>4, CaughtNode
  <2> QED BY <1>1, <1>2, <1>4, <2>1, MovingSpares
<1>5. ASSUME NEW found, found = Entry(quarantine, Captured), found # None,
             NEW name \in {LevelName, Aside}, Vacant(Level.parent, name),
             Move(found, Level.parent, name)
      PROVE  Spared
  <2>1. found \in Nodes /\ tree[found].dir # None BY <1>1, <1>5, CaughtNode
  <2>2. name \in Names BY <1>2
  <2> QED BY <1>2, <1>5, <2>1, <2>2, MovingSpares
<1>6. CASE Capture BY <1>3, <1>4, <1>6 DEF Capture
<1>7. CASE PutBack
  <2>1. \/ UNCHANGED tree
        \/ /\ Entry(quarantine, Captured) # None
           /\ \E name \in {LevelName, Aside} :
                /\ Vacant(Level.parent, name)
                /\ Move(Entry(quarantine, Captured), Level.parent, name)
    BY <1>7 DEF PutBack
  <2> QED BY <1>3, <1>5, <2>1
<1> QED BY <1>6, <1>7

LEMMA RemovalsSpare == ASSUME Shape, Owned, UnlinkCapture \/ RemoveQuarantine PROVE Spared
<1>1. /\ quarantine \in Nodes /\ quarantine # None /\ home # None
  BY DEF UnlinkCapture, RemoveQuarantine, Shape, UndoControls, Pin
<1>2. CASE UNCHANGED tree BY <1>2, PlacesKept
<1>3. ASSUME pc = "unlink", NEW found, found = Entry(quarantine, Captured), found # None,
             Unlink(found)
      PROVE  Spared
  <2>1. /\ found \in Nodes /\ tree[found].dir # None
        /\ tree[found].dir = quarantine /\ tree[found].name = Captured
    BY <1>1, <1>3, CaughtNode
  <2>2. ASSUME ~raced PROVE found \in Made
    <3>1. found = created[cursor].own BY <1>3, <2>1, <2>2 DEF Owned, QuarantineMade
    <3>2. cursor \in DOMAIN created /\ created[cursor].own # None
      BY <1>3, <2>1, <3>1, AtCursor, Sizes DEF Backing, Shape, UndoControls
    <3>3. tree[found].maker = "level" BY <2>2, <3>1, <3>2 DEF Owned, OwnPins
    <3> QED BY <2>1, <3>3 DEF Made
  <2> QED BY <1>3, <2>1, <2>2, UnlinkingSpares
<1>4. ASSUME pc = "remove", NEW found, found = Entry(home, Quarantined), found # None,
             Unlink(found)
      PROVE  Spared
  <2>1. /\ found \in Nodes /\ tree[found].dir # None
        /\ tree[found].dir = home /\ tree[found].name = Quarantined
    BY <1>1, <1>4, CaughtNode
  <2>2. ASSUME ~raced PROVE found \in Made
    <3>1. found = quarantine BY <1>4, <2>1, <2>2 DEF Owned, QuarantineMade
    <3>2. tree[found].maker = "quarantine" BY <1>1, <2>2, <3>1 DEF Owned, QuarantineMade
    <3> QED BY <2>1, <3>2 DEF Made
  <2> QED BY <1>4, <2>1, <2>2, UnlinkingSpares
<1>5. CASE UnlinkCapture BY <1>2, <1>3, <1>5 DEF UnlinkCapture
<1>6. CASE RemoveQuarantine BY <1>2, <1>4, <1>6 DEF RemoveQuarantine
<1> QED BY <1>5, <1>6

\* Every other step of the import only looks.
LEMMA ImportSpares == ASSUME Shape, Owned, Import PROVE Spared
<1>1. CASE UNCHANGED tree BY <1>1, PlacesKept
<1>2. \/ Survey \/ OpenStart \/ MakeLevel \/ OpenExisting \/ Identify \/ SyncEntry \/ Reopen
      \/ GiveUpPin \/ Acquire \/ Climb \/ SyncLevel
      \/ CheckName \/ CreateTemporary \/ Assemble \/ Publish \/ Discard
      \/ LookUp \/ Claim \/ Vouch \/ Capture \/ CheckCapture \/ UnlinkCapture \/ PutBack
      \/ Tidy \/ RemoveQuarantine
  BY DEF Import
<1>3. CASE \/ Survey \/ OpenStart \/ OpenExisting \/ Identify \/ SyncEntry \/ Reopen
           \/ GiveUpPin \/ Acquire \/ Climb \/ SyncLevel \/ CheckName
  BY <1>1, <1>3 DEF Survey, OpenStart, OpenExisting, Identify, SyncEntry, Reopen, GiveUpPin,
     Acquire, Climb, SyncLevel, CheckName
<1>4. CASE LookUp \/ Vouch \/ CheckCapture \/ Tidy
  BY <1>1, <1>4 DEF LookUp, Vouch, CheckCapture, Tidy
<1> QED BY <1>2, <1>3, <1>4, WalkSpares, PackSpares, ClaimSpares, MovesSpare, RemovalsSpare

\* An import unlinks nothing it did not make but the pack it replaces, for a
\* path of any depth and whatever others do to the names, unless they do it
\* between a call that looks at a name and the next that acts on it
\* (import_rom/created_dirs/take_back.rs, `undo_created_directories`).
THEOREM OthersAreKept == Spec => OthersKept
<1>1. ImportIInv /\ [Next]_vars =>
        [\A n \in Nodes :
           Stands(n) /\ ~Stands(n)' /\ upsets' = upsets /\ n \notin Made =>
             raced \/ (pc = "publish" /\ tree[n].kind # "directory")]_vars
  <2> SUFFICES ASSUME ImportIInv, Next, NEW n \in Nodes, Stands(n), ~Stands(n)',
                      upsets' = upsets, n \notin Made
               PROVE  raced \/ (pc = "publish" /\ tree[n].kind # "directory")
    OBVIOUS
  <2>1. CASE Import
    <3>1. Spared BY <2>1, ImportSpares DEF ImportIInv
    <3> QED BY <3>1 DEF Spared
  <2>2. CASE Other
    <3>1. \E dir : Upset(dir)
      BY <2>2 DEF Other, TakeName, CarryOff, Swap, RemoveEmpty
    <3>2. upsets' = upsets + 1 /\ upsets \in Nat BY <3>1, UpsetRoom DEF ImportIInv
    <3> QED BY <3>2
  <2> QED BY <2>1, <2>2 DEF Next
<1> QED BY <1>1, ImportIInvAlways, PTL DEF Spec, OthersKept
---------------------------------------------------------------------------
(* The order an import keeps while nobody disturbs it.                     *)

Ending == Backing \union {"tidy", "remove", "failed"}
\* What a take-back needs to leave no trace; a finished import takes nothing back.
Clean == pc # "done" /\ (pc \in Ending => ~starved /\ denied = {} /\ Vouched)

\* What stood before stands, in what stood before; and what an import makes
\* beside the levels has a name and a time of its own.
Surroundings == \A n \in Nodes :
  /\ tree[n].maker # "other"
  /\ tree[n].maker = "before" =>
       Stands(n) /\ (tree[n].dir # None => tree[tree[n].dir].maker = "before")
  /\ tree[n].maker = "temporary" /\ tree[n].dir # None =>
       pc \in {"assemble", "publish", "discard"} /\ n = temp
  /\ tree[n].name = Quarantined => tree[n].maker = "quarantine"

\* The levels recorded are directories of this run, each newer than the one
\* before it and than the directory it was made in.
Ordered(levels) == \A i \in DOMAIN levels :
  /\ tree[levels[i].node].maker = "level" /\ tree[levels[i].node].kind = "directory"
  /\ levels[i].parent_node < levels[i].node
  /\ \A j \in 1 .. (i - 1) : levels[j].node < levels[i].node
Firm(n) == Stands(n) /\ IsDirectory(n)
Grounded(levels) == levels # <<>> => Firm(levels[1].parent_node)
InPlace(level) == /\ tree[level.node].dir = level.parent_node
                  /\ tree[level.node].name = LevelNames[level.level]
Placed(levels) == \A i \in DOMAIN levels : InPlace(levels[i])

\* So is the level not yet recorded, and it is where it was made.
Newest(n) == walk < n /\ \A i \in DOMAIN created : created[i].node < n
FreshInOrder ==
  /\ pc \in Walking => Firm(walk)
  /\ pc = "identify" =>
       \A n \in Nodes : tree[n].dir = walk /\ tree[n].name = AtLevel => Newest(n)
  /\ pc \in {"entry", "reopen"} =>
       /\ Newest(fresh.node) /\ tree[fresh.node].kind = "directory"
       /\ tree[fresh.node].dir = walk /\ tree[fresh.node].name = AtLevel

\* The levels out to the cursor are where they were made, the one at the cursor
\* may be in the quarantine, and those beyond it are gone.
Caught(level) == tree[level.node].dir = quarantine /\ tree[level.node].name = Captured
BackTo ==
  /\ \A i \in DOMAIN created :
       /\ i < cursor => InPlace(created[i])
       /\ i = cursor => IF pc \in {"check", "unlink"} THEN Caught(created[i])
                        ELSE InPlace(created[i])
       /\ i > cursor => ~Stands(created[i].node)
  /\ pc # "putback" /\ (pc \in {"tidy", "remove", "failed"} => cursor = 0)

\* The quarantine stands beside the outermost level from its making to its
\* removal.
Beside(n) == /\ tree[n].dir = home /\ tree[n].name = Quarantined /\ tree[n].kind = "directory"
             /\ tree[n].maker = "quarantine"
QuarantineStands ==
  /\ quarantine # None \/ pc = "vouch" => created # <<>> /\ home = created[1].parent_node
  /\ quarantine # None => Beside(quarantine)
  /\ pc = "vouch" => \E n \in Nodes : Beside(n)
  /\ pc = "failed" => quarantine = None
  /\ \A n \in Nodes : tree[n].maker = "quarantine" /\ tree[n].dir # None =>
       quarantine = n \/ pc = "vouch"

Orderly ==
  /\ Surroundings /\ Ordered(created) /\ Grounded(created) /\ FreshInOrder
  /\ IF pc \in Ending THEN BackTo /\ QuarantineStands ELSE Placed(created)
OrderInv == upsets = 0 => ~raced /\ (Clean => Orderly)

\* Names apart from those of the path.
LEMMA NamesApart ==
  /\ \A k \in Levels : LevelNames[k] \notin {Away, Quarantined}
  /\ Quarantined \notin {Away, Captured, "pack", "temporary", "nameless"} /\ Captured # Away
<1>1. \A k \in Levels : LevelNames[k] \notin {Away, Quarantined}
  BY Sizes, NamesAssumption
<1>2. Quarantined \notin {Away, Captured, "pack", "temporary", "nameless"} /\ Captured # Away
  BY DEF Quarantined, Away, Captured
<1> QED BY <1>1, <1>2

\* The one node of its name in a directory is the one the name leads to.
LEMMA EntryIs ==
  ASSUME TreeSound, NEW n \in Nodes, NEW dir, NEW name, tree[n].dir = dir, tree[n].name = name,
         dir # None, name # Away
  PROVE  Entry(dir, name) = n
<1>1. Entry(dir, name) \in Nodes /\ tree[Entry(dir, name)].dir = dir
      /\ tree[Entry(dir, name)].name = name
  BY EntryFound
<1> QED BY <1>1 DEF TreeSound

\* A path that resolves leads to a node that stands.
LEMMA PathStands ==
  ASSUME NEW k \in 0 .. Depth, Path[k] # None
  PROVE  Stands(Path[k])
<1>1. CASE k = 0 BY <1>1, PathDefined, Sizes DEF Stands
<1>2. CASE k # 0
  <2>1. Path[k] = Entry(Path[k - 1], LevelNames[k]) /\ IsDirectory(Path[k - 1])
    BY <1>2, PathDefined
  <2>2. tree[Path[k]].dir = Path[k - 1] /\ Path[k - 1] # None
    BY <2>1, EntryFound DEF IsDirectory
  <2> QED BY <2>2 DEF Stands
<1> QED BY <1>1, <1>2

\* With every level vouched for, each is held by both its pins.
LEMMA AllPinned ==
  ASSUME Shape, Ordered(created), Vouched, NEW i \in DOMAIN created
  PROVE  /\ created[i].own = created[i].node /\ created[i].own \in Nodes
         /\ created[i].parent = created[i].parent_node /\ created[i].parent \in Nodes
<1>1. /\ created \in Seq(LevelRecords) /\ DOMAIN created = 1 .. Len(created)
      /\ Len(created) \in Nat /\ Recorded(created)
  BY CreatedTyped
<1>2. \A k \in DOMAIN created : created[k].node \in Nodes /\ created[k].node # None
  BY <1>1, LevelTyped, Sizes
<1>3. created[i].node \in Made /\ tree[created[i].node].maker = "level"
  BY <1>2 DEF Ordered, Made
<1>4. PICK k \in DOMAIN created : created[k].own = created[i].node /\ created[k].parent # None
  BY <1>3 DEF Vouched
<1>5. created[k].node = created[i].node BY <1>1, <1>2, <1>4 DEF Recorded
<1>6. k = i
  <2>1. i \in Nat /\ k \in Nat /\ created[i].node \in Int BY <1>1, <1>2, Sizes
  <2>2. ~ (k < i)
    <3> SUFFICES ASSUME k < i PROVE FALSE OBVIOUS
    <3>1. k \in 1 .. (i - 1) BY <1>1, <2>1
    <3> QED BY <3>1, <1>5, <2>1 DEF Ordered
  <2>3. ~ (i < k)
    <3> SUFFICES ASSUME i < k PROVE FALSE OBVIOUS
    <3>1. i \in 1 .. (k - 1) BY <1>1, <2>1
    <3> QED BY <3>1, <1>5, <2>1 DEF Ordered
  <2> QED BY <2>1, <2>2, <2>3
<1>7. created[i].own = created[i].node /\ created[i].parent = created[i].parent_node
  BY <1>1, <1>4, <1>6 DEF Recorded
<1>8. created[i].parent_node \in Nodes BY <1>1, LevelTyped
<1> QED BY <1>2, <1>7, <1>8

---------------------------------------------------------------------------
(* What a step leaves of it.                                               *)

\* What stood before, and the names and times of what was made.
LEMMA SurroundingsKept ==
  ASSUME TreeSound, Surroundings, Persist,
         \A n \in Nodes : tree'[n].maker = "before" =>
           tree[n].maker = "before" /\ tree'[n].dir = tree[n].dir,
         \A n \in Nodes : tree'[n].maker # "other",
         \A n \in Nodes : tree'[n].maker = "temporary" /\ tree'[n].dir # None =>
           pc' \in {"assemble", "publish", "discard"} /\ n = temp',
         \A n \in Nodes : tree'[n].name = Quarantined => tree'[n].maker = "quarantine"
  PROVE  Surroundings'
<1>1. ASSUME NEW n \in Nodes, tree'[n].maker = "before"
      PROVE  Stands(n)' /\ (tree'[n].dir # None => tree'[tree'[n].dir].maker = "before")
  <2>1. tree[n].maker = "before" /\ tree'[n].dir = tree[n].dir BY <1>1
  <2>2. Stands(n) /\ (tree[n].dir # None => tree[tree[n].dir].maker = "before")
    BY <2>1 DEF Surroundings
  <2>3. Stands(n)' BY <2>1, <2>2 DEF Stands
  <2>4. ASSUME tree'[n].dir # None PROVE tree'[tree'[n].dir].maker = "before"
    <3>1. tree[n].dir \in Nodes BY <2>1, <2>4, UsedNode DEF Pin
    <3> QED BY <2>1, <2>2, <2>4, <3>1 DEF Persist
  <2> QED BY <2>3, <2>4
<1> QED BY <1>1 DEF Surroundings

\* The levels' records, whichever pins they lose.
LEMMA LetGoOrdered ==
  ASSUME NEW old \in Seq(LevelRecords), NEW new, LetGo(new, old)
  PROVE  /\ Ordered(old) => Ordered(new)
         /\ Grounded(old) => Grounded(new)
         /\ Placed(old) => Placed(new)
<1> DEFINE R == LevelRecords
<1>1. /\ DOMAIN old = 1 .. Len(old) /\ DOMAIN new = 1 .. Len(old) /\ Len(old) \in Nat
      /\ \A i \in 1 .. Len(old) : /\ new[i].level = old[i].level /\ new[i].node = old[i].node
                                  /\ new[i].parent_node = old[i].parent_node
  BY DEF LetGo
<1>2. Ordered(old) => Ordered(new)
  <2> SUFFICES ASSUME Ordered(old), NEW i \in 1 .. Len(old)
               PROVE  /\ tree[new[i].node].maker = "level" /\ tree[new[i].node].kind = "directory"
                      /\ new[i].parent_node < new[i].node
                      /\ \A j \in 1 .. (i - 1) : new[j].node < new[i].node
    BY <1>1 DEF Ordered
  <2>1. \A j \in 1 .. (i - 1) : j \in 1 .. Len(old) BY <1>1
  <2> QED BY <1>1, <2>1 DEF Ordered
<1>3. Grounded(old) => Grounded(new)
  <2> SUFFICES ASSUME Grounded(old), new # <<>> PROVE Firm(new[1].parent_node)
    BY DEF Grounded
  <2>1. old # <<>> /\ 1 \in 1 .. Len(old)
    <3>1. new \in Seq(R) /\ Len(new) = Len(old) BY DEF LetGo
    <3> HIDE DEF R
    <3>2. Len(new) # 0 BY <3>1
    <3> QED BY <1>1, <3>1, <3>2
  <2> QED BY <1>1, <2>1 DEF Grounded
<1>4. Placed(old) => Placed(new) BY <1>1 DEF Placed, InPlace
<1> QED BY <1>2, <1>3, <1>4

\* Nothing about the levels changes while the tree does not.
LEMMA SameOrder ==
  ASSUME UNCHANGED tree
  PROVE  /\ Ordered(created') => Ordered(created)'
         /\ Grounded(created') => Grounded(created)'
         /\ Placed(created') => Placed(created)'
         /\ Firm(walk') => Firm(walk)'
BY DEF Ordered, Grounded, Placed, InPlace, Firm, Stands, IsDirectory

\* A failure starts the take-back with every level in its place.
LEMMA FailedOrder ==
  ASSUME Shape', Hiding', Surroundings', Ordered(created)', Grounded(created)', Placed(created)',
         pc' = "undo", cursor' = Len(created'), quarantine' = None
  PROVE  Orderly'
<1>1. DOMAIN created' = 1 .. Len(created') /\ Len(created') \in Nat
  BY DEF Shape, Recorded
<1>2. BackTo' BY <1>1 DEF BackTo, Placed
<1>3. \A n \in Nodes : tree'[n].maker # "quarantine" BY DEF Hiding, OneQuarantine
<1>4. QuarantineStands' BY <1>3 DEF QuarantineStands
<1>5. FreshInOrder' BY DEF FreshInOrder, Walking
<1> QED BY <1>2, <1>4, <1>5 DEF Orderly, Ending, Backing

\* A look on the way in, and one that fails.
LEMMA QuietOrder ==
  ASSUME Shape, Orderly, UNCHANGED tree, pc \notin Ending, LetGo(created', created)
  PROVE  /\ Ordered(created)' /\ Grounded(created)' /\ Placed(created)'
         /\ (pc \in {"assemble", "publish", "discard"} =>
               pc' \in {"assemble", "publish", "discard"} /\ temp' = temp) => Surroundings'
<1>1. Ordered(created)' /\ Grounded(created)' /\ Placed(created)'
  BY CreatedTyped, LetGoOrdered, SameOrder DEF Orderly
<1>2. ASSUME pc \in {"assemble", "publish", "discard"} =>
               pc' \in {"assemble", "publish", "discard"} /\ temp' = temp
      PROVE  Surroundings'
  <2>1. Surroundings BY DEF Orderly
  <2>2. \A n \in Nodes : tree[n].maker = "temporary" /\ tree[n].dir # None =>
          pc' \in {"assemble", "publish", "discard"} /\ n = temp'
    BY <1>2, <2>1 DEF Surroundings
  <2> QED BY <2>1, <2>2 DEF Surroundings, Stands
<1> QED BY <1>1, <1>2

LEMMA QuietlyOn ==
  ASSUME Shape, Orderly, UNCHANGED tree, pc \notin Ending, pc' \notin Ending,
         LetGo(created', created), FreshInOrder',
         pc \in {"assemble", "publish", "discard"} =>
           pc' \in {"assemble", "publish", "discard"} /\ temp' = temp
  PROVE  Orderly'
BY QuietOrder DEF Orderly

LEMMA QuietlyBack ==
  ASSUME Shape, Shape', Hiding', Orderly, UNCHANGED <<tree, quarantine>>,
         pc \in {"start", "levels", "temporary"} \union Walking, TakeBack(created'),
         LetGo(created', created)
  PROVE  Orderly'
<1>1. pc \notin Ending \union {"assemble", "publish", "discard"} /\ quarantine = None
  BY DEF Ending, Backing, Walking, Shape, UndoControls
<1>2. Surroundings' /\ Ordered(created)' /\ Grounded(created)' /\ Placed(created)'
  BY <1>1, QuietOrder
<1> QED BY <1>1, <1>2, FailedOrder DEF TakeBack

\* The level on its way to be recorded, while the pins of others go.
LEMMA FreshKept ==
  ASSUME Shape, Orderly, UNCHANGED <<tree, walk, depth>>, LetGo(created', created),
         \/ pc' = pc \/ (pc = "entry" /\ pc' = "reopen"),
         fresh'.node = fresh.node
  PROVE  FreshInOrder'
<1>1. \A i \in DOMAIN created' : i \in DOMAIN created /\ created'[i].node = created[i].node
  BY CreatedTyped DEF LetGo
<1>2. \A n \in Nodes : Newest(n) => Newest(n)' BY <1>1 DEF Newest
<1>3. pc' = "identify" =>
        \A n \in Nodes : tree'[n].dir = walk' /\ tree'[n].name = AtLevel' => Newest(n)'
  BY <1>2 DEF Orderly, FreshInOrder, AtLevel
<1>4. pc' \in Walking => Firm(walk)'
  BY DEF Orderly, FreshInOrder, Firm, Stands, IsDirectory, Walking
<1>5. ASSUME pc' \in {"entry", "reopen"}
      PROVE  /\ Newest(fresh.node)' /\ tree'[fresh'.node].kind = "directory"
             /\ tree'[fresh'.node].dir = walk' /\ tree'[fresh'.node].name = AtLevel'
  <2>1. Newest(fresh.node)' BY <1>1, <1>5 DEF Orderly, FreshInOrder, Newest
  <2> QED BY <1>5, <2>1 DEF Orderly, FreshInOrder, AtLevel
<1> QED BY <1>3, <1>4, <1>5 DEF FreshInOrder

---------------------------------------------------------------------------
(* The way in.                                                             *)

LEMMA SurveyOrder == ASSUME Shape, Orderly, Survey PROVE Orderly'
<1>1. pc = "survey" /\ pc' \in {"acquire", "start"} /\ UNCHANGED <<tree, created, temp>>
  BY DEF Survey
<1>2. pc \notin Ending /\ pc' \notin Ending /\ FreshInOrder'
  BY <1>1 DEF Ending, Backing, FreshInOrder, Walking
<1> QED BY <1>1, <1>2, CreatedTyped, QuietlyOn

LEMMA OpenStartOrder ==
  ASSUME Shape, Shape', Hiding', Orderly, OpenStart
  PROVE  Orderly'
<1>1. pc = "start" /\ UNCHANGED <<tree, depth, quarantine>> BY DEF OpenStart, Idle
<1>2. CASE Fails BY <1>1, <1>2, CreatedTyped, QuietlyBack DEF Fails
<1>3. ASSUME IsDirectory(Path[depth - 1]), walk' = Path[depth - 1], pc' = "make",
             UNCHANGED <<created, cursor>>
      PROVE  Orderly'
  <2>1. depth - 1 \in 0 .. Depth BY <1>1, Sizes DEF Shape, WalkControls
  <2>2. Firm(walk)' BY <1>1, <1>3, <2>1, PathStands DEF Firm, IsDirectory, Stands
  <2>3. FreshInOrder' BY <1>3, <2>2 DEF FreshInOrder
  <2>4. pc \notin Ending /\ pc' \notin Ending BY <1>1, <1>3 DEF Ending, Backing
  <2> QED BY <1>1, <1>3, <2>3, <2>4, CreatedTyped, QuietlyOn
<1> QED BY <1>2, <1>3 DEF OpenStart

LEMMA OpenExistingOrder ==
  ASSUME Shape, Shape', Hiding', Orderly, OpenExisting
  PROVE  Orderly'
<1>1. pc = "existing" /\ UNCHANGED <<tree, quarantine>> /\ walk # None
  BY DEF OpenExisting, Idle, Shape, WalkControls, Walking
<1>2. CASE Fails BY <1>1, <1>2, CreatedTyped, QuietlyBack DEF Fails, Walking
<1>3. ASSUME IsDirectory(Entry(walk, AtLevel)), walk' = Entry(walk, AtLevel), NextLevel,
             UNCHANGED <<created, cursor>>
      PROVE  Orderly'
  <2>1. Stands(Entry(walk, AtLevel)) BY <1>1, <1>3, EntryFound DEF IsDirectory, Stands
  <2>2. Firm(walk)' BY <1>1, <1>3, <2>1 DEF Firm, IsDirectory, Stands
  <2>3. pc' \in {"acquire", "make"} BY <1>3 DEF NextLevel
  <2>4. FreshInOrder' BY <2>2, <2>3 DEF FreshInOrder
  <2>5. pc \notin Ending /\ pc' \notin Ending BY <1>1, <2>3 DEF Ending, Backing
  <2> QED BY <1>1, <1>3, <2>4, <2>5, CreatedTyped, QuietlyOn
<1> QED BY <1>2, <1>3 DEF OpenExisting

LEMMA IdentifyOrder ==
  ASSUME Shape, Shape', Hiding', Orderly, Identify
  PROVE  Orderly'
<1>1. pc = "identify" /\ UNCHANGED <<tree, depth, walk, temp, quarantine>> /\ walk # None
  BY DEF Identify, Idle, Shape, WalkControls, Walking
<1>2. CASE Fails BY <1>1, <1>2, CreatedTyped, QuietlyBack DEF Fails, Walking
<1>3. ASSUME NEW found, found = Entry(walk, AtLevel), IsDirectory(found), fresh'.node = found,
             pc' = "entry", UNCHANGED <<created, cursor>>
      PROVE  Orderly'
  <2>1. found \in Nodes /\ tree[found].dir = walk /\ tree[found].name = AtLevel
    BY <1>3, EntryFound DEF IsDirectory
  <2>2. Newest(found) /\ Firm(walk) BY <1>1, <2>1 DEF Orderly, FreshInOrder, Walking
  <2>3. Newest(fresh.node)' BY <1>1, <1>3, <2>2 DEF Newest
  <2>4. Firm(walk)' BY <1>1, <2>2 DEF Firm, Stands, IsDirectory
  <2>5. /\ tree'[fresh'.node].kind = "directory" /\ tree'[fresh'.node].dir = walk'
        /\ tree'[fresh'.node].name = AtLevel'
    BY <1>1, <1>3, <2>1 DEF IsDirectory, AtLevel
  <2>6. FreshInOrder' BY <1>3, <2>3, <2>4, <2>5 DEF FreshInOrder
  <2>7. pc \notin Ending /\ pc' \notin Ending BY <1>1, <1>3 DEF Ending, Backing
  <2> QED BY <1>1, <1>3, <2>6, <2>7, CreatedTyped, QuietlyOn
<1>4. fresh' = [node |-> Entry(walk, AtLevel), synced |-> FALSE] => fresh'.node = Entry(walk, AtLevel)
  OBVIOUS
<1> QED BY <1>2, <1>3, <1>4 DEF Identify

LEMMA LookOrder ==
  ASSUME Shape, Orderly, SyncEntry \/ GiveUpPin
  PROVE  Orderly'
<1>1. /\ UNCHANGED <<tree, walk, depth, temp>>
      /\ pc' = pc \/ (pc = "entry" /\ pc' = "reopen")
      /\ pc \in {"existing", "entry", "reopen", "acquire", "temporary"}
  BY DEF SyncEntry, GiveUpPin
<1>2. LetGo(created', created) BY CreatedTyped, ShedLetsGo DEF SyncEntry, GiveUpPin
<1>3. fresh'.node = fresh.node
  <2>1. fresh \in [node : Pin, synced : BOOLEAN] BY DEF Shape, WalkControls
  <2> QED BY <2>1 DEF SyncEntry, GiveUpPin
<1>4. FreshInOrder' BY <1>1, <1>2, <1>3, FreshKept
<1>5. pc \notin Ending /\ pc' \notin Ending BY <1>1 DEF Ending, Backing
<1> QED BY <1>1, <1>2, <1>4, <1>5, QuietlyOn

LEMMA OnwardOrder ==
  ASSUME Shape, Orderly, Acquire \/ Climb \/ SyncLevel
  PROVE  Orderly'
<1>1. /\ UNCHANGED tree /\ pc \in {"acquire", "climb", "levels"} /\ pc' \in {"climb", "levels"}
      /\ LetGo(created', created)
  BY CreatedTyped, ClimbLetsGo, SyncLevelLetsGo DEF Acquire, Climb, SyncLevel
<1>2. FreshInOrder' /\ pc \notin Ending /\ pc' \notin Ending
  BY <1>1 DEF FreshInOrder, Walking, Ending, Backing
<1> QED BY <1>1, <1>2, QuietlyOn

LEMMA CheckNameOrder ==
  ASSUME Shape, Shape', Hiding', Orderly, CheckName
  PROVE  Orderly'
<1>1. pc = "levels" /\ UNCHANGED <<tree, quarantine>> BY DEF CheckName, Idle
<1>2. CASE Fails BY <1>1, <1>2, CreatedTyped, QuietlyBack DEF Fails
<1>3. CASE pc' = "temporary" /\ UNCHANGED <<created, cursor>>
  <2>1. FreshInOrder' /\ pc \notin Ending /\ pc' \notin Ending
    BY <1>1, <1>3 DEF FreshInOrder, Walking, Ending, Backing
  <2> QED BY <1>1, <1>3, <2>1, CreatedTyped, QuietlyOn
<1> QED BY <1>2, <1>3 DEF CheckName

\* A node that is made is newer than any, and disturbs no level.
LEMMA GrowthKeeps ==
  ASSUME Shape, Orderly, NEW k \in Nodes, Taken(k), tree[k] = Unused,
         \A n \in Nodes : n # k => tree'[n] = tree[n], UNCHANGED created
  PROVE  /\ Persist
         /\ \A n \in Nodes : tree[n].maker # "nobody" => n # k /\ n < k
         /\ Ordered(created)' /\ Grounded(created)'
         /\ \A i \in DOMAIN created : tree'[created[i].node] = tree[created[i].node]
         /\ Placed(created) => Placed(created)'
<1>1. ASSUME NEW n \in Nodes, tree[n].maker # "nobody" PROVE n # k /\ n < k /\ tree'[n] = tree[n]
  <2>1. tree[n] # Unused BY <1>1, UnusedFields
  <2>2. n \in Int /\ k \in Int /\ n # k BY <2>1, Sizes
  <2> QED BY <2>1, <2>2 DEF Taken
<1>2. Persist BY <1>1 DEF Persist
<1>3. \A i \in DOMAIN created : /\ created[i].node \in Nodes /\ created[i].parent_node \in Nodes
                                /\ tree[created[i].node].maker = "level"
  BY CreatedTyped, LevelTyped DEF Orderly, Ordered
<1>4. \A i \in DOMAIN created : tree'[created[i].node] = tree[created[i].node] BY <1>1, <1>3
<1>5. Ordered(created)' BY <1>4 DEF Orderly, Ordered
<1>6. Grounded(created)'
  <2> SUFFICES ASSUME created # <<>> PROVE Firm(created[1].parent_node)' BY DEF Grounded
  <2>1. Firm(created[1].parent_node) BY DEF Orderly, Grounded
  <2>2. 1 \in DOMAIN created
    <3>1. DOMAIN created = 1 .. Len(created) /\ Len(created) \in Nat BY CreatedTyped
    <3>2. Len(created) # 0
      <4> DEFINE R == LevelRecords
      <4>1. created \in Seq(R) BY CreatedTyped
      <4> HIDE DEF R
      <4> QED BY <4>1
    <3> QED BY <3>1, <3>2
  <2>3. created[1].parent_node \in Nodes BY <1>3, <2>2
  <2>4. tree[created[1].parent_node].maker # "nobody" BY <2>1, <2>3, UsedNode DEF Firm, Shape
  <2>5. tree'[created[1].parent_node] = tree[created[1].parent_node] BY <1>1, <2>3, <2>4
  <2> QED BY <2>1, <2>5 DEF Firm, Stands, IsDirectory
<1>7. Placed(created) => Placed(created)' BY <1>4 DEF Placed, InPlace
<1> QED BY <1>1, <1>2, <1>4, <1>5, <1>6, <1>7

LEMMA GrowthSurroundings ==
  ASSUME Shape, Orderly, NEW k \in Nodes, tree[k] = Unused,
         \A n \in Nodes : n # k => tree'[n] = tree[n],
         NEW dir, NEW name, NEW kind, NEW maker \in {"level", "temporary", "quarantine"},
         tree'[k] = Node(dir, name, kind, maker),
         name = Quarantined => maker = "quarantine",
         maker = "temporary" => pc' \in {"assemble", "publish", "discard"} /\ temp' = k,
         pc \notin {"assemble", "publish", "discard"}
  PROVE  Surroundings'
<1>1. tree'[k].maker = maker BY NodeFields
<1>2. tree'[k].name = name BY NodeFields
<1>3. Persist
  <2>1. tree[k].maker = "nobody" BY UnusedFields
  <2> QED BY <2>1 DEF Persist
<1>4. Surroundings BY DEF Orderly
<1>5. \A n \in Nodes : tree'[n].maker = "before" =>
        tree[n].maker = "before" /\ tree'[n].dir = tree[n].dir
  BY <1>1
<1>6. \A n \in Nodes : tree'[n].maker # "other" BY <1>1, <1>4 DEF Surroundings
<1>7. \A n \in Nodes : tree'[n].maker = "temporary" /\ tree'[n].dir # None =>
        pc' \in {"assemble", "publish", "discard"} /\ n = temp'
  BY <1>1, <1>4 DEF Surroundings
<1>8. \A n \in Nodes : tree'[n].name = Quarantined => tree'[n].maker = "quarantine"
  BY <1>1, <1>2, <1>4 DEF Surroundings
<1> QED BY <1>3, <1>4, <1>5, <1>6, <1>7, <1>8, SurroundingsKept DEF Shape

LEMMA MakeLevelOrder ==
  ASSUME Shape, Shape', Hiding', Orderly, MakeLevel
  PROVE  Orderly'
<1>1. /\ pc = "make" /\ UNCHANGED <<depth, walk, quarantine>> /\ walk \in Nodes /\ walk # None
      /\ Firm(walk) /\ depth \in Levels /\ pc \notin Ending
  BY Sizes DEF MakeLevel, Idle, Shape, WalkControls, Walking, Pin, Orderly, FreshInOrder,
     Ending, Backing
<1>2. CASE Fails /\ UNCHANGED tree
  BY <1>1, <1>2, CreatedTyped, QuietlyBack DEF Fails, Walking
<1>3. CASE pc' = "existing" /\ UNCHANGED <<tree, created, cursor>>
  <2>1. Firm(walk)' BY <1>1, <1>3 DEF Firm, Stands, IsDirectory
  <2>2. FreshInOrder' /\ pc' \notin Ending BY <1>3, <2>1 DEF FreshInOrder, Ending, Backing
  <2> QED BY <1>1, <1>3, <2>2, CreatedTyped, QuietlyOn
<1>4. ASSUME Vacant(walk, AtLevel), Put(NewNode, Node(walk, AtLevel, "directory", "level")),
             pc' = "identify", UNCHANGED <<created, cursor>>
      PROVE  Orderly'
  <2>1. PICK k \in Nodes :
          /\ Taken(k) /\ tree[k] = Unused
          /\ tree'[k] = Node(walk, AtLevel, "directory", "level")
          /\ \A n \in Nodes : n # k => tree'[n] = tree[n]
    BY <1>1, <1>4, MakeLevelEffect
  <2>2. /\ \A n \in Nodes : tree[n].maker # "nobody" => n # k /\ n < k
        /\ Ordered(created)' /\ Grounded(created)' /\ Placed(created)'
    BY <1>1, <1>4, <2>1, GrowthKeeps DEF Orderly
  <2>3. AtLevel # Quarantined BY <1>1, NamesApart DEF AtLevel
  <2>4. Surroundings' BY <1>1, <1>4, <2>1, <2>3, GrowthSurroundings
  <2>5. tree[walk].maker # "nobody" BY <1>1, UsedNode DEF Firm, Shape
  <2>6. Firm(walk)'
    <3>1. tree'[walk] = tree[walk] BY <1>1, <2>1, <2>2, <2>5
    <3> QED BY <1>1, <3>1 DEF Firm, Stands, IsDirectory
  <2>7. Newest(k)'
    <3>1. walk < k BY <1>1, <2>2, <2>5
    <3>2. \A i \in DOMAIN created : created[i].node \in Nodes /\ tree[created[i].node].maker = "level"
      BY CreatedTyped, LevelTyped DEF Orderly, Ordered
    <3> QED BY <1>1, <1>4, <2>2, <3>1, <3>2 DEF Newest
  <2>8. \A n \in Nodes : tree'[n].dir = walk' /\ tree'[n].name = AtLevel' => Newest(n)'
    <3> SUFFICES ASSUME NEW n \in Nodes, tree'[n].dir = walk', tree'[n].name = AtLevel'
                 PROVE  n = k
      BY <2>7
    <3>1. AtLevel' = AtLevel BY <1>1 DEF AtLevel
    <3>2. ~ (tree[n].dir = walk /\ tree[n].name = AtLevel)
      BY <1>1, <1>4, EntryFound DEF Vacant
    <3> QED BY <1>1, <2>1, <3>1, <3>2
  <2>9. FreshInOrder' BY <1>4, <2>6, <2>8 DEF FreshInOrder
  <2> QED BY <1>4, <2>2, <2>4, <2>9 DEF Orderly, Ending, Backing
<1> QED BY <1>2, <1>3, <1>4 DEF MakeLevel

\* The level that is recorded is the newest, and stands in the one before it.
LEMMA RecordingOrder ==
  ASSUME Shape, Shape', Hiding', Owned, ~raced, Orderly, pc = "reopen", NEW own \in {None, fresh.node},
         LetGo(created', Append(created, Record(own))), UNCHANGED <<tree, quarantine>>,
         \/ TakeBack(created')
         \/ walk' = fresh.node /\ pc' \in {"acquire", "make"}
  PROVE  Orderly'
<1> DEFINE new == Append(created, Record(own))
<1> DEFINE n == Len(created)
<1>1. /\ quarantine = None /\ walk \in Nodes /\ walk # None
      /\ created \in Seq(LevelRecords) /\ n \in Nat /\ DOMAIN created = 1 .. n
      /\ fresh.node \in Nodes /\ fresh.synced \in BOOLEAN /\ depth \in 1 .. Depth
  BY CreatedTyped, Sizes DEF Shape, WalkControls, UndoControls, Walking, Pin
<1>2. new \in Seq(LevelRecords) BY RecordKeeps
<1>3. Record(own) \in LevelRecords BY <1>1, Sizes DEF Record, LevelRecords, Pin
<1>4. /\ DOMAIN new = 1 .. (n + 1) /\ new[n + 1] = Record(own) /\ Len(new) = n + 1
      /\ \A i \in 1 .. n : new[i] = created[i]
  BY <1>1, <1>3, Appended
<1>5. /\ Record(own).node = fresh.node /\ Record(own).parent_node = walk
      /\ Record(own).level = depth
  BY DEF Record
<1>6. LetGo(created', new) OBVIOUS
<1> HIDE DEF new
<1>7. /\ Newest(fresh.node) /\ tree[fresh.node].kind = "directory" /\ Firm(walk)
      /\ tree[fresh.node].dir = walk /\ tree[fresh.node].name = AtLevel
  BY DEF Orderly, FreshInOrder, Walking
<1>8. Ordered(created) /\ Grounded(created) /\ Placed(created) /\ Surroundings /\ pc \notin Ending
  BY DEF Orderly, Ending, Backing
<1>9. tree[fresh.node].maker = "level" BY DEF Owned, FreshMade
<1>10. Ordered(new)
  <2> SUFFICES ASSUME NEW i \in 1 .. (n + 1)
               PROVE  /\ tree[new[i].node].maker = "level" /\ tree[new[i].node].kind = "directory"
                      /\ new[i].parent_node < new[i].node
                      /\ \A j \in 1 .. (i - 1) : new[j].node < new[i].node
    BY <1>4 DEF Ordered
  <2>1. CASE i = n + 1
    <3>1. \A j \in 1 .. (i - 1) : j \in DOMAIN created /\ new[j] = created[j] BY <1>1, <1>4, <2>1
    <3> QED BY <1>4, <1>5, <1>7, <1>9, <2>1, <3>1 DEF Newest
  <2>2. CASE i # n + 1
    <3>1. i \in 1 .. n /\ \A j \in 1 .. (i - 1) : j \in 1 .. n BY <1>1, <2>2
    <3> QED BY <1>1, <1>4, <1>8, <3>1 DEF Ordered
  <2> QED BY <2>1, <2>2
<1>11. Grounded(new)
  <2>1. CASE n = 0 BY <1>4, <1>5, <1>7, <2>1 DEF Grounded
  <2>2. CASE n # 0
    <3>1. 1 \in 1 .. n /\ created # <<>> BY <1>1, <2>2
    <3> QED BY <1>4, <1>8, <3>1 DEF Grounded
  <2> QED BY <2>1, <2>2
<1>12. Placed(new)
  <2> SUFFICES ASSUME NEW i \in 1 .. (n + 1) PROVE InPlace(new[i]) BY <1>4 DEF Placed
  <2>1. CASE i = n + 1 BY <1>4, <1>5, <1>7, <2>1 DEF InPlace, AtLevel
  <2>2. CASE i # n + 1
    <3>1. i \in 1 .. n BY <1>1, <2>2
    <3> QED BY <1>1, <1>4, <1>8, <3>1 DEF Placed
  <2> QED BY <2>1, <2>2
<1>13. Ordered(created)' /\ Grounded(created)' /\ Placed(created)'
  BY <1>2, <1>6, <1>10, <1>11, <1>12, LetGoOrdered, SameOrder
<1>14. Surroundings'
  <2>1. \A m \in Nodes : ~ (tree[m].maker = "temporary" /\ tree[m].dir # None)
    BY <1>8 DEF Surroundings
  <2> QED BY <1>8, <2>1 DEF Surroundings, Stands
<1>15. CASE TakeBack(created') BY <1>1, <1>13, <1>14, <1>15, FailedOrder DEF TakeBack
<1>16. CASE walk' = fresh.node /\ pc' \in {"acquire", "make"}
  <2>1. Firm(walk)' BY <1>1, <1>7, <1>16, Sizes DEF Firm, Stands, IsDirectory
  <2>2. FreshInOrder' BY <1>16, <2>1 DEF FreshInOrder
  <2> QED BY <1>13, <1>14, <1>16, <2>2 DEF Orderly, Ending, Backing
<1> QED BY <1>15, <1>16

LEMMA ReopenOrder ==
  ASSUME Shape, Shape', Hiding', Owned, ~raced, Orderly, Reopen
  PROVE  Orderly'
<1> DEFINE found == Entry(walk, AtLevel)
<1> DEFINE recorded == Append(created, Record(found))
<1>1. pc = "reopen" /\ UNCHANGED <<tree, quarantine>> BY DEF Reopen, Idle
<1>2. CASE Fails BY <1>1, <1>2, CreatedTyped, QuietlyBack DEF Fails, Walking
<1>3. ASSUME created' = Append(created, Record(None)), TakeBack(created')
      PROVE  Orderly'
  <2>1. Append(created, Record(None)) \in Seq(LevelRecords) BY <1>1, RecordKeeps
  <2>2. LetGo(created', Append(created, Record(None))) BY <1>3, <2>1, LetGoSelf
  <2> QED BY <1>1, <1>3, <2>2, RecordingOrder
<1>4. ASSUME found = fresh.node, created' = recorded, TakeBack(recorded)
      PROVE  Orderly'
  <2>1. recorded = Append(created, Record(fresh.node)) BY <1>4
  <2>2. Append(created, Record(fresh.node)) \in Seq(LevelRecords) BY <1>1, RecordKeeps
  <2>3. LetGo(created', Append(created, Record(fresh.node))) BY <1>4, <2>1, <2>2, LetGoSelf
  <2>4. TakeBack(created') BY <1>4
  <2> HIDE DEF recorded, found
  <2> QED BY <1>1, <2>3, <2>4, RecordingOrder
<1>5. ASSUME found = fresh.node, created' = Trim(recorded, found), walk' = found, NextLevel
      PROVE  Orderly'
  <2>1. recorded = Append(created, Record(fresh.node)) BY <1>5
  <2>2. Append(created, Record(fresh.node)) \in Seq(LevelRecords) BY <1>1, RecordKeeps
  <2>3. LetGo(created', Append(created, Record(fresh.node))) BY <1>5, <2>1, <2>2, TrimLetsGo
  <2>4. pc' \in {"acquire", "make"} /\ walk' = fresh.node BY <1>5 DEF NextLevel
  <2> HIDE DEF recorded, found
  <2> QED BY <1>1, <2>3, <2>4, RecordingOrder
<1> QED BY <1>2, <1>3, <1>4, <1>5 DEF Reopen

---------------------------------------------------------------------------
(* The pack.                                                               *)

\* A step on a node that is no level, nor what the outermost one stands in.
LEMMA LevelsUntouched ==
  ASSUME Shape, Orderly, NEW m \in Nodes, tree[m].maker # "level",
         created # <<>> => m # created[1].parent_node,
         \A n \in Nodes : n # m => tree'[n] = tree[n], UNCHANGED created
  PROVE  /\ Ordered(created)' /\ Grounded(created)'
         /\ \A i \in DOMAIN created : tree'[created[i].node] = tree[created[i].node]
         /\ Placed(created) => Placed(created)'
<1>1. \A i \in DOMAIN created : /\ created[i].node \in Nodes /\ created[i].parent_node \in Nodes
                                /\ tree[created[i].node].maker = "level"
  BY CreatedTyped, LevelTyped DEF Orderly, Ordered
<1>2. \A i \in DOMAIN created : tree'[created[i].node] = tree[created[i].node] BY <1>1
<1>3. Ordered(created)' BY <1>2 DEF Orderly, Ordered
<1>4. Grounded(created)'
  <2> SUFFICES ASSUME created # <<>> PROVE Firm(created[1].parent_node)' BY DEF Grounded
  <2>1. Firm(created[1].parent_node) BY DEF Orderly, Grounded
  <2>2. 1 \in DOMAIN created
    <3>1. DOMAIN created = 1 .. Len(created) /\ Len(created) \in Nat BY CreatedTyped
    <3>2. Len(created) # 0
      <4> DEFINE R == LevelRecords
      <4>1. created \in Seq(R) BY CreatedTyped
      <4> HIDE DEF R
      <4> QED BY <4>1
    <3> QED BY <3>1, <3>2
  <2>3. tree'[created[1].parent_node] = tree[created[1].parent_node] BY <1>1, <2>2
  <2> QED BY <2>1, <2>3 DEF Firm, Stands, IsDirectory
<1>5. Placed(created) => Placed(created)' BY <1>2 DEF Placed, InPlace
<1> QED BY <1>2, <1>3, <1>4, <1>5

LEMMA CreateTemporaryOrder ==
  ASSUME Shape, Shape', Hiding', Orderly, CreateTemporary
  PROVE  Orderly'
<1>1. pc = "temporary" /\ UNCHANGED quarantine /\ pc \notin Ending
  BY DEF CreateTemporary, Idle, Ending, Backing
<1>2. CASE Fails /\ UNCHANGED tree BY <1>1, <1>2, CreatedTyped, QuietlyBack DEF Fails
<1>3. ASSUME Vacant(dest, "temporary"), temp' = NewNode,
             Put(NewNode, Node(dest, "temporary", "unfinished", "temporary")),
             pc' = "assemble", UNCHANGED <<created, cursor>>
      PROVE  Orderly'
  <2>1. PICK k \in Nodes :
          /\ Taken(k) /\ NewNode = k /\ tree[k] = Unused
          /\ tree'[k] = Node(dest, "temporary", "unfinished", "temporary")
          /\ \A n \in Nodes : n # k => tree'[n] = tree[n]
    BY <1>1, <1>3, TemporaryEffect
  <2>2. Ordered(created)' /\ Grounded(created)' /\ Placed(created)'
    BY <1>1, <1>3, <2>1, GrowthKeeps DEF Orderly
  <2>3. "temporary" # Quarantined BY NamesApart
  <2>4. Surroundings' BY <1>1, <1>3, <2>1, <2>3, GrowthSurroundings
  <2>5. FreshInOrder' /\ pc' \notin Ending BY <1>3 DEF FreshInOrder, Walking, Ending, Backing
  <2> QED BY <2>2, <2>4, <2>5 DEF Orderly
<1> QED BY <1>2, <1>3 DEF CreateTemporary

\* The temporary pack is neither a level nor what one stands in.
LEMMA TemporaryApart ==
  ASSUME Shape, Orderly, pc \in {"assemble", "publish", "discard"}
  PROVE  /\ temp \in Nodes /\ tree[temp].maker = "temporary" /\ tree[temp].dir # None
         /\ created # <<>> => temp # created[1].parent_node
         /\ pc \notin Ending
<1>1. /\ temp \in Nodes /\ tree[temp].maker = "temporary" /\ tree[temp].dir # None
      /\ tree[temp].kind # "directory"
  BY DEF Shape, UndoControls, PackControls, Pin
<1> QED BY <1>1 DEF Orderly, Grounded, Firm, IsDirectory, Ending, Backing

LEMMA AssembleOrder == ASSUME Shape, Orderly, Assemble PROVE Orderly'
<1>1. /\ pc = "assemble" /\ pc' \in {"publish", "discard"} /\ UNCHANGED <<created, temp>>
      /\ tree \in [Nodes -> Things]
  BY DEF Assemble, Shape, TreeSound
<1>2. FreshInOrder' /\ pc' \notin Ending BY <1>1 DEF FreshInOrder, Walking, Ending, Backing
<1>3. temp \in Nodes /\ tree[temp].maker = "temporary" /\ pc \notin Ending
      /\ (created # <<>> => temp # created[1].parent_node)
  BY <1>1, TemporaryApart
<1>4. CASE UNCHANGED tree BY <1>1, <1>2, <1>3, <1>4, CreatedTyped, QuietlyOn
<1>5. CASE tree' = [tree EXCEPT ![temp].kind = "pack"]
  <2>1. SUFFICES ASSUME NEW r, r = [tree[temp] EXCEPT !.kind = "pack"],
                        tree' = [tree EXCEPT ![temp] = r]
                 PROVE  Orderly'
    BY <1>5
  <2>2. tree[temp] \in Things BY <1>1, <1>3
  <2>3. r.dir = tree[temp].dir /\ r.name = tree[temp].name /\ r.maker = tree[temp].maker
    BY <2>1, <2>2 DEF Things
  <2>4. tree'[temp] = r /\ \A n \in Nodes : n # temp => tree'[n] = tree[n]
    BY <1>1, <1>3, <2>1
  <2>5. \A n \in Nodes : /\ tree'[n].dir = tree[n].dir /\ tree'[n].name = tree[n].name
                         /\ tree'[n].maker = tree[n].maker
    BY <2>3, <2>4
  <2>6. Ordered(created)' /\ Grounded(created)' /\ Placed(created)'
    BY <1>1, <1>3, <2>4, LevelsUntouched DEF Orderly
  <2>7. Persist BY <2>5 DEF Persist
  <2>8. Surroundings BY DEF Orderly
  <2>9. \A n \in Nodes : tree'[n].maker = "temporary" /\ tree'[n].dir # None =>
          pc' \in {"assemble", "publish", "discard"} /\ n = temp'
    BY <1>1, <2>5, <2>8 DEF Surroundings
  <2>10. /\ \A n \in Nodes : tree'[n].maker = "before" =>
              tree[n].maker = "before" /\ tree'[n].dir = tree[n].dir
         /\ \A n \in Nodes : tree'[n].maker # "other"
         /\ \A n \in Nodes : tree'[n].name = Quarantined => tree'[n].maker = "quarantine"
    BY <2>5, <2>8 DEF Surroundings
  <2>11. Surroundings' BY <2>7, <2>8, <2>9, <2>10, SurroundingsKept DEF Shape
  <2> QED BY <1>2, <2>6, <2>11 DEF Orderly
<1> QED BY <1>4, <1>5 DEF Assemble

\* A publication that fails; one that succeeds ends the import.
LEMMA PublishOrder == ASSUME Shape, Orderly, Publish, pc' # "done" PROVE Orderly'
<1>1. pc = "publish" /\ pc' = "discard" /\ UNCHANGED <<tree, created, temp>> BY DEF Publish
<1>2. FreshInOrder' /\ pc \notin Ending /\ pc' \notin Ending
  BY <1>1 DEF FreshInOrder, Walking, Ending, Backing
<1> QED BY <1>1, <1>2, CreatedTyped, QuietlyOn

LEMMA DiscardOrder ==
  ASSUME Shape, Shape', Hiding', Orderly, Discard, denied' = {}
  PROVE  Orderly'
<1>1. /\ pc = "discard" /\ Unlink(temp) /\ pc' = "undo" /\ cursor' = Len(created')
      /\ UNCHANGED <<created, quarantine>> /\ quarantine = None
  BY DEF Discard, CameToNothing, Idle, Fails, TakeBack, Shape, UndoControls
<1>2. /\ temp \in Nodes /\ tree[temp].maker = "temporary" /\ tree[temp].dir # None /\ pc \notin Ending
      /\ created # <<>> => temp # created[1].parent_node
  BY <1>1, TemporaryApart
<1>3. PICK k \in Nat : Taken(k) BY DEF Shape, Supplied
<1>4. /\ tree'[temp].dir = None /\ \A n \in Nodes : n # temp => tree'[n] = tree[n]
      /\ \A n \in Nodes : tree'[n].maker = tree[n].maker /\ tree'[n].name = tree[n].name
  BY <1>1, <1>2, <1>3, UnlinkKeeps DEF Shape
<1>5. Ordered(created)' /\ Grounded(created)' /\ Placed(created)'
  BY <1>1, <1>2, <1>4, LevelsUntouched DEF Orderly
<1>6. Surroundings BY DEF Orderly
<1>7. Persist BY <1>4 DEF Persist
<1>8. \A n \in Nodes : ~ (tree'[n].maker = "temporary" /\ tree'[n].dir # None)
  BY <1>4, <1>6 DEF Surroundings
<1>9. /\ \A n \in Nodes : tree'[n].maker = "before" =>
           tree[n].maker = "before" /\ tree'[n].dir = tree[n].dir
      /\ \A n \in Nodes : tree'[n].maker # "other"
      /\ \A n \in Nodes : tree'[n].name = Quarantined => tree'[n].maker = "quarantine"
  BY <1>2, <1>4, <1>6 DEF Surroundings
<1>10. Surroundings' BY <1>6, <1>7, <1>8, <1>9, SurroundingsKept DEF Shape
<1> QED BY <1>1, <1>5, <1>10, FailedOrder

---------------------------------------------------------------------------
(* The way back.                                                           *)

\* The level at the cursor, where it is and where it is held.
LEMMA LevelAtCursor ==
  ASSUME Shape, Orderly, Vouched, pc \in Backing, cursor # 0
  PROVE  /\ cursor \in DOMAIN created /\ cursor \in Nat
         /\ Level.own = Level.node /\ Level.own \in Nodes /\ Level.own # None
         /\ Level.parent = Level.parent_node /\ Level.parent \in Nodes /\ Level.parent # None
         /\ tree[Level.own].maker = "level" /\ IsDirectory(Level.own)
         /\ pc \notin {"check", "unlink"} => Entry(Level.parent, LevelName) = Level.own
         /\ pc \in {"check", "unlink"} =>
              Entry(quarantine, Captured) = Level.own /\ tree[Level.own].dir = quarantine
<1>1. cursor \in DOMAIN created /\ cursor \in Nat /\ Level.level \in Levels
  BY AtCursor DEF Level
<1>2. /\ Ordered(created) /\ BackTo BY DEF Orderly, Ending
<1>3. /\ Level.own = Level.node /\ Level.own \in Nodes /\ Level.own # None
      /\ Level.parent = Level.parent_node /\ Level.parent \in Nodes /\ Level.parent # None
  BY <1>1, <1>2, AllPinned, Sizes DEF Level
<1>4. tree[Level.own].maker = "level" /\ IsDirectory(Level.own)
  BY <1>1, <1>2, <1>3 DEF Ordered, Level, IsDirectory
<1>5. ASSUME pc \notin {"check", "unlink"} PROVE Entry(Level.parent, LevelName) = Level.own
  <2>1. InPlace(Level) BY <1>1, <1>2, <1>5 DEF BackTo, Level
  <2>2. LevelName # Away BY <1>1, NamesApart DEF LevelName
  <2>3. tree[Level.own].dir = Level.parent /\ tree[Level.own].name = LevelName
    BY <1>3, <2>1 DEF InPlace, LevelName
  <2> QED BY <1>3, <2>2, <2>3, EntryIs DEF Shape
<1>6. ASSUME pc \in {"check", "unlink"}
      PROVE  Entry(quarantine, Captured) = Level.own /\ tree[Level.own].dir = quarantine
  <2>1. Caught(Level) BY <1>1, <1>2, <1>6 DEF BackTo, Level
  <2>2. quarantine # None BY <1>6 DEF Shape, UndoControls
  <2>3. tree[Level.own].dir = quarantine /\ tree[Level.own].name = Captured
    BY <1>3, <2>1 DEF Caught
  <2> QED BY <1>3, <2>2, <2>3, NamesApart, EntryIs DEF Shape
<1> QED BY <1>1, <1>3, <1>4, <1>5, <1>6

\* A look on the way back.
LEMMA QuietReturn ==
  ASSUME Shape, Orderly, pc \in Ending, pc' \in Ending, UNCHANGED <<tree, created>>,
         BackTo', QuarantineStands'
  PROVE  Orderly'
<1>1. Ordered(created)' /\ Grounded(created)'
  BY SameOrder DEF Orderly
<1>2. pc \notin {"assemble", "publish", "discard"} /\ pc' \notin Walking
  BY DEF Ending, Backing, Walking
<1>3. Surroundings' BY <1>2 DEF Orderly, Surroundings, Stands
<1>4. FreshInOrder' BY <1>2 DEF FreshInOrder, Walking
<1> QED BY <1>1, <1>3, <1>4 DEF Orderly

LEMMA SameQuarantine ==
  ASSUME QuarantineStands, UNCHANGED <<tree, created, home, quarantine>>,
         pc # "vouch", pc' # "vouch", pc' = "failed" => quarantine = None
  PROVE  QuarantineStands'
BY DEF QuarantineStands, Beside

LEMMA LookUpOrder ==
  ASSUME Shape, Orderly, Vouched, LookUp, denied' = {}
  PROVE  Orderly'
<1>1. /\ pc = "undo" /\ UNCHANGED <<tree, created, home, quarantine>> /\ pc \in Ending
      /\ pc \in Backing
  BY DEF LookUp, Undoing, Ending, Backing
<1>2. BackTo /\ QuarantineStands BY <1>1 DEF Orderly
<1>3. /\ UNCHANGED cursor
      /\ \/ cursor = 0 /\ Stop
         \/ cursor # 0 /\ pc' \in {"claim", "capture"}
  <2>1. CASE cursor = 0 /\ Stop /\ UNCHANGED cursor BY <2>1
  <2>2. ASSUME NEW found, cursor > 0,
               found = IF Level.parent = None THEN Path[Level.level]
                       ELSE Entry(Level.parent, LevelName),
               \/ found = None
               \/ pc' \in {"claim", "capture"} /\ UNCHANGED cursor
               \/ ~(found = None \/ (Level.parent # None /\ found = Level.own))
        PROVE  cursor # 0 /\ pc' \in {"claim", "capture"} /\ UNCHANGED cursor
    <3>1. cursor # 0 BY <1>1, <2>2, AtCursor
    <3>2. Entry(Level.parent, LevelName) = Level.own /\ Level.parent # None /\ Level.own # None
      BY <1>1, <3>1, LevelAtCursor
    <3> QED BY <2>2, <3>1, <3>2
  <2>3. CASE cursor > 0
    <3> DEFINE found == IF Level.parent = None THEN Path[Level.level]
                        ELSE Entry(Level.parent, LevelName)
               held == Level.parent # None /\ found = Level.own
    <3>1. \/ found = None
          \/ pc' \in {"claim", "capture"} /\ UNCHANGED cursor
          \/ CameToNothing(found = None \/ held)
      BY <1>1, <2>3 DEF LookUp
    <3>2. CameToNothing(found = None \/ held) => ~(found = None \/ held) BY DEF CameToNothing
    <3> QED BY <2>2, <2>3, <3>1, <3>2
  <2> QED BY <1>1, <2>1, <2>3 DEF LookUp
<1>4. pc' \in {"failed", "tidy", "claim", "capture"} BY <1>3 DEF Stop
<1>5. BackTo' BY <1>1, <1>2, <1>3, <1>4 DEF BackTo, InPlace, Stands
<1>6. pc' = "failed" => quarantine = None BY <1>3 DEF Stop
<1>7. QuarantineStands' BY <1>1, <1>2, <1>4, <1>6, SameQuarantine
<1>8. pc' \in Ending BY <1>4 DEF Ending, Backing
<1> QED BY <1>1, <1>5, <1>7, <1>8, QuietReturn

\* With every level held, the quarantine is made beside the outermost one.
LEMMA BesideFirst ==
  ASSUME Shape, Orderly, Vouched, Claim
  PROVE  /\ created # <<>> /\ home' = created[1].parent_node /\ home' \in Nodes
<1> DEFINE S == {i \in DOMAIN created : created[i].parent # None}
<1>1. /\ cursor \in DOMAIN created /\ DOMAIN created = 1 .. Len(created) /\ Len(created) \in Nat
  BY AtCursor, CreatedTyped DEF Claim, Backing
<1>2. Ordered(created) BY DEF Orderly
<1>3. \A i \in DOMAIN created : created[i].parent = created[i].parent_node /\ created[i].parent \in Nodes
  BY <1>2, AllPinned
<1>4. 1 \in S /\ S \in SUBSET Nat BY <1>1, <1>3, Sizes
<1>5. Min(S) \in S /\ Min(S) <= 1
  <2> HIDE DEF S
  <2> QED BY <1>4, HasMin
<1>6. Min(S) = 1 BY <1>1, <1>5
<1>7. home' = created[Min(S)].parent BY DEF Claim
<1> QED BY <1>1, <1>3, <1>4, <1>6, <1>7

LEMMA ClaimOrder ==
  ASSUME Shape, Hiding, Orderly, Vouched, Claim, ~starved', denied' = {}
  PROVE  Orderly'
<1>1. /\ pc = "claim" /\ UNCHANGED <<created, cursor, quarantine>> /\ quarantine = None
      /\ pc \in Ending
  BY DEF Claim, Undoing, Shape, UndoControls, Ending, Backing
<1>2. created # <<>> /\ home' = created[1].parent_node /\ home' \in Nodes BY BesideFirst
<1>3. /\ ~Full(created, None) /\ Vacant(home', Quarantined)
      /\ Put(NewNode, Node(home', Quarantined, "directory", "quarantine")) /\ pc' = "vouch"
  <2>1. ~Full(created, None) BY DEF Claim
  <2>2. Stands(home') BY <1>2 DEF Orderly, Grounded, Firm
  <2>3. Entry(home', Quarantined) = None
    <3> SUFFICES ASSUME Entry(home', Quarantined) # None PROVE FALSE OBVIOUS
    <3>1. Entry(home', Quarantined) \in Nodes /\ tree[Entry(home', Quarantined)].name = Quarantined
      BY EntryFound
    <3>2. tree[Entry(home', Quarantined)].maker = "quarantine"
      BY <3>1 DEF Orderly, Surroundings
    <3> QED BY <1>1, <3>1, <3>2 DEF Hiding, OneQuarantine
  <2>4. ~Full(created, None) /\ Vacant(home', Quarantined) BY <2>1, <2>2, <2>3 DEF Vacant
  <2> QED BY <2>4 DEF Claim, CameToNothing
<1>4. SUFFICES ASSUME NEW beside \in Nodes, beside = home', Vacant(beside, Quarantined),
                      Put(NewNode, Node(beside, Quarantined, "directory", "quarantine"))
               PROVE  Orderly'
  BY <1>2, <1>3
<1>5. PICK k \in Nodes :
         /\ Taken(k) /\ tree[k] = Unused
         /\ tree'[k] = Node(beside, Quarantined, "directory", "quarantine")
         /\ \A n \in Nodes : n # k => tree'[n] = tree[n]
  BY <1>1, <1>4, ClaimEffect
<1>6. /\ Ordered(created)' /\ Grounded(created)'
      /\ \A i \in DOMAIN created : tree'[created[i].node] = tree[created[i].node]
  BY <1>1, <1>5, GrowthKeeps
<1>7. Surroundings' BY <1>1, <1>5, GrowthSurroundings
<1>8. BackTo' BY <1>1, <1>3, <1>6 DEF Orderly, BackTo, InPlace, Stands
<1>9. Beside(k)'
  <2>1. tree'[k].dir = beside BY <1>5, NodeFields
  <2>2. tree'[k].name = Quarantined BY <1>5, NodeFields
  <2>3. tree'[k].kind = "directory" BY <1>5, NodeFields
  <2>4. tree'[k].maker = "quarantine" BY <1>5, NodeFields
  <2> QED BY <1>4, <2>1, <2>2, <2>3, <2>4 DEF Beside
<1>10. QuarantineStands' BY <1>1, <1>2, <1>3, <1>9 DEF QuarantineStands
<1>11. FreshInOrder' /\ pc' \in Ending BY <1>3 DEF FreshInOrder, Walking, Ending, Backing
<1> QED BY <1>6, <1>7, <1>8, <1>10, <1>11 DEF Orderly

LEMMA VouchOrder ==
  ASSUME Shape, Hiding, ~raced, Orderly, Vouch, denied' = {}
  PROVE  Orderly'
<1>1. /\ pc = "vouch" /\ UNCHANGED <<tree, created, cursor, home>> /\ pc \in Ending /\ home # None
      /\ quarantine = None
  BY DEF Vouch, Undoing, Shape, UndoControls, Ending, Backing
<1>2. PICK n \in Nodes : Beside(n) BY <1>1 DEF Orderly, QuarantineStands
<1>3. n # None /\ Entry(home, Quarantined) = n
  BY <1>1, <1>2, EntryIs, NamesApart, Sizes DEF Beside, Shape
<1>4. Removable(n)
  <2>1. \A m \in Nodes : ~Hidden(m) BY <1>1, NothingHidden
  <2>2. \A m \in Nodes : tree[m].dir # n BY <1>2, <1>3, <2>1 DEF Hidden, Beside
  <2> QED BY <1>2, <1>3, <2>2 DEF Removable, IsDirectory, Children, Beside
<1>5. quarantine' = n /\ pc' = "capture" BY <1>3, <1>4 DEF Vouch, CameToNothing
<1>6. BackTo' BY <1>1, <1>5 DEF Orderly, BackTo, InPlace, Stands
<1>7. created # <<>> /\ home = created[1].parent_node BY <1>1 DEF Orderly, QuarantineStands
<1>8. \A m \in Nodes : tree[m].maker = "quarantine" => m = n
  BY <1>2 DEF Hiding, OneQuarantine, Beside
<1>9. QuarantineStands' BY <1>1, <1>2, <1>5, <1>7, <1>8 DEF QuarantineStands, Beside
<1>10. pc' \in Ending BY <1>5 DEF Ending, Backing
<1> QED BY <1>1, <1>6, <1>9, <1>10, QuietReturn

\* No two levels are one directory, and none stands in a newer one.
LEMMA LevelsApart ==
  ASSUME Shape, Ordered(created)
  PROVE  /\ \A i, j \in DOMAIN created : i # j => created[i].node # created[j].node
         /\ \A i, j \in DOMAIN created : i <= j => created[i].parent_node # created[j].node
         /\ created # <<>> => 1 \in DOMAIN created
<1>1. DOMAIN created = 1 .. Len(created) /\ Len(created) \in Nat BY CreatedTyped
<1>2. \A i \in DOMAIN created : created[i].node \in Int /\ created[i].parent_node \in Int
  <2> TAKE i \in DOMAIN created
  <2>1. created[i].node \in Nodes /\ created[i].parent_node \in Nodes BY CreatedTyped, LevelTyped
  <2> QED BY <2>1, Sizes
<1>3. ASSUME NEW i \in DOMAIN created, NEW j \in DOMAIN created, i < j
      PROVE  created[i].node < created[j].node
  <2>1. i \in 1 .. (j - 1) BY <1>1, <1>3
  <2> QED BY <2>1 DEF Ordered
<1>4. ASSUME NEW i \in DOMAIN created, NEW j \in DOMAIN created, i # j
      PROVE  created[i].node # created[j].node
  <2>1. i < j \/ j < i BY <1>1, <1>4
  <2>2. CASE i < j BY <2>2, <1>2, <1>3
  <2>3. CASE j < i BY <2>3, <1>2, <1>3
  <2> QED BY <2>1, <2>2, <2>3
<1>5. ASSUME NEW i \in DOMAIN created, NEW j \in DOMAIN created, i <= j
      PROVE  created[i].parent_node # created[j].node
  <2>1. i < j \/ i = j BY <1>1, <1>5
  <2>2. created[i].parent_node < created[i].node BY DEF Ordered
  <2>3. created[i].node <= created[j].node BY <1>2, <1>3, <2>1
  <2> QED BY <1>2, <2>2, <2>3
<1>6. created # <<>> => 1 \in DOMAIN created
  <2> DEFINE R == LevelRecords
  <2>1. created \in Seq(R) BY CreatedTyped
  <2>2. created # <<>> => Len(created) # 0
    <3> HIDE DEF R
    <3> QED BY <2>1
  <2> QED BY <1>1, <2>2
<1> QED BY <1>4, <1>5, <1>6

\* A step that moves or removes the level at the cursor, or the quarantine.
LEMMA OneMoves ==
  ASSUME Shape, Orderly, pc \in Ending, pc' \in Ending, UNCHANGED created,
         NEW m \in Nodes, tree[m].maker \in {"level", "quarantine"},
         created # <<>> => m # created[1].parent_node,
         \A n \in Nodes : n # m => tree'[n] = tree[n],
         tree'[m].maker = tree[m].maker, tree'[m].kind = tree[m].kind,
         tree'[m].name = Quarantined => tree[m].maker = "quarantine"
  PROVE  /\ Surroundings' /\ Ordered(created)' /\ Grounded(created)' /\ FreshInOrder'
         /\ \A i \in DOMAIN created : created[i].node # m => tree'[created[i].node] = tree[created[i].node]
<1>1. \A i \in DOMAIN created : created[i].node \in Nodes /\ created[i].parent_node \in Nodes
  BY CreatedTyped, LevelTyped
<1>2. \A i \in DOMAIN created : created[i].node # m => tree'[created[i].node] = tree[created[i].node]
  BY <1>1
<1>3. \A n \in Nodes : tree'[n].maker = tree[n].maker /\ tree'[n].kind = tree[n].kind OBVIOUS
<1>4. Ordered(created) /\ Grounded(created) /\ Surroundings BY DEF Orderly
<1>5. Ordered(created)' BY <1>1, <1>3, <1>4 DEF Ordered
<1>6. Grounded(created)'
  <2> SUFFICES ASSUME created # <<>> PROVE Firm(created[1].parent_node)' BY DEF Grounded
  <2>1. 1 \in DOMAIN created BY <1>4, LevelsApart
  <2>2. Firm(created[1].parent_node) /\ created[1].parent_node \in Nodes
    BY <1>1, <1>4, <2>1 DEF Grounded
  <2>3. tree'[created[1].parent_node] = tree[created[1].parent_node] BY <2>2
  <2> QED BY <2>2, <2>3 DEF Firm, Stands, IsDirectory
<1>7. pc \notin {"assemble", "publish", "discard"} /\ pc' \notin Walking
  BY DEF Ending, Backing, Walking
<1>8. Persist BY <1>3 DEF Persist
<1>9. /\ \A n \in Nodes : tree'[n].maker = "before" =>
           tree[n].maker = "before" /\ tree'[n].dir = tree[n].dir
      /\ \A n \in Nodes : tree'[n].maker # "other"
      /\ \A n \in Nodes : ~ (tree'[n].maker = "temporary" /\ tree'[n].dir # None)
      /\ \A n \in Nodes : tree'[n].name = Quarantined => tree'[n].maker = "quarantine"
  BY <1>4, <1>7 DEF Surroundings
<1>10. Surroundings' BY <1>4, <1>8, <1>9, SurroundingsKept DEF Shape
<1>11. FreshInOrder' BY <1>7 DEF FreshInOrder, Walking
<1> QED BY <1>2, <1>5, <1>6, <1>10, <1>11

LEMMA CaptureOrder ==
  ASSUME Shape, Hiding, ~raced, Orderly, Vouched, Capture, denied' = {}
  PROVE  Orderly'
<1>1. /\ pc = "capture" /\ UNCHANGED <<created, home, quarantine>> /\ pc \in Ending
      /\ pc \in Backing /\ cursor # 0 /\ quarantine \in Nodes /\ quarantine # None
  BY DEF Capture, Undoing, Shape, UndoControls, Ending, Backing, Pin
<1>2. /\ Beside(quarantine) /\ created # <<>> /\ home = created[1].parent_node /\ BackTo
      /\ home # None
  BY <1>1 DEF Orderly, QuarantineStands, Shape, UndoControls
<1>3. /\ cursor \in DOMAIN created /\ cursor \in Nat /\ Level.own \in Nodes /\ Level.own # None
      /\ Level.own = created[cursor].node /\ tree[Level.own].maker = "level"
      /\ Entry(Level.parent, LevelName) = Level.own /\ Level.parent # None
  <2>1. pc \notin {"check", "unlink"} BY <1>1
  <2> QED BY <1>1, <2>1, LevelAtCursor DEF Level
<1>4. Vacant(quarantine, Captured)
  <2>1. \A n \in Nodes : ~Hidden(n) BY <1>1, NothingHidden
  <2>2. Entry(quarantine, Captured) = None
    <3> SUFFICES ASSUME Entry(quarantine, Captured) # None PROVE FALSE OBVIOUS
    <3>1. /\ Entry(quarantine, Captured) \in Nodes
          /\ tree[Entry(quarantine, Captured)].dir = quarantine
      BY EntryFound
    <3> QED BY <1>1, <1>2, <2>1, <3>1 DEF Hidden, Beside
  <2>3. Stands(quarantine) BY <1>2 DEF Beside, Stands
  <2> QED BY <2>2, <2>3 DEF Vacant
<1>5. SUFFICES ASSUME NEW m \in Nodes, m = Level.own, Move(m, quarantine, Captured),
                      pc' = "check", UNCHANGED cursor
               PROVE  Orderly'
  BY <1>3, <1>4 DEF Capture, CameToNothing
<1>6. tree[m].dir # None BY <1>3, <1>5, EntryFound
<1>7. PICK k \in Nat : Taken(k) BY DEF Shape, Supplied
<1>8. /\ tree'[m].dir = quarantine /\ tree'[m].name = Captured /\ tree'[m].kind = tree[m].kind
      /\ \A n \in Nodes : n # m => tree'[n] = tree[n]
      /\ tree'[m].maker = tree[m].maker
  BY <1>1, <1>4, <1>5, <1>6, <1>7, NamesTyped, MoveKeeps DEF Shape, Vacant
<1>9. Ordered(created) BY DEF Orderly
<1>10. 1 \in DOMAIN created /\ m # created[1].parent_node
  <2>1. 1 \in DOMAIN created BY <1>2, <1>9, LevelsApart
  <2>2. 1 <= cursor BY <1>1, <1>3
  <2> QED BY <1>3, <1>5, <1>9, <2>1, <2>2, LevelsApart
<1>11. pc' \in Ending BY <1>5 DEF Ending, Backing
<1>12. /\ Surroundings' /\ Ordered(created)' /\ Grounded(created)' /\ FreshInOrder'
       /\ \A i \in DOMAIN created : created[i].node # m => tree'[created[i].node] = tree[created[i].node]
  BY <1>1, <1>3, <1>5, <1>8, <1>10, <1>11, NamesApart, OneMoves
<1>13. \A i \in DOMAIN created : i # cursor => tree'[created[i].node] = tree[created[i].node]
  BY <1>3, <1>5, <1>9, <1>12, LevelsApart
<1>14. Caught(created[cursor])' BY <1>1, <1>3, <1>5, <1>8 DEF Caught
<1>15. BackTo'
  <2>1. ASSUME NEW i \in DOMAIN created
        PROVE  /\ i < cursor => InPlace(created[i])'
               /\ i = cursor => Caught(created[i])'
               /\ i > cursor => ~Stands(created[i].node)'
    <3>1. i \in Nat BY CreatedTyped
    <3>2. i < cursor => InPlace(created[i])'
      BY <1>1, <1>2, <1>3, <1>13, <3>1 DEF BackTo, InPlace
    <3>3. i > cursor => ~Stands(created[i].node)'
      BY <1>1, <1>2, <1>3, <1>13, <3>1 DEF BackTo, Stands
    <3>4. i = cursor => Caught(created[i])' BY <1>5, <1>14 DEF Caught
    <3> QED BY <3>2, <3>3, <3>4
  <2> QED BY <1>1, <1>5, <2>1 DEF BackTo
<1>16. quarantine # m /\ tree'[quarantine] = tree[quarantine]
  BY <1>1, <1>2, <1>3, <1>5, <1>8 DEF Beside
<1>17. QuarantineStands'
  <2>1. Beside(quarantine)' BY <1>1, <1>2, <1>16 DEF Beside
  <2>2. \A n \in Nodes : tree'[n].maker = "quarantine" => n = quarantine
    BY <1>1, <1>2, <1>3, <1>5, <1>8 DEF Hiding, OneQuarantine, Beside
  <2> QED BY <1>1, <1>2, <1>5, <2>1, <2>2 DEF QuarantineStands
<1> QED BY <1>11, <1>12, <1>15, <1>17 DEF Orderly

LEMMA CheckCaptureOrder ==
  ASSUME Shape, Orderly, Vouched, CheckCapture, denied' = {}
  PROVE  Orderly'
<1>1. /\ pc = "check" /\ UNCHANGED <<tree, created, cursor, home, quarantine>> /\ pc \in Ending
      /\ pc \in Backing /\ cursor # 0
  BY DEF CheckCapture, Undoing, Shape, UndoControls, Ending, Backing
<1>2. Entry(quarantine, Captured) = Level.own BY <1>1, LevelAtCursor
<1>3. pc' = "unlink" BY <1>2 DEF CheckCapture, CameToNothing
<1>4. BackTo' BY <1>1, <1>3 DEF Orderly, BackTo, InPlace, Caught, Stands
<1>5. QuarantineStands' BY <1>1, <1>3, SameQuarantine DEF Orderly
<1>6. pc' \in Ending BY <1>3 DEF Ending, Backing
<1> QED BY <1>1, <1>4, <1>5, <1>6, QuietReturn

\* A level whose turn it is holds nothing any more.
LEMMA LevelEmptied ==
  ASSUME Shape, Hiding, Orderly, Vouched, pc = "unlink"
  PROVE  Children(Level.own) = {}
<1>1. pc \in Ending /\ pc \in Backing /\ cursor # 0 BY DEF Shape, UndoControls, Ending, Backing
<1>2. /\ cursor \in DOMAIN created /\ cursor \in Nat /\ Level.own \in Nodes /\ Level.own # None
      /\ Level.own = created[cursor].node /\ tree[Level.own].maker = "level"
      /\ tree[Level.own].dir = quarantine
  BY <1>1, LevelAtCursor DEF Level
<1>3. Surroundings /\ Ordered(created) /\ BackTo /\ QuarantineStands BY <1>1 DEF Orderly
<1>4. quarantine # None /\ quarantine \in Nodes BY DEF Shape, UndoControls, Pin
<1>5. /\ Beside(quarantine) /\ created # <<>> /\ home = created[1].parent_node
  BY <1>3, <1>4 DEF QuarantineStands
<1> SUFFICES ASSUME NEW m \in Nodes, tree[m].dir = Level.own PROVE FALSE
  BY DEF Children
<1>6. tree[m].dir # None /\ tree[m].maker \in Makers /\ tree[m].maker # "nobody"
  BY <1>2, UsedNode DEF Shape
<1>7. tree[m].maker \notin {"before", "other", "temporary"}
  BY <1>2, <1>3, <1>6 DEF Surroundings
<1>8. tree[m].maker # "quarantine"
  <2> SUFFICES ASSUME tree[m].maker = "quarantine" PROVE FALSE OBVIOUS
  <2>1. m = quarantine BY <1>3, <1>6 DEF QuarantineStands
  <2>2. created[1].parent_node = created[cursor].node BY <1>2, <1>5, <2>1 DEF Beside
  <2>3. 1 \in DOMAIN created /\ 1 <= cursor BY <1>1, <1>2, <1>3, <1>5, LevelsApart
  <2> QED BY <1>2, <1>3, <2>2, <2>3, LevelsApart
<1>9. tree[m].maker = "level" BY <1>6, <1>7, <1>8 DEF Makers
<1>10. PICK i \in DOMAIN created : created[i].own = m BY <1>9 DEF Vouched, Made
<1>11. i \in Nat /\ created[i].node = m BY <1>3, <1>10, CreatedTyped, AllPinned
<1>12. CASE i < cursor
  <2>1. created[i].parent_node = created[cursor].node
    BY <1>2, <1>3, <1>11, <1>12 DEF BackTo, InPlace
  <2> QED BY <1>2, <1>3, <1>11, <1>12, <2>1, LevelsApart
<1>13. CASE i = cursor
  <2>1. Level.own = quarantine BY <1>2, <1>11, <1>13
  <2> QED BY <1>2, <1>5, <2>1 DEF Beside
<1>14. CASE i > cursor BY <1>3, <1>6, <1>11, <1>14 DEF BackTo, Stands
<1> QED BY <1>2, <1>11, <1>12, <1>13, <1>14

LEMMA UnlinkCaptureOrder ==
  ASSUME Shape, Hiding, Orderly, Vouched, UnlinkCapture, denied' = {}
  PROVE  Orderly'
<1>1. /\ pc = "unlink" /\ UNCHANGED <<created, home, quarantine>> /\ pc \in Ending
      /\ pc \in Backing /\ cursor # 0 /\ quarantine \in Nodes /\ quarantine # None
  BY DEF UnlinkCapture, Undoing, Shape, UndoControls, Ending, Backing, Pin
<1>2. /\ Beside(quarantine) /\ created # <<>> /\ home = created[1].parent_node /\ BackTo
      /\ QuarantineStands
  BY <1>1 DEF Orderly, QuarantineStands
<1>3. /\ cursor \in DOMAIN created /\ cursor \in Nat /\ Level.own \in Nodes /\ Level.own # None
      /\ Level.own = created[cursor].node /\ tree[Level.own].maker = "level"
      /\ Entry(quarantine, Captured) = Level.own /\ IsDirectory(Level.own)
      /\ tree[Level.own].dir = quarantine
  BY <1>1, LevelAtCursor DEF Level
<1>4. Removable(Level.own) BY <1>1, <1>3, LevelEmptied DEF Removable
<1>5. SUFFICES ASSUME NEW m \in Nodes, m = Level.own, Unlink(m), NextOut
               PROVE  Orderly'
  BY <1>3, <1>4 DEF UnlinkCapture, CameToNothing
<1>6. tree[m].dir # None BY <1>1, <1>3, <1>5
<1>7. PICK k \in Nat : Taken(k) BY DEF Shape, Supplied
<1>8. /\ tree'[m].dir = None /\ \A n \in Nodes : n # m => tree'[n] = tree[n]
      /\ tree'[m].maker = tree[m].maker /\ tree'[m].name = tree[m].name
  BY <1>5, <1>6, <1>7, UnlinkKeeps DEF Shape
<1>9. tree'[m].kind = tree[m].kind
  <2>1. tree \in [Nodes -> Things] BY DEF Shape, TreeSound
  <2>2. tree' = [tree EXCEPT ![m] = [tree[m] EXCEPT !.dir = None]] BY <1>5 DEF Unlink
  <2>3. tree'[m] = [tree[m] EXCEPT !.dir = None] /\ tree[m] \in Things BY <2>1, <2>2
  <2> QED BY <2>3 DEF Things
<1>10. Ordered(created) /\ Surroundings BY DEF Orderly
<1>11. 1 \in DOMAIN created /\ m # created[1].parent_node
  <2>1. 1 \in DOMAIN created BY <1>2, <1>10, LevelsApart
  <2>2. 1 <= cursor BY <1>1, <1>3
  <2> QED BY <1>3, <1>5, <1>10, <2>1, <2>2, LevelsApart
<1>12. pc' = "undo" /\ cursor' = cursor - 1 /\ pc' \in Ending BY <1>5 DEF NextOut, Ending, Backing
<1>13. tree'[m].name # Quarantined BY <1>3, <1>5, <1>8, <1>10 DEF Surroundings
<1>14. /\ Surroundings' /\ Ordered(created)' /\ Grounded(created)' /\ FreshInOrder'
       /\ \A i \in DOMAIN created : created[i].node # m => tree'[created[i].node] = tree[created[i].node]
  BY <1>1, <1>3, <1>5, <1>8, <1>9, <1>11, <1>12, <1>13, OneMoves
<1>15. \A i \in DOMAIN created : i # cursor => tree'[created[i].node] = tree[created[i].node]
  BY <1>3, <1>5, <1>10, <1>14, LevelsApart
<1>16. BackTo'
  <2>1. ASSUME NEW i \in DOMAIN created
        PROVE  /\ i <= cursor - 1 => InPlace(created[i])'
               /\ i > cursor - 1 => ~Stands(created[i].node)'
    <3>1. i \in Nat BY CreatedTyped
    <3>2. i <= cursor - 1 => InPlace(created[i])'
      BY <1>1, <1>2, <1>3, <1>15, <3>1 DEF BackTo, InPlace
    <3>3. i > cursor => ~Stands(created[i].node)'
      BY <1>1, <1>2, <1>3, <1>15, <3>1 DEF BackTo, Stands
    <3>4. i = cursor => ~Stands(created[i].node)'
      <4>1. tree[Root].maker = "before" BY DEF Shape, TreeSound
      <4>2. m # Root BY <1>3, <1>5, <4>1
      <4> QED BY <1>1, <1>3, <1>5, <1>8, <4>2 DEF Stands
    <3> QED BY <1>3, <3>1, <3>2, <3>3, <3>4
  <2>2. ASSUME NEW i \in DOMAIN created
        PROVE  /\ i < cursor' => InPlace(created[i])'
               /\ i = cursor' => InPlace(created[i])'
               /\ i > cursor' => ~Stands(created[i].node)'
    <3>1. i \in Nat BY CreatedTyped
    <3> QED BY <1>3, <1>12, <2>1, <3>1
  <2> QED BY <1>1, <1>12, <2>2 DEF BackTo
<1>17. quarantine # m /\ tree'[quarantine] = tree[quarantine]
  BY <1>1, <1>2, <1>3, <1>5, <1>8 DEF Beside
<1>18. QuarantineStands'
  <2>1. Beside(quarantine)' BY <1>1, <1>2, <1>17 DEF Beside
  <2>2. \A n \in Nodes : tree'[n].maker = "quarantine" => n = quarantine
    BY <1>1, <1>2, <1>3, <1>5, <1>8 DEF Hiding, OneQuarantine, Beside
  <2> QED BY <1>1, <1>2, <1>12, <2>1, <2>2 DEF QuarantineStands
<1> QED BY <1>12, <1>14, <1>16, <1>18 DEF Orderly

LEMMA PutBackOrder == ASSUME Orderly, PutBack PROVE FALSE
BY DEF PutBack, Orderly, BackTo, Ending, Backing

\* The quarantine is where it was made until it is removed, empty.
LEMMA TidyOrder ==
  ASSUME Shape, Orderly, Tidy, denied' = {}
  PROVE  Orderly'
<1>1. /\ pc = "tidy" /\ UNCHANGED <<tree, created, cursor, home, quarantine>> /\ pc \in Ending
      /\ quarantine \in Nodes /\ quarantine # None /\ home # None
  BY DEF Tidy, Undoing, undoing, Shape, UndoControls, Ending, Pin
<1>2. Beside(quarantine) /\ BackTo /\ QuarantineStands BY <1>1 DEF Orderly, QuarantineStands
<1>3. Entry(home, Quarantined) = quarantine
  BY <1>1, <1>2, EntryIs, NamesApart DEF Beside, Shape
<1>4. pc' = "remove" BY <1>3 DEF Tidy, CameToNothing
<1>5. BackTo' BY <1>1, <1>2, <1>4 DEF BackTo, InPlace, Stands
<1>6. QuarantineStands' BY <1>1, <1>2, <1>4, SameQuarantine
<1>7. pc' \in Ending BY <1>4 DEF Ending
<1> QED BY <1>1, <1>5, <1>6, <1>7, QuietReturn

LEMMA RemoveQuarantineOrder ==
  ASSUME Shape, Hiding, ~raced, Orderly, Vouched, RemoveQuarantine, denied' = {}
  PROVE  Orderly'
<1>1. /\ pc = "remove" /\ UNCHANGED <<created, cursor, home>> /\ pc \in Ending
      /\ quarantine \in Nodes /\ quarantine # None /\ home # None
      /\ quarantine' = None /\ pc' = "failed" /\ pc' \in Ending
  BY DEF RemoveQuarantine, Undoing, Shape, UndoControls, Ending, Pin
<1>2. /\ Beside(quarantine) /\ BackTo /\ cursor = 0 /\ Ordered(created)
      /\ created # <<>> /\ home = created[1].parent_node
  BY <1>1 DEF Orderly, QuarantineStands, BackTo
<1>3. Entry(home, Quarantined) = quarantine
  BY <1>1, <1>2, EntryIs, NamesApart DEF Beside, Shape
<1>4. Removable(quarantine)
  <2>1. 0 \notin DOMAIN created BY CreatedTyped
  <2>2. \A n \in Nodes : ~Hidden(n)
    <3>1. ~Excused BY <1>2, <2>1, DeniedGrows DEF Excused, Lost
    <3> QED BY <1>1, <3>1 DEF Hiding, HiddenFew
  <2>3. \A n \in Nodes : tree[n].dir # quarantine BY <1>1, <1>2, <2>2 DEF Hidden, Beside
  <2> QED BY <1>1, <1>2, <2>3 DEF Removable, IsDirectory, Children, Beside
<1>5. Unlink(quarantine) BY <1>1, <1>3, <1>4 DEF RemoveQuarantine, CameToNothing
<1>6. SUFFICES ASSUME NEW m \in Nodes, m = quarantine, Unlink(m) PROVE Orderly'
  BY <1>1, <1>5
<1>7. tree[m].dir # None /\ tree[m].maker = "quarantine" BY <1>1, <1>2, <1>6 DEF Beside
<1>8. PICK k \in Nat : Taken(k) BY DEF Shape, Supplied
<1>9. /\ tree'[m].dir = None /\ \A n \in Nodes : n # m => tree'[n] = tree[n]
      /\ tree'[m].maker = tree[m].maker /\ tree'[m].name = tree[m].name
  BY <1>6, <1>7, <1>8, UnlinkKeeps DEF Shape
<1>10. tree'[m].kind = tree[m].kind
  <2>1. tree \in [Nodes -> Things] BY DEF Shape, TreeSound
  <2>2. tree' = [tree EXCEPT ![m] = [tree[m] EXCEPT !.dir = None]] BY <1>6 DEF Unlink
  <2>3. tree'[m] = [tree[m] EXCEPT !.dir = None] /\ tree[m] \in Things BY <2>1, <2>2
  <2> QED BY <2>3 DEF Things
<1>11. 1 \in DOMAIN created /\ m # created[1].parent_node
  <2>1. 1 \in DOMAIN created BY <1>2, LevelsApart
  <2>2. created[1].parent = created[1].parent_node /\ created[1].parent # None
    BY <1>2, <2>1, AllPinned, Sizes
  <2> QED BY <1>7, <2>1, <2>2 DEF Hiding, Parents
<1>12. /\ Surroundings' /\ Ordered(created)' /\ Grounded(created)' /\ FreshInOrder'
       /\ \A i \in DOMAIN created : created[i].node # m => tree'[created[i].node] = tree[created[i].node]
  BY <1>1, <1>7, <1>9, <1>10, <1>11, OneMoves
<1>13. \A i \in DOMAIN created : tree'[created[i].node] = tree[created[i].node]
  BY <1>2, <1>7, <1>12 DEF Ordered
<1>14. BackTo' BY <1>1, <1>2, <1>13 DEF BackTo, InPlace, Stands
<1>15. QuarantineStands'
  <2>1. \A n \in Nodes : tree'[n].maker = "quarantine" => n = m
    BY <1>6, <1>7, <1>9 DEF Hiding, OneQuarantine
  <2> QED BY <1>1, <1>9, <2>1 DEF QuarantineStands
<1> QED BY <1>1, <1>12, <1>14, <1>15 DEF Orderly

---------------------------------------------------------------------------
(* The import leaves no trace.                                             *)

\* A rename or a removal changes nobody's maker.
LEMMA MakersStay ==
  ASSUME TreeSound, NEW n, NEW dir, NEW name, Move(n, dir, name) \/ Unlink(n)
  PROVE  Persist
<1>1. SUFFICES ASSUME NEW m \in Nodes PROVE tree'[m].maker = tree[m].maker BY DEF Persist
<1>2. tree \in [Nodes -> Things] BY DEF TreeSound
<1>3. \/ tree' = [tree EXCEPT ![n] = [tree[n] EXCEPT !.dir = dir, !.name = name]]
      \/ tree' = [tree EXCEPT ![n] = [tree[n] EXCEPT !.dir = None]]
  <2>1. [tree EXCEPT ![n].dir = dir, ![n].name = name]
          = [tree EXCEPT ![n] = [tree[n] EXCEPT !.dir = dir, !.name = name]]
    OBVIOUS
  <2> QED BY <2>1 DEF Move, Unlink
<1>4. tree[m] \in Things BY <1>2
<1>5. \/ tree'[m] = tree[m]
      \/ tree'[m] = [tree[m] EXCEPT !.dir = dir, !.name = name]
      \/ tree'[m] = [tree[m] EXCEPT !.dir = None]
  BY <1>2, <1>3
<1> QED BY <1>4, <1>5 DEF Things

\* What a take-back needs it had before each of its steps.
LEMMA CleanBefore ==
  ASSUME Shape, Import, pc \in Ending, Clean'
  PROVE  ~starved /\ ~starved' /\ denied = {} /\ denied' = {} /\ Vouched
<1>1. LookUp \/ Claim \/ Vouch \/ Capture \/ CheckCapture \/ UnlinkCapture \/ PutBack
      \/ Tidy \/ RemoveQuarantine
  BY DEF Import, Ending, Backing, Survey, OpenStart, MakeLevel, OpenExisting, Identify, SyncEntry,
     Reopen, GiveUpPin, Acquire, Climb, SyncLevel, CheckName, CreateTemporary, Assemble, Publish,
     Discard
<1>2. UNCHANGED created /\ (~starved' => ~starved) /\ pc' \in Ending
  <2>1. CASE LookUp
    <3>1. UNCHANGED <<created, starved>> BY <2>1 DEF LookUp, Undoing
    <3>2. pc' \in {"undo", "failed", "tidy", "claim", "capture"} BY <2>1 DEF LookUp, Stop, NextOut
    <3> QED BY <3>1, <3>2 DEF Ending, Backing
  <2>6. CASE Claim
    <3>1. UNCHANGED created /\ (~starved' => ~starved) BY <2>6 DEF Claim, Undoing
    <3>2. pc' \in {"failed", "tidy", "vouch"} BY <2>6 DEF Claim, Stop
    <3> QED BY <3>1, <3>2 DEF Ending, Backing
  <2>7. CASE Vouch BY <2>7 DEF Vouch, Undoing, Ending, Backing
  <2>2. CASE Capture BY <2>2 DEF Capture, Undoing, Stop, NextOut, Ending, Backing
  <2>3. CASE CheckCapture BY <2>3 DEF CheckCapture, Undoing, Ending, Backing
  <2>8. CASE UnlinkCapture
    <3>1. pc' \in {"undo", "putback"} /\ UNCHANGED <<created, starved>>
      BY <2>8 DEF UnlinkCapture, Undoing, NextOut
    <3> QED BY <3>1 DEF Ending, Backing
  <2>4. CASE PutBack BY <2>4 DEF PutBack, Undoing, Stop, NextOut, Ending, Backing
  <2>5. CASE Tidy \/ RemoveQuarantine BY <2>5 DEF Tidy, RemoveQuarantine, Undoing, Ending
  <2> QED BY <1>1, <2>1, <2>2, <2>3, <2>4, <2>5, <2>6, <2>7, <2>8
<1>3. ~starved' /\ denied' = {} /\ Vouched' BY <1>2 DEF Clean
<1>4. Persist
  <2>1. CASE UNCHANGED tree BY <2>1 DEF Persist
  <2>2. CASE \E n, dir, name : Move(n, dir, name) \/ Unlink(n) BY <2>2, MakersStay DEF Shape
  <2>3. CASE LookUp \/ Vouch \/ CheckCapture \/ Tidy
    BY <2>1, <2>3 DEF LookUp, Vouch, CheckCapture, Tidy
  <2>4. CASE Claim
    <3>1. pc = "claim" /\ home' \in Nodes BY <2>4, BesideOutermost DEF Claim
    <3>2. CASE Vacant(home', Quarantined)
               /\ Put(NewNode, Node(home', Quarantined, "directory", "quarantine"))
      <4>1. SUFFICES ASSUME NEW beside \in Nodes, beside = home', Vacant(beside, Quarantined),
                            Put(NewNode, Node(beside, Quarantined, "directory", "quarantine"))
                     PROVE  Persist
        BY <3>1, <3>2
      <4>2. PICK k \in Nodes : /\ tree[k] = Unused
                               /\ \A n \in Nodes : n # k => tree'[n] = tree[n]
        BY <3>1, <4>1, ClaimEffect
      <4> QED BY <4>2, UnusedFields DEF Persist
    <3> QED BY <2>1, <2>4, <3>2 DEF Claim
  <2>5. CASE Capture \/ PutBack BY <2>1, <2>2, <2>5 DEF Capture, PutBack
  <2>6. CASE UnlinkCapture \/ RemoveQuarantine
    BY <2>1, <2>2, <2>6 DEF UnlinkCapture, RemoveQuarantine
  <2> QED BY <1>1, <2>3, <2>4, <2>5, <2>6
<1>5. Vouched
  <2> SUFFICES ASSUME NEW n \in Nodes, tree[n].maker = "level"
               PROVE  \E i \in DOMAIN created : created[i].own = n /\ created[i].parent # None
    BY DEF Vouched, Made
  <2>1. tree'[n].maker = "level" BY <1>4 DEF Persist
  <2> QED BY <1>2, <1>3, <2>1 DEF Vouched, Made
<1>6. denied = {} BY <1>1, <1>3, DeniedGrows
<1> QED BY <1>2, <1>3, <1>5, <1>6

\* At first what stands is what stood before.
LEMMA OrderInit == Init => OrderInv
<1> SUFFICES ASSUME Init PROVE ~raced /\ Orderly BY DEF OrderInv
<1>1. /\ pc = "survey" /\ created = <<>> /\ DOMAIN created = {} /\ ~raced
      /\ pc \notin Ending
  BY DEF Init, Ending, Backing
<1>2. PICK there \in 0 .. Depth, occupant \in {"nothing", "former", "rom", "directory"} :
        tree = [n \in Nodes |->
             CASE n = Root -> Node(None, "nameless", "directory", "before")
               [] n \in 1 .. there -> Node(n - 1, LevelNames[n], "directory", "before")
               [] n = there + 1 /\ occupant # "nothing" -> Node(there, "pack", occupant, "before")
               [] OTHER -> Unused]
  BY DEF Init
<1>3. ASSUME NEW n \in Nodes
      PROVE  \/ n = Root /\ tree[n] = Node(None, "nameless", "directory", "before")
             \/ n \in 1 .. there /\ tree[n] = Node(n - 1, LevelNames[n], "directory", "before")
             \/ tree[n] = Node(there, "pack", occupant, "before")
             \/ n # Root /\ n \notin 1 .. there /\ tree[n] = Unused
  <2>1. tree[n] = CASE n = Root -> Node(None, "nameless", "directory", "before")
               [] n \in 1 .. there -> Node(n - 1, LevelNames[n], "directory", "before")
               [] n = there + 1 /\ occupant # "nothing" -> Node(there, "pack", occupant, "before")
               [] OTHER -> Unused
    BY <1>2
  <2> QED BY <2>1, Zenon
<1>4. there \in Nat /\ \A k \in 0 .. there : k \in Nodes /\ tree[k].maker = "before" /\ k # None
  <2>1. there \in Nat /\ \A k \in 0 .. there : k \in Nodes /\ (k # Root => k \in 1 .. there)
    BY Sizes DEF Root
  <2>2. ASSUME NEW k \in 0 .. there PROVE tree[k].maker = "before"
    <3>1. \/ tree[k] = Node(None, "nameless", "directory", "before")
          \/ tree[k] = Node(k - 1, LevelNames[k], "directory", "before")
          \/ tree[k] = Node(there, "pack", occupant, "before")
      BY <1>3, <2>1
    <3> QED BY <3>1, NodeFields
  <2> QED BY <2>1, <2>2, Sizes
<1>5. ASSUME NEW n \in Nodes
      PROVE  /\ tree[n].maker \notin {"other", "temporary"} /\ tree[n].name # Quarantined
             /\ tree[n].maker = "before" =>
                  Stands(n) /\ (tree[n].dir # None => tree[tree[n].dir].maker = "before")
  <2>1. CASE n = Root /\ tree[n] = Node(None, "nameless", "directory", "before")
    <3>1. tree[n].dir = None BY <2>1, NodeFields
    <3>2. tree[n].name = "nameless" BY <2>1, NodeFields
    <3>3. tree[n].maker = "before" BY <2>1, NodeFields
    <3> QED BY <2>1, <3>1, <3>2, <3>3, NamesApart DEF Stands
  <2>2. CASE n \in 1 .. there /\ tree[n] = Node(n - 1, LevelNames[n], "directory", "before")
    <3>1. tree[n].dir = n - 1 BY <2>2, NodeFields
    <3>2. tree[n].name = LevelNames[n] BY <2>2, NodeFields
    <3>3. tree[n].maker = "before" BY <2>2, NodeFields
    <3>4. n \in Levels /\ n - 1 \in 0 .. there BY <2>2, <1>4, Sizes
    <3> QED BY <1>4, <3>1, <3>2, <3>3, <3>4, NamesApart DEF Stands
  <2>3. CASE tree[n] = Node(there, "pack", occupant, "before")
    <3>1. tree[n].dir = there BY <2>3, NodeFields
    <3>2. tree[n].name = "pack" BY <2>3, NodeFields
    <3>3. tree[n].maker = "before" BY <2>3, NodeFields
    <3>4. there \in 0 .. there BY <1>4
    <3> QED BY <1>4, <3>1, <3>2, <3>3, <3>4, NamesApart DEF Stands
  <2>4. CASE tree[n] = Unused BY <2>4, UnusedFields, NamesApart
  <2> QED BY <1>3, <2>1, <2>2, <2>3, <2>4
<1>6. Surroundings BY <1>5 DEF Surroundings
<1>7. Ordered(created) /\ Grounded(created) /\ Placed(created)
  BY <1>1 DEF Ordered, Grounded, Placed
<1>8. FreshInOrder BY <1>1 DEF FreshInOrder, Walking
<1> QED BY <1>1, <1>6, <1>7, <1>8 DEF Orderly

LEMMA ImportOrder ==
  ASSUME Shape, Shape', Owned, Hiding, Hiding', ~raced, Orderly, pc \in Ending => Vouched,
         Import, Clean', pc \in Ending => ~starved' /\ denied' = {}
  PROVE  Orderly'
<1>1. \/ Survey \/ OpenStart \/ MakeLevel \/ OpenExisting \/ Identify \/ SyncEntry \/ Reopen
      \/ GiveUpPin \/ Acquire \/ Climb \/ SyncLevel
      \/ CheckName \/ CreateTemporary \/ Assemble \/ Publish \/ Discard
      \/ LookUp \/ Claim \/ Vouch \/ Capture \/ CheckCapture \/ UnlinkCapture \/ PutBack
      \/ Tidy \/ RemoveQuarantine
  BY DEF Import
<1>2. CASE \/ Survey \/ OpenStart \/ MakeLevel \/ OpenExisting \/ Identify \/ SyncEntry \/ Reopen
           \/ GiveUpPin
  BY <1>2, SurveyOrder, OpenStartOrder, MakeLevelOrder, OpenExistingOrder, IdentifyOrder,
     LookOrder, ReopenOrder
<1>3. CASE \/ Acquire \/ Climb \/ SyncLevel \/ CheckName \/ CreateTemporary \/ Assemble
           \/ Publish \/ Discard
  <2>1. pc' # "done" BY DEF Clean
  <2>2. CASE Discard
    <3>1. pc' \in Ending BY <2>2 DEF Discard, Fails, TakeBack, Ending, Backing
    <3> QED BY <2>2, <3>1, DiscardOrder DEF Clean
  <2> QED BY <1>3, <2>1, <2>2, OnwardOrder, CheckNameOrder, CreateTemporaryOrder, AssembleOrder,
          PublishOrder
<1>4. CASE \/ LookUp \/ Claim \/ Vouch \/ Capture \/ CheckCapture \/ UnlinkCapture \/ PutBack
           \/ Tidy \/ RemoveQuarantine
  <2>1. pc \in Ending
    BY <1>4 DEF LookUp, Claim, Vouch, Capture, CheckCapture, UnlinkCapture, PutBack, Tidy,
       RemoveQuarantine, Ending, Backing
  <2>2. Vouched /\ ~starved' /\ denied' = {} BY <2>1
  <2> QED BY <1>4, <2>2, LookUpOrder, ClaimOrder, VouchOrder, CaptureOrder, CheckCaptureOrder,
          UnlinkCaptureOrder, PutBackOrder, TidyOrder, RemoveQuarantineOrder
<1> QED BY <1>1, <1>2, <1>3, <1>4

LEMMA OrderStep == ImportIInv /\ ImportIInv' /\ OrderInv /\ [Next]_vars => OrderInv'
<1> SUFFICES ASSUME ImportIInv, ImportIInv', OrderInv, [Next]_vars, upsets' = 0
             PROVE  ~raced' /\ (Clean' => Orderly')
  BY DEF OrderInv
<1>1. CASE Import
  <2>1. UNCHANGED <<upsets, raced>> BY <1>1 DEF Import
  <2>2. ~raced /\ (Clean => Orderly) BY <2>1 DEF OrderInv
  <2>3. ASSUME Clean' PROVE Orderly'
    <3>1. pc \in Ending => ~starved /\ ~starved' /\ denied = {} /\ denied' = {} /\ Vouched
      BY <1>1, <2>3, CleanBefore DEF ImportIInv
    <3>2. pc # "done"
      BY <1>1 DEF Import, Survey, OpenStart, MakeLevel, OpenExisting, Identify, SyncEntry,
         Reopen, GiveUpPin, Acquire, Climb, SyncLevel, CheckName, CreateTemporary, Assemble,
         Publish, Discard, LookUp, Claim, Vouch, Capture, CheckCapture, UnlinkCapture, PutBack,
         Tidy, RemoveQuarantine
    <3>3. Orderly BY <2>2, <3>1, <3>2 DEF Clean
    <3> QED BY <1>1, <2>2, <2>3, <3>1, <3>3, ImportOrder DEF ImportIInv
  <2> QED BY <2>1, <2>2, <2>3
<1>2. CASE Other
  <2>1. \E dir : Upset(dir) BY <1>2 DEF Other, TakeName, CarryOff, Swap, RemoveEmpty
  <2>2. upsets' = upsets + 1 /\ upsets \in Nat BY <2>1, UpsetRoom DEF ImportIInv
  <2> QED BY <2>2
<1>3. CASE UNCHANGED vars
  <2>1. /\ UNCHANGED <<tree, pc, depth, walk, fresh, created, temp, cursor, home, quarantine>>
        /\ UNCHANGED <<starved, denied, upsets, raced>>
    BY <1>3 DEF vars, progress, undoing
  <2>2. ~raced' /\ (Clean => Orderly) BY <2>1 DEF OrderInv
  <2>3. Clean' => Clean BY <2>1 DEF Clean, Vouched, Made
  <2>4. Surroundings => Surroundings' BY <2>1 DEF Surroundings, Stands
  <2>5. Ordered(created) => Ordered(created)' BY <2>1, SameOrder
  <2>6. Grounded(created) => Grounded(created)' BY <2>1, SameOrder
  <2>7. Placed(created) => Placed(created)' BY <2>1, SameOrder
  <2>8. FreshInOrder => FreshInOrder'
    BY <2>1 DEF FreshInOrder, Firm, Newest, AtLevel, Stands, IsDirectory
  <2>9. BackTo => BackTo' BY <2>1 DEF BackTo, InPlace, Caught, Stands
  <2>10. QuarantineStands => QuarantineStands' BY <2>1 DEF QuarantineStands, Beside
  <2> QED BY <2>1, <2>2, <2>3, <2>4, <2>5, <2>6, <2>7, <2>8, <2>9, <2>10 DEF Orderly
<1> QED BY <1>1, <1>2, <1>3 DEF Next

\* A failed import leaves no trace: for a path of any depth and any budget of
\* descriptors, whichever step failed, the directories, the temporary pack and
\* the quarantine are gone and what stood before stands, provided no level lost
\* its pin, no descriptor was wanting, nobody else acted and the system refused
\* no call of the take-back
\* (import_rom/created_dirs.rs, `undo_created_directories`).
THEOREM NoTraceIsLeft == Spec => []NoTraceLeft
<1>1. ImportIInv /\ OrderInv => NoTraceLeft
  <2> SUFFICES ASSUME ImportIInv, OrderInv, pc = "failed", upsets = 0, ~starved, denied = {}, Vouched,
                      NEW n \in Nodes
               PROVE  /\ n \in Made => ~Stands(n)
                      /\ tree[n].maker = "before" => Stands(n)
    BY DEF NoTraceLeft
  <2>1. /\ Surroundings /\ Ordered(created) /\ BackTo /\ QuarantineStands
        /\ cursor = 0 /\ quarantine = None
    BY DEF OrderInv, Clean, Orderly, Ending, BackTo, QuarantineStands
  <2>2. tree[n].maker = "before" => Stands(n) BY <2>1 DEF Surroundings
  <2>3. ASSUME n \in Made PROVE ~Stands(n)
    <3>1. n # Root BY <2>3 DEF Made, ImportIInv, Shape, TreeSound
    <3>2. CASE tree[n].maker = "level"
      <4>1. PICK i \in DOMAIN created : created[i].own = n BY <3>2, <2>3 DEF Vouched
      <4>2. created[i].node = n /\ i > 0
        BY <2>1, <4>1, AllPinned, CreatedTyped DEF ImportIInv
      <4> QED BY <2>1, <4>2 DEF BackTo
    <3>3. CASE tree[n].maker = "temporary" BY <2>1, <3>1, <3>3 DEF Surroundings, Stands
    <3>4. CASE tree[n].maker = "quarantine"
      <4>1. n # None BY Sizes
      <4> QED BY <2>1, <3>1, <3>4, <4>1 DEF QuarantineStands, Stands
    <3> QED BY <2>3, <3>2, <3>3, <3>4 DEF Made
  <2> QED BY <2>2, <2>3
<1>2. Init => OrderInv BY OrderInit
<1>3. Spec => []OrderInv BY <1>2, OrderStep, ImportIInvAlways, PTL DEF Spec
<1> QED BY <1>1, <1>3, ImportIInvAlways, PTL

---------------------------------------------------------------------------
(* What a finished import leaves behind while nobody disturbs it.          *)

Inward == {"survey", "start"} \union Walking \union {"acquire"}
Onward == {"climb", "levels", "temporary", "assemble", "publish", "done"}

\* The walk follows the path, and every level past the first it makes is new.
OnPath ==
  /\ pc \in {"survey", "start"} => created = <<>> /\ walk = None
  /\ pc = "acquire" /\ walk = None => created = <<>>
  /\ pc \in Walking \/ (pc = "acquire" /\ walk # None) => walk = Path[depth - 1] /\ IsDirectory(walk)
  /\ pc \in {"acquire"} \union Onward => depth = Depth + 1
  /\ pc = "start" => ~IsDirectory(Path[depth])
  /\ pc = "make" => ~IsDirectory(Entry(walk, AtLevel))
  /\ pc \in {"identify", "entry", "reopen"} => Children(Entry(walk, AtLevel)) = {}
  /\ pc # "existing"
  /\ pc \in Inward => dest = None
  /\ pc \in Inward \union {"climb", "levels", "temporary"} => temp = None
  /\ pc \in {"climb", "temporary", "assemble", "publish", "done"} => dest # None
  /\ dest # None => dest = Path[Depth] /\ IsDirectory(dest)
OnLevels(levels, next) == \A i \in DOMAIN levels :
  /\ levels[i].level = (next - 1) - (Len(levels) - i)
  /\ levels[i].parent_node = Path[levels[i].level - 1] /\ levels[i].node = Path[levels[i].level]

\* The levels that are still pinned are the innermost, each by both its pins.
BothPins(level) == level.own = level.node /\ level.parent = level.parent_node
Windowed(levels) == \A i \in DOMAIN levels :
  HasPin(levels[i]) => \A j \in i .. Len(levels) : BothPins(levels[j])
\* A climb frees a descriptor at most twice: in the destination and next to it.
Innermost(levels, at) ==
  \/ at = Depth /\ Windowed(levels) /\ Held(levels, None) <= host.slots
  \/ /\ at \in {Depth - 1, Depth} /\ Held(levels, None) < host.slots
     /\ \A i \in 1 .. (Len(levels) - 1) : HasPin(levels[i]) => levels[i].own # None
  \/ Held(levels, None) + 1 < host.slots
Climbing(levels, at) ==
  /\ \A i \in DOMAIN levels : Shedded(levels[i]) => levels[i].level - 1 <= at
  /\ Innermost(levels, at)
SyncedTo(levels, next) ==
  /\ \A i \in DOMAIN levels : (i < next => levels[i].synced) /\ ~Shedded(levels[i])
  /\ Held(levels, None) <= host.slots
  /\ levels # <<>> => levels[Len(levels)].own # None \/ Held(levels, None) < host.slots

Onwards ==
  /\ pc \in Inward => OnPath /\ OnLevels(created, depth) /\ Windowed(created)
  /\ pc \in Onward => OnPath
  /\ pc \in Onward \ {"done"} /\ dest # None => OnLevels(created, depth)
  /\ pc = "climb" => \E at \in 0 .. Depth : fresh.node = Path[at] /\ Climbing(created, at)
  /\ pc = "levels" /\ dest # None => SyncedTo(created, cursor)
  /\ pc \in {"temporary", "assemble", "publish", "done"} => \A i \in DOMAIN created : created[i].synced
  /\ pc = "publish" => tree[temp].kind = "pack"
  /\ pc = "done" => tree[Entry(Path[Depth], "pack")].kind = "pack"
DurableInv == upsets = 0 /\ host.slots >= ClimbSlots => Onwards

\* Each level lies in the one recorded before it, and no two are alike.
Chained(levels) == \A i, j \in DOMAIN levels :
  /\ levels[i].node = levels[j].parent_node <=> j = i + 1
  /\ levels[i].node = levels[j].node => i = j
  /\ levels[i].parent_node = levels[j].parent_node => i = j

---------------------------------------------------------------------------
(* Descriptors, counted as the nodes that are pinned.                      *)

\* The nodes pinned are finitely many, and so are the descriptors held.
LEMMA PinsTyped ==
  ASSUME NEW levels \in Seq(LevelRecords), NEW standing \in Pin
  PROVE  /\ Pins(levels, standing) \in SUBSET Nodes /\ IsFiniteSet(Pins(levels, standing))
         /\ Cardinality(Pins(levels, standing)) \in Nat
<1>1. \A i \in DOMAIN levels : levels[i].own \in Pin /\ levels[i].parent \in Pin
  <2>1. DOMAIN levels = 1 .. Len(levels) OBVIOUS
  <2> QED BY <2>1, LevelTyped
<1>2. Pins(levels, standing) \in SUBSET Nodes BY <1>1 DEF Pins, Pin
<1>3. IsFiniteSet(Nodes) BY Sizes, FS_Interval DEF Nodes
<1>4. IsFiniteSet(Pins(levels, standing)) BY <1>2, <1>3, FS_Subset
<1> QED BY <1>2, <1>4, FS_CardinalityType

\* Before the temporary pack is made only the destination counts beside them.
LEMMA HeldIs ==
  ASSUME temp = None, quarantine = None, NEW levels, NEW standing
  PROVE  Held(levels, standing)
           = Cardinality(Pins(levels, standing)) + (IF dest = None THEN 0 ELSE 1)
<1>1. CASE dest = None
  <2>1. {dest, temp, quarantine} \ {None} = {} BY <1>1
  <2>2. Cardinality({dest, temp, quarantine} \ {None}) = 0 BY <2>1, FS_EmptySet
  <2> QED BY <1>1, <2>2 DEF Held
<1>2. CASE dest # None
  <2>1. {dest, temp, quarantine} \ {None} = {dest} BY <1>2
  <2>2. Cardinality({dest, temp, quarantine} \ {None}) = 1 BY <2>1, FS_Singleton
  <2> QED BY <1>2, <2>2 DEF Held
<1> QED BY <1>1, <1>2

\* Pins given up are descriptors given up once nothing else holds the node.
LEMMA HeldFewer ==
  ASSUME temp = None, quarantine = None,
         NEW old \in Seq(LevelRecords), NEW new \in Seq(LevelRecords), NEW standing \in Pin,
         Pins(new, standing) \subseteq Pins(old, standing)
  PROVE  /\ Held(old, standing) \in Nat /\ Held(new, standing) \in Nat
         /\ Held(new, standing) <= Held(old, standing)
         /\ Pins(new, standing) # Pins(old, standing) => Held(new, standing) < Held(old, standing)
<1>1. /\ IsFiniteSet(Pins(old, standing)) /\ Cardinality(Pins(old, standing)) \in Nat
      /\ IsFiniteSet(Pins(new, standing)) /\ Cardinality(Pins(new, standing)) \in Nat
  BY PinsTyped
<1>2. /\ Cardinality(Pins(new, standing)) <= Cardinality(Pins(old, standing))
      /\ Cardinality(Pins(old, standing)) = Cardinality(Pins(new, standing)) =>
           Pins(old, standing) = Pins(new, standing)
  BY <1>1, FS_Subset
<1>3. /\ Held(old, standing)
           = Cardinality(Pins(old, standing)) + (IF dest = None THEN 0 ELSE 1)
      /\ Held(new, standing)
           = Cardinality(Pins(new, standing)) + (IF dest = None THEN 0 ELSE 1)
  BY HeldIs
<1> QED BY <1>1, <1>2, <1>3

\* Levels that let go hold no more.
LEMMA LetGoPins ==
  ASSUME NEW old \in Seq(LevelRecords), NEW new, LetGo(new, old), NEW standing
  PROVE  /\ Pins(new, standing) \subseteq Pins(old, standing)
         /\ \A i \in 1 .. Len(old) :
              HasPin(new[i]) => HasPin(old[i])
<1>1. /\ DOMAIN old = 1 .. Len(old) /\ DOMAIN new = 1 .. Len(old)
      /\ \A i \in 1 .. Len(old) :
           new[i].own \in {None, old[i].own} /\ new[i].parent \in {None, old[i].parent}
  BY DEF LetGo
<1> QED BY <1>1 DEF Pins, HasPin

LEMMA PinsAre ==
  ASSUME NEW levels \in Seq(LevelRecords), NEW x, x # None
  PROVE  x \in Pins(levels, None) <=>
           \E i \in 1 .. Len(levels) : levels[i].own = x \/ levels[i].parent = x
<1>1. DOMAIN levels = 1 .. Len(levels) OBVIOUS
<1> QED BY <1>1 DEF Pins

\* A level's own pin that is closed, field by field.
LEMMA OwnClosed ==
  ASSUME NEW levels \in Seq(LevelRecords), NEW m, NEW j \in 1 .. Len(levels)
  PROVE  LET new == [levels EXCEPT ![m].own = None]
         IN /\ new[j].own = (IF j = m THEN None ELSE levels[j].own)
            /\ new[j].parent = levels[j].parent /\ new[j].synced = levels[j].synced
<1> DEFINE new == [levels EXCEPT ![m].own = None]
<1>1. levels[j] \in LevelRecords BY LevelTyped
<1>2. new[j] = IF j = m THEN [levels[j] EXCEPT !.own = None] ELSE levels[j] OBVIOUS
<1> HIDE DEF new
<1>3. /\ new[j].own = (IF j = m THEN None ELSE levels[j].own)
      /\ new[j].parent = levels[j].parent /\ new[j].synced = levels[j].synced
  BY <1>1, <1>2 DEF LevelRecords
<1> QED BY <1>3 DEF new

LEMMA PinsClosed ==
  ASSUME NEW levels \in Seq(LevelRecords), NEW m, NEW c, NEW j \in 1 .. Len(levels)
  PROVE  LET new == [levels EXCEPT ![m].own = None, ![m].parent = None, ![m].synced = c]
         IN /\ new[j].own = (IF j = m THEN None ELSE levels[j].own)
            /\ new[j].parent = (IF j = m THEN None ELSE levels[j].parent)
            /\ new[j].synced = (IF j = m THEN c ELSE levels[j].synced)
<1> DEFINE new == [levels EXCEPT ![m].own = None, ![m].parent = None, ![m].synced = c]
<1>1. levels[j] \in LevelRecords BY LevelTyped
<1>2. new[j] = IF j = m THEN [levels[j] EXCEPT !.own = None, !.parent = None, !.synced = c]
               ELSE levels[j]
  <2> DEFINE r == [levels[m] EXCEPT !.own = None, !.parent = None, !.synced = c]
  <2>1. new = [levels EXCEPT ![m] = r] OBVIOUS
  <2>2. j = m => r = [levels[j] EXCEPT !.own = None, !.parent = None, !.synced = c] OBVIOUS
  <2> HIDE DEF new, r
  <2>3. new[j] = IF j = m THEN r ELSE levels[j] BY <2>1, LevelsUpdated
  <2> QED BY <2>2, <2>3
<1> HIDE DEF new
<1>3. /\ new[j].own = (IF j = m THEN None ELSE levels[j].own)
      /\ new[j].parent = (IF j = m THEN None ELSE levels[j].parent)
      /\ new[j].synced = (IF j = m THEN c ELSE levels[j].synced)
  BY <1>1, <1>2 DEF LevelRecords
<1> QED BY <1>3 DEF new

LEMMA TwoClosed ==
  ASSUME NEW levels \in Seq(LevelRecords), NEW m, NEW j \in 1 .. Len(levels)
  PROVE  LET new == [levels EXCEPT ![m].own = None, ![m].parent = None]
         IN /\ new[j].own = (IF j = m THEN None ELSE levels[j].own)
            /\ new[j].parent = (IF j = m THEN None ELSE levels[j].parent)
            /\ new[j].synced = levels[j].synced
<1> DEFINE new == [levels EXCEPT ![m].own = None, ![m].parent = None]
<1>1. levels[j] \in LevelRecords BY LevelTyped
<1>2. new[j] = IF j = m THEN [levels[j] EXCEPT !.own = None, !.parent = None] ELSE levels[j]
  <2> DEFINE r == [levels[m] EXCEPT !.own = None, !.parent = None]
  <2>1. new = [levels EXCEPT ![m] = r] BY TwoFields
  <2>2. j = m => r = [levels[j] EXCEPT !.own = None, !.parent = None] OBVIOUS
  <2> HIDE DEF new, r
  <2>3. new[j] = IF j = m THEN r ELSE levels[j] BY <2>1, LevelsUpdated
  <2> QED BY <2>2, <2>3
<1> HIDE DEF new
<1>3. /\ new[j].own = (IF j = m THEN None ELSE levels[j].own)
      /\ new[j].parent = (IF j = m THEN None ELSE levels[j].parent)
      /\ new[j].synced = levels[j].synced
  BY <1>1, <1>2 DEF LevelRecords
<1> QED BY <1>3 DEF new

LEMMA OneSynced ==
  ASSUME NEW levels \in Seq(LevelRecords), NEW m, NEW j \in 1 .. Len(levels)
  PROVE  LET new == [levels EXCEPT ![m].synced = TRUE]
         IN /\ new[j].own = levels[j].own /\ new[j].parent = levels[j].parent
            /\ new[j].synced = (j = m \/ levels[j].synced)
<1> DEFINE new == [levels EXCEPT ![m].synced = TRUE]
<1>1. levels[j] \in LevelRecords BY LevelTyped
<1>2. new[j] = IF j = m THEN [levels[j] EXCEPT !.synced = TRUE] ELSE levels[j]
  <2> DEFINE r == [levels[m] EXCEPT !.synced = TRUE]
  <2>1. new = [levels EXCEPT ![m] = r] BY SyncedField
  <2>2. j = m => r = [levels[j] EXCEPT !.synced = TRUE] OBVIOUS
  <2> HIDE DEF new, r
  <2>3. new[j] = IF j = m THEN r ELSE levels[j] BY <2>1, LevelsUpdated
  <2> QED BY <2>2, <2>3
<1> HIDE DEF new
<1>3. /\ new[j].own = levels[j].own /\ new[j].parent = levels[j].parent
      /\ new[j].synced = (j = m \/ levels[j].synced)
  BY <1>1, <1>2 DEF LevelRecords
<1> QED BY <1>3 DEF new

\* A sync of what lies in one directory, level by level.
LEMMA SyncedInIs ==
  ASSUME NEW levels \in Seq(LevelRecords), NEW here, NEW j \in 1 .. Len(levels)
  PROVE  LET new == SyncedIn(levels, here)
         IN /\ new[j].own = levels[j].own /\ new[j].parent = levels[j].parent
            /\ new[j].synced = (levels[j].synced \/ levels[j].parent_node = here)
<1> DEFINE new == SyncedIn(levels, here)
<1>1. DOMAIN levels = 1 .. Len(levels) /\ levels[j] \in LevelRecords BY LevelTyped
<1>2. new[j] = [levels[j] EXCEPT !.synced = levels[j].synced \/ levels[j].parent_node = here]
  BY <1>1 DEF SyncedIn
<1> HIDE DEF new
<1>3. /\ new[j].own = levels[j].own /\ new[j].parent = levels[j].parent
      /\ new[j].synced = (levels[j].synced \/ levels[j].parent_node = here)
  BY <1>1, <1>2 DEF LevelRecords
<1> QED BY <1>3 DEF new

---------------------------------------------------------------------------
(* What closing a pin frees.                                               *)

\* A release closes a parent's pin that is nobody's own, or else an own pin
\* that is nobody's parent, the innermost; it forgets no sync that is wanting.
LEMMA ReleaseIs ==
  ASSUME NEW levels \in Seq(LevelRecords), NEW n, n = Len(levels),
         NEW new, new = Release(levels)
  PROVE  /\ LetGo(new, levels)
         /\ \A j \in 1 .. n : /\ new[j].synced = levels[j].synced
                              /\ ~levels[j].synced => new[j].parent = levels[j].parent
         /\ \/ \E m \in 1 .. n :
                 /\ levels[m].parent # None /\ \A j \in 1 .. n : levels[j].own # levels[m].parent
                 /\ new[m].parent = None /\ \A j \in 1 .. n : new[j].own = levels[j].own
            \/ /\ \A j \in 1 .. n : levels[j].synced => new[j].parent = None
               /\ \A i \in 1 .. n :
                    levels[i].synced /\ levels[i].parent # None =>
                      \E j \in 1 .. n : levels[j].own = levels[i].parent
               /\ \/ \E m \in 1 .. n :
                       /\ levels[m].own # None /\ \A j \in 1 .. n : new[j].parent # levels[m].own
                       /\ new[m].own = None
                       /\ \A j \in 1 .. n : j # m => new[j].own = levels[j].own
                       /\ \A i \in 1 .. n : i > m /\ levels[i].own # None =>
                            \E j \in 1 .. n : new[j].parent = levels[i].own
                  \/ \A i \in 1 .. n :
                       /\ new[i].own = levels[i].own
                       /\ levels[i].own # None => \E j \in 1 .. n : new[j].parent = levels[i].own
<1> DEFINE closing == {i \in DOMAIN levels :
                         /\ levels[i].synced /\ levels[i].parent # None
                         /\ \A j \in DOMAIN levels : levels[j].own # levels[i].parent}
<1> DEFINE drops(i) == levels[i].synced /\ (closing = {} \/ i >= Max(closing))
<1> DEFINE dropped == [i \in DOMAIN levels |->
                         IF levels[i].synced /\ (closing = {} \/ i >= Max(closing))
                           THEN [levels[i] EXCEPT !.parent = None] ELSE levels[i]]
<1> DEFINE spare == Unshared(dropped, None)
<1>1. new = IF closing = {} /\ spare # {}
              THEN [dropped EXCEPT ![Max(spare)].own = None] ELSE dropped
  BY DEF Release
<1>2. dropped = [i \in DOMAIN levels |->
                   IF drops(i) THEN [levels[i] EXCEPT !.parent = None] ELSE levels[i]]
  OBVIOUS
<1>3. LetGo(new, levels) BY ReleaseLetsGo
<1>4. DOMAIN levels = 1 .. n /\ n \in Nat OBVIOUS
<1>5. /\ closing \in SUBSET (0 .. n)
      /\ closing # {} => Max(closing) \in closing
  <2>1. closing \in SUBSET (0 .. n) BY <1>4
  <2> HIDE DEF closing
  <2> QED BY <1>4, <2>1, HasMax
<1>6. \A i \in closing : /\ i \in 1 .. n /\ levels[i].synced /\ levels[i].parent # None
                         /\ \A j \in 1 .. n : levels[j].own # levels[i].parent
  BY <1>4
<1>7. \A i \in 1 .. n : levels[i].synced /\ levels[i].parent # None /\ i \notin closing =>
        \E j \in 1 .. n : levels[j].own = levels[i].parent
  BY <1>4
<1>8. ASSUME NEW j \in 1 .. n
      PROVE  /\ dropped[j].own = levels[j].own /\ dropped[j].synced = levels[j].synced
             /\ dropped[j].parent = (IF drops(j) THEN None ELSE levels[j].parent)
  <2>1. levels[j] \in LevelRecords BY LevelTyped
  <2> HIDE DEF drops, dropped
  <2>2. dropped[j] = IF drops(j) THEN [levels[j] EXCEPT !.parent = None] ELSE levels[j]
    BY <1>2, <1>4
  <2> QED BY <2>1, <2>2 DEF LevelRecords
<1>9. \A j \in 1 .. n : /\ drops(j) => levels[j].synced
                        /\ closing = {} /\ levels[j].synced => drops(j)
                        /\ closing # {} /\ j = Max(closing) => drops(j)
  BY <1>4, <1>5, <1>6
<1>10. DOMAIN dropped = 1 .. n BY <1>4
<1>11. ASSUME NEW i \in 1 .. n
       PROVE  i \in spare <=> /\ levels[i].own # None
                              /\ \A j \in 1 .. n : dropped[j].parent # levels[i].own
  <2> HIDE DEF dropped
  <2> QED BY <1>8, <1>10 DEF Unshared
<1>12. spare \in SUBSET (1 .. n)
  <2> HIDE DEF dropped
  <2> QED BY <1>10 DEF Unshared
<1>13. spare # {} => Max(spare) \in spare /\ \A y \in spare : Max(spare) >= y
  <2> HIDE DEF spare
  <2>1. spare \in SUBSET (0 .. n) BY <1>4, <1>12
  <2> QED BY <1>4, <2>1, HasMax
<1> DEFINE m == Max(spare)
<1>14. ASSUME NEW j \in 1 .. n, closing = {} /\ spare # {}
       PROVE  /\ new[j].own = (IF j = m THEN None ELSE levels[j].own)
              /\ new[j].parent = dropped[j].parent /\ new[j].synced = levels[j].synced
  <2>1. dropped \in Seq(LevelRecords) /\ Len(dropped) = n
    <3>1. \A i \in 1 .. n : dropped[i] \in LevelRecords
      <4> TAKE i \in 1 .. n
      <4>1. levels[i] \in LevelRecords BY LevelTyped
      <4> HIDE DEF drops, dropped
      <4>2. dropped[i] = IF drops(i) THEN [levels[i] EXCEPT !.parent = None] ELSE levels[i]
        BY <1>2, <1>4
      <4> QED BY <4>1, <4>2, Sizes DEF LevelRecords, Pin
    <3>2. dropped = [i \in 1 .. n |-> dropped[i]] BY <1>2, <1>4
    <3> DEFINE R == LevelRecords
    <3>3. \A i \in 1 .. n : dropped[i] \in R BY <3>1
    <3> HIDE DEF dropped, R
    <3>4. dropped \in Seq(R) /\ Len(dropped) = n BY <1>4, <3>2, <3>3
    <3> QED BY <3>4 DEF R
  <2>2. new = [dropped EXCEPT ![m].own = None] BY <1>1, <1>14
  <2> HIDE DEF m, dropped
  <2>3. /\ new[j].own = (IF j = m THEN None ELSE dropped[j].own)
        /\ new[j].parent = dropped[j].parent /\ new[j].synced = dropped[j].synced
    BY <2>1, <2>2, OwnClosed, SMTT(30)
  <2> HIDE DEF drops
  <2> QED BY <1>8, <2>3
<1>15. ~ (closing = {} /\ spare # {}) => new = dropped BY <1>1
<1> HIDE DEF closing, drops, dropped, spare, m
<1>16. \A j \in 1 .. n : /\ new[j].synced = levels[j].synced
                         /\ ~levels[j].synced => new[j].parent = levels[j].parent
  BY <1>8, <1>9, <1>14, <1>15
<1>17. CASE closing # {}
  <2>1. new = dropped /\ Max(closing) \in 1 .. n BY <1>5, <1>6, <1>15, <1>17
  <2>2. /\ new[Max(closing)].parent = None /\ \A j \in 1 .. n : new[j].own = levels[j].own
        /\ levels[Max(closing)].parent # None
        /\ \A j \in 1 .. n : levels[j].own # levels[Max(closing)].parent
    BY <1>5, <1>6, <1>8, <1>9, <1>17, <2>1
  <2> QED BY <1>3, <1>16, <2>1, <2>2
<1>18. CASE closing = {} /\ spare # {}
  <2>1. m \in 1 .. n /\ m \in spare /\ \A y \in spare : m >= y BY <1>12, <1>13, <1>18 DEF m
  <2>2. \A j \in 1 .. n : /\ new[j].own = (IF j = m THEN None ELSE levels[j].own)
                          /\ new[j].parent = dropped[j].parent
                          /\ levels[j].synced => new[j].parent = None
    BY <1>8, <1>9, <1>14, <1>18
  <2>3. levels[m].own # None /\ \A j \in 1 .. n : new[j].parent # levels[m].own
    BY <1>11, <2>1, <2>2
  <2>4. ASSUME NEW i \in 1 .. n, i > m, levels[i].own # None
        PROVE  \E j \in 1 .. n : new[j].parent = levels[i].own
    <3>1. i \notin spare BY <1>4, <2>1, <2>4
    <3> QED BY <1>11, <2>2, <2>4, <3>1
  <2>5. \A i \in 1 .. n : levels[i].synced /\ levels[i].parent # None =>
          \E j \in 1 .. n : levels[j].own = levels[i].parent
    BY <1>7, <1>18
  <2>6. \E k \in 1 .. n :
          /\ levels[k].own # None /\ \A j \in 1 .. n : new[j].parent # levels[k].own
          /\ new[k].own = None /\ \A j \in 1 .. n : j # k => new[j].own = levels[j].own
          /\ \A i \in 1 .. n : i > k /\ levels[i].own # None =>
               \E j \in 1 .. n : new[j].parent = levels[i].own
    <3>1. \A j \in 1 .. n : j # m => new[j].own = levels[j].own BY <2>2
    <3>2. new[m].own = None BY <2>1, <2>2
    <3> QED BY <2>1, <2>3, <2>4, <3>1, <3>2
  <2>7. \A j \in 1 .. n : levels[j].synced => new[j].parent = None BY <2>2
  <2> QED BY <1>3, <1>16, <2>5, <2>6, <2>7
<1>19. CASE closing = {} /\ spare = {}
  <2>1. \A j \in 1 .. n : /\ new[j].own = levels[j].own /\ new[j].parent = dropped[j].parent
                          /\ levels[j].synced => new[j].parent = None
    BY <1>8, <1>9, <1>15, <1>19
  <2>2. \A i \in 1 .. n : levels[i].own # None => \E j \in 1 .. n : new[j].parent = levels[i].own
    BY <1>11, <1>19, <2>1
  <2>3. \A i \in 1 .. n : levels[i].synced /\ levels[i].parent # None =>
          \E j \in 1 .. n : levels[j].own = levels[i].parent
    BY <1>7, <1>19
  <2> QED BY <1>3, <1>16, <2>1, <2>2, <2>3
<1> QED BY <1>17, <1>18, <1>19, SMTT(30)

\* In the destination, and next to it once the innermost level is synced, a
\* release frees a descriptor as long as a level is pinned.
LEMMA ReleaseFrees ==
  ASSUME temp = None, quarantine = None, NEW levels, Recorded(levels), Chained(levels),
         NEW n, n = Len(levels), Pins(levels, None) # {},
         \/ Windowed(levels)
         \/ /\ levels[n].synced
            /\ \A i \in 1 .. (n - 1) : HasPin(levels[i]) => levels[i].own # None
  PROVE  /\ Held(Release(levels), None) < Held(levels, None)
         /\ Windowed(levels) => \A i \in 1 .. (n - 1) :
              HasPin(Release(levels)[i]) => Release(levels)[i].own # None
<1>1. SUFFICES ASSUME NEW new, new = Release(levels)
               PROVE  /\ Held(new, None) < Held(levels, None)
                      /\ Windowed(levels) => \A i \in 1 .. (n - 1) :
                           HasPin(new[i]) => new[i].own # None
  OBVIOUS
<1>2. /\ levels \in Seq(LevelRecords) /\ n \in Nat /\ DOMAIN levels = 1 .. n
      /\ \A i \in 1 .. n : /\ levels[i].own \in {None, levels[i].node}
                           /\ levels[i].parent \in {None, levels[i].parent_node}
  BY RecordedLength, Sizes DEF Recorded
<1>3. \A i \in 1 .. n : levels[i].node # None /\ levels[i].parent_node # None
  BY <1>2, LevelTyped, Sizes
<1>4. /\ \A i, j \in 1 .. n : levels[i].node = levels[j].parent_node <=> j = i + 1
      /\ \A i, j \in 1 .. n : levels[i].node = levels[j].node => i = j
      /\ \A i, j \in 1 .. n : levels[i].parent_node = levels[j].parent_node => i = j
  <2>1. ASSUME NEW i \in 1 .. n, NEW j \in 1 .. n
        PROVE  /\ levels[i].node = levels[j].parent_node <=> j = i + 1
               /\ levels[i].node = levels[j].node => i = j
               /\ levels[i].parent_node = levels[j].parent_node => i = j
    <3>1. i \in DOMAIN levels /\ j \in DOMAIN levels BY <1>2
    <3> QED BY <3>1, Zenon DEF Chained
  <2> QED BY <2>1
<1>5. /\ LetGo(new, levels) /\ new \in Seq(LevelRecords) /\ Len(new) = n
      /\ \A i \in 1 .. n : /\ new[i].own \in {None, levels[i].own}
                           /\ new[i].parent \in {None, levels[i].parent}
  <2>1. LetGo(new, levels) BY <1>1, <1>2, ReleaseIs
  <2> QED BY <2>1 DEF LetGo
<1>6. /\ Pins(new, None) \subseteq Pins(levels, None)
      /\ \A i \in 1 .. n : HasPin(new[i]) => HasPin(levels[i])
  BY <1>2, <1>5, LetGoPins
<1>7. \A x : x # None =>
        /\ x \in Pins(levels, None) <=>
             \E i \in 1 .. n : levels[i].own = x \/ levels[i].parent = x
        /\ x \in Pins(new, None) <=> \E i \in 1 .. n : new[i].own = x \/ new[i].parent = x
  BY <1>2, <1>5, PinsAre
<1>8. \A x : x \in Pins(levels, None) /\ x \notin Pins(new, None) =>
        Held(new, None) < Held(levels, None)
  <2>1. None \in Pin BY DEF Pin
  <2> QED BY <1>2, <1>5, <1>6, <2>1, HeldFewer
<1>9. /\ \A i \in 1 .. (n - 1) : i \in 1 .. n /\ (HasPin(levels[i]) => levels[i].own # None)
      /\ levels[n].synced \/ (n # 0 /\ levels[n].own # None)
  <2>1. PICK x \in Pins(levels, None) : x # None BY DEF Pins
  <2>2. PICK k \in 1 .. n : HasPin(levels[k]) BY <1>7, <2>1 DEF HasPin
  <2>3. ASSUME Windowed(levels)
        PROVE  /\ n # 0 /\ levels[n].own # None
               /\ \A i \in 1 .. (n - 1) : HasPin(levels[i]) => levels[i].own # None
    <3>1. \A i \in 1 .. n : HasPin(levels[i]) => levels[i].own # None /\ levels[n].own # None
      <4> SUFFICES ASSUME NEW i \in 1 .. n, HasPin(levels[i])
                   PROVE  levels[i].own # None /\ levels[n].own # None
        OBVIOUS
      <4>1. i \in i .. n /\ n \in i .. n /\ n \in 1 .. n BY <1>2
      <4>2. BothPins(levels[i]) /\ BothPins(levels[n]) BY <1>2, <2>3, <4>1 DEF Windowed
      <4> QED BY <1>3, <4>1, <4>2 DEF BothPins
    <3>2. n # 0 BY <2>2
    <3> QED BY <1>2, <2>2, <3>1, <3>2
  <2> QED BY <1>2, <2>3
<1>10. ASSUME NEW m \in 1 .. n, levels[m].parent # None,
              \A j \in 1 .. n : levels[j].own # levels[m].parent, new[m].parent = None,
              \A j \in 1 .. n : new[j].own = levels[j].own
       PROVE  /\ Held(new, None) < Held(levels, None)
              /\ \A i \in 1 .. (n - 1) : HasPin(new[i]) => new[i].own # None
  <2>1. levels[m].parent \in Pins(levels, None) BY <1>7, <1>10
  <2>2. ASSUME NEW j \in 1 .. n PROVE new[j].own # levels[m].parent /\ new[j].parent # levels[m].parent
    <3>1. CASE j = m BY <1>10, <3>1
    <3>2. CASE j # m
      <4>1. levels[m].parent = levels[m].parent_node BY <1>2, <1>10
      <4>2. levels[j].parent # levels[m].parent BY <1>2, <1>4, <1>10, <3>2, <4>1
      <4> QED BY <1>5, <1>10, <4>2
    <3> QED BY <3>1, <3>2
  <2>3. levels[m].parent \notin Pins(new, None) BY <1>7, <1>10, <2>2
  <2> QED BY <1>6, <1>8, <1>9, <1>10, <2>1, <2>3
<1>11. ASSUME NEW m \in 1 .. n, levels[m].own # None,
              \A j \in 1 .. n : new[j].parent # levels[m].own, new[m].own = None,
              \A j \in 1 .. n : j # m => new[j].own = levels[j].own,
              \A i \in 1 .. n : i > m /\ levels[i].own # None =>
                \E j \in 1 .. n : new[j].parent = levels[i].own
       PROVE  /\ Held(new, None) < Held(levels, None)
              /\ Windowed(levels) => \A i \in 1 .. (n - 1) : HasPin(new[i]) => new[i].own # None
  <2>1. levels[m].own \in Pins(levels, None) BY <1>7, <1>11
  <2>2. ASSUME NEW j \in 1 .. n PROVE new[j].own # levels[m].own
    <3>1. CASE j = m BY <1>11, <3>1
    <3>2. CASE j # m
      <4>1. levels[j].own # levels[m].own BY <1>2, <1>4, <1>11, <3>2
      <4> QED BY <1>11, <3>2, <4>1
    <3> QED BY <3>1, <3>2
  <2>3. levels[m].own \notin Pins(new, None) BY <1>7, <1>11, <2>2
  <2>4. ASSUME Windowed(levels) PROVE m = n
    <3>1. HasPin(levels[m]) /\ n \in m .. n /\ n \in 1 .. n BY <1>2, <1>11 DEF HasPin
    <3>2. levels[n].own = levels[n].node BY <1>2, <2>4, <3>1 DEF Windowed, BothPins
    <3>3. ~ (n > m)
      <4> SUFFICES ASSUME n > m PROVE FALSE OBVIOUS
      <4>1. PICK j \in 1 .. n : new[j].parent = levels[n].node BY <1>3, <1>11, <3>1, <3>2
      <4>2. levels[j].parent_node = levels[n].node BY <1>2, <1>3, <1>5, <3>1, <4>1
      <4> QED BY <1>2, <1>4, <3>1, <4>2
    <3> QED BY <1>2, <3>3
  <2> QED BY <1>2, <1>6, <1>8, <1>9, <1>11, <2>1, <2>3, <2>4
<1>12. ASSUME \A j \in 1 .. n : levels[j].synced => new[j].parent = None,
              \A i \in 1 .. n : levels[i].synced /\ levels[i].parent # None =>
                \E j \in 1 .. n : levels[j].own = levels[i].parent,
              \A i \in 1 .. n : levels[i].own # None =>
                \E j \in 1 .. n : new[j].parent = levels[i].own
       PROVE  FALSE
  <2> DEFINE S == {i \in 1 .. n : levels[i].own # None}
  <2>1. CASE S # {}
    <3>1. S \in SUBSET (0 .. n) BY <1>2
    <3>2. Max(S) \in S /\ \A y \in S : Max(S) >= y
      <4> HIDE DEF S
      <4> QED BY <1>2, <2>1, <3>1, HasMax
    <3>3. PICK i \in 1 .. n : levels[i].own # None /\ \A y \in 1 .. n : levels[y].own # None => i >= y
      BY <3>2
    <3>4. PICK j \in 1 .. n : new[j].parent = levels[i].own BY <1>12, <3>3
    <3>5. levels[j].parent # None /\ levels[j].parent_node = levels[i].node
      BY <1>2, <1>5, <3>3, <3>4
    <3>6. j = i + 1 /\ ~levels[j].synced BY <1>4, <1>12, <3>3, <3>4, <3>5
    <3>7. levels[j].own # None
      <4>1. CASE j = n BY <1>9, <3>6, <4>1
      <4>2. CASE j # n
        <5>1. j \in 1 .. (n - 1) BY <1>2, <4>2
        <5> QED BY <1>9, <3>5, <5>1 DEF HasPin
      <4> QED BY <4>1, <4>2
    <3> QED BY <1>2, <3>3, <3>6, <3>7
  <2>2. CASE S = {}
    <3>1. PICK x \in Pins(levels, None) : x # None BY DEF Pins
    <3>2. PICK k \in 1 .. n : levels[k].own = x \/ levels[k].parent = x BY <1>7, <3>1
    <3>3. HasPin(levels[k]) /\ levels[k].parent # None BY <2>2, <3>1, <3>2 DEF HasPin
    <3>4. k = n
      <4>1. k \notin 1 .. (n - 1) BY <1>9, <2>2, <3>3
      <4> QED BY <1>2, <4>1
    <3>5. levels[k].synced BY <1>9, <2>2, <3>4
    <3> QED BY <1>12, <2>2, <3>3, <3>5
  <2> QED BY <2>1, <2>2
<1> DEFINE ParentGoes(m) ==
             /\ levels[m].parent # None /\ \A j \in 1 .. n : levels[j].own # levels[m].parent
             /\ new[m].parent = None /\ \A j \in 1 .. n : new[j].own = levels[j].own
           OwnGoes(m) ==
             /\ levels[m].own # None /\ \A j \in 1 .. n : new[j].parent # levels[m].own
             /\ new[m].own = None
             /\ \A j \in 1 .. n : j # m => new[j].own = levels[j].own
             /\ \A i \in 1 .. n : i > m /\ levels[i].own # None =>
                  \E j \in 1 .. n : new[j].parent = levels[i].own
           NothingGoes ==
             /\ \A j \in 1 .. n : levels[j].synced => new[j].parent = None
             /\ \A i \in 1 .. n : levels[i].synced /\ levels[i].parent # None =>
                  \E j \in 1 .. n : levels[j].own = levels[i].parent
             /\ \A i \in 1 .. n : levels[i].own # None =>
                  \E j \in 1 .. n : new[j].parent = levels[i].own
<1>13. (\E m \in 1 .. n : ParentGoes(m)) \/ (\E m \in 1 .. n : OwnGoes(m)) \/ NothingGoes
  BY <1>1, <1>2, ReleaseIs, SMTT(30)
<1>14. CASE \E m \in 1 .. n : ParentGoes(m)
  <2>1. PICK m \in 1 .. n : ParentGoes(m) BY <1>14
  <2> QED BY <1>10, <2>1
<1>15. CASE \E m \in 1 .. n : OwnGoes(m)
  <2>1. PICK m \in 1 .. n : OwnGoes(m) BY <1>15
  <2> QED BY <1>11, <2>1
<1>16. ~ NothingGoes BY <1>12
<1> QED
  <2> HIDE DEF ParentGoes, OwnGoes, NothingGoes
  <2> QED BY <1>13, <1>14, <1>15, <1>16

\* Only the records' pins and syncs change while they are let go of.
LEMMA LetGoChained ==
  ASSUME NEW old \in Seq(LevelRecords), NEW new, LetGo(new, old)
  PROVE  /\ Chained(old) <=> Chained(new)
         /\ \A next : OnLevels(old, next) <=> OnLevels(new, next)
<1>1. /\ DOMAIN old = 1 .. Len(old) /\ DOMAIN new = 1 .. Len(old) /\ Len(new) = Len(old)
      /\ \A i \in 1 .. Len(old) : /\ new[i].level = old[i].level /\ new[i].node = old[i].node
                                  /\ new[i].parent_node = old[i].parent_node
  BY DEF LetGo
<1>2. Chained(old) <=> Chained(new) BY <1>1, SMTT(30) DEF Chained
<1>3. \A next : OnLevels(old, next) <=> OnLevels(new, next) BY <1>1 DEF OnLevels
<1> QED BY <1>2, <1>3

\* A sync holds what it held.
LEMMA SyncedInHolds ==
  ASSUME NEW levels \in Seq(LevelRecords), NEW here, Recorded(levels)
  PROVE  /\ Pins(SyncedIn(levels, here), None) = Pins(levels, None)
         /\ Held(SyncedIn(levels, here), None) = Held(levels, None)
         /\ SyncedIn(levels, here) \in Seq(LevelRecords)
         /\ Len(SyncedIn(levels, here)) = Len(levels) /\ Recorded(SyncedIn(levels, here))
         /\ Windowed(levels) <=> Windowed(SyncedIn(levels, here))
         /\ \A i \in 1 .. Len(levels) : HasPin(SyncedIn(levels, here)[i]) <=> HasPin(levels[i])
<1>1. SUFFICES ASSUME NEW new, new = SyncedIn(levels, here)
               PROVE  /\ Pins(new, None) = Pins(levels, None)
                      /\ Held(new, None) = Held(levels, None)
                      /\ new \in Seq(LevelRecords) /\ Len(new) = Len(levels) /\ Recorded(new)
                      /\ Windowed(levels) <=> Windowed(new)
                      /\ \A i \in 1 .. Len(levels) : HasPin(new[i]) <=> HasPin(levels[i])
  OBVIOUS
<1>2. LetGo(new, levels) BY <1>1, SyncedInLetsGo
<1>3. /\ DOMAIN levels = 1 .. Len(levels) /\ DOMAIN new = 1 .. Len(levels)
      /\ new \in Seq(LevelRecords) /\ Len(new) = Len(levels)
      /\ \A i \in 1 .. Len(levels) :
           new[i].node = levels[i].node /\ new[i].parent_node = levels[i].parent_node
  BY <1>2 DEF LetGo
<1>4. \A i \in 1 .. Len(levels) : new[i].own = levels[i].own /\ new[i].parent = levels[i].parent
  BY <1>1, SyncedInIs
<1>5. Pins(new, None) = Pins(levels, None) BY <1>3, <1>4 DEF Pins
<1>6. Held(new, None) = Held(levels, None) BY <1>5 DEF Held
<1>7. \A i \in 1 .. Len(levels) : /\ HasPin(new[i]) <=> HasPin(levels[i])
                                  /\ BothPins(new[i]) <=> BothPins(levels[i])
  BY <1>3, <1>4 DEF HasPin, BothPins
<1>8. Windowed(levels) <=> Windowed(new)
  <2>1. \A i \in 1 .. Len(levels) : \A j \in i .. Len(levels) : j \in 1 .. Len(levels)
    OBVIOUS
  <2> QED BY <1>3, <1>7, <2>1 DEF Windowed
<1>9. Recorded(new) BY <1>2, LetGoRecorded
<1> QED BY <1>3, <1>5, <1>6, <1>7, <1>8, <1>9

\* A shed closes the outermost pins and, for a sync, at most one own pin more.
LEMMA ShedIs ==
  ASSUME NEW levels \in Seq(LevelRecords), NEW standing, Pinned(levels) # {}, NEW n, n = Len(levels),
         NEW new, new = Shed(levels, standing)
  PROVE  /\ LetGo(new, levels)
         /\ \A j \in 1 .. n : levels[j].synced => new[j].synced
         /\ Unshared(levels, standing) = {} =>
              \E m \in 1 .. n :
                /\ HasPin(levels[m]) /\ \A i \in 1 .. n : HasPin(levels[i]) => m <= i
                /\ \A j \in 1 .. n :
                     /\ new[j].own = (IF j = m THEN None ELSE levels[j].own)
                     /\ new[j].parent = (IF j = m THEN None ELSE levels[j].parent)
<1> DEFINE m == Min(Pinned(levels))
<1> DEFINE unsynced == levels[m].parent # None /\ ~levels[m].synced
<1> DEFINE full == Full(levels, standing)
<1> DEFINE spare == Unshared(levels, standing)
<1> DEFINE freed == IF unsynced /\ full /\ spare # {}
                      THEN [levels EXCEPT ![Max(spare)].own = None] ELSE levels
<1> DEFINE done == levels[m].synced \/ (unsynced /\ (~full \/ spare # {}))
<1>1. new = [freed EXCEPT ![m].own = None, ![m].parent = None, ![m].synced = done]
  BY DEF Shed
<1>2. LetGo(new, levels) BY ShedLetsGo
<1>3. DOMAIN levels = 1 .. n /\ n \in Nat OBVIOUS
<1>4. m \in 1 .. n /\ HasPin(levels[m]) /\ \A i \in 1 .. n : HasPin(levels[i]) => m <= i
  <2>1. Pinned(levels) \in SUBSET Nat BY <1>3 DEF Pinned
  <2>2. m \in Pinned(levels) /\ \A y \in Pinned(levels) : m <= y BY <2>1, HasMin
  <2> HIDE DEF m
  <2> QED BY <1>3, <2>2 DEF Pinned
<1>5. LetGo(freed, levels) BY LetGoOwn, LetGoSelf
<1>6. freed \in Seq(LevelRecords) /\ Len(freed) = n BY <1>5 DEF LetGo
<1>7. \A j \in 1 .. n : freed[j].synced = levels[j].synced
  <2>1. \A j \in 1 .. n : [levels EXCEPT ![Max(spare)].own = None][j].synced = levels[j].synced
    <3> HIDE DEF spare
    <3> QED BY OwnClosed
  <2>2. CASE freed = [levels EXCEPT ![Max(spare)].own = None] BY <2>1, <2>2
  <2>3. CASE freed = levels BY <2>3
  <2> QED BY <2>2, <2>3
<1>8. spare = {} => freed = levels OBVIOUS
<1>9. levels[m].synced => done OBVIOUS
<1> HIDE DEF freed, done, m, spare
<1>10. \A j \in 1 .. n : /\ new[j].own = (IF j = m THEN None ELSE freed[j].own)
                         /\ new[j].parent = (IF j = m THEN None ELSE freed[j].parent)
                         /\ new[j].synced = (IF j = m THEN done ELSE freed[j].synced)
  BY <1>1, <1>6, PinsClosed
<1>11. \A j \in 1 .. n : levels[j].synced => new[j].synced BY <1>7, <1>9, <1>10
<1>12. ASSUME spare = {}
       PROVE  \A j \in 1 .. n : /\ new[j].own = (IF j = m THEN None ELSE levels[j].own)
                                /\ new[j].parent = (IF j = m THEN None ELSE levels[j].parent)
  BY <1>8, <1>10, <1>12
<1> QED BY <1>2, <1>4, <1>11, <1>12 DEF spare

\* On the way in the walk stands in the innermost level, so no own pin can be
\* spared and the levels that stay pinned stay so by both pins.
LEMMA ShedWindow ==
  ASSUME NEW levels, Recorded(levels), Chained(levels), Windowed(levels), NEW standing,
         standing = levels[Len(levels)].node
  PROVE  /\ Pinned(levels) # {} => Windowed(Shed(levels, standing))
         /\ Windowed(Trim(levels, standing))
<1> DEFINE n == Len(levels)
<1>1. /\ levels \in Seq(LevelRecords) /\ DOMAIN levels = 1 .. n /\ n \in Nat
      /\ \A i \in 1 .. n : /\ levels[i].own \in {None, levels[i].node}
                           /\ levels[i].parent_node # None
  BY RecordedLength, LevelTyped, Sizes DEF Recorded
<1>2. Unshared(levels, standing) = {}
  <2> SUFFICES ASSUME NEW i \in 1 .. n, levels[i].own \notin {None, standing},
                      \A j \in 1 .. n : levels[j].parent # levels[i].own
               PROVE  FALSE
    BY <1>1, SMTT(30) DEF Unshared
  <2>1. HasPin(levels[i]) /\ levels[i].own = levels[i].node /\ i # n BY <1>1 DEF HasPin
  <2>2. i + 1 \in 1 .. n /\ i + 1 \in i .. n
    <3>1. n \in Nat /\ i \in 1 .. n /\ i # n BY <1>1, <2>1
    <3> HIDE DEF n
    <3> QED BY <3>1, SMTT(30)
  <2>3. levels[i + 1].parent = levels[i + 1].parent_node
    BY <1>1, <2>1, <2>2 DEF Windowed, BothPins
  <2>4. levels[i + 1].parent_node = levels[i].node BY <1>1, <2>2 DEF Chained
  <2> QED BY <2>1, <2>2, <2>3, <2>4
<1>3. ASSUME Pinned(levels) # {} PROVE Windowed(Shed(levels, standing))
  <2>1. SUFFICES ASSUME NEW new, new = Shed(levels, standing) PROVE Windowed(new) OBVIOUS
  <2>2. LetGo(new, levels) BY <1>1, <1>3, <2>1, ShedIs
  <2>3. PICK m \in 1 .. n :
          /\ \A i \in 1 .. n : HasPin(levels[i]) => m <= i
          /\ \A j \in 1 .. n : /\ new[j].own = (IF j = m THEN None ELSE levels[j].own)
                               /\ new[j].parent = (IF j = m THEN None ELSE levels[j].parent)
    BY <1>1, <1>2, <1>3, <2>1, ShedIs
  <2>4. /\ DOMAIN new = 1 .. n /\ Len(new) = n
        /\ \A j \in 1 .. n : new[j].node = levels[j].node /\ new[j].parent_node = levels[j].parent_node
    BY <2>2 DEF LetGo
  <2>5. ASSUME NEW i \in 1 .. n, HasPin(new[i]), NEW j \in i .. n PROVE BothPins(new[j])
    <3>1. i # m BY <2>3, <2>5 DEF HasPin
    <3>2. HasPin(levels[i]) BY <2>3, <2>5, <3>1 DEF HasPin
    <3>3. j \in 1 .. n /\ j # m BY <1>1, <2>3, <2>5, <3>1, <3>2
    <3>4. BothPins(levels[j]) BY <1>1, <2>5, <3>2 DEF Windowed
    <3> QED BY <2>3, <2>4, <3>3, <3>4 DEF BothPins
  <2> QED BY <2>4, <2>5 DEF Windowed
<1>4. Windowed(Trim(levels, standing))
  <2>1. CASE Trim(levels, standing) = levels BY <2>1
  <2>2. CASE Cardinality(Pinned(levels)) > host.pin_limit
    <3>1. Trim(levels, standing) = Shed(levels, standing) BY <2>2 DEF Trim
    <3>2. CASE Pinned(levels) # {} BY <1>3, <3>1, <3>2
    <3>3. CASE Pinned(levels) = {}
      <4>1. SUFFICES ASSUME NEW new, new = Shed(levels, standing) PROVE Windowed(new) BY <3>1
      <4>2. LetGo(new, levels) BY <1>1, <4>1, ShedLetsGo
      <4>3. DOMAIN new = 1 .. n /\ \A i \in 1 .. n : HasPin(new[i]) => HasPin(levels[i])
        <5>1. \A i \in 1 .. n : HasPin(new[i]) => HasPin(levels[i])
          BY <1>1, <4>2, LetGoPins
        <5> QED BY <4>2, <5>1 DEF LetGo
      <4> QED BY <1>1, <3>3, <4>3 DEF Windowed, Pinned
    <3> QED BY <3>2, <3>3
  <2> QED BY <2>1, <2>2 DEF Trim
<1> QED BY <1>3, <1>4

---------------------------------------------------------------------------
(* The path, as the import grows into it.                                  *)

LEMMA EntryFoundNext ==
  ASSUME NEW dir, NEW name
  PROVE  \/ /\ Entry(dir, name)' = None
            /\ \A n \in Nodes : ~ (tree'[n].dir = dir /\ tree'[n].name = name)
         \/ /\ Entry(dir, name)' \in Nodes /\ Entry(dir, name)' # None
            /\ tree'[Entry(dir, name)'].dir = dir /\ tree'[Entry(dir, name)'].name = name
BY Sizes DEF Entry, Children

LEMMA EntryIsNext ==
  ASSUME TreeSound', NEW n \in Nodes, NEW dir, NEW name, tree'[n].dir = dir,
         tree'[n].name = name, dir # None, name # Away
  PROVE  Entry(dir, name)' = n
<1>1. Entry(dir, name)' \in Nodes /\ tree'[Entry(dir, name)'].dir = dir
      /\ tree'[Entry(dir, name)'].name = name
  BY EntryFoundNext
<1> QED BY <1>1 DEF TreeSound

LEMMA PathDefinedNext ==
  \A k \in 0 .. Depth :
    Path'[k] = IF k = 0 THEN Root
               ELSE IF IsDirectory(Path[k - 1])' THEN Entry(Path[k - 1], LevelNames[k])' ELSE None
<1>1. (\A k \in 0 .. Depth :
         Path[k] = IF k = 0 THEN Root
                   ELSE IF IsDirectory(Path[k - 1]) THEN Entry(Path[k - 1], LevelNames[k])
                   ELSE None)'
  BY PathDefined, PTL
<1> QED BY <1>1

\* The path is a matter of the tree.
LEMMA PathSame == ASSUME UNCHANGED tree PROVE Path' = Path
BY DEF Path, IsDirectory, Entry, Children

\* A path that leads somewhere leads there through directories.
LEMMA PathNode ==
  ASSUME NEW k \in 1 .. Depth, Path[k] # None
  PROVE  /\ Path[k] \in Nodes /\ tree[Path[k]].dir = Path[k - 1]
         /\ tree[Path[k]].name = LevelNames[k] /\ IsDirectory(Path[k - 1])
<1>1. k \in 0 .. Depth /\ k # 0 BY Sizes
<1>2. Path[k] = Entry(Path[k - 1], LevelNames[k]) /\ IsDirectory(Path[k - 1])
  BY <1>1, PathDefined
<1> QED BY <1>2, EntryFound

LEMMA PathDown ==
  ASSUME NEW m \in 0 .. Depth, Path[m] # None, NEW k \in 0 .. m
  PROVE  /\ Path[k] \in Nodes /\ Path[k] # None /\ Stands(Path[k])
         /\ k < m => IsDirectory(Path[k])
<1>1. \A j \in 0 .. m : Path[j] # None
  <2> DEFINE T == {j \in 0 .. m : Path[j] = None}
  <2> SUFFICES ASSUME T # {} PROVE FALSE OBVIOUS
  <2>1. m \in Nat /\ T \in SUBSET (0 .. m) BY Sizes
  <2>2. Max(T) \in T /\ \A y \in T : Max(T) >= y
    <3> HIDE DEF T
    <3> QED BY <2>1, HasMax
  <2>3. PICK x \in 0 .. m : Path[x] = None /\ \A y \in 0 .. m : Path[y] = None => x >= y
    BY <2>2
  <2>4. x # m /\ x + 1 \in 1 .. Depth /\ x + 1 \in 0 .. m /\ (x + 1) - 1 = x /\ ~ (x >= x + 1)
    BY <2>1, <2>3, Sizes
  <2>5. Path[x + 1] # None BY <2>3, <2>4
  <2>6. IsDirectory(Path[x]) BY <2>4, <2>5, PathNode
  <2> QED BY <2>3, <2>6 DEF IsDirectory
<1>2. k \in 0 .. Depth /\ m \in Nat /\ k \in Nat BY Sizes
<1>3. Path[k] # None /\ Stands(Path[k]) BY <1>1, <1>2, PathStands
<1>4. Path[k] \in Nodes
  <2>1. CASE k = 0 BY <1>2, <2>1, PathDefined, Sizes
  <2>2. CASE k # 0
    <3>1. k \in 1 .. Depth BY <1>2, <2>2
    <3> QED BY <1>3, <3>1, PathNode
  <2> QED BY <2>1, <2>2
<1>5. ASSUME k < m PROVE IsDirectory(Path[k])
  <2>1. k + 1 \in 1 .. Depth /\ k + 1 \in 0 .. m /\ (k + 1) - 1 = k BY <1>2, <1>5, Sizes
  <2>2. Path[k + 1] # None BY <1>1, <2>1
  <2> QED BY <2>1, <2>2, PathNode
<1> QED BY <1>3, <1>4, <1>5

\* It leads there as long as the directories on it are not moved.
LEMMA PathKept ==
  ASSUME TreeSound', NEW m \in 0 .. Depth, IsDirectory(Path[m]),
         \A n \in Nodes : Stands(n) /\ tree[n].kind = "directory" =>
           /\ tree'[n].dir = tree[n].dir /\ tree'[n].name = tree[n].name
           /\ tree'[n].kind = tree[n].kind
  PROVE  /\ \A k \in 0 .. m : Path'[k] = Path[k]
         /\ IsDirectory(Path[m])' /\ Path'[m] = Path[m]
<1>1. Path[m] # None BY DEF IsDirectory
<1>2. ASSUME NEW k \in 0 .. m
      PROVE  /\ Path[k] \in Nodes /\ Path[k] # None /\ tree[Path[k]].kind = "directory"
             /\ tree'[Path[k]].kind = "directory"
             /\ tree'[Path[k]].dir = tree[Path[k]].dir /\ tree'[Path[k]].name = tree[Path[k]].name
  <2>1. Path[k] \in Nodes /\ Path[k] # None /\ Stands(Path[k]) /\ (k < m => IsDirectory(Path[k]))
    BY <1>1, PathDown
  <2>2. k < m \/ k = m BY Sizes
  <2> QED BY <2>1, <2>2 DEF IsDirectory
<1>3. \A k \in 0 .. m : Path'[k] = Path[k]
  <2> DEFINE T == {k \in 0 .. m : Path'[k] # Path[k]}
  <2> SUFFICES ASSUME T # {} PROVE FALSE OBVIOUS
  <2>1. T \in SUBSET Nat OBVIOUS
  <2>2. PICK x \in T : \A y \in T : x <= y
    <3> HIDE DEF T
    <3> QED BY <2>1, HasMin
  <2>3. x \in 0 .. m /\ Path'[x] # Path[x] /\ x \in 0 .. Depth /\ m \in Nat BY Sizes
  <2>4. x # 0 BY <2>3, PathDefined, PathDefinedNext
  <2>5. x - 1 \in 0 .. m /\ x \in 1 .. Depth /\ ~ (x <= x - 1) BY <2>3, <2>4
  <2>6. Path'[x - 1] = Path[x - 1] BY <2>2, <2>5
  <2>7. PICK d : d = Path[x - 1] OBVIOUS
  <2>8. d # None /\ tree'[d].kind = "directory" BY <1>2, <2>5, <2>7
  <2>9. IsDirectory(Path[x - 1])' BY <2>6, <2>7, <2>8 DEF IsDirectory
  <2>10. Path'[x] = Entry(Path[x - 1], LevelNames[x])' BY <2>3, <2>4, <2>9, PathDefinedNext
  <2>11. Entry(Path[x - 1], LevelNames[x])' = Entry(d, LevelNames[x])'
    BY <2>6, <2>7 DEF Entry, Children
  <2>12. PICK n \in Nodes : n = Path[x] BY <1>2, <2>3
  <2>13. tree[n].dir = d /\ tree[n].name = LevelNames[x]
    BY <1>2, <2>3, <2>5, <2>7, <2>12, PathNode
  <2>14. tree'[n].dir = d /\ tree'[n].name = LevelNames[x] BY <1>2, <2>3, <2>12, <2>13
  <2>15. LevelNames[x] # Away BY <2>5, NamesApart, Sizes
  <2>16. Entry(d, LevelNames[x])' = n BY <2>8, <2>14, <2>15, EntryIsNext
  <2> QED BY <2>3, <2>10, <2>11, <2>12, <2>16
<1>4. m \in 0 .. m BY Sizes
<1>5. IsDirectory(Path[m])' BY <1>2, <1>3, <1>4 DEF IsDirectory
<1> QED BY <1>3, <1>4, <1>5

\* It grows by a directory of the next name that is made in its last one.
LEMMA PathGrows ==
  ASSUME TreeSound', NEW k \in 1 .. Depth, NEW n \in Nodes, NEW d,
         d # None, Path'[k - 1] = d, tree'[d].kind = "directory",
         tree'[n].dir = d, tree'[n].name = LevelNames[k]
  PROVE  Path'[k] = n /\ Entry(d, LevelNames[k])' = n
<1>1. k \in 0 .. Depth /\ k # 0 BY Sizes
<1>2. IsDirectory(Path[k - 1])' BY DEF IsDirectory
<1>3. Path'[k] = Entry(Path[k - 1], LevelNames[k])' BY <1>1, <1>2, PathDefinedNext
<1>4. Entry(Path[k - 1], LevelNames[k])' = Entry(d, LevelNames[k])' BY DEF Entry, Children
<1>5. LevelNames[k] # Away BY NamesApart, Sizes
<1>6. Entry(d, LevelNames[k])' = n BY <1>5, EntryIsNext
<1> QED BY <1>3, <1>4, <1>6

\* Levels along the path, older the further out, lie in one another.
LEMMA OrderedChained ==
  ASSUME NEW levels \in Seq(LevelRecords), Ordered(levels), NEW next \in Int, OnLevels(levels, next)
  PROVE  Chained(levels)
<1> DEFINE n == Len(levels)
<1>1. /\ DOMAIN levels = 1 .. n /\ n \in Nat
      /\ \A i \in 1 .. n : levels[i].node \in Int /\ levels[i].parent_node \in Int
  <2>1. DOMAIN levels = 1 .. n /\ n \in Nat OBVIOUS
  <2>2. \A i \in 1 .. n : levels[i].node \in Nodes /\ levels[i].parent_node \in Nodes
    BY LevelTyped
  <2> QED BY <2>1, <2>2, Sizes
<1>2. \A i \in 1 .. n : /\ levels[i].parent_node < levels[i].node
                        /\ \A j \in 1 .. n : j < i => levels[j].node < levels[i].node
  <2> SUFFICES ASSUME NEW i \in 1 .. n
               PROVE  /\ levels[i].parent_node < levels[i].node
                      /\ \A j \in 1 .. n : j < i => levels[j].node < levels[i].node
    OBVIOUS
  <2>1. \A j \in 1 .. n : j < i => j \in 1 .. (i - 1) BY <1>1
  <2> QED BY <1>1, <2>1 DEF Ordered
<1>3. ASSUME NEW i \in 1 .. n, i + 1 \in 1 .. n PROVE levels[i + 1].parent_node = levels[i].node
  <2>1. /\ levels[i + 1].level = (next - 1) - (n - (i + 1)) /\ levels[i].level = (next - 1) - (n - i)
        /\ levels[i + 1].parent_node = Path[levels[i + 1].level - 1]
        /\ levels[i].node = Path[levels[i].level]
    BY <1>1, <1>3 DEF OnLevels
  <2>2. levels[i + 1].level - 1 = levels[i].level
    <3>1. n \in Int /\ i \in Int BY <1>1
    <3> HIDE DEF n
    <3>2. ((next - 1) - (n - (i + 1))) - 1 = (next - 1) - (n - i) BY <3>1
    <3> QED BY <2>1, <3>2
  <2> QED BY <2>1, <2>2
<1> HIDE DEF n
<1>4. ASSUME NEW i \in 1 .. n, NEW j \in 1 .. n, levels[i].node = levels[j].node PROVE i = j
  <2>1. i < j \/ j < i \/ i = j BY <1>1
  <2> QED BY <1>1, <1>2, <1>4, <2>1
<1>5. ASSUME NEW i \in 1 .. n, NEW j \in 1 .. n, levels[i].node = levels[j].parent_node
      PROVE  j = i + 1
  <2>1. CASE j = 1
    <3>1. levels[i].node < levels[1].node BY <1>1, <1>2, <1>5, <2>1
    <3>2. i = 1 \/ 1 < i BY <1>1
    <3> QED BY <1>1, <1>2, <2>1, <3>1, <3>2
  <2>2. CASE j # 1
    <3>1. j - 1 \in 1 .. n /\ (j - 1) + 1 = j BY <1>1, <2>2
    <3>2. levels[j].parent_node = levels[j - 1].node BY <1>3, <3>1
    <3>3. i = j - 1 BY <1>4, <1>5, <3>1, <3>2
    <3> QED BY <3>1, <3>3
  <2> QED BY <2>1, <2>2
<1>6. ASSUME NEW i \in 1 .. n, NEW j \in 1 .. n, i < j, levels[i].parent_node = levels[j].parent_node
      PROVE  FALSE
  <2>1. j - 1 \in 1 .. n /\ (j - 1) + 1 = j BY <1>1, <1>6
  <2>2. levels[j - 1].node = levels[i].parent_node BY <1>3, <1>6, <2>1
  <2>3. i = (j - 1) + 1 BY <1>5, <2>1, <2>2
  <2> QED BY <1>1, <1>6, <2>3
<1>7. ASSUME NEW i \in 1 .. n, NEW j \in 1 .. n
      PROVE  /\ levels[i].node = levels[j].parent_node <=> j = i + 1
             /\ levels[i].node = levels[j].node => i = j
             /\ levels[i].parent_node = levels[j].parent_node => i = j
  <2>1. i < j \/ j < i \/ i = j BY <1>1
  <2> QED BY <1>3, <1>4, <1>5, <1>6, <2>1
<1> QED BY <1>1, <1>7 DEF Chained

---------------------------------------------------------------------------
(* The way in, undisturbed.                                                *)

Undisturbed == Shape /\ Orderly /\ Onwards /\ host.slots >= ClimbSlots

\* Off the way on there is nothing to show.
LEMMA OffTheWay == ASSUME pc' \notin Inward \union Onward PROVE Onwards'
BY DEF Onwards, Inward, Onward, Walking

LEMMA FailsOff == ASSUME Fails PROVE Onwards'
<1>1. pc' = "undo" BY DEF Fails, TakeBack
<1> QED BY <1>1, OffTheWay DEF Inward, Onward, Walking

\* What is said of the levels stays true of them while the tree does not change.
LEMMA LevelsSame ==
  ASSUME UNCHANGED tree
  PROVE  OnLevels(created', depth') => OnLevels(created, depth)'
BY PathSame DEF OnLevels

LEMMA EntrySame ==
  ASSUME UNCHANGED <<tree, walk, depth>>
  PROVE  /\ Entry(walk, AtLevel)' = Entry(walk, AtLevel)
         /\ Children(Entry(walk, AtLevel))' = Children(Entry(walk, AtLevel))
         /\ IsDirectory(walk)' = IsDirectory(walk)
BY DEF Entry, Children, AtLevel, IsDirectory

LEMMA DirectorySame ==
  ASSUME UNCHANGED tree, NEW n PROVE IsDirectory(n)' = IsDirectory(n)
BY DEF IsDirectory

\* On the way in no destination, no pack and no quarantine is held.
LEMMA InwardParts ==
  ASSUME Undisturbed, pc \in Inward
  PROVE  /\ OnPath /\ OnLevels(created, depth) /\ Windowed(created)
         /\ dest = None /\ temp = None /\ quarantine = None
BY DEF Undisturbed, Onwards, OnPath, Shape, UndoControls, Inward, Walking

\* The walk stands in the innermost level, and the levels lie in one another.
LEMMA WalkStands ==
  ASSUME Undisturbed, pc \in Walking \union {"acquire"}, created # <<>>
  PROVE  walk = created[Len(created)].node /\ walk = Path[depth - 1] /\ Chained(created)
<1>1. OnPath /\ OnLevels(created, depth) /\ depth \in Int
  BY InwardParts, Sizes DEF Inward, Undisturbed, Shape, WalkControls
<1>2. walk = Path[depth - 1]
  <2>1. CASE pc \in Walking BY <1>1, <2>1 DEF OnPath
  <2>2. CASE pc = "acquire"
    <3>1. walk # None BY <1>1, <2>2 DEF OnPath
    <3> QED BY <1>1, <2>2, <3>1 DEF OnPath
  <2> QED BY <2>1, <2>2
<1>3. /\ created \in Seq(LevelRecords) /\ DOMAIN created = 1 .. Len(created)
      /\ Len(created) \in Nat /\ Len(created) # 0
  <2> DEFINE R == LevelRecords
  <2>1. created \in Seq(R) /\ DOMAIN created = 1 .. Len(created)
    BY CreatedTyped DEF Undisturbed
  <2> HIDE DEF R
  <2> QED BY <2>1 DEF R
<1>4. Len(created) \in DOMAIN created BY <1>3
<1>5. created[Len(created)].level = (depth - 1) - (Len(created) - Len(created))
      /\ created[Len(created)].node = Path[created[Len(created)].level]
  BY <1>1, <1>4 DEF OnLevels
<1>6. (depth - 1) - (Len(created) - Len(created)) = depth - 1 BY <1>1, <1>3
<1>7. Chained(created) BY <1>1, <1>3, OrderedChained DEF Undisturbed, Orderly
<1> QED BY <1>2, <1>5, <1>6, <1>7

LEMMA SurveyOn == ASSUME Undisturbed, Shape', Survey PROVE Onwards'
<1> DEFINE S == {k \in 0 .. Depth : IsDirectory(Path[k])}
<1>1. /\ pc = "survey" /\ created = <<>> /\ walk = None /\ dest = None /\ temp = None
      /\ UNCHANGED <<tree, walk, fresh, created, dest, temp>>
  BY InwardParts DEF Survey, OnPath, Inward
<1>2. S \in SUBSET (0 .. Depth) /\ 0 \in S
  BY PathDefined, Sizes DEF IsDirectory, Undisturbed, Shape, TreeSound
<1>3. PICK there \in 0 .. Depth :
        /\ \A k \in S : there >= k
        /\ depth' = there + 1 /\ pc' = (IF there = Depth THEN "acquire" ELSE "start")
  <2>1. Max(S) \in S /\ \A y \in S : Max(S) >= y
    <3> HIDE DEF S
    <3> QED BY <1>2, HasMax, Sizes
  <2>2. Max(S) \in 0 .. Depth BY <1>2, <2>1
  <2>3. depth' = Max(S) + 1 /\ pc' = (IF Max(S) = Depth THEN "acquire" ELSE "start")
    BY DEF Survey
  <2> HIDE DEF S
  <2> QED BY <2>1, <2>2, <2>3
<1>4. pc' = "start" => ~IsDirectory(Path[depth])'
  <2> SUFFICES ASSUME pc' = "start" PROVE ~IsDirectory(Path[depth])' OBVIOUS
  <2>1. there # Depth /\ there + 1 \in 0 .. Depth /\ ~ (there >= there + 1) BY <1>3, Sizes
  <2>2. ~IsDirectory(Path[there + 1]) BY <1>3, <2>1
  <2>3. Path'[depth'] = Path[there + 1] BY <1>1, <1>3, PathSame
  <2> QED BY <1>1, <2>2, <2>3 DEF IsDirectory
<1>5. OnPath'
  BY <1>1, <1>3, <1>4 DEF OnPath, Inward, Onward, Walking
<1>6. OnLevels(created, depth)' /\ Windowed(created)' BY <1>1 DEF OnLevels, Windowed
<1>7. pc' \in {"acquire", "start"} BY <1>3
<1> QED BY <1>5, <1>6, <1>7 DEF Onwards, Inward, Onward, Walking

LEMMA OpenStartOn == ASSUME Undisturbed, Shape', OpenStart PROVE Onwards'
<1>1. /\ pc = "start" /\ created = <<>> /\ dest = None /\ temp = None
      /\ ~IsDirectory(Path[depth])
      /\ UNCHANGED <<tree, depth, fresh, dest, temp>> /\ depth \in 1 .. Depth
  BY InwardParts, Sizes DEF OpenStart, OnPath, Inward, Undisturbed, Shape, WalkControls
<1>2. CASE Fails BY <1>2, FailsOff
<1>3. ASSUME IsDirectory(Path[depth - 1]), walk' = Path[depth - 1], pc' = "make", UNCHANGED created
      PROVE  Onwards'
  <2>1. Path[depth] = Entry(Path[depth - 1], AtLevel)
    <3>1. depth \in 0 .. Depth /\ depth # 0 BY <1>1, Sizes
    <3> QED BY <1>3, <3>1, PathDefined DEF AtLevel
  <2>2. Path'[depth' - 1] = Path[depth - 1] BY <1>1, PathSame
  <2>3. IsDirectory(walk)' BY <1>1, <1>3 DEF IsDirectory
  <2>4. Entry(walk, AtLevel)' = Entry(Path[depth - 1], AtLevel)
    BY <1>1, <1>3 DEF Entry, Children, AtLevel
  <2>5. ~IsDirectory(Entry(walk, AtLevel))' BY <1>1, <2>1, <2>4 DEF IsDirectory
  <2>6. OnPath' BY <1>1, <1>3, <2>2, <2>3, <2>5 DEF OnPath, Inward, Onward, Walking
  <2>7. OnLevels(created, depth)' /\ Windowed(created)' BY <1>1, <1>3 DEF OnLevels, Windowed
  <2> QED BY <1>3, <2>6, <2>7 DEF Onwards, Inward, Onward, Walking
<1> QED BY <1>2, <1>3 DEF OpenStart

\* The directories that stand stay where they are when something is made.
LEMMA GrowthPath ==
  ASSUME Shape, Shape', NEW k \in Nodes, tree[k] = Unused,
         \A n \in Nodes : n # k => tree'[n] = tree[n],
         NEW m \in 0 .. Depth, IsDirectory(Path[m])
  PROVE  /\ \A j \in 0 .. m : Path'[j] = Path[j]
         /\ IsDirectory(Path[m])' /\ Path'[m] = Path[m]
<1>1. \A n \in Nodes : Stands(n) => tree'[n] = tree[n]
  <2> SUFFICES ASSUME NEW n \in Nodes, Stands(n) PROVE n # k OBVIOUS
  <2>1. tree[n].maker # "nobody" BY UsedNode DEF Shape
  <2> QED BY <2>1, UnusedFields
<1> QED BY <1>1, PathKept DEF Shape

\* Levels recorded on a part of the path that stays are recorded on it still.
LEMMA LevelsKept ==
  ASSUME NEW levels, Recorded(levels), NEW next \in 1 .. (Depth + 1), OnLevels(levels, next),
         \A i \in DOMAIN levels : levels[i].level < next,
         \A j \in 0 .. (next - 1) : Path'[j] = Path[j]
  PROVE  OnLevels(levels, next)'
<1> SUFFICES ASSUME NEW i \in DOMAIN levels
             PROVE  /\ levels[i].level = (next - 1) - (Len(levels) - i)
                    /\ levels[i].parent_node = Path'[levels[i].level - 1]
                    /\ levels[i].node = Path'[levels[i].level]
  BY DEF OnLevels
<1>1. levels[i].level \in Levels BY RecordedLength, LevelTyped DEF Recorded
<1>2. levels[i].level \in 0 .. (next - 1) /\ levels[i].level - 1 \in 0 .. (next - 1)
  BY <1>1, Sizes
<1> QED BY <1>2 DEF OnLevels

LEMMA MakeLevelOn == ASSUME Undisturbed, Shape', MakeLevel PROVE Onwards'
<1>1. /\ pc = "make" /\ dest = None /\ temp = None /\ walk = Path[depth - 1] /\ IsDirectory(walk)
      /\ ~IsDirectory(Entry(walk, AtLevel)) /\ OnLevels(created, depth) /\ Windowed(created)
      /\ UNCHANGED <<depth, walk, fresh, dest, temp>> /\ depth \in 1 .. Depth /\ walk \in Nodes
      /\ \A i \in DOMAIN created : created[i].level < depth
  BY InwardParts, Sizes
     DEF MakeLevel, OnPath, Inward, Walking, Undisturbed, Shape, WalkControls, Pin
<1>2. CASE Fails BY <1>2, FailsOff
<1>3. ASSUME Vacant(walk, AtLevel), Put(NewNode, Node(walk, AtLevel, "directory", "level")),
             pc' = "identify", UNCHANGED created
      PROVE  Onwards'
  <2>1. PICK k \in Nodes :
          /\ tree[k] = Unused /\ TreeSound'
          /\ tree'[k] = Node(walk, AtLevel, "directory", "level")
          /\ \A n \in Nodes : n # k => tree'[n] = tree[n]
    BY <1>1, <1>3, MakeLevelEffect DEF Undisturbed
  <2>2. depth - 1 \in 0 .. Depth /\ depth \in 1 .. (Depth + 1) BY <1>1, Sizes
  <2>3. /\ \A j \in 0 .. (depth - 1) : Path'[j] = Path[j]
        /\ IsDirectory(Path[depth - 1])' /\ Path'[depth - 1] = Path[depth - 1]
    <3>1. PICK m : m = depth - 1 OBVIOUS
    <3>2. /\ \A j \in 0 .. m : Path'[j] = Path[j]
          /\ IsDirectory(Path[m])' /\ Path'[m] = Path[m]
      BY <1>1, <2>1, <2>2, <3>1, GrowthPath DEF Undisturbed
    <3> QED BY <1>1, <3>1, <3>2 DEF IsDirectory
  <2>4. IsDirectory(walk)' /\ walk' = Path'[depth' - 1] BY <1>1, <2>3 DEF IsDirectory
  <2>5. AtLevel' = AtLevel /\ AtLevel # Away
    <3>1. depth \in Levels BY <1>1, Sizes
    <3> QED BY <1>1, <3>1, NamesApart DEF AtLevel
  <2>6. tree'[k].dir = walk /\ tree'[k].name = AtLevel
    <3>1. tree'[k].dir = walk BY <2>1, NodeFields
    <3>2. tree'[k].name = AtLevel BY <2>1, NodeFields
    <3> QED BY <3>1, <3>2
  <2>7. Entry(walk, AtLevel)' = k
    <3>1. PICK dir, name : dir = walk /\ name = AtLevel OBVIOUS
    <3>2. Entry(dir, name)' = k
      BY <1>1, <2>1, <2>5, <2>6, <3>1, EntryIsNext, Sizes
    <3>3. Entry(walk, AtLevel)' = Entry(dir, name)' BY <1>1, <2>5, <3>1 DEF Entry, Children
    <3> QED BY <3>2, <3>3
  <2>8. Children(Entry(walk, AtLevel))' = {}
    <3>1. \A n \in Nodes : tree'[n].dir # k
      <4> TAKE n \in Nodes
      <4>1. walk # k
        <5>1. Stands(walk) BY <1>1, <2>2, PathStands DEF IsDirectory
        <5>2. tree[walk].maker # "nobody" BY <1>1, <5>1, UsedNode DEF Undisturbed, Shape
        <5> QED BY <2>1, <5>2, UnusedFields
      <4>2. ASSUME n # k, tree[n].dir = k PROVE FALSE
        <5>1. tree[k].maker # "nobody" BY <4>2, Sizes DEF Undisturbed, Shape, TreeSound
        <5> QED BY <2>1, <5>1, UnusedFields
      <4> QED BY <2>1, <2>6, <4>1, <4>2
    <3> QED BY <2>7, <3>1 DEF Children
  <2>9. OnPath'
    BY <1>1, <1>3, <2>4, <2>8 DEF OnPath, Inward, Onward, Walking
  <2>10. OnLevels(created, depth)'
    <3>1. SUFFICES ASSUME NEW levels, NEW next, levels = created, next = depth
                   PROVE  OnLevels(created, depth)'
      OBVIOUS
    <3>2. Recorded(created) /\ next \in 1 .. (Depth + 1) BY <2>2, <3>1, CreatedTyped DEF Undisturbed
    <3>3. OnLevels(levels, next)' BY <1>1, <2>3, <3>1, <3>2, LevelsKept
    <3> QED BY <1>1, <1>3, <3>1, <3>3 DEF OnLevels
  <2>11. Windowed(created)' BY <1>1, <1>3
  <2> QED BY <1>3, <2>9, <2>10, <2>11 DEF Onwards, Inward, Onward, Walking
<1> QED BY <1>1, <1>2, <1>3 DEF MakeLevel

LEMMA OpenExistingOn == ASSUME Undisturbed, OpenExisting PROVE Onwards'
<1>1. pc = "existing" BY DEF OpenExisting
<1> QED BY <1>1, InwardParts DEF OnPath, Inward, Walking

LEMMA IdentifyOn == ASSUME Undisturbed, Shape', Identify \/ SyncEntry PROVE Onwards'
<1>1. /\ pc \in {"identify", "entry"} /\ dest = None /\ temp = None
      /\ walk = Path[depth - 1] /\ IsDirectory(walk) /\ Children(Entry(walk, AtLevel)) = {}
      /\ OnLevels(created, depth) /\ Windowed(created)
      /\ UNCHANGED <<tree, depth, walk, dest, temp>>
  BY InwardParts DEF Identify, SyncEntry, OnPath, Inward, Walking
<1>2. CASE Fails BY <1>2, FailsOff
<1>3. CASE pc' \in {"entry", "reopen"} /\ UNCHANGED created
  <2>1. Path' = Path /\ IsDirectory(walk)' /\ Children(Entry(walk, AtLevel))' = {}
    BY <1>1, PathSame, EntrySame
  <2>2. OnPath' BY <1>1, <1>3, <2>1 DEF OnPath, Inward, Onward, Walking
  <2>3. OnLevels(created', depth') BY <1>1, <1>3
  <2>4. OnLevels(created, depth)' /\ Windowed(created)' BY <1>1, <1>3, <2>3, LevelsSame
  <2> QED BY <1>3, <2>2, <2>4 DEF Onwards, Inward, Onward, Walking
<1> QED BY <1>2, <1>3 DEF Identify, SyncEntry

\* The level just recorded is the innermost on the path, pinned by both pins.
LEMMA RecordOnPath ==
  ASSUME Undisturbed, pc = "reopen"
  PROVE  LET new == Append(created, Record(fresh.node))
         IN /\ Recorded(new) /\ new \in Seq(LevelRecords) /\ Len(new) = Len(created) + 1
            /\ OnLevels(new, depth + 1) /\ Windowed(new)
            /\ new[Len(new)].node = fresh.node
            /\ fresh.node = Entry(walk, AtLevel) /\ fresh.node = Path[depth]
            /\ IsDirectory(fresh.node)
<1> DEFINE new == Append(created, Record(fresh.node))
<1> DEFINE n == Len(created)
<1>1. /\ walk \in Nodes /\ walk = Path[depth - 1] /\ IsDirectory(walk)
      /\ OnLevels(created, depth) /\ Windowed(created)
      /\ created \in Seq(LevelRecords) /\ n \in Nat /\ DOMAIN created = 1 .. n
      /\ fresh.node \in Nodes /\ fresh.synced \in BOOLEAN /\ depth \in 1 .. Depth
      /\ walk # None /\ TreeSound
  BY InwardParts, CreatedTyped, Sizes
     DEF Undisturbed, Shape, WalkControls, Walking, Pin, OnPath, Inward
<1>2. Recorded(new) /\ new \in Seq(LevelRecords) BY RecordKeeps DEF Undisturbed
<1>3. Record(fresh.node) \in LevelRecords BY <1>1, Sizes DEF Record, LevelRecords, Pin
<1>4. /\ DOMAIN new = 1 .. (n + 1) /\ new[n + 1] = Record(fresh.node) /\ Len(new) = n + 1
      /\ \A i \in 1 .. n : new[i] = created[i]
  BY <1>1, <1>3, Appended
<1>5. /\ Record(fresh.node).node = fresh.node /\ Record(fresh.node).parent_node = walk
      /\ Record(fresh.node).level = depth /\ Record(fresh.node).own = fresh.node
      /\ Record(fresh.node).parent = walk
  BY DEF Record
<1> HIDE DEF new
<1>6. tree[fresh.node].kind = "directory" /\ tree[fresh.node].dir = walk
      /\ tree[fresh.node].name = AtLevel
  BY DEF Undisturbed, Orderly, FreshInOrder
<1>7. AtLevel # Away
  <2>1. depth \in Levels BY <1>1, Sizes
  <2> QED BY <2>1, NamesApart DEF AtLevel
<1>8. fresh.node = Entry(walk, AtLevel) BY <1>1, <1>6, <1>7, EntryIs
<1>9. Path[depth] = fresh.node
  <2>1. depth \in 0 .. Depth /\ depth # 0 BY <1>1, Sizes
  <2> QED BY <1>1, <1>8, <2>1, PathDefined DEF AtLevel
<1>10. IsDirectory(fresh.node) BY <1>1, <1>6, Sizes DEF IsDirectory
<1>11. OnLevels(new, depth + 1)
  <2> SUFFICES ASSUME NEW i \in 1 .. (n + 1)
               PROVE  /\ new[i].level = ((depth + 1) - 1) - ((n + 1) - i)
                      /\ new[i].parent_node = Path[new[i].level - 1]
                      /\ new[i].node = Path[new[i].level]
    BY <1>4 DEF OnLevels
  <2>1. CASE i = n + 1
    <3>1. ((depth + 1) - 1) - ((n + 1) - i) = depth BY <1>1, <2>1
    <3> QED BY <1>1, <1>4, <1>5, <1>9, <2>1, <3>1
  <2>2. CASE i # n + 1
    <3>1. i \in 1 .. n /\ ((depth + 1) - 1) - ((n + 1) - i) = (depth - 1) - (n - i)
      BY <1>1, <2>2
    <3>2. /\ created[i].level = (depth - 1) - (n - i)
          /\ created[i].parent_node = Path[created[i].level - 1]
          /\ created[i].node = Path[created[i].level]
      BY <1>1, <3>1 DEF OnLevels
    <3> QED BY <1>4, <3>1, <3>2
  <2> QED BY <2>1, <2>2
<1>12. Windowed(new)
  <2> SUFFICES ASSUME NEW i \in 1 .. (n + 1), HasPin(new[i]), NEW j \in i .. (n + 1)
               PROVE  BothPins(new[j])
    BY <1>4 DEF Windowed
  <2>1. CASE j = n + 1 BY <1>4, <1>5, <2>1 DEF BothPins
  <2>2. CASE j # n + 1
    <3>1. i \in 1 .. n /\ j \in 1 .. n /\ j \in i .. n BY <1>1, <2>2
    <3>2. HasPin(created[i]) BY <1>4, <3>1
    <3>3. BothPins(created[j]) BY <1>1, <3>1, <3>2 DEF Windowed
    <3> QED BY <1>4, <3>1, <3>3
  <2> QED BY <2>1, <2>2
<1>13. new[Len(new)].node = fresh.node BY <1>4, <1>5
<1> QED BY <1>2, <1>4, <1>8, <1>9, <1>10, <1>11, <1>12, <1>13 DEF new

LEMMA ReopenOn ==
  ASSUME Undisturbed, Shape', Orderly', Reopen, UNCHANGED host
  PROVE  Onwards'
<1>1. /\ pc = "reopen" /\ dest = None /\ temp = None /\ UNCHANGED <<tree, dest, temp>>
      /\ depth \in 1 .. Depth /\ Children(Entry(walk, AtLevel)) = {}
  BY InwardParts, Sizes
     DEF Reopen, OnPath, Inward, Walking, Undisturbed, Shape, WalkControls
<1>2. CASE pc' = "undo" BY <1>2, OffTheWay DEF Inward, Onward, Walking
<1>3. ASSUME Entry(walk, AtLevel) = fresh.node,
             created' = Trim(Append(created, Record(Entry(walk, AtLevel))), Entry(walk, AtLevel)),
             walk' = Entry(walk, AtLevel), NextLevel
      PROVE  Onwards'
  <2>1. PICK new : new = Append(created, Record(fresh.node)) OBVIOUS
  <2>2. /\ Recorded(new) /\ new \in Seq(LevelRecords) /\ OnLevels(new, depth + 1) /\ Windowed(new)
        /\ new[Len(new)].node = fresh.node /\ fresh.node = Path[depth] /\ IsDirectory(fresh.node)
    BY <1>1, <2>1, RecordOnPath
  <2>3. PICK levels : levels = created' OBVIOUS
  <2>4. levels = Trim(new, fresh.node) BY <1>3, <2>1, <2>3
  <2>5. LetGo(levels, new) BY <2>2, <2>4, TrimLetsGo
  <2>6. OnLevels(levels, depth + 1) BY <2>2, <2>5, LetGoChained
  <2>7. levels \in Seq(LevelRecords) BY <2>5 DEF LetGo
  <2>8. Ordered(levels)
    <3>1. Ordered(created)' BY DEF Orderly
    <3> QED BY <1>1, <2>3, <3>1 DEF Ordered
  <2>9. depth + 1 \in Int /\ (depth + 1) - 1 = depth BY <1>1, Sizes
  <2>10. Chained(new) BY <2>2, <2>5, <2>6, <2>7, <2>8, <2>9, OrderedChained, LetGoChained
  <2>11. Windowed(levels) BY <2>2, <2>4, <2>10, ShedWindow
  <2>12. /\ depth' = depth + 1 /\ pc' = (IF depth = Depth THEN "acquire" ELSE "make")
         /\ pc' \in {"acquire", "make"}
    BY <1>3 DEF NextLevel
  <2>13. OnLevels(created, depth)' /\ Windowed(created)'
    <3>1. OnLevels(created', depth') BY <2>3, <2>6, <2>12
    <3> QED BY <1>1, <2>3, <2>11, <3>1, LevelsSame
  <2>14. walk' = Path'[depth' - 1] /\ IsDirectory(walk)' /\ walk' # None
    <3>1. walk' = fresh.node /\ depth' - 1 = depth BY <1>3, <2>9, <2>12
    <3>2. Path' = Path BY <1>1, PathSame
    <3>3. IsDirectory(walk)' BY <1>1, <2>2, <3>1 DEF IsDirectory
    <3> QED BY <2>2, <3>1, <3>2, <3>3 DEF IsDirectory
  <2>15. ~IsDirectory(Entry(walk, AtLevel))'
    <3>1. \A n \in Nodes : tree'[n].dir # walk' BY <1>1, <1>3 DEF Children
    <3>2. Entry(walk, AtLevel)' = None
      BY <3>1 DEF Entry, Children
    <3> QED BY <3>2 DEF IsDirectory
  <2>16. OnPath' BY <1>1, <2>12, <2>14, <2>15 DEF OnPath, Inward, Onward, Walking
  <2> QED BY <2>12, <2>13, <2>16 DEF Onwards, Inward, Onward, Walking
<1> QED BY <1>1, <1>2, <1>3 DEF Reopen, TakeBack, Fails

\* A pin given up costs no sync.
LEMMA GiveUpPinOn == ASSUME Undisturbed, Shape', GiveUpPin, UNCHANGED host PROVE Onwards'
<1>1. /\ pc \in {"existing", "entry", "reopen", "acquire", "temporary"} /\ Pinned(created) # {}
      /\ created' = Shed(created, walk)
      /\ UNCHANGED <<tree, pc, depth, walk, fresh, dest, temp>>
      /\ created \in Seq(LevelRecords)
  BY CreatedTyped DEF GiveUpPin, Undisturbed
<1>2. PICK levels : levels = created' OBVIOUS
<1>3. LetGo(levels, created) /\ \A j \in 1 .. Len(created) : created[j].synced => levels[j].synced
  BY <1>1, <1>2, ShedIs
<1>4. created # <<>> BY <1>1 DEF Pinned
<1>5. OnPath /\ OnLevels(created, depth)
  BY <1>1 DEF Undisturbed, Onwards, Inward, Onward, Walking, OnPath
<1>6. OnLevels(levels, depth) BY <1>1, <1>3, <1>5, LetGoChained
<1>7. OnLevels(created, depth)'
  <2>1. OnLevels(created', depth') BY <1>1, <1>2, <1>6
  <2> QED BY <1>1, <2>1, LevelsSame
<1>8. CASE pc \in {"existing", "entry", "reopen", "acquire"}
  <2>1. Windowed(created) /\ pc \in Inward BY <1>8, InwardParts DEF Inward, Walking
  <2>2. walk = created[Len(created)].node /\ Chained(created)
    BY <1>4, <1>8, WalkStands DEF Walking
  <2>3. Windowed(levels)
    BY <1>1, <1>2, <2>1, <2>2, ShedWindow, CreatedTyped DEF Undisturbed
  <2>4. Path' = Path /\ IsDirectory(walk)' = IsDirectory(walk)
        /\ Children(Entry(walk, AtLevel))' = Children(Entry(walk, AtLevel))
    BY <1>1, PathSame, EntrySame
  <2>5. walk = Path[depth - 1] /\ IsDirectory(walk) /\ walk # None
    BY <1>4, <1>5, <1>8, WalkStands DEF OnPath, Walking, IsDirectory
  <2>6. OnPath'
    BY <1>1, <1>5, <1>8, <2>1, <2>4, <2>5 DEF OnPath, Inward, Onward, Walking
  <2> QED BY <1>1, <1>2, <1>7, <1>8, <2>3, <2>6 DEF Onwards, Inward, Onward, Walking
<1>9. CASE pc = "temporary"
  <2>1. \A i \in DOMAIN created : created[i].synced
    BY <1>9 DEF Undisturbed, Onwards
  <2>2. \A i \in DOMAIN levels : levels[i].synced
    <3>1. DOMAIN levels = 1 .. Len(created) /\ DOMAIN created = 1 .. Len(created)
      BY <1>1, <1>3 DEF LetGo
    <3> QED BY <1>3, <2>1, <3>1
  <2>3. Path' = Path /\ IsDirectory(dest)' = IsDirectory(dest)
    BY <1>1, PathSame DEF IsDirectory
  <2>4. OnPath' BY <1>1, <1>5, <1>9, <2>3 DEF OnPath, Inward, Onward, Walking
  <2> QED BY <1>1, <1>2, <1>7, <1>9, <2>2, <2>4 DEF Onwards, Inward, Onward, Walking
<1> QED BY <1>1, <1>8, <1>9

---------------------------------------------------------------------------
(* The destination and the syncs, undisturbed.                             *)

\* What is said of descriptors stays true while none is opened or closed.
LEMMA SyncsSame ==
  ASSUME UNCHANGED <<tree, host, dest, temp, quarantine>>
  PROVE  /\ SyncedTo(created', cursor') => SyncedTo(created, cursor)'
         /\ \A at \in 0 .. Depth : Climbing(created', at) => Climbing(created, at)'
<1>1. SyncedTo(created', cursor') => SyncedTo(created, cursor)'
  BY DEF SyncedTo, Held, Pins
<1>2. ASSUME NEW at \in 0 .. Depth PROVE Climbing(created', at) => Climbing(created, at)'
  BY DEF Climbing, Innermost, Held, Pins
<1> QED BY <1>1, <1>2

\* On the way through the syncs, with a destination.
LEMMA OnwardParts ==
  ASSUME Undisturbed, pc \in {"climb", "levels"}, dest # None
  PROVE  /\ OnPath /\ OnLevels(created, depth) /\ depth = Depth + 1
         /\ dest = Path[Depth] /\ IsDirectory(dest) /\ temp = None /\ quarantine = None
         /\ created \in Seq(LevelRecords) /\ DOMAIN created = 1 .. Len(created) /\ Len(created) \in Nat
         /\ Recorded(created) /\ Chained(created)
         /\ host.slots \in Nat /\ host.slots >= 3
<1>1. /\ OnPath /\ OnLevels(created, depth) /\ depth = Depth + 1
      /\ dest = Path[Depth] /\ IsDirectory(dest) /\ temp = None
  BY DEF Undisturbed, Onwards, OnPath, Inward, Onward, Walking
<1>2. quarantine = None /\ host \in Hosts BY DEF Undisturbed, Shape, UndoControls, WalkControls
<1>3. host.slots \in Nat BY <1>2, ImportAssumption
<1>4. /\ created \in Seq(LevelRecords) /\ DOMAIN created = 1 .. Len(created) /\ Len(created) \in Nat
      /\ Recorded(created)
  BY CreatedTyped DEF Undisturbed
<1>5. depth \in Int BY <1>1, Sizes
<1>6. Chained(created) BY <1>1, <1>4, <1>5, OrderedChained DEF Undisturbed, Orderly
<1> QED BY <1>1, <1>2, <1>3, <1>4, <1>6 DEF Undisturbed, ClimbSlots

\* A step through the syncs keeps to the path.
LEMMA OnwardKept ==
  ASSUME Undisturbed, pc \in {"acquire", "climb", "levels"}, pc' \in {"climb", "levels", "temporary"},
         OnPath, temp = None, UNCHANGED <<tree, depth, temp>>,
         dest' = None => pc' = "levels",
         dest' # None => /\ dest' = Path[Depth] /\ IsDirectory(dest')
                         /\ OnLevels(created', depth'),
         pc' = "climb" => (\E at \in 0 .. Depth : fresh.node = Path[at] /\ Climbing(created, at))',
         pc' = "levels" /\ dest' # None => SyncedTo(created, cursor)',
         pc' = "temporary" => \A i \in DOMAIN created' : created'[i].synced
  PROVE  Onwards'
<1>1. depth' = Depth + 1 BY DEF OnPath, Onward
<1>2. dest' # None => dest' = Path'[Depth] /\ IsDirectory(dest)'
  BY PathSame DEF IsDirectory
<1>3. OnPath' BY <1>1, <1>2 DEF OnPath, Inward, Onward, Walking
<1>4. dest' # None => OnLevels(created, depth)' BY LevelsSame
<1> QED BY <1>3, <1>4 DEF Onwards, Inward, Onward, Walking

LEMMA AcquireOn == ASSUME Undisturbed, Shape', Acquire, UNCHANGED host PROVE Onwards'
<1>1. /\ pc = "acquire" /\ dest = None /\ temp = None /\ quarantine = None
      /\ OnPath /\ OnLevels(created, depth) /\ Windowed(created) /\ depth = Depth + 1
      /\ UNCHANGED <<tree, depth, temp, quarantine>>
      /\ created \in Seq(LevelRecords) /\ DOMAIN created = 1 .. Len(created) /\ walk \in Pin
      /\ walk # None => walk = Path[depth - 1]
  BY InwardParts, CreatedTyped
     DEF Acquire, Idle, OnPath, Inward, Onward, Walking, Undisturbed, Shape, WalkControls
<1>2. ASSUME pc' = "levels", UNCHANGED dest PROVE Onwards'
  BY <1>1, <1>2, OnwardKept
<1>3. ASSUME NEW found, found = (IF walk # None THEN walk ELSE Path[Depth]), IsDirectory(found),
             ~Full(created, walk), dest' = found, pc' = "climb",
             fresh' = [node |-> found, synced |-> FALSE], UNCHANGED created
      PROVE  Onwards'
  <2>1. found = Path[Depth] /\ Depth \in 0 .. Depth
    <3>1. (Depth + 1) - 1 = Depth /\ Depth \in 0 .. Depth BY Sizes
    <3> QED BY <1>1, <1>3, <3>1
  <2>2. found # None /\ fresh'.node = found BY <1>3 DEF IsDirectory
  <2>3. Held(created, None)' <= host'.slots
    <3>1. PICK levels : levels = created OBVIOUS
    <3>2. /\ IsFiniteSet(Pins(levels, walk)) /\ Cardinality(Pins(levels, walk)) \in Nat
          /\ Cardinality(Pins(levels, None)) \in Nat
      BY <1>1, <3>1, PinsTyped DEF Pin
    <3>3. Pins(levels, None) \subseteq Pins(levels, walk) BY DEF Pins
    <3>4. Cardinality(Pins(levels, None)) <= Cardinality(Pins(levels, walk))
      BY <3>2, <3>3, FS_Subset
    <3>5. Held(levels, walk) = Cardinality(Pins(levels, walk)) + 0 BY <1>1, HeldIs
    <3>6. Held(created, None)' = Cardinality(Pins(levels, None)) + 1
      <4>1. {dest', temp', quarantine'} \ {None} = {dest'} BY <1>1, <1>3, <2>2
      <4>2. Cardinality({dest', temp', quarantine'} \ {None}) = 1 BY <4>1, FS_Singleton
      <4>3. Pins(created, None)' = Pins(levels, None) BY <1>3, <3>1 DEF Pins
      <4> QED BY <4>2, <4>3 DEF Held
    <3>7. host.slots \in Nat
      <4>1. host \in Hosts BY DEF Undisturbed, Shape, WalkControls
      <4> QED BY <4>1, ImportAssumption
    <3>8. ~ (Held(levels, walk) >= host.slots) BY <1>3, <3>1 DEF Full
    <3> QED BY <3>2, <3>4, <3>5, <3>6, <3>7, <3>8
  <2>4. Windowed(created)' BY <1>1, <1>3
  <2>5. Climbing(created, Depth)'
    <3>1. \A i \in DOMAIN created : created[i].level - 1 <= Depth
      <4> TAKE i \in DOMAIN created
      <4>1. created[i].level \in Levels BY <1>1, LevelTyped
      <4> QED BY <4>1, Sizes
    <3>2. Innermost(created, Depth)' BY <2>3, <2>4 DEF Innermost
    <3> QED BY <1>3, <3>1, <3>2 DEF Climbing
  <2>6. fresh'.node = Path'[Depth] BY <1>1, <2>1, <2>2, PathSame
  <2>7. (\E at \in 0 .. Depth : fresh.node = Path[at] /\ Climbing(created, at))'
    BY <2>1, <2>5, <2>6
  <2>8. IsDirectory(dest') BY <1>3
  <2> QED BY <1>1, <1>3, <2>1, <2>2, <2>7, <2>8, OnwardKept
<1> QED BY <1>2, <1>3 DEF Acquire

LEMMA SyncLevelOn == ASSUME Undisturbed, Shape', SyncLevel, UNCHANGED host PROVE Onwards'
<1>1. /\ pc = "levels" /\ pc' = "levels" /\ cursor <= Len(created) /\ OnPath /\ temp = None
      /\ UNCHANGED <<tree, depth, dest, temp, quarantine>> /\ cursor \in Nat /\ cursor # 0
  BY DEF SyncLevel, Idle, Undisturbed, Onwards, OnPath, Onward, Shape, UndoControls
<1>2. CASE dest = None BY <1>1, <1>2, OnwardKept
<1>3. CASE dest # None
  <2> DEFINE last == Len(created)
  <2>1. /\ OnLevels(created, depth) /\ depth = Depth + 1
        /\ dest = Path[Depth] /\ IsDirectory(dest) /\ quarantine = None
        /\ created \in Seq(LevelRecords) /\ DOMAIN created = 1 .. last /\ last \in Nat
        /\ Recorded(created) /\ Chained(created) /\ host.slots \in Nat
    BY <1>1, <1>3, OnwardParts
  <2>2. SyncedTo(created, cursor) BY <1>1, <1>3 DEF Undisturbed, Onwards
  <2>3. PICK levels : levels = created' OBVIOUS
  <2>4. LetGo(levels, created) BY <2>3, SyncLevelLetsGo DEF Undisturbed
  <2>5. OnLevels(created', depth') BY <1>1, <2>1, <2>3, <2>4, LetGoChained
  <2>6. levels \in Seq(LevelRecords) /\ Len(levels) = last /\ DOMAIN levels = 1 .. last
    BY <2>4 DEF LetGo
  <2>7. cursor \in 1 .. last /\ last \in 1 .. last /\ created # <<>> /\ levels # <<>>
    <3>1. cursor \in 1 .. last /\ last \in 1 .. last /\ last # 0 BY <1>1, <2>1
    <3>2. created # <<>> /\ levels # <<>> BY <2>1, <2>6, <3>1
    <3> QED BY <3>1, <3>2
  <2>8. /\ \A i \in 1 .. last : (i < cursor => created[i].synced) /\ ~Shedded(created[i])
        /\ Held(created, None) <= host.slots
        /\ created[last].own # None \/ Held(created, None) < host.slots
    BY <2>1, <2>2, <2>7 DEF SyncedTo
  <2>9. /\ Pins(levels, None) \subseteq Pins(created, None)
        /\ Held(created, None) \in Nat /\ Held(levels, None) \in Nat
        /\ Held(levels, None) <= Held(created, None)
        /\ Pins(levels, None) # Pins(created, None) => Held(levels, None) < Held(created, None)
    <3>1. Pins(levels, None) \subseteq Pins(created, None) BY <2>1, <2>4, LetGoPins
    <3>2. None \in Pin BY DEF Pin
    <3> QED BY <1>1, <2>1, <2>6, <3>1, <3>2, HeldFewer
  <2> HIDE DEF last
  <2>10. Full(created, None) => Held(created, None) = host.slots /\ created[last].own # None
    BY <2>1, <2>8, <2>9 DEF Full
  <2>11. SUFFICES ASSUME NEW next, next = cursor' PROVE SyncedTo(levels, next)
    <3>1. SyncedTo(created', cursor') => Onwards'
      BY <1>1, <1>3, <2>1, <2>5, SyncsSame, OnwardKept
    <3> QED BY <2>3, <3>1
  <2>12. SUFFICES /\ \A i \in 1 .. last : (i < next => levels[i].synced) /\ ~Shedded(levels[i])
                  /\ Held(levels, None) <= host.slots
                  /\ levels[last].own # None \/ Held(levels, None) < host.slots
    BY <2>6 DEF SyncedTo
  <2>13. ASSUME UNCHANGED created, cursor' = cursor + 1,
                created[cursor].parent = None
                  \/ (Full(created, None) /\ created[Len(created)].own = None)
         PROVE  /\ \A i \in 1 .. last : (i < next => levels[i].synced) /\ ~Shedded(levels[i])
                /\ Held(levels, None) <= host.slots
                /\ levels[last].own # None \/ Held(levels, None) < host.slots
    <3>1. created[cursor].synced
      <4>1. created[cursor].parent = None BY <2>10, <2>13 DEF last
      <4> QED BY <2>7, <2>8, <4>1 DEF Shedded
    <3>2. \A i \in 1 .. last : i < cursor + 1 => i < cursor \/ i = cursor BY <1>1
    <3> QED BY <2>3, <2>8, <2>11, <2>13, <3>1, <3>2
  <2>14. ASSUME created' = [created EXCEPT ![cursor].synced = TRUE], cursor' = cursor + 1
         PROVE  /\ \A i \in 1 .. last : (i < next => levels[i].synced) /\ ~Shedded(levels[i])
                /\ Held(levels, None) <= host.slots
                /\ levels[last].own # None \/ Held(levels, None) < host.slots
    <3>1. \A i \in 1 .. last : /\ levels[i].own = created[i].own /\ levels[i].parent = created[i].parent
                               /\ levels[i].synced = (i = cursor \/ created[i].synced)
      BY <2>1, <2>3, <2>14, OneSynced DEF last
    <3>2. \A i \in 1 .. last : i < cursor + 1 => i < cursor \/ i = cursor BY <1>1
    <3>3. \A i \in 1 .. last : (i < next => levels[i].synced) /\ ~Shedded(levels[i])
      BY <2>8, <2>11, <2>14, <3>1, <3>2 DEF Shedded
    <3>4. Pins(levels, None) = Pins(created, None)
      BY <2>1, <2>6, <3>1 DEF Pins
    <3>5. Held(levels, None) = Held(created, None) BY <3>4 DEF Held
    <3> QED BY <2>7, <2>8, <3>1, <3>3, <3>5
  <2>15. ASSUME NEW m, m = Min({i \in Pinned(created) : i < cursor}),
                {i \in Pinned(created) : i < cursor} # {}, Full(created, None),
                created' = [created EXCEPT ![m].own = None, ![m].parent = None], cursor' = cursor
         PROVE  /\ \A i \in 1 .. last : (i < next => levels[i].synced) /\ ~Shedded(levels[i])
                /\ Held(levels, None) <= host.slots
                /\ levels[last].own # None \/ Held(levels, None) < host.slots
    <3>1. m \in 1 .. last /\ m < cursor
      <4> DEFINE outer == {i \in Pinned(created) : i < cursor}
      <4>1. outer \in SUBSET Nat /\ outer \in SUBSET (1 .. last) BY <2>1 DEF Pinned
      <4>2. Min(outer) \in outer
        <5> HIDE DEF outer
        <5> QED BY <2>15, <4>1, HasMin DEF outer
      <4>3. m \in outer BY <2>15, <4>2
      <4> QED BY <4>1, <4>3
    <3>2. \A i \in 1 .. last :
            /\ levels[i].own = (IF i = m THEN None ELSE created[i].own)
            /\ levels[i].parent = (IF i = m THEN None ELSE created[i].parent)
            /\ levels[i].synced = created[i].synced
      BY <2>1, <2>3, <2>15, TwoClosed DEF last
    <3>3. \A i \in 1 .. last : (i < next => levels[i].synced) /\ ~Shedded(levels[i])
      BY <2>8, <2>11, <2>15, <3>1, <3>2 DEF Shedded
    <3>4. last # m BY <1>1, <2>7, <3>1
    <3>5. levels[last].own # None BY <2>7, <2>10, <2>15, <3>2, <3>4
    <3> QED BY <2>1, <2>8, <2>9, <3>3, <3>5
  <2>16. ASSUME created' = [created EXCEPT ![Len(created)].own = None], cursor' = cursor,
                Full(created, None)
         PROVE  /\ \A i \in 1 .. last : (i < next => levels[i].synced) /\ ~Shedded(levels[i])
                /\ Held(levels, None) <= host.slots
                /\ levels[last].own # None \/ Held(levels, None) < host.slots
    <3>1. \A i \in 1 .. last :
            /\ levels[i].own = (IF i = last THEN None ELSE created[i].own)
            /\ levels[i].parent = created[i].parent /\ levels[i].synced = created[i].synced
      BY <2>1, <2>3, <2>16, OwnClosed DEF last
    <3>2. \A i \in 1 .. last : (i < next => levels[i].synced) /\ ~Shedded(levels[i])
      BY <2>8, <2>11, <2>16, <3>1 DEF Shedded
    <3>3. PICK x : x = created[last].own OBVIOUS
    <3>4. /\ x # None /\ x = created[last].node
          /\ \A i \in 1 .. last : /\ created[i].own \in {None, created[i].node}
                                  /\ created[i].parent \in {None, created[i].parent_node}
      BY <2>1, <2>7, <2>10, <2>16, <3>3 DEF Recorded
    <3>5. x \in Pins(created, None) BY <2>1, <2>7, <3>3, <3>4, PinsAre DEF last
    <3>6. \A i \in 1 .. last : levels[i].own # x /\ levels[i].parent # x
      <4> TAKE i \in 1 .. last
      <4>1. i # last + 1 BY <2>1
      <4>2. created[i].parent_node # x BY <2>1, <2>7, <3>4, <4>1 DEF Chained
      <4>3. i # last => created[i].node # x BY <2>1, <2>7, <3>4 DEF Chained
      <4> QED BY <3>1, <3>4, <4>2, <4>3
    <3>7. x \notin Pins(levels, None) BY <2>6, <3>4, <3>6, PinsAre
    <3>8. Held(levels, None) < Held(created, None) BY <2>9, <3>5, <3>7
    <3> QED BY <2>1, <2>8, <2>9, <3>2, <3>8
  <2> QED BY <2>13, <2>14, <2>15, <2>16 DEF SyncLevel
<1> QED BY <1>2, <1>3

\* The path leads through its root once.
LEMMA RootOnce ==
  ASSUME TreeSound, NEW at \in 0 .. Depth, Path[at] = Root
  PROVE  at = 0
<1> SUFFICES ASSUME at # 0 PROVE FALSE OBVIOUS
<1>1. at \in 1 .. Depth /\ Path[at] # None BY Sizes
<1>2. tree[Path[at]].dir = Path[at - 1] /\ IsDirectory(Path[at - 1]) BY <1>1, PathNode
<1> QED BY <1>2 DEF IsDirectory, TreeSound

\* Two descriptors beside the temporary pack's are the destination's and a pin's.
LEMMA TwoHeld ==
  ASSUME temp = None, quarantine = None, NEW levels, Held(levels, None) >= 2
  PROVE  Pins(levels, None) # {}
<1> SUFFICES ASSUME Pins(levels, None) = {} PROVE FALSE OBVIOUS
<1>1. Cardinality(Pins(levels, None)) = 0 BY FS_EmptySet
<1>2. Held(levels, None) = Cardinality(Pins(levels, None)) + (IF dest = None THEN 0 ELSE 1)
  BY HeldIs
<1> QED BY <1>1, <1>2

\* What a sync in the directory the climb stands in leaves to be synced.
LEMMA ReachedIs ==
  ASSUME NEW levels \in Seq(LevelRecords), Recorded(levels), NEW here, NEW reached,
         \/ reached = SyncedIn(levels, here)
         \/ /\ reached = levels
            /\ \A i \in 1 .. Len(levels) : Shedded(levels[i]) => levels[i].parent_node # here
  PROVE  /\ LetGo(reached, levels) /\ Held(reached, None) = Held(levels, None)
         /\ Windowed(reached) <=> Windowed(levels)
         /\ \A i \in 1 .. Len(levels) :
              /\ reached[i].own = levels[i].own /\ (HasPin(reached[i]) <=> HasPin(levels[i]))
              /\ Shedded(reached[i]) => Shedded(levels[i]) /\ levels[i].parent_node # here
<1>1. CASE reached = SyncedIn(levels, here)
  <2>1. LetGo(reached, levels) BY <1>1, SyncedInLetsGo
  <2>2. \A i \in 1 .. Len(levels) :
          /\ reached[i].own = levels[i].own /\ reached[i].parent = levels[i].parent
          /\ reached[i].synced = (levels[i].synced \/ levels[i].parent_node = here)
    BY <1>1, SyncedInIs
  <2>3. \A i \in 1 .. Len(levels) :
          Shedded(reached[i]) => Shedded(levels[i]) /\ levels[i].parent_node # here
    BY <2>2 DEF Shedded
  <2> QED BY <1>1, <2>1, <2>2, <2>3, SyncedInHolds
<1>2. CASE reached = levels
             /\ \A i \in 1 .. Len(levels) : Shedded(levels[i]) => levels[i].parent_node # here
  BY <1>2, LetGoSelf
<1> QED BY <1>1, <1>2

\* Where the climb stands, it can always go on: a way up needs a descriptor
\* beside the destination's, and as long as a level holds one it is freed.
LEMMA ClimbGoesOn ==
  ASSUME Undisturbed, pc = "climb", dest # None, created # <<>>,
         NEW at \in 0 .. Depth, fresh.node = Path[at], Climbing(created, at),
         NEW levels, levels = SyncedIn(created, fresh.node),
         Held(created, None) + (IF fresh.node = dest THEN 0 ELSE 1) >= host.slots
  PROVE  /\ Held(Release(levels), None) < Held(created, None)
         /\ Innermost(Release(levels), at)
<1> DEFINE n == Len(created)
<1>1. /\ OnLevels(created, depth) /\ depth = Depth + 1
      /\ dest = Path[Depth] /\ temp = None /\ quarantine = None
      /\ created \in Seq(LevelRecords) /\ DOMAIN created = 1 .. n /\ n \in Nat
      /\ Recorded(created) /\ Chained(created) /\ host.slots \in Nat /\ host.slots >= 3
  BY OnwardParts
<1>2. /\ Held(levels, None) = Held(created, None) /\ levels \in Seq(LevelRecords)
      /\ Len(levels) = n /\ Recorded(levels) /\ (Windowed(created) <=> Windowed(levels))
      /\ \A i \in 1 .. n : HasPin(levels[i]) <=> HasPin(created[i])
  BY <1>1, SyncedInHolds
<1>3. /\ \A i \in 1 .. n : /\ levels[i].own = created[i].own
                           /\ levels[i].synced = (created[i].synced \/ created[i].parent_node = fresh.node)
  BY <1>1, SyncedInIs
<1>4. Chained(levels) BY <1>1, SyncedInLetsGo, LetGoChained
<1>5. PICK new : new = Release(levels) OBVIOUS
<1>6. /\ LetGo(new, levels) /\ new \in Seq(LevelRecords)
  <2>1. LetGo(new, levels) BY <1>2, <1>5, ReleaseLetsGo
  <2> QED BY <2>1 DEF LetGo
<1>7. Held(created, None) \in Nat /\ Held(new, None) \in Nat
  <2>1. Pins(new, None) \subseteq Pins(levels, None) BY <1>2, <1>6, LetGoPins
  <2>2. None \in Pin BY DEF Pin
  <2> QED BY <1>1, <1>2, <1>6, <2>1, <2>2, HeldFewer
<1>8. Held(created, None) >= 2 BY <1>1, <1>7
<1>9. Pins(levels, None) # {} BY <1>1, <1>2, <1>8, TwoHeld
<1>10. Depth \in Nat BY Sizes
<1>11. \/ at = Depth /\ Windowed(created) /\ Held(created, None) <= host.slots
       \/ /\ at \in {Depth - 1, Depth} /\ Held(created, None) < host.slots
          /\ \A i \in 1 .. (n - 1) : HasPin(created[i]) => created[i].own # None
       \/ Held(created, None) + 1 < host.slots
  BY DEF Climbing, Innermost
<1> HIDE DEF n
<1>12. CASE at = Depth /\ Windowed(created) /\ Held(created, None) <= host.slots
  <2>1. /\ Held(new, None) < Held(levels, None)
        /\ \A i \in 1 .. (n - 1) : HasPin(new[i]) => new[i].own # None
    BY <1>1, <1>2, <1>4, <1>5, <1>9, <1>12, ReleaseFrees
  <2>2. Len(new) = n BY <1>2, <1>6 DEF LetGo
  <2>3. Held(new, None) < host.slots /\ Held(new, None) < Held(created, None)
    BY <1>1, <1>2, <1>7, <1>12, <2>1
  <2> QED BY <1>5, <1>12, <2>1, <2>2, <2>3 DEF Innermost
<1>13. CASE /\ at \in {Depth - 1, Depth} /\ Held(created, None) < host.slots
            /\ \A i \in 1 .. (n - 1) : HasPin(created[i]) => created[i].own # None
  <2>1. at = Depth - 1 /\ fresh.node # dest
    <3>1. fresh.node # dest BY <1>1, <1>7, <1>13
    <3> QED BY <1>1, <1>13, <3>1
  <2>2. n \in 1 .. n
    <3>1. n # 0 BY <1>1 DEF n
    <3> QED BY <1>1, <3>1
  <2>3. levels[n].synced
    <3>1. created[n].level = ((Depth + 1) - 1) - (n - n)
          /\ created[n].parent_node = Path[created[n].level - 1]
      BY <1>1, <2>2 DEF OnLevels, n
    <3>2. created[n].level = Depth BY <1>1, <1>10, <3>1
    <3> QED BY <1>3, <2>1, <2>2, <3>1, <3>2
  <2>4. \A i \in 1 .. (n - 1) : HasPin(levels[i]) => levels[i].own # None
    <3>1. \A i \in 1 .. (n - 1) : i \in 1 .. n BY <1>1
    <3> QED BY <1>2, <1>3, <1>13, <3>1
  <2>5. Held(new, None) < Held(levels, None)
    BY <1>1, <1>2, <1>4, <1>5, <1>9, <2>3, <2>4, ReleaseFrees
  <2>6. Held(new, None) + 1 < host.slots /\ Held(new, None) < Held(created, None)
    BY <1>1, <1>2, <1>7, <1>13, <2>5
  <2> QED BY <1>5, <2>6 DEF Innermost
<1>14. CASE Held(created, None) + 1 < host.slots BY <1>1, <1>7, <1>14
<1> QED BY <1>11, <1>12, <1>13, <1>14

LEMMA ClimbUndisturbed == ASSUME Undisturbed, Shape', Climb, UNCHANGED host PROVE Onwards'
<1> DEFINE n == Len(created)
<1>1. /\ pc = "climb" /\ dest # None /\ fresh.node # None /\ OnPath
      /\ UNCHANGED <<tree, depth, walk, dest, temp, quarantine>>
      /\ fresh \in [node : Pin, synced : BOOLEAN] /\ TreeSound
  BY DEF Climb, Idle, Undisturbed, Onwards, OnPath, Onward, Shape, WalkControls
<1>2. /\ OnLevels(created, depth) /\ depth = Depth + 1
      /\ dest = Path[Depth] /\ IsDirectory(dest) /\ temp = None /\ quarantine = None
      /\ created \in Seq(LevelRecords) /\ DOMAIN created = 1 .. n /\ n \in Nat
      /\ Recorded(created) /\ Chained(created) /\ host.slots \in Nat /\ host.slots >= 3
  BY <1>1, OnwardParts
<1>3. PICK at \in 0 .. Depth : fresh.node = Path[at] /\ Climbing(created, at)
  BY <1>1 DEF Undisturbed, Onwards
<1>4. PICK here : here = fresh.node OBVIOUS
<1>5. PICK levels : levels = SyncedIn(created, here) OBVIOUS
<1>6. PICK reached : reached = IF \E i \in DOMAIN created :
                                     Shedded(created[i]) /\ created[i].parent_node = here
                               THEN levels ELSE created
  OBVIOUS
<1>7. PICK released : released = Release(levels) OBVIOUS
<1>8. /\ LetGo(reached, created) /\ Held(reached, None) = Held(created, None)
      /\ Windowed(reached) <=> Windowed(created)
      /\ \A i \in 1 .. n :
           /\ reached[i].own = created[i].own /\ (HasPin(reached[i]) <=> HasPin(created[i]))
           /\ Shedded(reached[i]) => Shedded(created[i]) /\ created[i].parent_node # here
  <2>1. \/ reached = SyncedIn(created, here)
        \/ /\ reached = created
           /\ \A i \in 1 .. n : Shedded(created[i]) => created[i].parent_node # here
    BY <1>2, <1>5, <1>6
  <2> QED BY <1>2, <2>1, ReachedIs
<1>9. /\ LetGo(levels, created) /\ LetGo(released, levels)
      /\ \A i \in 1 .. n : Shedded(released[i]) => Shedded(created[i])
  <2>1. LetGo(levels, created) BY <1>2, <1>5, SyncedInLetsGo
  <2>2. levels \in Seq(LevelRecords) /\ Len(levels) = n BY <2>1 DEF LetGo
  <2>3. LetGo(released, levels)
        /\ \A j \in 1 .. n : /\ released[j].synced = levels[j].synced
                             /\ ~levels[j].synced => released[j].parent = levels[j].parent
    BY <1>7, <2>2, ReleaseIs
  <2>4. \A i \in 1 .. n : /\ levels[i].parent = created[i].parent
                          /\ levels[i].synced = (created[i].synced \/ created[i].parent_node = here)
    BY <1>2, <1>5, SyncedInIs
  <2> QED BY <2>1, <2>3, <2>4 DEF Shedded
<1>10. /\ Len(reached) = n /\ DOMAIN reached = 1 .. n /\ OnLevels(reached, depth)
       /\ Len(released) = n /\ DOMAIN released = 1 .. n /\ OnLevels(released, depth)
  <2>1. LetGo(released, created) BY <1>9, LetGoTwice
  <2>2. OnLevels(reached, depth) /\ OnLevels(released, depth)
    BY <1>2, <1>8, <2>1, LetGoChained
  <2> QED BY <1>8, <2>1, <2>2 DEF LetGo
<1>11. Held(created, None) \in Nat /\ Held(created, None) <= host.slots
  <2>1. None \in Pin BY DEF Pin
  <2>2. Held(created, None) \in Nat BY <1>2, <2>1, HeldFewer
  <2> QED BY <1>2, <1>3, <2>2 DEF Climbing, Innermost
<1>12. \A i \in 1 .. n : /\ created[i].level \in 1 .. Depth
                         /\ created[i].parent_node = Path[created[i].level - 1]
                         /\ Shedded(created[i]) => created[i].level - 1 <= at
  BY <1>2, <1>3, LevelTyped, Sizes DEF OnLevels, Climbing
<1>13. at \in Nat /\ Depth \in Nat /\ Depth # 0 BY Sizes
<1>14. \A i \in 1 .. n : Shedded(reached[i]) => created[i].level - 1 <= at - 1
  <2> SUFFICES ASSUME NEW i \in 1 .. n, Shedded(reached[i]) PROVE created[i].level - 1 <= at - 1
    OBVIOUS
  <2>1. created[i].level - 1 <= at /\ created[i].parent_node # Path[at]
    BY <1>3, <1>4, <1>8, <1>12
  <2>2. created[i].level - 1 # at BY <1>12, <2>1
  <2>3. PICK l \in 1 .. Depth : l = created[i].level BY <1>12
  <2>4. l - 1 <= at /\ l - 1 # at BY <2>1, <2>2, <2>3
  <2>5. l - 1 <= at - 1 BY <1>13, <2>4
  <2> QED BY <2>3, <2>5
<1>15. (here = Root \/ ~Stands(here)) => at = 0
  <2>1. here = Path[at] /\ Path[at] # None BY <1>1, <1>3, <1>4
  <2>2. Stands(here) BY <2>1, PathStands
  <2> QED BY <1>1, <2>1, <2>2, RootOnce
<1> HIDE DEF n
<1>16. ASSUME ~Pending(reached) \/ here = Root \/ ~Stands(here), Descend(reached)
       PROVE  Onwards'
  <2>1. \A i \in 1 .. n : ~Shedded(reached[i])
    <3>1. CASE ~Pending(reached) BY <1>10, <3>1 DEF Pending
    <3>2. CASE here = Root \/ ~Stands(here)
      <4>1. at = 0 BY <1>15, <3>2
      <4> QED BY <1>12, <1>14, <4>1
    <3> QED BY <1>16, <3>1, <3>2
  <2>2. reached # <<>> => reached[n].own # None \/ Held(reached, None) < host.slots
    <3> SUFFICES ASSUME reached # <<>>, Held(created, None) = host.slots
                 PROVE  reached[n].own # None
      BY <1>2, <1>8, <1>11
    <3>1. Windowed(created) BY <1>2, <1>3 DEF Climbing, Innermost
    <3>2. Held(created, None) >= 2 BY <1>2
    <3>3. Pins(created, None) # {} BY <1>2, <3>2, TwoHeld
    <3>4. PICK x \in Pins(created, None) : x # None BY <3>3 DEF Pins
    <3>5. PICK k \in 1 .. n : HasPin(created[k]) BY <1>2, <3>4, PinsAre DEF HasPin, n
    <3>6. n \in k .. n /\ n \in 1 .. n BY <1>2
    <3>7. created[n].own = created[n].node BY <1>2, <3>1, <3>5, <3>6 DEF Windowed, BothPins, n
    <3>8. created[n].node # None BY <1>2, <3>6, LevelTyped, Sizes DEF n
    <3> QED BY <1>8, <3>6, <3>7, <3>8
  <2>3. SyncedTo(reached, 1)
    <3>1. \A i \in 1 .. n : ~ (i < 1) OBVIOUS
    <3> QED BY <1>8, <1>10, <1>11, <2>1, <2>2, <3>1 DEF SyncedTo
  <2>4. created' = reached /\ pc' = "levels" /\ cursor' = 1 BY <1>16 DEF Descend
  <2>5. SyncedTo(created', cursor') BY <2>3, <2>4
  <2>6. SyncedTo(created, cursor)' BY <1>1, <2>5, SyncsSame
  <2>7. OnLevels(created', depth') BY <1>1, <1>10, <2>4
  <2> QED BY <1>1, <1>2, <2>4, <2>6, <2>7, OnwardKept
<1>17. ASSUME NEW up, NEW above \in 0 .. Depth, up = Path[above], NEW to, LetGo(to, created),
              Climbing(to, above), ClimbOn(to, up)
       PROVE  Onwards'
  <2>1. created' = to /\ fresh' = [fresh EXCEPT !.node = up] /\ UNCHANGED pc
    BY <1>17 DEF ClimbOn
  <2>2. fresh'.node = up BY <1>1, <2>1
  <2>3. Climbing(created', above) BY <1>17, <2>1
  <2>4. Climbing(created, above)' BY <1>1, <2>3, SyncsSame
  <2>5. fresh'.node = Path'[above] BY <1>1, <1>17, <2>2, PathSame
  <2>6. (\E k \in 0 .. Depth : fresh.node = Path[k] /\ Climbing(created, k))' BY <2>4, <2>5
  <2>7. OnLevels(to, depth) BY <1>2, <1>17, LetGoChained
  <2>8. OnLevels(created', depth') BY <1>1, <2>1, <2>7
  <2> QED BY <1>1, <1>2, <2>1, <2>6, <2>8, OnwardKept
<1>18. ASSUME here # Root, ~NoWayUp(reached), ClimbOn(reached, tree[here].dir), Pending(reached)
       PROVE  Onwards'
  <2>1. at # 0 BY <1>3, <1>4, <1>18, PathDefined
  <2>2. at \in 1 .. Depth /\ at - 1 \in 0 .. Depth BY <1>13, <2>1
  <2>3. tree[here].dir = Path[at - 1] BY <1>1, <1>3, <1>4, <2>2, PathNode
  <2>4. n # 0 /\ n \in 1 .. n
    <3>1. n # 0 BY <1>10, <1>18 DEF Pending
    <3> QED BY <1>2, <3>1
  <2>5. ~ (Held(created, None) + (IF here = dest THEN 0 ELSE 1) >= host.slots)
    BY <1>4, <1>8, <1>18 DEF NoWayUp
  <2>6. Innermost(reached, at - 1)
    <3>1. CASE Held(created, None) + 1 < host.slots BY <1>8, <3>1 DEF Innermost
    <3>2. CASE ~ (Held(created, None) + 1 < host.slots)
      <4>1. here = dest /\ Held(created, None) < host.slots BY <1>2, <1>11, <2>5, <3>2
      <4>2. \/ at = Depth /\ Windowed(created)
            \/ /\ at \in {Depth - 1, Depth}
               /\ \A i \in 1 .. (n - 1) : HasPin(created[i]) => created[i].own # None
        BY <1>3, <3>2 DEF Climbing, Innermost, n
      <4>3. at # Depth - 1
        <5> SUFFICES ASSUME at = Depth - 1 PROVE FALSE OBVIOUS
        <5>1. created[n].level = ((Depth + 1) - 1) - (n - n)
              /\ created[n].parent_node = Path[created[n].level - 1]
              /\ created[n].node = Path[created[n].level]
          BY <1>2, <2>4 DEF OnLevels, n
        <5>2. created[n].level = Depth BY <1>2, <1>13, <5>1
        <5>3. created[n].parent_node = created[n].node BY <1>2, <1>3, <1>4, <4>1, <5>1, <5>2
        <5>4. created[n].parent_node < created[n].node
          BY <1>2, <2>4 DEF Undisturbed, Orderly, Ordered
        <5>5. created[n].node \in Int BY <1>2, <2>4, LevelTyped, Sizes DEF n
        <5> QED BY <5>3, <5>4, <5>5
      <4>4. at = Depth /\ \A i \in 1 .. (n - 1) : HasPin(created[i]) => created[i].own # None
        <5>1. CASE Windowed(created)
          <6>1. ASSUME NEW i \in 1 .. (n - 1), HasPin(created[i]) PROVE created[i].own # None
            <7>1. i \in 1 .. n /\ i \in i .. n BY <1>2
            <7>2. created[i].own = created[i].node
              BY <1>2, <5>1, <6>1, <7>1 DEF Windowed, BothPins, n
            <7>3. created[i].node # None BY <1>2, <7>1, LevelTyped, Sizes DEF n
            <7> QED BY <7>2, <7>3
          <6> QED BY <4>2, <4>3, <6>1
        <5> QED BY <4>2, <4>3, <5>1
      <4>5. \A i \in 1 .. (n - 1) : HasPin(reached[i]) => reached[i].own # None
        <5>1. \A i \in 1 .. (n - 1) : i \in 1 .. n BY <1>2
        <5> QED BY <1>8, <4>4, <5>1
      <4> QED BY <1>8, <1>10, <4>1, <4>4, <4>5 DEF Innermost
    <3> QED BY <3>1, <3>2
  <2>7. Climbing(reached, at - 1)
    <3>1. \A i \in 1 .. n : reached[i].level = created[i].level BY <1>8 DEF LetGo, n
    <3> QED BY <1>10, <1>14, <2>6, <3>1 DEF Climbing
  <2> QED BY <1>8, <1>17, <1>18, <2>2, <2>3, <2>7
<1>19. ASSUME Pending(reached), NoWayUp(reached)
       PROVE  Held(released, None) < Held(created, None) /\ Climbing(released, at)
  <2>1. created # <<>>
    <3>1. n # 0 BY <1>2, <1>10, <1>19 DEF Pending
    <3> QED BY <3>1 DEF n
  <2>2. Held(created, None) + (IF fresh.node = dest THEN 0 ELSE 1) >= host.slots
    BY <1>8, <1>19 DEF NoWayUp
  <2>3. Held(released, None) < Held(created, None) /\ Innermost(released, at)
    BY <1>1, <1>3, <1>4, <1>5, <1>7, <2>1, <2>2, ClimbGoesOn
  <2>4. \A i \in 1 .. n : released[i].level = created[i].level BY <1>9 DEF LetGo, n
  <2>5. \A i \in 1 .. n : Shedded(released[i]) => released[i].level - 1 <= at
    BY <1>9, <1>12, <2>4
  <2> QED BY <1>10, <2>3, <2>5 DEF Climbing
<1>20. ASSUME Pending(reached), NoWayUp(reached), ClimbOn(released, here) PROVE Onwards'
  <2>1. LetGo(released, created) BY <1>9, LetGoTwice
  <2> QED BY <1>3, <1>4, <1>17, <1>19, <1>20, <2>1
<1>21. \/ (~Pending(reached) \/ here = Root \/ ~Stands(here)) /\ Descend(reached)
       \/ /\ Pending(reached) /\ here # Root /\ ~NoWayUp(reached)
          /\ ClimbOn(reached, tree[here].dir)
       \/ /\ Pending(reached) /\ NoWayUp(reached) /\ Held(released, None) = Held(created, None)
       \/ Pending(reached) /\ NoWayUp(reached) /\ ClimbOn(released, here)
  BY <1>4, <1>5, <1>6, <1>7 DEF Climb
<1>22. Pending(reached) /\ NoWayUp(reached) => Held(released, None) # Held(created, None)
  <2> SUFFICES ASSUME Pending(reached), NoWayUp(reached),
                      Held(released, None) = Held(created, None)
               PROVE  FALSE
    OBVIOUS
  <2>1. Held(released, None) < Held(created, None) BY <1>19
  <2> QED BY <1>11, <2>1
<1> QED BY <1>16, <1>18, <1>20, <1>21, <1>22

---------------------------------------------------------------------------
(* The pack, undisturbed.                                                  *)

LEMMA CheckNameOn == ASSUME Undisturbed, Shape', CheckName, UNCHANGED host PROVE Onwards'
<1>1. /\ pc = "levels" /\ cursor > Len(created) /\ UNCHANGED <<tree, depth, dest, temp, quarantine>>
      /\ OnPath /\ temp = None
  BY DEF CheckName, Idle, Undisturbed, Onwards, OnPath, Onward
<1>2. CASE Fails BY <1>2, FailsOff
<1>3. CASE dest # None /\ pc' = "temporary" /\ UNCHANGED created
  <2>1. /\ OnLevels(created, depth) /\ dest = Path[Depth] /\ IsDirectory(dest)
        /\ DOMAIN created = 1 .. Len(created) /\ Len(created) \in Nat
    BY <1>1, <1>3, OnwardParts
  <2>2. SyncedTo(created, cursor) /\ cursor \in Int
    BY <1>1, <1>3, Sizes DEF Undisturbed, Onwards, Shape, UndoControls
  <2>3. \A i \in DOMAIN created : created[i].synced
    <3>1. \A i \in DOMAIN created : i < cursor BY <1>1, <2>1, <2>2
    <3> QED BY <2>2, <3>1 DEF SyncedTo
  <2> QED BY <1>1, <1>3, <2>1, <2>3, OnwardKept
<1> QED BY <1>2, <1>3 DEF CheckName

\* From the temporary pack to its publication the path and the syncs stay.
LEMMA PackKept ==
  ASSUME Undisturbed, Shape', pc \in {"temporary", "assemble", "publish"},
         pc' \in {"assemble", "publish", "done"}, UNCHANGED <<depth, created, dest>>,
         \A n \in Nodes : Stands(n) /\ tree[n].kind = "directory" =>
           /\ tree'[n].dir = tree[n].dir /\ tree'[n].name = tree[n].name
           /\ tree'[n].kind = tree[n].kind,
         pc' = "publish" => tree'[temp'].kind = "pack",
         pc' = "done" => /\ temp \in Nodes /\ tree'[temp].kind = "pack"
                         /\ tree'[temp].dir = dest /\ tree'[temp].name = "pack"
  PROVE  Onwards'
<1>1. /\ OnPath /\ OnLevels(created, depth) /\ depth = Depth + 1 /\ dest # None
      /\ dest = Path[Depth] /\ IsDirectory(dest)
      /\ \A i \in DOMAIN created : created[i].synced
  BY DEF Undisturbed, Onwards, OnPath, Onward
<1>2. Depth \in 0 .. Depth /\ depth \in 1 .. (Depth + 1) /\ (Depth + 1) - 1 = Depth
  BY <1>1, Sizes
<1>3. /\ \A k \in 0 .. Depth : Path'[k] = Path[k]
      /\ IsDirectory(Path[Depth])' /\ Path'[Depth] = Path[Depth]
  <2>1. PICK m : m = Depth OBVIOUS
  <2>2. IsDirectory(Path[m]) /\ m \in 0 .. Depth /\ TreeSound' BY <1>1, <1>2, <2>1 DEF Shape
  <2>3. /\ \A k \in 0 .. m : Path'[k] = Path[k]
        /\ IsDirectory(Path[m])' /\ Path'[m] = Path[m]
    BY <2>2, PathKept
  <2> QED BY <2>1, <2>3 DEF IsDirectory
<1>4. dest' = Path'[Depth] /\ IsDirectory(dest)' /\ dest' # None
  BY <1>1, <1>3 DEF IsDirectory
<1>5. OnPath' BY <1>1, <1>4 DEF OnPath, Inward, Onward, Walking
<1>6. OnLevels(created, depth)'
  <2>1. SUFFICES ASSUME NEW levels, NEW next, levels = created, next = depth
                 PROVE  OnLevels(created, depth)'
    OBVIOUS
  <2>2. /\ Recorded(levels) /\ DOMAIN levels = 1 .. Len(levels) /\ levels \in Seq(LevelRecords)
        /\ next \in 1 .. (Depth + 1)
    BY <1>2, <2>1, CreatedTyped DEF Undisturbed
  <2>3. \A i \in DOMAIN levels : levels[i].level < next
    <3> TAKE i \in DOMAIN levels
    <3>1. levels[i].level \in Levels BY <2>2, LevelTyped
    <3> QED BY <1>1, <2>1, <3>1, Sizes
  <2>4. \A k \in 0 .. (next - 1) : Path'[k] = Path[k] BY <1>1, <1>2, <1>3, <2>1
  <2>5. OnLevels(levels, next)' BY <1>1, <2>1, <2>2, <2>3, <2>4, LevelsKept
  <2> QED BY <2>1, <2>5 DEF OnLevels
<1>7. pc' = "done" => tree'[Entry(Path[Depth], "pack")'].kind = "pack"
  <2> SUFFICES ASSUME pc' = "done" PROVE tree'[Entry(Path[Depth], "pack")'].kind = "pack"
    OBVIOUS
  <2>1. "pack" # Away BY DEF Away
  <2>2. PICK dir : dir = dest OBVIOUS
  <2>3. Entry(dir, "pack")' = temp BY <1>1, <2>1, <2>2, EntryIsNext DEF Shape
  <2>4. Entry(Path[Depth], "pack")' = Entry(dir, "pack")' BY <1>1, <1>3, <2>2 DEF Entry, Children
  <2> QED BY <2>3, <2>4
<1> QED BY <1>1, <1>5, <1>6, <1>7 DEF Onwards, Inward, Onward, Walking

LEMMA CreateTemporaryOn ==
  ASSUME Undisturbed, Shape', CreateTemporary
  PROVE  Onwards'
<1>1. pc = "temporary" /\ UNCHANGED <<depth, dest>> BY DEF CreateTemporary
<1>2. CASE Fails BY <1>2, FailsOff
<1>3. ASSUME Vacant(dest, "temporary"), pc' = "assemble", UNCHANGED created,
             Put(NewNode, Node(dest, "temporary", "unfinished", "temporary"))
      PROVE  Onwards'
  <2>1. PICK k \in Nodes :
          tree[k] = Unused /\ \A n \in Nodes : n # k => tree'[n] = tree[n]
    BY <1>1, <1>3, TemporaryEffect DEF Undisturbed
  <2>2. \A n \in Nodes : Stands(n) => tree'[n] = tree[n]
    <3> SUFFICES ASSUME NEW n \in Nodes, Stands(n) PROVE n # k BY <2>1
    <3>1. tree[n].maker # "nobody" BY UsedNode DEF Undisturbed, Shape
    <3> QED BY <2>1, <3>1, UnusedFields
  <2> QED BY <1>1, <1>3, <2>2, PackKept
<1> QED BY <1>2, <1>3 DEF CreateTemporary

LEMMA AssembleOn == ASSUME Undisturbed, Shape', Assemble PROVE Onwards'
<1>1. pc = "assemble" /\ UNCHANGED <<depth, created, dest, temp>> BY DEF Assemble
<1>2. /\ temp \in Nodes /\ tree[temp].kind # "directory" /\ tree[temp] \in Things
      /\ tree \in [Nodes -> Things]
  BY <1>1 DEF Undisturbed, Shape, UndoControls, PackControls, Pin, TreeSound
<1>3. CASE pc' = "discard" BY <1>3, OffTheWay DEF Inward, Onward, Walking
<1>4. CASE tree' = [tree EXCEPT ![temp].kind = "pack"] /\ pc' = "publish"
  <2>1. SUFFICES ASSUME NEW r, r = [tree[temp] EXCEPT !.kind = "pack"],
                        tree' = [tree EXCEPT ![temp] = r]
                 PROVE  Onwards'
    BY <1>4
  <2>2. r.kind = "pack" BY <1>2, <2>1 DEF Things
  <2>3. tree'[temp] = r /\ \A n \in Nodes : n # temp => tree'[n] = tree[n] BY <1>2, <2>1
  <2> QED BY <1>1, <1>2, <1>4, <2>2, <2>3, PackKept
<1> QED BY <1>3, <1>4 DEF Assemble

LEMMA PublishOn == ASSUME Undisturbed, Shape', Publish PROVE Onwards'
<1>1. pc = "publish" /\ UNCHANGED <<depth, created, dest, temp>> BY DEF Publish
<1>2. /\ temp \in Nodes /\ tree[temp].kind = "pack" /\ tree[temp] \in Things
      /\ tree[temp].dir = dest /\ tree \in [Nodes -> Things]
  BY <1>1 DEF Undisturbed, Onwards, Shape, UndoControls, PackControls, Pin, TreeSound
<1>3. CASE pc' = "discard" BY <1>3, OffTheWay DEF Inward, Onward, Walking
<1>4. ASSUME NEW replaced, replaced = Entry(dest, "pack"), ~IsDirectory(replaced), pc' = "done",
             tree' = [n \in Nodes |->
                IF n = temp THEN [tree[n] EXCEPT !.name = "pack"]
                ELSE IF n = replaced THEN [tree[n] EXCEPT !.dir = None] ELSE tree[n]]
      PROVE  Onwards'
  <2>1. tree'[temp] = [tree[temp] EXCEPT !.name = "pack"]
        /\ \A n \in Nodes : n \notin {temp, replaced} => tree'[n] = tree[n]
    BY <1>2, <1>4
  <2>2. /\ tree'[temp].kind = "pack" /\ tree'[temp].dir = dest /\ tree'[temp].name = "pack"
    BY <1>2, <2>1 DEF Things
  <2>3. \A n \in Nodes : tree[n].kind = "directory" => n \notin {temp, replaced}
    BY <1>2, <1>4, Sizes DEF IsDirectory
  <2> QED BY <1>1, <1>2, <1>4, <2>1, <2>2, <2>3, PackKept
<1> QED BY <1>3, <1>4 DEF Publish

---------------------------------------------------------------------------

\* What takes levels back does nothing else.
LEMMA EndingStays ==
  ASSUME \/ Discard \/ LookUp \/ Claim \/ Vouch \/ Capture \/ CheckCapture \/ UnlinkCapture
         \/ PutBack \/ Tidy \/ RemoveQuarantine
  PROVE  pc' \in Ending
<1>1. CASE Discard \/ CheckCapture \/ Tidy \/ RemoveQuarantine
  BY <1>1 DEF Discard, Fails, TakeBack, CheckCapture, Tidy, RemoveQuarantine, Ending, Backing
<1>2. CASE LookUp BY <1>2 DEF LookUp, Stop, NextOut, Ending, Backing
<1>3. CASE Claim BY <1>3 DEF Claim, Stop, Ending, Backing
<1>4. CASE Vouch BY <1>4 DEF Vouch, Ending, Backing
<1>5. CASE Capture BY <1>5 DEF Capture, Stop, NextOut, Ending, Backing
<1>6. CASE UnlinkCapture BY <1>6 DEF UnlinkCapture, NextOut, Ending, Backing
<1>7. CASE PutBack BY <1>7 DEF PutBack, Stop, NextOut, Ending, Backing
<1> QED BY <1>1, <1>2, <1>3, <1>4, <1>5, <1>6, <1>7

\* Every step on the way on.
LEMMA ImportOn ==
  ASSUME Undisturbed, Shape', Import, pc' \in Inward \union Onward => Orderly' \/ pc' = "done"
  PROVE  Onwards'
<1>1. UNCHANGED host BY DEF Import
<1>2. CASE \/ Survey \/ OpenStart \/ MakeLevel \/ OpenExisting \/ Identify \/ SyncEntry
           \/ GiveUpPin
  BY <1>1, <1>2, SurveyOn, OpenStartOn, MakeLevelOn, OpenExistingOn, IdentifyOn, GiveUpPinOn
<1>3. CASE Reopen
  <2>1. CASE pc' \in Inward \union Onward /\ pc' # "done" BY <1>1, <1>3, <2>1, ReopenOn
  <2>2. CASE pc' \notin Inward \union Onward BY <2>2, OffTheWay
  <2>3. pc' # "done"
    <3>1. pc' \in {"undo", "acquire", "make"} BY <1>3 DEF Reopen, TakeBack, Fails, NextLevel
    <3> QED BY <3>1
  <2> QED BY <2>1, <2>2, <2>3
<1>4. CASE \/ Acquire \/ Climb \/ SyncLevel \/ CheckName \/ CreateTemporary \/ Assemble
           \/ Publish
  BY <1>1, <1>4, AcquireOn, ClimbUndisturbed, SyncLevelOn, CheckNameOn, CreateTemporaryOn,
     AssembleOn, PublishOn
<1>5. CASE \/ Discard \/ LookUp \/ Claim \/ Vouch \/ Capture \/ CheckCapture \/ UnlinkCapture
           \/ PutBack \/ Tidy \/ RemoveQuarantine
  <2>1. pc' \in Ending BY <1>5, EndingStays
  <2> QED BY <2>1, OffTheWay DEF Ending, Backing, Inward, Onward, Walking
<1> QED BY <1>2, <1>3, <1>4, <1>5 DEF Import

LEMMA DurableInit == Init => DurableInv
<1> SUFFICES ASSUME Init PROVE Onwards BY DEF DurableInv
<1>1. /\ pc = "survey" /\ created = <<>> /\ walk = None /\ dest = None /\ temp = None
  BY DEF Init
<1>2. OnPath BY <1>1 DEF OnPath, Inward, Onward, Walking
<1>3. OnLevels(created, depth) /\ Windowed(created) BY <1>1 DEF OnLevels, Windowed
<1> QED BY <1>1, <1>2, <1>3 DEF Onwards, Inward, Onward, Walking

LEMMA DurableStep ==
  ImportIInv /\ ImportIInv' /\ OrderInv /\ OrderInv' /\ DurableInv /\ [Next]_vars => DurableInv'
<1> SUFFICES ASSUME ImportIInv, ImportIInv', OrderInv, OrderInv', DurableInv, [Next]_vars,
                    upsets' = 0, host'.slots >= ClimbSlots
             PROVE  Onwards'
  BY DEF DurableInv, ClimbSlots
<1>1. \A p \in Inward \union Onward : p \notin Ending
  BY DEF Inward, Onward, Walking, Ending, Backing
<1>2. CASE Import
  <2>1. UNCHANGED <<host, upsets>> BY <1>2 DEF Import
  <2>2. Onwards BY <2>1 DEF DurableInv
  <2>3. CASE pc' \notin Inward \union Onward BY <2>3, OffTheWay
  <2>4. CASE pc' \in Inward \union Onward
    <3>1. pc \notin Ending
      <4> SUFFICES ASSUME pc \in Ending PROVE FALSE OBVIOUS
      <4>1. LookUp \/ Claim \/ Vouch \/ Capture \/ CheckCapture \/ UnlinkCapture \/ PutBack
            \/ Tidy \/ RemoveQuarantine
        BY <1>2 DEF Import, Ending, Backing, Survey, OpenStart, MakeLevel, OpenExisting, Identify,
           SyncEntry, Reopen, GiveUpPin, Acquire, Climb, SyncLevel, CheckName, CreateTemporary,
           Assemble, Publish, Discard
      <4>2. pc' \in Ending BY <4>1, EndingStays
      <4> QED BY <1>1, <2>4, <4>2
    <3>2. pc # "done"
      BY <1>2 DEF Import, Survey, OpenStart, MakeLevel, OpenExisting, Identify, SyncEntry,
         Reopen, GiveUpPin, Acquire, Climb, SyncLevel, CheckName, CreateTemporary, Assemble,
         Publish, Discard, LookUp, Claim, Vouch, Capture, CheckCapture, UnlinkCapture, PutBack,
         Tidy, RemoveQuarantine
    <3>3. Orderly BY <2>1, <3>1, <3>2 DEF OrderInv, Clean
    <3>4. Orderly' \/ pc' = "done" BY <1>1, <2>4 DEF OrderInv, Clean
    <3>5. Undisturbed BY <2>1, <2>2, <3>3 DEF Undisturbed, ImportIInv, ClimbSlots
    <3> QED BY <1>2, <3>4, <3>5, ImportOn DEF ImportIInv
  <2> QED BY <2>3, <2>4
<1>3. CASE Other
  <2>1. \E dir : Upset(dir) BY <1>3 DEF Other, TakeName, CarryOff, Swap, RemoveEmpty
  <2>2. upsets' = upsets + 1 /\ upsets \in Nat BY <2>1, UpsetRoom DEF ImportIInv
  <2> QED BY <2>2
<1>4. CASE UNCHANGED vars
  <2>1. UNCHANGED <<tree, host, pc, depth, walk, fresh, created, dest, temp, cursor, quarantine, upsets>>
    BY <1>4 DEF vars, progress, undoing
  <2>2. Onwards BY <2>1 DEF DurableInv
  <2>3. /\ Path' = Path /\ Entry(walk, AtLevel)' = Entry(walk, AtLevel)
        /\ Children(Entry(walk, AtLevel))' = Children(Entry(walk, AtLevel))
    BY <2>1, PathSame, EntrySame
  <2>4. OnPath => OnPath' BY <2>1, <2>3 DEF OnPath, IsDirectory
  <2>5. OnLevels(created, depth) => OnLevels(created, depth)' BY <2>1, LevelsSame
  <2>6. /\ SyncedTo(created, cursor) => SyncedTo(created, cursor)'
        /\ \A at \in 0 .. Depth : Climbing(created, at) => Climbing(created, at)'
    BY <2>1, SyncsSame
  <2>7. Entry(Path[Depth], "pack")' = Entry(Path[Depth], "pack")
    BY <2>1, <2>3 DEF Entry, Children
  <2> QED BY <2>1, <2>2, <2>3, <2>4, <2>5, <2>6, <2>7 DEF Onwards
<1> QED BY <1>2, <1>3, <1>4 DEF Next

\* A descriptor or pin that runs out costs a level's take-back, never its sync:
\* for a path of any depth, any budget of pins and any three descriptors or
\* more, when an import that nobody disturbed is done, the entry of every level
\* it made is on the disk and the path leads to a whole pack
\* (import_rom/created_dirs/sync.rs, `sync_created_directories`).
THEOREM FinishedIsDurable == Spec => []DoneIsDurable
<1>1. DurableInv => DoneIsDurable
  <2> SUFFICES ASSUME DurableInv, pc = "done", upsets = 0, host.slots >= ClimbSlots
               PROVE  /\ \A i \in DOMAIN created : created[i].synced
                      /\ tree[Entry(Path[Depth], "pack")].kind = "pack"
    BY DEF DoneIsDurable
  <2> QED BY DEF DurableInv, Onwards
<1>2. Spec => []OrderInv BY OrderInit, OrderStep, ImportIInvAlways, PTL DEF Spec
<1>3. Spec => []DurableInv
  BY <1>2, DurableInit, DurableStep, ImportIInvAlways, PTL DEF Spec
<1> QED BY <1>1, <1>3, PTL
=============================================================================
