-------------------------- MODULE BattleTurn_proofs --------------------------
(***************************************************************************)
(* Theorems of BattleTurn for parties of any size, any HP, any number of   *)
(* attempts of a series and of prompts of an award.                        *)
(***************************************************************************)
EXTENDS BattleTurn, SequenceTheorems, FiniteSetTheorems, WellFoundedInduction, TLAPS

---------------------------------------------------------------------------
(* Sequences.                                                              *)

LEMMA ShortLists ==
  \A a, b, c :
         /\ <<a>> \o <<b>> = <<a, b>>
         /\ <<a, b>> \o <<c>> = <<a, b, c>>
         /\ <<a>> \o << >> = <<a>> /\ << >> \o <<a>> = <<a>> /\ <<a, b>> \o << >> = <<a, b>>
<1> TAKE a, b, c
<1> DEFINE T == {a, b, c}
<1> a \in T /\ b \in T /\ c \in T
  OBVIOUS
<1> HIDE DEF T
<1>0. /\ <<a>> \in Seq(T) /\ <<b>> \in Seq(T) /\ <<c>> \in Seq(T) /\ <<a, b>> \in Seq(T)
      /\ <<a, b, c>> \in Seq(T) /\ << >> \in Seq(T)
      /\ Len(<<a>>) = 1 /\ Len(<<b>>) = 1 /\ Len(<<c>>) = 1 /\ Len(<<a, b>>) = 2 /\ Len(<<a, b, c>>) = 3
  OBVIOUS
<1>1. <<a>> \o <<b>> = <<a, b>>
  <2>1. /\ <<a>> \o <<b>> \in Seq(T) /\ Len(<<a>> \o <<b>>) = 2
        /\ \A i \in 1 .. 2 : (<<a>> \o <<b>>)[i] = IF i <= 1 THEN <<a>>[i] ELSE <<b>>[i - 1]
    BY <1>0, ConcatProperties
  <2>2. \A i \in 1 .. 2 : (<<a>> \o <<b>>)[i] = <<a, b>>[i]
    BY <2>1
  <2> QED
    BY <1>0, <2>1, <2>2, SeqEqual
<1>2. <<a, b>> \o <<c>> = <<a, b, c>>
  <2>1. /\ <<a, b>> \o <<c>> \in Seq(T) /\ Len(<<a, b>> \o <<c>>) = 3
        /\ \A i \in 1 .. 3 : (<<a, b>> \o <<c>>)[i] = IF i <= 2 THEN <<a, b>>[i] ELSE <<c>>[i - 2]
    BY <1>0, ConcatProperties
  <2>2. \A i \in 1 .. 3 : (<<a, b>> \o <<c>>)[i] = <<a, b, c>>[i]
    BY <2>1
  <2> QED
    BY <1>0, <2>1, <2>2, SeqEqual
<1>3. <<a>> \o << >> = <<a>> /\ << >> \o <<a>> = <<a>> /\ <<a, b>> \o << >> = <<a, b>>
  BY <1>0, ConcatEmptySeq
<1> QED
  BY <1>1, <1>2, <1>3

\* Any set of positions has a first one.
LEMMA FirstOf ==
  ASSUME NEW S \in SUBSET Nat, S # {}
  PROVE  \E i \in S : \A j \in S : i <= j
<1>1. \E i \in S : \A j \in S : ~(<<j, i>> \in OpToRel(<, Nat))
  BY WFMin, NatLessThanWellFounded
<1>2. \A i, j \in Nat : j < i => <<j, i>> \in OpToRel(<, Nat)
  <2> TAKE i, j \in Nat
  <2> HAVE j < i
  <2>1. <<j, i>> \in Nat \X Nat /\ <<j, i>>[1] < <<j, i>>[2]
    OBVIOUS
  <2> QED
    BY <2>1 DEF OpToRel
<1>3. \A i, j \in Nat : ~(j < i) => i <= j
  OBVIOUS
<1> QED
  BY <1>1, <1>2, <1>3

\* A party in order: the bench with the active member at its own position.
Filed(b, k, a) == SubSeq(b, 1, k) \o <<a>> \o SubSeq(b, k + 1, Len(b))

LEMMA FiledAt ==
  ASSUME NEW T, NEW b \in Seq(T), NEW k \in 0 .. Len(b), NEW a \in T
  PROVE  /\ Filed(b, k, a) \in Seq(T) /\ Len(Filed(b, k, a)) = Len(b) + 1
         /\ \A i \in 1 .. Len(b) + 1 :
              Filed(b, k, a)[i] = IF i <= k THEN b[i] ELSE IF i = k + 1 THEN a ELSE b[i - 1]
<1> DEFINE l == SubSeq(b, 1, k)  r == SubSeq(b, k + 1, Len(b))
<1>0. Len(b) \in Nat /\ k \in Nat /\ k <= Len(b) /\ \A i \in 1 .. Len(b) : b[i] \in T
  BY LenProperties, ElementOfSeq
<1>1. /\ l \in Seq(T) /\ Len(l) = k /\ \A i \in 1 .. k : l[i] = b[i]
  <2>1. \A i \in 1 .. k : b[i] \in T
    BY <1>0
  <2>2. /\ l \in Seq(T) /\ Len(l) = IF 1 <= k THEN k - 1 + 1 ELSE 0
        /\ \A i \in 1 .. k - 1 + 1 : l[i] = b[1 + i - 1]
    BY <1>0, <2>1, SubSeqProperties
  <2> QED
    BY <1>0, <2>2
<1>2. /\ r \in Seq(T) /\ Len(r) = Len(b) - k /\ \A i \in 1 .. Len(b) - k : r[i] = b[k + i]
  <2>1. \A i \in k + 1 .. Len(b) : b[i] \in T
    BY <1>0
  <2>2. /\ r \in Seq(T) /\ Len(r) = IF k + 1 <= Len(b) THEN Len(b) - (k + 1) + 1 ELSE 0
        /\ \A i \in 1 .. Len(b) - (k + 1) + 1 : r[i] = b[(k + 1) + i - 1]
    BY <1>0, <2>1, SubSeqProperties
  <2> QED
    BY <1>0, <2>2
<1>3. /\ <<a>> \in Seq(T) /\ Len(<<a>>) = 1 /\ <<a>>[1] = a
  OBVIOUS
<1> HIDE DEF l, r
<1>4. /\ l \o <<a>> \in Seq(T) /\ Len(l \o <<a>>) = k + 1
      /\ \A i \in 1 .. k + 1 : (l \o <<a>>)[i] = IF i <= k THEN b[i] ELSE a
  <2>1. /\ l \o <<a>> \in Seq(T) /\ Len(l \o <<a>>) = Len(l) + Len(<<a>>)
        /\ \A i \in 1 .. Len(l) + Len(<<a>>) :
             (l \o <<a>>)[i] = IF i <= Len(l) THEN l[i] ELSE <<a>>[i - Len(l)]
    BY <1>1, <1>3, ConcatProperties
  <2> QED
    BY <1>0, <1>1, <1>3, <2>1
<1>5. /\ (l \o <<a>>) \o r \in Seq(T)
      /\ Len((l \o <<a>>) \o r) = Len(l \o <<a>>) + Len(r)
      /\ \A i \in 1 .. Len(l \o <<a>>) + Len(r) :
           ((l \o <<a>>) \o r)[i] =
             IF i <= Len(l \o <<a>>) THEN (l \o <<a>>)[i] ELSE r[i - Len(l \o <<a>>)]
  BY <1>2, <1>4, ConcatProperties
<1>6. Filed(b, k, a) = (l \o <<a>>) \o r
  BY DEF Filed, l, r
<1> HIDE DEF Filed
<1>7. ASSUME NEW i \in 1 .. Len(b) + 1
      PROVE  Filed(b, k, a)[i] = IF i <= k THEN b[i] ELSE IF i = k + 1 THEN a ELSE b[i - 1]
  <2>1. CASE i <= k + 1
    BY <1>0, <1>2, <1>4, <1>5, <1>6, <2>1
  <2>2. CASE i > k + 1
    <3>1. i - (k + 1) \in 1 .. Len(b) - k /\ k + (i - (k + 1)) = i - 1
      BY <1>0, <2>2
    <3>2. Filed(b, k, a)[i] = r[i - (k + 1)]
      BY <1>0, <1>2, <1>4, <1>5, <1>6, <2>2
    <3> QED
      BY <1>0, <1>2, <2>2, <3>1, <3>2
  <2> QED
    BY <1>0, <2>1, <2>2
<1> QED
  BY <1>0, <1>2, <1>4, <1>5, <1>6, <1>7

LEMMA RemovedAt ==
  ASSUME NEW T, NEW b \in Seq(T), NEW j \in 1 .. Len(b)
  PROVE  /\ RemoveAt(b, j) \in Seq(T) /\ Len(RemoveAt(b, j)) = Len(b) - 1
         /\ \A i \in 1 .. Len(b) - 1 : RemoveAt(b, j)[i] = IF i < j THEN b[i] ELSE b[i + 1]
<1> DEFINE l == SubSeq(b, 1, j - 1)  r == SubSeq(b, j + 1, Len(b))
<1>0. Len(b) \in Nat /\ j \in Nat /\ 1 <= j /\ j <= Len(b) /\ \A i \in 1 .. Len(b) : b[i] \in T
  BY LenProperties, ElementOfSeq
<1>1. /\ l \in Seq(T) /\ Len(l) = j - 1 /\ \A i \in 1 .. j - 1 : l[i] = b[i]
  <2>1. \A i \in 1 .. j - 1 : b[i] \in T
    BY <1>0
  <2>2. /\ l \in Seq(T) /\ Len(l) = IF 1 <= j - 1 THEN (j - 1) - 1 + 1 ELSE 0
        /\ \A i \in 1 .. (j - 1) - 1 + 1 : l[i] = b[1 + i - 1]
    BY <1>0, <2>1, SubSeqProperties
  <2> QED
    BY <1>0, <2>2
<1>2. /\ r \in Seq(T) /\ Len(r) = Len(b) - j /\ \A i \in 1 .. Len(b) - j : r[i] = b[j + i]
  <2>1. \A i \in j + 1 .. Len(b) : b[i] \in T
    BY <1>0
  <2>2. /\ r \in Seq(T) /\ Len(r) = IF j + 1 <= Len(b) THEN Len(b) - (j + 1) + 1 ELSE 0
        /\ \A i \in 1 .. Len(b) - (j + 1) + 1 : r[i] = b[(j + 1) + i - 1]
    BY <1>0, <2>1, SubSeqProperties
  <2> QED
    BY <1>0, <2>2
<1>3. RemoveAt(b, j) = l \o r
  BY DEF RemoveAt
<1> HIDE DEF l, r
<1>4. /\ l \o r \in Seq(T) /\ Len(l \o r) = Len(l) + Len(r)
      /\ \A i \in 1 .. Len(l) + Len(r) : (l \o r)[i] = IF i <= Len(l) THEN l[i] ELSE r[i - Len(l)]
  BY <1>1, <1>2, ConcatProperties
<1>5. ASSUME NEW i \in 1 .. Len(b) - 1
      PROVE  (l \o r)[i] = IF i < j THEN b[i] ELSE b[i + 1]
  <2>1. CASE i < j
    BY <1>0, <1>1, <1>2, <1>4, <2>1
  <2>2. CASE ~(i < j)
    <3>1. i - (j - 1) \in 1 .. Len(b) - j /\ j + (i - (j - 1)) = i + 1
      BY <1>0, <2>2
    <3>2. (l \o r)[i] = r[i - (j - 1)]
      BY <1>0, <1>1, <1>2, <1>4, <2>2
    <3> QED
      BY <1>2, <2>2, <3>1, <3>2
  <2> QED
    BY <2>1, <2>2
<1> QED
  BY <1>0, <1>1, <1>2, <1>3, <1>4, <1>5

LEMMA InsertedAt ==
  ASSUME NEW T, NEW r \in Seq(T), NEW o \in 1 .. Len(r) + 1, NEW a \in T
  PROVE  /\ InsertAt(r, o, a) \in Seq(T) /\ Len(InsertAt(r, o, a)) = Len(r) + 1
         /\ \A i \in 1 .. Len(r) + 1 :
              InsertAt(r, o, a)[i] = IF i < o THEN r[i] ELSE IF i = o THEN a ELSE r[i - 1]
<1>0. Len(r) \in Nat
  BY LenProperties
<1>1. PICK k \in 0 .. Len(r) : o = k + 1
  <2>1. o - 1 \in 0 .. Len(r) /\ o = (o - 1) + 1
    BY <1>0
  <2> QED
    BY <2>1
<1>2. InsertAt(r, o, a) = Filed(r, k, a)
  <2>1. o - 1 = k /\ o = k + 1
    BY <1>0, <1>1
  <2> QED
    BY <2>1 DEF InsertAt, Filed
<1>3. Filed(r, k, a) \in Seq(T) /\ Len(Filed(r, k, a)) = Len(r) + 1
  BY FiledAt
<1>4. \A i \in 1 .. Len(r) + 1 :
        Filed(r, k, a)[i] = IF i <= k THEN r[i] ELSE IF i = k + 1 THEN a ELSE r[i - 1]
  BY FiledAt
<1>5. ASSUME NEW i \in 1 .. Len(r) + 1
      PROVE  InsertAt(r, o, a)[i] = IF i < o THEN r[i] ELSE IF i = o THEN a ELSE r[i - 1]
  BY <1>0, <1>1, <1>2, <1>4
<1> QED
  BY <1>2, <1>3, <1>5

\* The same, one member at a time.
LEMMA FiledEach ==
  \A T : \A b \in Seq(T), a \in T : \A k \in 0 .. Len(b), i \in 1 .. Len(b) + 1 :
    Filed(b, k, a)[i] = IF i <= k THEN b[i] ELSE IF i = k + 1 THEN a ELSE b[i - 1]
<1> SUFFICES ASSUME NEW T, NEW b \in Seq(T), NEW a \in T, NEW k \in 0 .. Len(b)
             PROVE  \A i \in 1 .. Len(b) + 1 :
               Filed(b, k, a)[i] = IF i <= k THEN b[i] ELSE IF i = k + 1 THEN a ELSE b[i - 1]
  OBVIOUS
<1>1. /\ Filed(b, k, a) \in Seq(T) /\ Len(Filed(b, k, a)) = Len(b) + 1
      /\ \A i \in 1 .. Len(b) + 1 :
           Filed(b, k, a)[i] = IF i <= k THEN b[i] ELSE IF i = k + 1 THEN a ELSE b[i - 1]
  BY FiledAt
<1> QED
  BY <1>1
LEMMA FiledLen ==
  \A T : \A b \in Seq(T), a \in T : \A k \in 0 .. Len(b) :
    Filed(b, k, a) \in Seq(T) /\ Len(Filed(b, k, a)) = Len(b) + 1
<1> SUFFICES ASSUME NEW T, NEW b \in Seq(T), NEW a \in T, NEW k \in 0 .. Len(b)
             PROVE  Filed(b, k, a) \in Seq(T) /\ Len(Filed(b, k, a)) = Len(b) + 1
  OBVIOUS
<1> QED
  BY FiledAt
LEMMA InsertedEach ==
  \A T : \A r \in Seq(T), a \in T : \A o, i \in 1 .. Len(r) + 1 :
    InsertAt(r, o, a)[i] = IF i < o THEN r[i] ELSE IF i = o THEN a ELSE r[i - 1]
<1> SUFFICES ASSUME NEW T, NEW r \in Seq(T), NEW a \in T, NEW o \in 1 .. Len(r) + 1
             PROVE  \A i \in 1 .. Len(r) + 1 :
               InsertAt(r, o, a)[i] = IF i < o THEN r[i] ELSE IF i = o THEN a ELSE r[i - 1]
  OBVIOUS
<1>1. /\ InsertAt(r, o, a) \in Seq(T) /\ Len(InsertAt(r, o, a)) = Len(r) + 1
      /\ \A i \in 1 .. Len(r) + 1 :
           InsertAt(r, o, a)[i] = IF i < o THEN r[i] ELSE IF i = o THEN a ELSE r[i - 1]
  BY InsertedAt
<1> QED
  BY <1>1
LEMMA InsertedLen ==
  \A T : \A r \in Seq(T), a \in T : \A o \in 1 .. Len(r) + 1 :
    InsertAt(r, o, a) \in Seq(T) /\ Len(InsertAt(r, o, a)) = Len(r) + 1
<1> SUFFICES ASSUME NEW T, NEW r \in Seq(T), NEW a \in T, NEW o \in 1 .. Len(r) + 1
             PROVE  InsertAt(r, o, a) \in Seq(T) /\ Len(InsertAt(r, o, a)) = Len(r) + 1
  OBVIOUS
<1> QED
  BY InsertedAt

\* The j-th of the bench goes out to its party position p and the active member takes
\* its own place o on the bench: the party order stays.
LEMMA TradeKeepsOrder ==
  ASSUME NEW T, NEW b \in Seq(T), NEW k \in 0 .. Len(b), NEW a \in T, NEW j \in 1 .. Len(b),
         NEW p \in 0 .. Len(b), NEW o \in 1 .. Len(b),
         IF j - 1 < k THEN p = j - 1 /\ o = k ELSE p = j /\ o = k + 1,
         NEW c, c = InsertAt(RemoveAt(b, j), o, a)
  PROVE  /\ c \in Seq(T) /\ Len(c) = Len(b)
         /\ Filed(c, p, b[j]) = Filed(b, k, a)
<1> DEFINE r == RemoveAt(b, j)
<1>0. Len(b) \in Nat /\ j \in Nat /\ 1 <= j /\ j <= Len(b) /\ k \in Nat /\ k <= Len(b)
      /\ p \in Nat /\ p <= Len(b) /\ o \in Nat /\ 1 <= o /\ o <= Len(b)
  BY LenProperties
<1>1. b[j] \in T
  BY ElementOfSeq
<1>2. /\ r \in Seq(T) /\ Len(r) = Len(b) - 1
      /\ \A i \in 1 .. Len(b) - 1 : r[i] = IF i < j THEN b[i] ELSE b[i + 1]
  BY RemovedAt
<1> HIDE DEF r
<1>3. c = InsertAt(r, o, a) /\ o \in 1 .. Len(r) + 1 /\ Len(r) + 1 = Len(b)
  BY <1>0, <1>2 DEF r
<1>4. /\ c \in Seq(T) /\ Len(c) = Len(b)
      /\ \A i \in 1 .. Len(b) : c[i] = IF i < o THEN r[i] ELSE IF i = o THEN a ELSE r[i - 1]
  <2>1. InsertAt(r, o, a) \in Seq(T) /\ Len(InsertAt(r, o, a)) = Len(r) + 1
    BY <1>2, <1>3, InsertedLen
  <2>2. \A i \in 1 .. Len(r) + 1 :
          InsertAt(r, o, a)[i] = IF i < o THEN r[i] ELSE IF i = o THEN a ELSE r[i - 1]
    BY <1>2, <1>3, InsertedEach
  <2> QED
    BY <1>3, <2>1, <2>2
<1>5. /\ Filed(c, p, b[j]) \in Seq(T) /\ Len(Filed(c, p, b[j])) = Len(b) + 1
      /\ Filed(b, k, a) \in Seq(T) /\ Len(Filed(b, k, a)) = Len(b) + 1
  <2>1. p \in 0 .. Len(c)
    BY <1>4
  <2>2. Filed(c, p, b[j]) \in Seq(T) /\ Len(Filed(c, p, b[j])) = Len(c) + 1
    BY <1>1, <1>4, <2>1, FiledLen
  <2>3. Filed(b, k, a) \in Seq(T) /\ Len(Filed(b, k, a)) = Len(b) + 1
    BY FiledLen
  <2> QED
    BY <1>4, <2>2, <2>3
<1>6. ASSUME NEW i \in 1 .. Len(b) + 1
      PROVE  Filed(c, p, b[j])[i] = Filed(b, k, a)[i]
  <2> DEFINE old == Filed(b, k, a)[i]  new == Filed(c, p, b[j])[i]
  <2>1. old = IF i <= k THEN b[i] ELSE IF i = k + 1 THEN a ELSE b[i - 1]
    BY FiledEach
  <2>2. new = IF i <= p THEN c[i] ELSE IF i = p + 1 THEN b[j] ELSE c[i - 1]
    <3>1. p \in 0 .. Len(c) /\ i \in 1 .. Len(c) + 1
      BY <1>4
    <3> QED
      BY <1>1, <1>4, <3>1, FiledEach
  <2> HIDE DEF old, new
  <2>3. \A n \in 1 .. Len(b) : c[n] = IF n < o THEN IF n < j THEN b[n] ELSE b[n + 1]
                                      ELSE IF n = o THEN a
                                      ELSE IF n - 1 < j THEN b[n - 1] ELSE b[n]
    <3> TAKE n \in 1 .. Len(b)
    <3>1. CASE n < o
      <4>1. n \in 1 .. Len(b) - 1
        BY <1>0, <3>1
      <4> QED
        BY <1>2, <1>4, <3>1, <4>1
    <3>2. CASE n = o
      BY <1>4, <3>2
    <3>3. CASE n > o
      <4>1. n - 1 \in 1 .. Len(b) - 1 /\ (n - 1) + 1 = n
        BY <1>0, <3>3
      <4>2. r[n - 1] = IF n - 1 < j THEN b[n - 1] ELSE b[n]
        BY <1>2, <4>1
      <4> QED
        BY <1>0, <1>4, <3>3, <4>2
    <3> QED
      BY <1>0, <3>1, <3>2, <3>3
  <2>4. i \in Nat /\ 1 <= i /\ i <= Len(b) + 1
    BY <1>0
  <2>5. CASE j - 1 < k
    <3>1. p = j - 1 /\ o = k
      BY <2>5
    <3>2. CASE i < j
      <4>1. c[i] = b[i] /\ i <= p /\ i <= k
        BY <1>0, <2>3, <2>4, <2>5, <3>1, <3>2
      <4> QED
        BY <2>1, <2>2, <4>1 DEF old, new
    <3>3. CASE i = j
      <4>1. i <= k /\ i = p + 1 /\ ~(i <= p)
        BY <1>0, <2>4, <2>5, <3>1, <3>3
      <4> QED
        BY <2>1, <2>2, <3>3, <4>1 DEF old, new
    <3>4. CASE j < i /\ i <= k
      <4>1. i - 1 \in 1 .. Len(b) /\ ~(i - 1 < j) /\ (i - 1) + 1 = i /\ i - 1 < o /\ ~(i <= p)
            /\ i # p + 1
        BY <1>0, <2>4, <2>5, <3>1, <3>4
      <4>2. c[i - 1] = b[i]
        BY <2>3, <4>1
      <4> QED
        BY <2>1, <2>2, <3>4, <4>1, <4>2 DEF old, new
    <3>5. CASE i = k + 1
      <4>1. i - 1 = o /\ i - 1 \in 1 .. Len(b) /\ ~(i - 1 < o) /\ ~(i <= p) /\ i # p + 1 /\ ~(i <= k)
        BY <1>0, <2>4, <2>5, <3>1, <3>5
      <4>2. c[i - 1] = a
        BY <2>3, <4>1
      <4> QED
        BY <2>1, <2>2, <3>5, <4>1, <4>2 DEF old, new
    <3>6. CASE i > k + 1
      <4>1. i - 1 # o /\ i - 1 \in 1 .. Len(b) /\ ~(i - 1 < o) /\ ~(i <= p) /\ i # p + 1 /\ ~(i <= k)
            /\ ~((i - 1) - 1 < j) /\ i # k + 1
        BY <1>0, <2>4, <2>5, <3>1, <3>6
      <4>2. c[i - 1] = b[i - 1]
        BY <2>3, <4>1
      <4> QED
        BY <2>1, <2>2, <4>1, <4>2 DEF old, new
    <3> QED
      BY <1>0, <2>4, <2>5, <3>2, <3>3, <3>4, <3>5, <3>6
  <2>6. CASE ~(j - 1 < k)
    <3>1. p = j /\ o = k + 1
      BY <2>6
    <3>2. CASE i <= k
      <4>1. i \in 1 .. Len(b) /\ i < o /\ i < j /\ i <= p
        BY <1>0, <2>4, <2>6, <3>1, <3>2
      <4>2. c[i] = b[i]
        BY <2>3, <4>1
      <4> QED
        BY <2>1, <2>2, <3>2, <4>1, <4>2 DEF old, new
    <3>3. CASE i = k + 1
      <4>1. i \in 1 .. Len(b) /\ i = o /\ i <= p /\ ~(i <= k) /\ ~(i < o)
        BY <1>0, <2>4, <2>6, <3>1, <3>3
      <4>2. c[i] = a
        BY <2>3, <4>1
      <4> QED
        BY <2>1, <2>2, <3>3, <4>1, <4>2 DEF old, new
    <3>4. CASE k + 1 < i /\ i <= j
      <4>1. i \in 1 .. Len(b) /\ i # o /\ ~(i < o) /\ i - 1 < j /\ i <= p /\ ~(i <= k) /\ i # k + 1
        BY <1>0, <2>4, <2>6, <3>1, <3>4
      <4>2. c[i] = b[i - 1]
        BY <2>3, <4>1
      <4> QED
        BY <2>1, <2>2, <4>1, <4>2 DEF old, new
    <3>5. CASE i = j + 1
      <4>1. ~(i <= p) /\ i = p + 1 /\ ~(i <= k) /\ i # k + 1 /\ i - 1 = j
        BY <1>0, <2>4, <2>6, <3>1, <3>5
      <4> QED
        BY <2>1, <2>2, <4>1 DEF old, new
    <3>6. CASE i > j + 1
      <4>1. i - 1 # o /\ i - 1 \in 1 .. Len(b) /\ ~(i - 1 < o) /\ ~(i <= p) /\ i # p + 1 /\ ~(i <= k)
            /\ ~((i - 1) - 1 < j) /\ i # k + 1
        BY <1>0, <2>4, <2>6, <3>1, <3>6
      <4>2. c[i - 1] = b[i - 1]
        BY <2>3, <4>1
      <4> QED
        BY <2>1, <2>2, <4>1, <4>2 DEF old, new
    <3> QED
      BY <1>0, <2>4, <2>6, <3>2, <3>3, <3>4, <3>5, <3>6
  <2> QED
    BY <2>5, <2>6
<1> QED
  BY <1>4, <1>5, <1>6, SeqEqual

---------------------------------------------------------------------------
(* The inductive invariant.                                                *)

\* Where a call stands: prompts wait for a standing member behind a felled opponent and
\* only between calls, and each stretch of a turn knows how many passes it has seen.
Underway ==
  /\ phase # "idle" => pending = 0 /\ ~held
  /\ held => pending > 0
  /\ pending > 0 => outcome = "none" /\ Standing("player") /\ ~Standing("enemy")
  /\ phase = "acts" => queue # << >>
  /\ phase \in {"acts", "closing", "pass"} => passes = 0
  /\ phase = "residual" => passes = 1 /\ outcome = "none"
  /\ phase = "settling" => passes <= 1 /\ (outcome = "none" => passes = 1)
  /\ phase = "idle" => /\ passes <= 1 /\ (held => passes = 0)
                       /\ outcome = "none" /\ ~held => passes = 1
                       /\ outcome = "none" /\ pending = 0 => Standing("player") /\ Standing("enemy")

\* While nothing is decided or prompted, the opponent on the field has paid nothing.
FoeUnpaid == outcome = "none" /\ pending = 0 => paid[active["enemy"]] = 0

BattleIInv == /\ TypeOK /\ PartyOrderKept /\ ScratchIsCurrent /\ FaintToldOnce
              /\ RewardOncePerFoe /\ FoeUnpaid /\ OutcomeJustified /\ Underway

---------------------------------------------------------------------------
(* Who is who.                                                             *)

LEMMA FiledHolds ==
  ASSUME NEW T, NEW b \in Seq(T), NEW k \in 0 .. Len(b), NEW a \in T
  PROVE  /\ a \in ToSet(Filed(b, k, a))
         /\ \A j \in 1 .. Len(b) : b[j] \in ToSet(Filed(b, k, a))
         /\ \A m \in ToSet(Filed(b, k, a)) : m = a \/ \E j \in 1 .. Len(b) : b[j] = m
<1> DEFINE f == Filed(b, k, a)
<1>0. Len(b) \in Nat /\ k \in Nat /\ k <= Len(b)
  BY LenProperties
<1>1. f \in Seq(T) /\ Len(f) = Len(b) + 1
  BY FiledLen
<1>2. \A i \in 1 .. Len(b) + 1 : f[i] = IF i <= k THEN b[i] ELSE IF i = k + 1 THEN a ELSE b[i - 1]
  BY FiledEach
<1> HIDE DEF f
<1>3. DOMAIN f = 1 .. Len(b) + 1
  BY <1>1, LenProperties
<1>4. \A m : m \in ToSet(f) <=> \E i \in 1 .. Len(b) + 1 : m = f[i]
  BY <1>3 DEF ToSet
<1>5. a \in ToSet(f)
  <2>1. k + 1 \in 1 .. Len(b) + 1 /\ ~(k + 1 <= k)
    BY <1>0
  <2>2. f[k + 1] = a
    BY <1>2, <2>1
  <2> QED
    BY <1>4, <2>1, <2>2
<1>6. ASSUME NEW j \in 1 .. Len(b) PROVE b[j] \in ToSet(f)
  <2>1. CASE j <= k
    <3>1. j \in 1 .. Len(b) + 1
      BY <1>0
    <3>2. f[j] = b[j]
      BY <1>2, <2>1, <3>1
    <3> QED
      BY <1>4, <3>1, <3>2
  <2>2. CASE ~(j <= k)
    <3>1. j + 1 \in 1 .. Len(b) + 1 /\ ~(j + 1 <= k) /\ j + 1 # k + 1 /\ (j + 1) - 1 = j
      BY <1>0, <2>2
    <3>2. f[j + 1] = b[j]
      BY <1>2, <3>1
    <3> QED
      BY <1>4, <3>1, <3>2
  <2> QED
    BY <2>1, <2>2
<1>7. ASSUME NEW m \in ToSet(f) PROVE m = a \/ \E j \in 1 .. Len(b) : b[j] = m
  <2>1. PICK i \in 1 .. Len(b) + 1 : m = f[i]
    BY <1>4
  <2>2. CASE i <= k
    BY <1>0, <1>2, <2>1, <2>2
  <2>3. CASE i = k + 1
    BY <1>0, <1>2, <2>1, <2>3
  <2>4. CASE i > k + 1
    <3>1. i - 1 \in 1 .. Len(b) /\ ~(i <= k) /\ i # k + 1
      BY <1>0, <2>4
    <3> QED
      BY <1>2, <2>1, <3>1
  <2> QED
    BY <1>0, <2>2, <2>3, <2>4
<1> QED
  BY <1>5, <1>6, <1>7 DEF f

LEMMA RosterType ==
  ASSUME NEW s \in Side
  PROVE  /\ Roster(s) \in Seq(Mons) /\ Roster(s) # << >>
         /\ ToSet(Roster("player")) = ToSet(Team)
         /\ ToSet(Roster("enemy")) \subseteq ToSet(Foes)
         /\ kind # "Trainer" => Len(Roster("enemy")) = 1
<1>1. /\ Team \in Seq(Mons) /\ Team # << >> /\ Foes \in Seq(Mons) /\ Foes # << >>
  BY PartiesAssumption
<1>2. Len(Foes) \in Nat /\ Len(Foes) > 0 /\ DOMAIN Foes = 1 .. Len(Foes)
  BY <1>1, EmptySeq, LenProperties
<1>3. Foes[1] \in Mons /\ Foes[1] \in ToSet(Foes)
  BY <1>1, <1>2, ElementOfSeq DEF ToSet
<1>4. <<Foes[1]>> \in Seq(Mons) /\ <<Foes[1]>> # << >> /\ Len(<<Foes[1]>>) = 1
  BY <1>3
<1>5. ToSet(<<Foes[1]>>) = {Foes[1]}
  BY DEF ToSet
<1> QED
  BY <1>1, <1>3, <1>4, <1>5 DEF Roster, Side

LEMMA WhoIsWho ==
  ASSUME TypeOK, PartyOrderKept
  PROVE  /\ \A s \in Side : active[s] \in ToSet(Roster(s))
         /\ \A s \in Side : \A j \in 1 .. Len(bench[s]) : bench[s][j] \in ToSet(Roster(s))
         /\ \A s \in Side : \A m \in ToSet(Roster(s)) :
              m = active[s] \/ \E j \in 1 .. Len(bench[s]) : bench[s][j] = m
         /\ active["player"] \in ToSet(Team) /\ active["enemy"] \in ToSet(Foes)
         /\ active["player"] # active["enemy"]
         /\ kind # "Trainer" => Len(bench["enemy"]) = 0
<1>1. ASSUME NEW s \in Side
      PROVE  /\ active[s] \in Mons /\ bench[s] \in Seq(Mons) /\ slot[s] \in 0 .. Len(bench[s])
             /\ Filed(bench[s], slot[s], active[s]) = Roster(s)
  BY DEF TypeOK, PartyOrderKept, Members, Filed
<1>2. ASSUME NEW s \in Side
      PROVE  /\ active[s] \in ToSet(Roster(s))
             /\ \A j \in 1 .. Len(bench[s]) : bench[s][j] \in ToSet(Roster(s))
             /\ \A m \in ToSet(Roster(s)) :
                  m = active[s] \/ \E j \in 1 .. Len(bench[s]) : bench[s][j] = m
  BY <1>1, FiledHolds
<1>3. "player" \in Side /\ "enemy" \in Side
  BY DEF Side
<1>4. active["player"] \in ToSet(Team) /\ active["enemy"] \in ToSet(Foes)
  BY <1>2, <1>3, RosterType
<1>5. active["player"] # active["enemy"]
  BY <1>4, PartiesAssumption
<1>6. ASSUME kind # "Trainer" PROVE Len(bench["enemy"]) = 0
  <2>1. Len(Filed(bench["enemy"], slot["enemy"], active["enemy"])) = Len(bench["enemy"]) + 1
    BY <1>1, <1>3, FiledLen
  <2>2. Len(bench["enemy"]) \in Nat
    BY <1>1, <1>3, LenProperties
  <2> QED
    BY <1>1, <1>3, <1>6, <2>1, <2>2, RosterType
<1> QED
  BY <1>2, <1>4, <1>5, <1>6

---------------------------------------------------------------------------
(* The battle starts.                                                      *)

LEMMA FiledHead ==
  ASSUME NEW T, NEW q \in Seq(T), q # << >>
  PROVE  /\ q[1] \in T /\ Tail(q) \in Seq(T) /\ Len(Tail(q)) \in Nat
         /\ 0 \in 0 .. Len(Tail(q))
         /\ Filed(Tail(q), 0, q[1]) = q
         /\ IsInjective(q) => \A j \in 1 .. Len(Tail(q)) : Tail(q)[j] # q[1]
         /\ \A j \in 1 .. Len(Tail(q)) : Tail(q)[j] \in ToSet(q)
         /\ q[1] \in ToSet(q)
<1>1. /\ Len(q) \in Nat /\ Len(q) >= 1 /\ DOMAIN q = 1 .. Len(q)
  BY LenProperties, EmptySeq
<1>2. /\ Tail(q) \in Seq(T) /\ Len(Tail(q)) = Len(q) - 1
      /\ \A i \in 1 .. Len(Tail(q)) : Tail(q)[i] = q[i + 1]
  BY HeadTailProperties
<1>3. q[1] \in T
  BY <1>1, ElementOfSeq
<1>4. 0 \in 0 .. Len(Tail(q))
  BY <1>1, <1>2
<1>5. Filed(Tail(q), 0, q[1]) \in Seq(T) /\ Len(Filed(Tail(q), 0, q[1])) = Len(q)
  <2>1. Filed(Tail(q), 0, q[1]) \in Seq(T) /\ Len(Filed(Tail(q), 0, q[1])) = Len(Tail(q)) + 1
    BY <1>2, <1>3, <1>4, FiledLen
  <2> QED
    BY <1>1, <1>2, <2>1
<1>6. ASSUME NEW i \in 1 .. Len(q) PROVE Filed(Tail(q), 0, q[1])[i] = q[i]
  <2>1. i \in 1 .. Len(Tail(q)) + 1
    BY <1>1, <1>2
  <2>2. Filed(Tail(q), 0, q[1])[i]
          = IF i <= 0 THEN Tail(q)[i] ELSE IF i = 0 + 1 THEN q[1] ELSE Tail(q)[i - 1]
    BY <1>2, <1>3, <1>4, <2>1, FiledEach
  <2>3. CASE i = 1
    BY <2>2, <2>3
  <2>4. CASE i > 1
    <3>1. i - 1 \in 1 .. Len(Tail(q)) /\ (i - 1) + 1 = i
      BY <1>1, <1>2, <2>4
    <3>2. Tail(q)[i - 1] = q[i]
      BY <1>2, <3>1
    <3> QED
      BY <2>2, <2>4, <3>2
  <2> QED
    BY <1>1, <2>3, <2>4
<1>7. Filed(Tail(q), 0, q[1]) = q
  BY <1>5, <1>6, SeqEqual
<1>8. ASSUME NEW j \in 1 .. Len(Tail(q))
      PROVE  Tail(q)[j] \in ToSet(q) /\ (IsInjective(q) => Tail(q)[j] # q[1])
  <2>1. j + 1 \in DOMAIN q /\ 1 \in DOMAIN q /\ j + 1 # 1 /\ Tail(q)[j] = q[j + 1]
    BY <1>1, <1>2
  <2> QED
    BY <2>1 DEF ToSet, IsInjective
<1>9. q[1] \in ToSet(q)
  BY <1>1 DEF ToSet
<1> QED
  BY <1>1, <1>2, <1>3, <1>4, <1>7, <1>8, <1>9

LEMMA StartsSound == Init => BattleIInv
<1> SUFFICES ASSUME Init PROVE BattleIInv
  OBVIOUS
<1> USE SizesAssumption
<1>0. "player" \in Side /\ "enemy" \in Side /\ Side = {"player", "enemy"}
  BY DEF Side
<1>1. /\ kind \in Kinds /\ ailing = {} /\ seeded = {} /\ inLove = {} /\ pending = 0 /\ held = FALSE
      /\ outcome = "none" /\ phase = "idle" /\ queue = << >> /\ fleeing = FALSE /\ money = 0
      /\ passes = 1 /\ courted = active /\ runner = active
      /\ active = [s \in Side |-> Roster(s)[1]]
      /\ \A s \in Side : bench[s] = Tail(Roster(s)) /\ slot[s] = 0 /\ lock[s] = 0
      /\ lock = [s \in Side |-> 0]
      /\ reported = [m \in Mons |-> IF hp[m] = 0 THEN 1 ELSE 0]
      /\ paid = [m \in ToSet(Foes) |-> 0]
  BY DEF Init
<1>2. \A s \in Side : Roster(s) \in Seq(Mons) /\ Roster(s) # << >>
  BY RosterType
<1>3. ASSUME NEW s \in Side
      PROVE  /\ active[s] = Roster(s)[1] /\ active[s] \in Mons
             /\ bench[s] \in Seq(Mons) /\ slot[s] \in 0 .. Len(bench[s])
             /\ Filed(bench[s], slot[s], active[s]) = Roster(s)
             /\ active[s] \in ToSet(Roster(s))
             /\ \A j \in 1 .. Len(bench[s]) : bench[s][j] \in ToSet(Roster(s))
             /\ IsInjective(Roster(s)) => \A j \in 1 .. Len(bench[s]) : bench[s][j] # active[s]
  <2>1. active[s] = Roster(s)[1] /\ bench[s] = Tail(Roster(s)) /\ slot[s] = 0
    BY <1>1
  <2>2. Roster(s) \in Seq(Mons) /\ Roster(s) # << >>
    BY <1>2
  <2> QED
    BY <2>1, <2>2, FiledHead
<1>4. IsInjective(Roster("player")) /\ IsInjective(Roster("enemy"))
  <2>1. IsInjective(<<Foes[1]>>)
    BY DEF IsInjective
  <2> QED
    BY <2>1, PartiesAssumption DEF Roster
<1>5. ASSUME NEW s \in Side, NEW t \in Side
      PROVE  active[s] \notin ToSet(bench[t])
  <2>1. bench[t] \in Seq(Mons)
    BY <1>3
  <2>2. DOMAIN bench[t] = 1 .. Len(bench[t])
    BY <2>1, LenProperties
  <2>3. \A m \in ToSet(bench[t]) : m \in ToSet(Roster(t)) /\ m # active[t]
    BY <1>0, <1>3, <1>4, <2>2 DEF ToSet
  <2>4. CASE s = t
    BY <2>3, <2>4
  <2>5. CASE s # t
    <3>1. ToSet(Roster("player")) \cap ToSet(Roster("enemy")) = {}
      BY <1>0, RosterType, PartiesAssumption
    <3> QED
      BY <1>0, <1>3, <2>3, <2>5, <3>1
  <2> QED
    BY <2>4, <2>5
<1>6. /\ hp \in [Mons -> 0 .. MaxHp] /\ \A s \in Side : hp[active[s]] = MaxHp
  <2>1. PICK out \in SUBSET UNION {ToSet(bench[s]) : s \in Side} :
          hp = [m \in Mons |-> IF m \in out THEN 0 ELSE MaxHp]
    BY DEF Init
  <2>2. \A s \in Side : active[s] \notin out
    BY <1>5
  <2> QED
    BY <1>3, <2>1, <2>2
<1>7. TypeOK
  <2>1. queue \in SeqOf(Side, 2)
    <3>1. << >> \in [1 .. 0 -> Side] /\ 0 \in 0 .. 2
      OBVIOUS
    <3> QED
      BY <1>1, <3>1 DEF SeqOf
  <2>2. active \in [Side -> Mons]
    BY <1>1, <1>3
  <2>3. reported \in [Mons -> Nat] /\ paid \in [ToSet(Foes) -> Nat]
    BY <1>1
  <2>4. lock \in [Side -> 0 .. (SeriesAttempts - 1)] /\ pending \in 0 .. MaxPrompts
    BY <1>1
  <2> QED
    BY <1>1, <1>3, <1>6, <2>1, <2>2, <2>3, <2>4 DEF TypeOK
<1>8. PartyOrderKept
  BY <1>3 DEF PartyOrderKept, Members, Filed
<1>9. ScratchIsCurrent
  BY <1>1 DEF ScratchIsCurrent
<1>10. FaintToldOnce /\ RewardOncePerFoe /\ FoeUnpaid
  <2>1. active["enemy"] \in ToSet(Foes)
    BY <1>0, <1>3, RosterType
  <2> QED
    BY <1>1, <2>1 DEF FaintToldOnce, RewardOncePerFoe, FoeUnpaid
<1>11. OutcomeJustified /\ Underway
  BY <1>0, <1>1, <1>6 DEF OutcomeJustified, Underway, Standing
<1> QED
  BY <1>7, <1>8, <1>9, <1>10, <1>11 DEF BattleIInv

---------------------------------------------------------------------------
(* Replacements.                                                           *)

\* `ins` sends out standing members of the bench, each at its own party position.
Fits(ins) ==
  /\ DOMAIN ins \subseteq Side
  /\ \A s \in DOMAIN ins : \E j \in 1 .. Len(bench[s]) :
       ins[s] = PositionOf(s, j) /\ hp[bench[s][j]] > 0

\* Who is out, on which bench, and what it carries.
FieldSound ==
  /\ \A s \in Side : active[s] \in Mons /\ bench[s] \in Seq(Mons) /\ slot[s] \in 0 .. Len(bench[s])
  /\ seeded \subseteq Side /\ inLove \subseteq Side
  /\ lock \in [Side -> 0 .. (SeriesAttempts - 1)]
  /\ courted \in [Side -> Mons] /\ runner \in [Side -> Mons]
  /\ PartyOrderKept /\ ScratchIsCurrent

LEMMA FieldStays ==
  ASSUME FieldSound, kind' = kind, hp' = hp, UNCHANGED <<party, scratch>>
  PROVE  FieldSound'
<1>1. /\ active' = active /\ bench' = bench /\ slot' = slot /\ seeded' = seeded /\ inLove' = inLove
      /\ lock' = lock /\ courted' = courted /\ runner' = runner
  BY DEF party, scratch
<1>2. PartyOrderKept'
  BY <1>1 DEF FieldSound, PartyOrderKept, Members, Roster
<1>3. ScratchIsCurrent'
  BY <1>1 DEF FieldSound, ScratchIsCurrent, Standing
<1> QED
  BY <1>1, <1>2, <1>3 DEF FieldSound

LEMMA SentOut ==
  ASSUME FieldSound, NEW ins, Fits(ins), SendOut(ins), kind' = kind, hp' = hp
  PROVE  /\ FieldSound'
         /\ \A s \in DOMAIN ins : hp[active'[s]] > 0
         /\ \A s \in Side \ DOMAIN ins : active'[s] = active[s]
<1> USE SizesAssumption
<1>0. DOMAIN ins \subseteq Side /\ courted' = courted /\ runner' = runner
      /\ seeded' = seeded \ DOMAIN ins
      /\ inLove' = {s \in inLove : {s, Other(s)} \cap DOMAIN ins = {}}
      /\ lock' = [s \in Side |-> IF s \in DOMAIN ins THEN 0 ELSE lock[s]]
  BY DEF Fits, SendOut
<1>1. ASSUME NEW s \in Side
      PROVE  /\ active[s] \in Mons /\ bench[s] \in Seq(Mons) /\ slot[s] \in 0 .. Len(bench[s])
             /\ Filed(bench[s], slot[s], active[s]) = Roster(s)
  BY DEF FieldSound, PartyOrderKept, Members, Filed
<1>2. ASSUME NEW s \in Side, s \notin DOMAIN ins
      PROVE  active'[s] = active[s] /\ bench'[s] = bench[s] /\ slot'[s] = slot[s]
  BY <1>2 DEF SendOut
<1>3. ASSUME NEW s \in DOMAIN ins
      PROVE  /\ active'[s] \in Mons /\ hp[active'[s]] > 0
             /\ bench'[s] \in Seq(Mons) /\ slot'[s] \in 0 .. Len(bench'[s])
             /\ Filed(bench'[s], slot'[s], active'[s]) = Roster(s)
  <2> DEFINE b == bench[s]  k == slot[s]  p == ins[s]
  <2>0. s \in Side
    BY <1>0
  <2>1. PICK j \in 1 .. Len(b) : p = PositionOf(s, j) /\ hp[b[j]] > 0
    BY DEF Fits
  <2>2. /\ active[s] \in Mons /\ b \in Seq(Mons) /\ k \in 0 .. Len(b)
        /\ Filed(b, k, active[s]) = Roster(s)
    BY <1>1, <2>0
  <2>3. Len(b) \in Nat /\ b[j] \in Mons
    BY <2>2, LenProperties, ElementOfSeq
  <2>4. /\ BenchIndex(s, p) = j
        /\ IF j - 1 < k THEN p = j - 1 /\ OutgoingIndex(s, p) = k
           ELSE p = j /\ OutgoingIndex(s, p) = k + 1
    BY <2>1, <2>2, <2>3 DEF BenchIndex, PositionOf, OutgoingIndex
  <2>5. p \in 0 .. Len(b) /\ OutgoingIndex(s, p) \in 1 .. Len(b)
    BY <2>1, <2>2, <2>3, <2>4
  <2>6. /\ active'[s] = b[j] /\ slot'[s] = p
        /\ bench'[s] = InsertAt(RemoveAt(b, j), OutgoingIndex(s, p), active[s])
    BY <2>0, <2>4 DEF SendOut
  <2> HIDE DEF b, k, p
  <2>7. /\ bench'[s] \in Seq(Mons) /\ Len(bench'[s]) = Len(b)
        /\ Filed(bench'[s], p, b[j]) = Filed(b, k, active[s])
    BY <2>2, <2>4, <2>5, <2>6, TradeKeepsOrder
  <2> QED
    BY <2>1, <2>2, <2>3, <2>5, <2>6, <2>7
<1>4. ASSUME NEW s \in Side
      PROVE  /\ active'[s] \in Mons /\ bench'[s] \in Seq(Mons) /\ slot'[s] \in 0 .. Len(bench'[s])
             /\ Filed(bench'[s], slot'[s], active'[s]) = Roster(s)
  <2>1. CASE s \in DOMAIN ins
    BY <1>3, <2>1
  <2>2. CASE s \notin DOMAIN ins
    BY <1>1, <1>2, <2>2
  <2> QED
    BY <2>1, <2>2
<1>5. PartyOrderKept'
  BY <1>4 DEF PartyOrderKept, Members, Filed, Roster
<1>6. /\ seeded' \subseteq Side /\ inLove' \subseteq Side
      /\ lock' \in [Side -> 0 .. (SeriesAttempts - 1)]
  BY <1>0 DEF FieldSound
<1>7. ScratchIsCurrent'
  <2>1. ASSUME NEW s \in inLove'
        PROVE  /\ courted'[s] = active'[Other(s)] /\ Standing(s)' /\ Standing(Other(s))'
    <3>1. s \in inLove /\ s \notin DOMAIN ins /\ Other(s) \notin DOMAIN ins
      BY <1>0, <2>1
    <3>2. s \in Side /\ Other(s) \in Side
      BY <3>1 DEF FieldSound, Side, Other
    <3>3. active'[s] = active[s] /\ active'[Other(s)] = active[Other(s)]
      BY <1>2, <3>1, <3>2
    <3> QED
      BY <1>0, <3>1, <3>3 DEF FieldSound, ScratchIsCurrent, Standing
  <2>2. ASSUME NEW s \in Side, lock'[s] > 0
        PROVE  runner'[s] = active'[s] /\ Standing(s)'
    <3>1. s \notin DOMAIN ins /\ lock[s] > 0
      BY <1>0, <2>2
    <3> QED
      BY <1>0, <1>2, <3>1 DEF FieldSound, ScratchIsCurrent, Standing
  <2> QED
    BY <2>1, <2>2 DEF ScratchIsCurrent
<1>8. FieldSound'
  BY <1>0, <1>4, <1>5, <1>6, <1>7 DEF FieldSound
<1> QED
  BY <1>2, <1>3, <1>8

LEMMA ReserveFits ==
  ASSUME FieldSound, NEW s \in Side, UsableBench(s) # {}
  PROVE  \E j \in 1 .. Len(bench[s]) : NextReserve(s) = PositionOf(s, j) /\ hp[bench[s][j]] > 0
<1> DEFINE S == {i \in DOMAIN bench[s] : hp[bench[s][i]] > 0}
           Best(i) == /\ hp[bench[s][i]] > 0
                      /\ \A j \in DOMAIN bench[s] : hp[bench[s][j]] > 0 => i <= j
<1>1. bench[s] \in Seq(Mons)
  BY DEF FieldSound
<1>2. DOMAIN bench[s] = 1 .. Len(bench[s]) /\ Len(bench[s]) \in Nat
  BY <1>1, LenProperties
<1>3. S \in SUBSET Nat /\ S # {}
  BY <1>2 DEF UsableBench, ToSet
<1>4. \E i \in S : \A j \in S : i <= j
  <2> HIDE DEF S
  <2> QED
    BY <1>3, FirstOf
<1>5. \E i \in DOMAIN bench[s] : Best(i)
  BY <1>4
<1>6. PICK c : c = CHOOSE i \in DOMAIN bench[s] : Best(i)
  OBVIOUS
<1>7. c \in DOMAIN bench[s] /\ Best(c)
  <2> HIDE DEF Best
  <2> QED
    BY <1>5, <1>6
<1>8. NextReserve(s) = PositionOf(s, c)
  BY <1>6 DEF NextReserve
<1> QED
  BY <1>2, <1>7, <1>8

LEMMA TargetFits ==
  ASSUME FieldSound, NEW s \in Side, NEW position \in SwitchTargets(s)
  PROVE  \E j \in 1 .. Len(bench[s]) : position = PositionOf(s, j) /\ hp[bench[s][j]] > 0
<1>1. bench[s] \in Seq(Mons)
  BY DEF FieldSound
<1>2. DOMAIN bench[s] = 1 .. Len(bench[s])
  BY <1>1, LenProperties
<1> QED
  BY <1>2 DEF SwitchTargets

LEMMA AlsoFits ==
  ASSUME NEW ins, Fits(ins), NEW s \in Side, NEW p,
         \E j \in 1 .. Len(bench[s]) : p = PositionOf(s, j) /\ hp[bench[s][j]] > 0
  PROVE  /\ Fits(Also(ins, s, p))
         /\ DOMAIN Also(ins, s, p) = DOMAIN ins \cup {s}
BY DEF Fits, Also

LEMMA NoneFits == Fits(<< >>) /\ DOMAIN << >> = {}
BY DEF Fits

---------------------------------------------------------------------------
(* Faints handled.                                                         *)

\* What the outcome says of the parties, and that nothing waits behind one.
OutcomeSays ==
  /\ outcome = "PlayerWon" => /\ \A e \in ToSet(Roster("enemy")) : hp[e] = 0
                             /\ \E m \in ToSet(Team) : hp[m] > 0
  /\ outcome = "PlayerLost" => \A m \in ToSet(Team) : hp[m] = 0
  /\ money = (IF outcome = "PlayerWon" /\ kind = "Trainer" THEN 1 ELSE 0)
  /\ outcome # "none" => pending = 0

LEMMA FieldIsSound == BattleIInv => FieldSound
BY DEF BattleIInv, TypeOK, FieldSound

LEMMA NobodyLeft ==
  ASSUME BattleIInv, NEW s \in Side, ~Standing(s), UsableBench(s) = {},
         NEW m \in ToSet(Roster(s))
  PROVE  hp[m] = 0
<1>1. m = active[s] \/ \E j \in 1 .. Len(bench[s]) : bench[s][j] = m
  BY WhoIsWho DEF BattleIInv
<1>2. bench[s] \in Seq(Mons) /\ active[s] \in Mons /\ hp \in [Mons -> 0 .. MaxHp]
  BY DEF BattleIInv, TypeOK
<1>3. DOMAIN bench[s] = 1 .. Len(bench[s])
  BY <1>2, LenProperties
<1>4. CASE m = active[s]
  BY <1>2, <1>4, SizesAssumption DEF Standing
<1>5. CASE \E j \in 1 .. Len(bench[s]) : bench[s][j] = m
  <2>1. PICK j \in 1 .. Len(bench[s]) : bench[s][j] = m
    BY <1>5
  <2>2. m \in ToSet(bench[s]) /\ m \in Mons
    BY <1>2, <1>3, <2>1, ElementOfSeq DEF ToSet
  <2> QED
    BY <1>2, <2>2, SizesAssumption DEF UsableBench
<1> QED
  BY <1>1, <1>4, <1>5

LEMMA SomebodyLeft ==
  ASSUME BattleIInv, ~PartyLost
  PROVE  \E m \in ToSet(Team) : hp[m] > 0
<1>0. "player" \in Side
  BY DEF Side
<1>1. /\ active["player"] \in ToSet(Team)
      /\ \A j \in 1 .. Len(bench["player"]) : bench["player"][j] \in ToSet(Roster("player"))
  BY <1>0, WhoIsWho DEF BattleIInv
<1>2. DOMAIN bench["player"] = 1 .. Len(bench["player"])
  <2>1. bench["player"] \in Seq(Mons)
    BY <1>0 DEF BattleIInv, TypeOK
  <2> QED
    BY <2>1, LenProperties
<1>3. ToSet(Roster("player")) = ToSet(Team)
  BY <1>0, RosterType
<1> QED
  BY <1>1, <1>2, <1>3 DEF PartyLost, Standing, UsableBench, ToSet

\* The opponent down is replaced by one that stands, or the battle is won.
LEMMA EnemySettled ==
  ASSUME BattleIInv, outcome = "none", ~Standing("enemy"), ~PartyLost,
         NEW ins, Fits(ins), DOMAIN ins \subseteq {"player"},
         kind = "Trainer" /\ UsableBench("enemy") # {} =>
           Standing("player") \/ DOMAIN ins = {"player"},
         SettleFaintedEnemy(ins), kind' = kind, hp' = hp
  PROVE  /\ FieldSound'
         /\ \/ /\ outcome' = "none" /\ money' = money
               /\ Standing("player")' /\ Standing("enemy")'
            \/ /\ outcome' = "PlayerWon" /\ money' = (IF kind = "Trainer" THEN 1 ELSE 0)
               /\ \A e \in ToSet(Roster("enemy")) : hp[e] = 0
               /\ \E m \in ToSet(Team) : hp[m] > 0
<1>0. FieldSound /\ "player" \in Side /\ "enemy" \in Side /\ money = 0
  BY FieldIsSound DEF Side, BattleIInv, OutcomeJustified
<1>1. CASE kind = "Trainer" /\ UsableBench("enemy") # {}
  <2>1. PICK position \in SwitchTargets("enemy") : SendOut(Also(ins, "enemy", position))
    BY <1>1 DEF SettleFaintedEnemy
  <2>2. outcome' = "none" /\ money' = money
    BY <1>1 DEF SettleFaintedEnemy
  <2>3. \E j \in 1 .. Len(bench["enemy"]) :
          position = PositionOf("enemy", j) /\ hp[bench["enemy"][j]] > 0
    BY <1>0, TargetFits
  <2>4. /\ Fits(Also(ins, "enemy", position))
        /\ DOMAIN Also(ins, "enemy", position) = DOMAIN ins \cup {"enemy"}
    BY <1>0, <2>3, AlsoFits
  <2>5. PICK all : all = Also(ins, "enemy", position)
    OBVIOUS
  <2>6. /\ Fits(all) /\ SendOut(all) /\ DOMAIN all = DOMAIN ins \cup {"enemy"}
    BY <2>1, <2>4, <2>5
  <2>7. /\ FieldSound' /\ \A s \in DOMAIN all : hp[active'[s]] > 0
        /\ \A s \in Side \ DOMAIN all : active'[s] = active[s]
    BY <1>0, <2>6, SentOut
  <2>8. Standing("enemy")'
    BY <2>6, <2>7 DEF Standing
  <2>9. Standing("player")'
    <3>1. CASE "player" \in DOMAIN all
      BY <2>7, <3>1 DEF Standing
    <3>2. CASE "player" \notin DOMAIN all
      BY <1>0, <1>1, <2>6, <2>7, <3>2 DEF Standing
    <3> QED
      BY <3>1, <3>2
  <2> QED
    BY <2>2, <2>7, <2>8, <2>9
<1>2. CASE ~(kind = "Trainer" /\ UsableBench("enemy") # {})
  <2>1. /\ outcome' = "PlayerWon" /\ SendOut(ins)
        /\ money' = money + (IF kind = "Trainer" THEN 1 ELSE 0)
    BY <1>2 DEF SettleFaintedEnemy
  <2>2. FieldSound'
    BY <1>0, <2>1, SentOut
  <2>3. money' = (IF kind = "Trainer" THEN 1 ELSE 0)
    BY <1>0, <2>1
  <2>4. UsableBench("enemy") = {}
    <3>1. CASE kind = "Trainer"
      BY <1>2, <3>1
    <3>2. CASE kind # "Trainer"
      <4>1. Len(bench["enemy"]) = 0
        BY <3>2, WhoIsWho DEF BattleIInv
      <4>2. DOMAIN bench["enemy"] = 1 .. 0
        <5>1. bench["enemy"] \in Seq(Mons)
          BY <1>0 DEF FieldSound
        <5> QED
          BY <4>1, <5>1, LenProperties
      <4> QED
        BY <4>2 DEF UsableBench, ToSet
    <3> QED
      BY <3>1, <3>2
  <2>5. \A e \in ToSet(Roster("enemy")) : hp[e] = 0
    BY <1>0, <2>4, NobodyLeft
  <2> QED
    BY <2>1, <2>2, <2>3, <2>5, SomebodyLeft
<1> QED
  BY <1>1, <1>2

\* What `handle_fainted_mons` leaves, apart from where the call stands.
Settled ==
  /\ FieldSound /\ OutcomeSays /\ RewardOncePerFoe /\ FoeUnpaid
  /\ pending \in 0 .. MaxPrompts /\ outcome \in Outcomes \cup {"none"}
  /\ paid \in [ToSet(Foes) -> Nat] /\ money \in Nat
  /\ pending > 0 => outcome = "none" /\ Standing("player") /\ ~Standing("enemy")

BothStand == outcome = "none" /\ pending = 0 => Standing("player") /\ Standing("enemy")

LEMMA AlreadySettled == BattleIInv => Settled
BY FieldIsSound DEF BattleIInv, TypeOK, Settled, OutcomeJustified, OutcomeSays, Underway

LEMMA SettledStays ==
  ASSUME Settled, kind' = kind, hp' = hp, UNCHANGED <<party, scratch, outcome, pending, paid, money>>
  PROVE  Settled'
<1>1. FieldSound'
  BY FieldStays DEF Settled
<1>2. /\ active' = active /\ outcome' = outcome /\ pending' = pending /\ paid' = paid /\ money' = money
  BY DEF party
<1>3. OutcomeSays' /\ RewardOncePerFoe' /\ FoeUnpaid'
  BY <1>2 DEF Settled, OutcomeSays, RewardOncePerFoe, FoeUnpaid, Roster
<1> QED
  BY <1>1, <1>2, <1>3 DEF Settled, Standing

LEMMA OutIsOfTheParty ==
  ASSUME FieldSound', NEW s \in Side
  PROVE  active'[s] \in ToSet(Roster(s)')
<1>1. /\ active'[s] \in Mons /\ bench'[s] \in Seq(Mons) /\ slot'[s] \in 0 .. Len(bench'[s])
      /\ Filed(bench'[s], slot'[s], active'[s]) = Roster(s)'
  BY DEF FieldSound, PartyOrderKept, Members, Filed
<1> QED
  BY <1>1, FiledHolds

LEMMA Handled ==
  ASSUME BattleIInv, HandleFaintedMons, kind' = kind, hp' = hp
  PROVE  Settled' /\ BothStand' /\ reported' = reported
<1> USE SizesAssumption
<1>0. /\ FieldSound /\ Settled /\ "player" \in Side /\ "enemy" \in Side /\ Side = {"player", "enemy"}
      /\ hp \in [Mons -> 0 .. MaxHp] /\ paid \in [ToSet(Foes) -> Nat] /\ money \in Nat
      /\ active["enemy"] \in ToSet(Foes) /\ active["enemy"] \in Mons /\ active["player"] \in Mons
  BY FieldIsSound, AlreadySettled, WhoIsWho DEF Side, BattleIInv, TypeOK
<1>1. CASE /\ outcome # "none" \/ pending > 0 \/ \A s \in Side : Standing(s)
           /\ UNCHANGED <<party, scratch, pending, outcome, told>>
  <2>1. active' = active /\ outcome' = outcome /\ pending' = pending /\ paid' = paid /\ money' = money
        /\ reported' = reported
    BY <1>1 DEF told, party
  <2>2. Settled'
    BY <1>0, <1>1, <2>1, SettledStays
  <2>3. BothStand'
    BY <1>0, <1>1, <2>1 DEF BothStand, Standing
  <2> QED
    BY <2>1, <2>2, <2>3
<1>2. CASE /\ outcome = "none" /\ pending = 0 /\ PartyLost
           /\ outcome' = "PlayerLost"
           /\ UNCHANGED <<party, scratch, pending, told>>
  <2>1. active' = active /\ pending' = pending /\ paid' = paid /\ money' = money /\ reported' = reported
    BY <1>2 DEF told, party
  <2>2. FieldSound'
    BY <1>0, <1>2, FieldStays
  <2>3. \A m \in ToSet(Team) : hp[m] = 0
    <3>1. ToSet(Roster("player")) = ToSet(Team)
      BY <1>0, RosterType
    <3> QED
      BY <1>0, <1>2, <3>1, NobodyLeft DEF PartyLost
  <2>4. OutcomeSays'
    BY <1>0, <1>2, <2>1, <2>3 DEF OutcomeSays, Settled
  <2>5. RewardOncePerFoe' /\ FoeUnpaid'
    BY <1>0, <1>2, <2>1 DEF Settled, RewardOncePerFoe, FoeUnpaid
  <2> QED
    BY <1>0, <1>2, <2>1, <2>2, <2>4, <2>5 DEF Settled, BothStand, Outcomes, Standing
<1>3. CASE outcome = "none" /\ pending = 0 /\ ~PartyLost /\ ~Standing("enemy") /\ RewardThenReplace
  <2>1. PICK prompts \in IF Earns THEN 0 .. MaxPrompts ELSE {0} :
          /\ pending' = prompts
          /\ IF prompts > 0
             THEN UNCHANGED <<party, scratch, outcome, money>>
             ELSE SettleFaintedEnemy(
                    IF ~Standing("player") /\ kind = "Trainer" /\ UsableBench("enemy") # {}
                    THEN Also(<< >>, "player", NextReserve("player")) ELSE << >>)
    BY <1>3 DEF RewardThenReplace
  <2>2. /\ reported' = reported
        /\ paid' = IF Earns THEN [paid EXCEPT ![active["enemy"]] = @ + 1] ELSE paid
    BY <1>3 DEF RewardThenReplace
  <2>3. hp[active["enemy"]] = 0 /\ paid[active["enemy"]] = 0
    BY <1>0, <1>3 DEF BattleIInv, FoeUnpaid, Standing
  <2>4. /\ paid' \in [ToSet(Foes) -> Nat]
        /\ \A e \in ToSet(Foes) : e # active["enemy"] => paid'[e] = paid[e]
        /\ paid'[active["enemy"]] <= 1
    BY <1>0, <2>2, <2>3
  <2>5. \A e \in ToSet(Foes) : paid[e] <= (IF hp[e] = 0 THEN 1 ELSE 0)
    BY <1>0 DEF Settled, RewardOncePerFoe
  <2>6. RewardOncePerFoe'
    <3>1. \A e \in ToSet(Foes) : paid'[e] <= (IF hp'[e] = 0 THEN 1 ELSE 0)
      BY <2>3, <2>4, <2>5
    <3> QED
      BY <2>4, <3>1 DEF RewardOncePerFoe
  <2>7. CASE prompts > 0
    <3>1. Earns /\ pending' \in 0 .. MaxPrompts /\ pending' > 0
      BY <2>1, <2>7
    <3>2. UNCHANGED <<party, scratch, outcome, money>>
      BY <2>1, <2>7
    <3>3. active' = active /\ outcome' = "none" /\ money' = money
      BY <1>3, <3>2 DEF party
    <3>4. FieldSound'
      BY <1>0, <3>2, FieldStays
    <3>5. OutcomeSays'
      BY <1>0, <1>3, <3>3 DEF Settled, OutcomeSays
    <3>6. FoeUnpaid' /\ BothStand'
      BY <3>1 DEF FoeUnpaid, BothStand
    <3>7. Standing("player")' /\ ~Standing("enemy")'
      BY <1>3, <3>1, <3>3 DEF Earns, Standing
    <3> QED
      BY <1>0, <2>2, <2>4, <2>6, <3>1, <3>3, <3>4, <3>5, <3>6, <3>7 DEF Settled
  <2>8. CASE ~(prompts > 0)
    <3>1. prompts = 0 /\ pending' = 0
      BY <2>1, <2>8
    <3>2. PICK ins : /\ ins = IF ~Standing("player") /\ kind = "Trainer" /\ UsableBench("enemy") # {}
                              THEN Also(<< >>, "player", NextReserve("player")) ELSE << >>
                     /\ SettleFaintedEnemy(ins)
      BY <2>1, <2>8
    <3>3. /\ Fits(ins) /\ DOMAIN ins \subseteq {"player"}
          /\ kind = "Trainer" /\ UsableBench("enemy") # {} =>
               Standing("player") \/ DOMAIN ins = {"player"}
      <4>1. CASE ~Standing("player") /\ kind = "Trainer" /\ UsableBench("enemy") # {}
        <5>1. UsableBench("player") # {}
          BY <1>3, <4>1 DEF PartyLost
        <5>2. \E j \in 1 .. Len(bench["player"]) :
                NextReserve("player") = PositionOf("player", j) /\ hp[bench["player"][j]] > 0
          BY <1>0, <5>1, ReserveFits
        <5>3. /\ Fits(Also(<< >>, "player", NextReserve("player")))
              /\ DOMAIN Also(<< >>, "player", NextReserve("player")) = DOMAIN << >> \cup {"player"}
          BY <1>0, <5>2, NoneFits, AlsoFits
        <5> QED
          BY <3>2, <4>1, <5>3, NoneFits
      <4>2. CASE ~(~Standing("player") /\ kind = "Trainer" /\ UsableBench("enemy") # {})
        BY <3>2, <4>2, NoneFits
      <4> QED
        BY <4>1, <4>2
    <3>4. /\ FieldSound'
          /\ \/ /\ outcome' = "none" /\ money' = money
                /\ Standing("player")' /\ Standing("enemy")'
             \/ /\ outcome' = "PlayerWon" /\ money' = (IF kind = "Trainer" THEN 1 ELSE 0)
                /\ \A e \in ToSet(Roster("enemy")) : hp[e] = 0
                /\ \E m \in ToSet(Team) : hp[m] > 0
      BY <1>3, <3>2, <3>3, EnemySettled
    <3>5. Roster("enemy")' = Roster("enemy")
      BY DEF Roster
    <3>6. OutcomeSays' /\ BothStand' /\ money' \in Nat /\ outcome' \in Outcomes \cup {"none"}
      <4>1. CASE outcome' = "none" /\ money' = money /\ Standing("player")' /\ Standing("enemy")'
        BY <1>0, <1>3, <3>1, <4>1 DEF Settled, OutcomeSays, BothStand
      <4>2. CASE /\ outcome' = "PlayerWon" /\ money' = (IF kind = "Trainer" THEN 1 ELSE 0)
                 /\ \A e \in ToSet(Roster("enemy")) : hp[e] = 0
                 /\ \E m \in ToSet(Team) : hp[m] > 0
        BY <3>1, <3>5, <4>2 DEF OutcomeSays, BothStand, Outcomes
      <4> QED
        BY <3>4, <4>1, <4>2
    <3>7. FoeUnpaid'
      <4> SUFFICES ASSUME outcome' = "none" PROVE paid'[active'["enemy"]] = 0
        BY DEF FoeUnpaid
      <4>1. hp[active'["enemy"]] > 0
        BY <3>4 DEF Standing
      <4>2. active'["enemy"] \in ToSet(Foes)
        <5>1. FieldSound' /\ PartyOrderKept'
          BY <3>4 DEF FieldSound
        <5>2. active'["enemy"] \in ToSet(Roster("enemy"))
          BY <1>0, <3>5, <5>1, OutIsOfTheParty
        <5> QED
          BY <1>0, <5>2, RosterType
      <4>3. active'["enemy"] # active["enemy"]
        BY <2>3, <4>1
      <4>4. paid'[active'["enemy"]] = paid[active'["enemy"]] /\ paid[active'["enemy"]] <= 0
            /\ paid[active'["enemy"]] \in Nat
        BY <1>0, <2>4, <2>5, <4>1, <4>2, <4>3
      <4> QED
        BY <4>4
    <3> QED
      BY <1>0, <2>2, <2>4, <2>6, <3>1, <3>4, <3>6, <3>7 DEF Settled
  <2> QED
    BY <2>7, <2>8
<1>4. CASE /\ outcome = "none" /\ pending = 0
           /\ ~PartyLost /\ Standing("enemy") /\ ~Standing("player")
           /\ SendOut(Also(<< >>, "player", NextReserve("player")))
           /\ UNCHANGED <<pending, outcome, told>>
  <2>1. UsableBench("player") # {}
    BY <1>4 DEF PartyLost
  <2>2. \E j \in 1 .. Len(bench["player"]) :
          NextReserve("player") = PositionOf("player", j) /\ hp[bench["player"][j]] > 0
    BY <1>0, <2>1, ReserveFits
  <2>3. PICK ins : ins = Also(<< >>, "player", NextReserve("player"))
    OBVIOUS
  <2>4. Fits(ins) /\ DOMAIN ins = {"player"}
    <3>1. /\ Fits(Also(<< >>, "player", NextReserve("player")))
          /\ DOMAIN Also(<< >>, "player", NextReserve("player")) = DOMAIN << >> \cup {"player"}
      BY <1>0, <2>2, NoneFits, AlsoFits
    <3> QED
      BY <2>3, <3>1, NoneFits
  <2>5. /\ FieldSound' /\ \A s \in DOMAIN ins : hp[active'[s]] > 0
        /\ \A s \in Side \ DOMAIN ins : active'[s] = active[s]
    BY <1>0, <1>4, <2>3, <2>4, SentOut
  <2>6. Standing("player")' /\ Standing("enemy")' /\ active'["enemy"] = active["enemy"]
    BY <1>0, <1>4, <2>4, <2>5 DEF Standing
  <2>7. pending' = pending /\ outcome' = outcome /\ paid' = paid /\ money' = money /\ reported' = reported
    BY <1>4 DEF told
  <2>8. OutcomeSays' /\ RewardOncePerFoe' /\ FoeUnpaid'
    BY <1>0, <1>4, <2>6, <2>7 DEF Settled, OutcomeSays, RewardOncePerFoe, FoeUnpaid, Roster
  <2> QED
    BY <1>0, <1>4, <2>5, <2>6, <2>7, <2>8 DEF Settled, BothStand
<1> QED
  BY <1>1, <1>2, <1>3, <1>4 DEF HandleFaintedMons

---------------------------------------------------------------------------
(* Faints reported.                                                        *)

\* The calls about side f are true of a battler that went from x to y HP: its faint
\* is among them, once, if and only if it happened.
Tells(calls, f, x, y) ==
  /\ \A i \in DOMAIN calls : calls[i][1] = f /\ calls[i][2] = 0 => x > 0 /\ y = 0
  /\ x > 0 /\ y = 0 => \E i \in DOMAIN calls : calls[i][1] = f /\ calls[i][2] = 0
  /\ \A i, j \in DOMAIN calls : calls[i][1] = f /\ calls[i][2] = 0
                                /\ calls[j][1] = f /\ calls[j][2] = 0 => i = j

Sides(calls) == \A i \in DOMAIN calls : calls[i][1] \in Side

\* What a step that hurts somebody on the field keeps.
Hurt ==
  /\ FieldSound /\ FaintToldOnce /\ RewardOncePerFoe
  /\ hp \in [Mons -> 0 .. MaxHp] /\ reported \in [Mons -> Nat]

LEMMA FaintsSettled ==
  ASSUME BattleIInv, UNCHANGED <<kind, party>>, NEW calls, NEW locks, SettleFaints(calls, locks),
         hp' \in [Mons -> 0 .. MaxHp],
         \A m \in Mons : m # active["player"] /\ m # active["enemy"] => hp'[m] = hp[m],
         \A f \in Side : hp[active[f]] = 0 => hp'[active[f]] = 0,
         Sides(calls), \A f \in Side : Tells(calls, f, hp[active[f]], hp'[active[f]]),
         locks \in [Side -> 0 .. (SeriesAttempts - 1)], runner' \in [Side -> Mons],
         \A f \in Side : locks[f] > 0 => runner'[f] = active[f] /\ Standing(f)
  PROVE  Hurt'
<1> USE SizesAssumption
<1>0. /\ FieldSound /\ hp \in [Mons -> 0 .. MaxHp] /\ reported \in [Mons -> Nat]
      /\ "player" \in Side /\ "enemy" \in Side /\ Side = {"player", "enemy"}
      /\ active["player"] # active["enemy"] /\ \A f \in Side : active[f] \in Mons
      /\ active' = active /\ bench' = bench /\ slot' = slot
  BY FieldIsSound, WhoIsWho DEF Side, BattleIInv, TypeOK, party
<1>1. PICK fell : fell = FellIn(calls)
  OBVIOUS
<1>2. /\ reported' = [m \in Mons |-> reported[m] + Cardinality(
             {i \in DOMAIN calls : calls[i][2] = 0 /\ active[calls[i][1]] = m})]
      /\ seeded' = seeded \ fell
      /\ inLove' = inLove \ (fell \cup {Other(f) : f \in fell})
      /\ lock' = [s \in Side |-> IF s \in fell THEN 0 ELSE locks[s]]
      /\ paid' = paid /\ money' = money /\ courted' = courted
  BY <1>1 DEF SettleFaints
<1>3. \A f \in Side : f \in fell <=> \E i \in DOMAIN calls : calls[i][1] = f /\ calls[i][2] = 0
  BY <1>1 DEF FellIn
<1>4. \A f \in Side : f \in fell <=> hp[active[f]] > 0 /\ hp'[active[f]] = 0
  <2> TAKE f \in Side
  <2>1. Tells(calls, f, hp[active[f]], hp'[active[f]])
    OBVIOUS
  <2> QED
    BY <1>3, <2>1 DEF Tells
<1>5. \A m \in Mons : hp[m] = 0 => hp'[m] = 0
  BY <1>0
<1>6. ASSUME NEW m \in Mons
      PROVE  /\ reported'[m] \in Nat
             /\ reported'[m] = IF hp'[m] = 0 THEN 1 ELSE 0
  <2> DEFINE S == {i \in DOMAIN calls : calls[i][2] = 0 /\ active[calls[i][1]] = m}
  <2>1. reported[m] = IF hp[m] = 0 THEN 1 ELSE 0
    BY DEF BattleIInv, FaintToldOnce
  <2>2. reported'[m] = reported[m] + Cardinality(S)
    BY <1>2
  <2>3. hp[m] \in Nat /\ hp'[m] \in Nat
    BY <1>0
  <2>4. CASE hp[m] > 0 /\ hp'[m] = 0
    <3>1. PICK f \in Side : m = active[f] /\ \A g \in Side : active[g] = m => g = f
      BY <1>0, <2>4
    <3>2. Tells(calls, f, hp[m], hp'[m])
      BY <3>1
    <3>3. PICK i \in DOMAIN calls : calls[i][1] = f /\ calls[i][2] = 0
      BY <2>4, <3>2 DEF Tells
    <3>4. S = {i}
      <4>1. i \in S
        BY <3>1, <3>3
      <4>2. \A j \in S : j \in DOMAIN calls /\ calls[j][2] = 0 /\ calls[j][1] = f
        BY <3>1 DEF Sides
      <4>3. \A j \in S : j = i
        BY <3>2, <3>3, <4>2 DEF Tells
      <4> QED
        BY <4>1, <4>3
    <3>5. Cardinality(S) = 1
      BY <3>4, FS_Singleton
    <3> QED
      BY <2>1, <2>2, <2>4, <3>5
  <2>5. CASE ~(hp[m] > 0 /\ hp'[m] = 0)
    <3>1. S = {}
      <4> SUFFICES ASSUME NEW i \in DOMAIN calls, calls[i][2] = 0, active[calls[i][1]] = m
                   PROVE  FALSE
        OBVIOUS
      <4>1. calls[i][1] \in Side
        BY DEF Sides
      <4>2. Tells(calls, calls[i][1], hp[m], hp'[m])
        BY <4>1
      <4> QED
        BY <2>5, <4>2 DEF Tells
    <3>2. Cardinality(S) = 0
      BY <3>1, FS_EmptySet
    <3>3. hp'[m] = 0 <=> hp[m] = 0
      BY <1>5, <2>3, <2>5
    <3> QED
      BY <2>1, <2>2, <3>2, <3>3
  <2> QED
    BY <2>4, <2>5
<1>7. reported' \in [Mons -> Nat] /\ FaintToldOnce'
  <2>1. DOMAIN reported' = Mons
    BY <1>2
  <2>2. reported' = [m \in Mons |-> reported'[m]]
    BY <1>2
  <2> QED
    BY <1>6, <2>2 DEF FaintToldOnce
<1>8. RewardOncePerFoe'
  <2>1. \A e \in ToSet(Foes) : e \in Mons
    BY DEF Mons
  <2>2. paid \in [ToSet(Foes) -> Nat] /\ \A e \in ToSet(Foes) : paid[e] <= IF hp[e] = 0 THEN 1 ELSE 0
    BY DEF BattleIInv, TypeOK, RewardOncePerFoe
  <2> QED
    BY <1>2, <1>5, <2>1, <2>2 DEF RewardOncePerFoe
<1>9. ScratchIsCurrent'
  <2>1. ASSUME NEW s \in inLove'
        PROVE  courted'[s] = active'[Other(s)] /\ Standing(s)' /\ Standing(Other(s))'
    <3>1. s \in inLove /\ s \notin fell /\ s \in Side /\ Other(s) \in Side /\ Other(Other(s)) = s
      BY <1>0, <1>2, <2>1 DEF FieldSound, Other
    <3>2. Other(s) \notin fell
      BY <1>2, <2>1, <3>1
    <3>3. courted[s] = active[Other(s)] /\ hp[active[s]] > 0 /\ hp[active[Other(s)]] > 0
      BY <1>0, <3>1 DEF FieldSound, ScratchIsCurrent, Standing
    <3>4. hp'[active[s]] \in Nat /\ hp'[active[Other(s)]] \in Nat
      BY <1>0, <3>1
    <3> QED
      BY <1>0, <1>2, <1>4, <3>1, <3>2, <3>3, <3>4 DEF Standing
  <2>2. ASSUME NEW s \in Side, lock'[s] > 0
        PROVE  runner'[s] = active'[s] /\ Standing(s)'
    <3>1. s \notin fell /\ locks[s] > 0
      BY <1>2, <2>2
    <3>2. runner'[s] = active[s] /\ hp[active[s]] > 0 /\ hp'[active[s]] \in Nat
      BY <1>0, <3>1 DEF Standing
    <3> QED
      BY <1>0, <1>4, <3>1, <3>2 DEF Standing
  <2> QED
    BY <2>1, <2>2 DEF ScratchIsCurrent
<1>10. FieldSound'
  <2>1. PartyOrderKept'
    BY <1>0 DEF FieldSound, PartyOrderKept, Members, Roster
  <2>2. lock' \in [Side -> 0 .. (SeriesAttempts - 1)]
    BY <1>2
  <2>3. courted' \in [Side -> Mons]
    BY <1>0, <1>2 DEF FieldSound
  <2> QED
    BY <1>0, <1>2, <1>9, <2>1, <2>2, <2>3 DEF FieldSound
<1> QED
  BY <1>7, <1>8, <1>10 DEF Hurt

---------------------------------------------------------------------------
(* The moves.                                                              *)

LEMMA MinusLess == \A h, d \in Nat : Minus(h, d) \in 0 .. h
BY DEF Minus

LEMMA OtherSide ==
  \A s \in Side : Other(s) \in Side /\ Other(s) # s /\ \A f \in Side : f = s \/ f = Other(s)
BY DEF Side, Other

LEMMA LandsSound ==
  ASSUME BattleIInv, UNCHANGED <<kind, party>>, NEW s \in Side, Standing(s), Standing(Other(s)),
         NEW own \in 0 .. MaxHp, NEW dealt \in Nat, NEW skin \in Nat, NEW calls, NEW locks,
         (calls = << >> /\ own > 0) \/ calls = << <<s, own>> >>,
         Lands(s, own, dealt, calls, skin, locks),
         locks \in [Side -> 0 .. (SeriesAttempts - 1)], runner' \in [Side -> Mons],
         \A f \in Side : locks[f] > 0 => runner'[f] = active[f]
  PROVE  Hurt' /\ ailing' \subseteq Mons /\ paid' = paid /\ money' = money
<1> DEFINE t == Other(s)
           theirs == Minus(hp[active[t]], dealt)
           mine == IF Retaliates(own, skin) THEN Minus(own, skin) ELSE own
           all == calls \o << <<t, theirs>> >>
                  \o (IF Retaliates(own, skin) THEN << <<s, mine>> >> ELSE << >>)
<1> USE SizesAssumption
<1>0. /\ t \in Side /\ t # s /\ \A f \in Side : f = s \/ f = t
  BY OtherSide
<1>1. /\ \A f \in Side : active[f] \in Mons
      /\ hp \in [Mons -> 0 .. MaxHp] /\ ailing \subseteq Mons
  BY DEF BattleIInv, TypeOK
<1>2. active[s] # active[t]
  <2>1. active["player"] # active["enemy"]
    BY WhoIsWho DEF BattleIInv
  <2> QED
    BY <1>0, <2>1 DEF Side
<1>3. /\ hp' = [hp EXCEPT ![active[s]] = mine, ![active[t]] = theirs]
      /\ SettleFaints(all, locks)
      /\ \E sick \in SUBSET ({active[f] : f \in Side \ FellIn(all)} \ ailing) :
           ailing' = (ailing \cup sick) \ {active[f] : f \in FellIn(all)}
  BY DEF Lands
<1>4. hp[active[t]] \in Nat /\ hp[active[t]] > 0 /\ hp[active[t]] <= MaxHp
      /\ hp[active[s]] \in Nat /\ hp[active[s]] > 0
  BY <1>0, <1>1 DEF Standing
<1>5. theirs \in 0 .. MaxHp /\ mine \in 0 .. MaxHp
  <2>1. theirs \in 0 .. hp[active[t]]
    BY <1>4, MinusLess
  <2>2. own \in Nat /\ own <= MaxHp
    OBVIOUS
  <2>3. Minus(own, skin) \in 0 .. own
    BY <2>2, MinusLess
  <2> QED
    BY <1>4, <2>1, <2>2, <2>3
<1>6. ailing' \subseteq Mons
  <2>1. PICK sick \in SUBSET ({active[f] : f \in Side \ FellIn(all)} \ ailing) :
          ailing' = (ailing \cup sick) \ {active[f] : f \in FellIn(all)}
    BY <1>3
  <2>2. {active[f] : f \in Side \ FellIn(all)} \subseteq Mons
    BY <1>1
  <2>3. sick \subseteq Mons
    BY <2>1, <2>2
  <2> QED
    BY <1>1, <2>1, <2>3
<1>7. /\ hp' \in [Mons -> 0 .. MaxHp]
      /\ hp'[active[s]] = mine /\ hp'[active[t]] = theirs
      /\ \A m \in Mons : m # active[s] /\ m # active[t] => hp'[m] = hp[m]
  <2> HIDE DEF theirs, mine, t, all
  <2> QED
    BY <1>0, <1>1, <1>2, <1>3, <1>5
<1>8. /\ Tells(all, s, hp[active[s]], mine) /\ Tells(all, t, hp[active[t]], theirs) /\ Sides(all)
  <2>1. CASE calls = << >> /\ ~Retaliates(own, skin)
    <3>1. all = << <<t, theirs>> >>
      <4>1. << >> \o << <<t, theirs>> >> = << <<t, theirs>> >> /\ << <<t, theirs>> >> \o << >> = << <<t, theirs>> >>
        BY ShortLists
      <4> QED
        BY <2>1, <4>1
    <3>2. mine = own /\ own > 0
      BY <2>1
    <3> HIDE DEF all, theirs, mine, t
    <3>3. DOMAIN all = {1} /\ all[1][1] = t /\ all[1][2] = theirs
      BY <3>1
    <3> QED
      BY <1>0, <1>4, <1>5, <3>2, <3>3 DEF Tells, Sides
  <2>2. CASE calls = << <<s, own>> >> /\ ~Retaliates(own, skin)
    <3>1. all = << <<s, own>>, <<t, theirs>> >>
      <4>1. /\ << <<s, own>> >> \o << <<t, theirs>> >> = << <<s, own>>, <<t, theirs>> >>
            /\ << <<s, own>>, <<t, theirs>> >> \o << >> = << <<s, own>>, <<t, theirs>> >>
        BY ShortLists
      <4> QED
        BY <2>2, <4>1
    <3>2. mine = own
      BY <2>2
    <3> HIDE DEF all, theirs, mine, t
    <3>3. /\ DOMAIN all = {1, 2} /\ all[1][1] = s /\ all[1][2] = own
          /\ all[2][1] = t /\ all[2][2] = theirs
      BY <3>1
    <3> QED
      BY <1>0, <1>4, <1>5, <3>2, <3>3 DEF Tells, Sides
  <2>3. CASE calls = << >> /\ Retaliates(own, skin)
    <3>1. all = << <<t, theirs>>, <<s, mine>> >>
      <4>1. /\ << >> \o << <<t, theirs>> >> = << <<t, theirs>> >>
            /\ << <<t, theirs>> >> \o << <<s, mine>> >> = << <<t, theirs>>, <<s, mine>> >>
        BY ShortLists
      <4> QED
        BY <2>3, <4>1
    <3> HIDE DEF all, theirs, mine, t
    <3>3. /\ DOMAIN all = {1, 2} /\ all[1][1] = t /\ all[1][2] = theirs
          /\ all[2][1] = s /\ all[2][2] = mine
      BY <3>1
    <3> QED
      BY <1>0, <1>4, <1>5, <3>3 DEF Tells, Sides
  <2>4. CASE calls = << <<s, own>> >> /\ Retaliates(own, skin)
    <3>1. all = << <<s, own>>, <<t, theirs>>, <<s, mine>> >>
      <4>1. /\ << <<s, own>> >> \o << <<t, theirs>> >> = << <<s, own>>, <<t, theirs>> >>
            /\ << <<s, own>>, <<t, theirs>> >> \o << <<s, mine>> >>
                 = << <<s, own>>, <<t, theirs>>, <<s, mine>> >>
        BY ShortLists
      <4> QED
        BY <2>4, <4>1
    <3>2. own > 0 /\ own \in Nat
      BY <2>4 DEF Retaliates
    <3> HIDE DEF all, theirs, mine, t
    <3>3. /\ DOMAIN all = {1, 2, 3} /\ all[1][1] = s /\ all[1][2] = own
          /\ all[2][1] = t /\ all[2][2] = theirs
          /\ all[3][1] = s /\ all[3][2] = mine
      BY <3>1
    <3> QED
      BY <1>0, <1>4, <1>5, <3>2, <3>3 DEF Tells, Sides
  <2> QED
    BY <2>1, <2>2, <2>3, <2>4
<1> HIDE DEF all, theirs, mine, t
<1>9. PICK list : list = all
  OBVIOUS
<1>10. /\ \A f \in Side : Tells(list, f, hp[active[f]], hp'[active[f]])
       /\ Sides(list) /\ SettleFaints(list, locks)
  <2>1. Sides(list) /\ SettleFaints(list, locks)
    BY <1>3, <1>8, <1>9
  <2>2. Tells(list, s, hp[active[s]], hp'[active[s]]) /\ Tells(list, t, hp[active[t]], hp'[active[t]])
    BY <1>7, <1>8, <1>9
  <2> QED
    BY <1>0, <2>1, <2>2
<1>11. /\ \A m \in Mons : m # active["player"] /\ m # active["enemy"] => hp'[m] = hp[m]
       /\ \A f \in Side : hp[active[f]] = 0 => hp'[active[f]] = 0
       /\ \A f \in Side : locks[f] > 0 => runner'[f] = active[f] /\ Standing(f)
  <2>1. \A m \in Mons : m # active["player"] /\ m # active["enemy"] => m # active[s] /\ m # active[t]
    BY <1>0 DEF Side
  <2>2. \A f \in Side : hp[active[f]] # 0 /\ Standing(f)
    BY <1>0, <1>4 DEF Standing
  <2> QED
    BY <1>7, <2>1, <2>2
<1>12. Hurt'
  BY <1>7, <1>10, <1>11, FaintsSettled
<1> QED
  BY <1>3, <1>6, <1>12 DEF SettleFaints

LEMMA MoveSound ==
  ASSUME BattleIInv, UNCHANGED <<kind, party>>, NEW s \in Side, BothCanAct,
         \/ HitMove(s) \/ DrainMove(s) \/ MultiHitMove(s) \/ RolloutMove(s)
         \/ SelfHit(s) \/ AttractMove(s) \/ LeechSeedMove(s) \/ NothingLands(s)
  PROVE  Hurt' /\ ailing' \subseteq Mons /\ paid' = paid /\ money' = money
<1> DEFINE t == Other(s)
<1> USE SizesAssumption
<1>0. /\ t \in Side /\ t # s /\ \A f \in Side : f = s \/ f = t
  BY OtherSide
<1>1. /\ FieldSound /\ \A f \in Side : active[f] \in Mons
      /\ hp \in [Mons -> 0 .. MaxHp] /\ ailing \subseteq Mons /\ reported \in [Mons -> Nat]
      /\ lock \in [Side -> 0 .. (SeriesAttempts - 1)] /\ runner \in [Side -> Mons]
      /\ courted \in [Side -> Mons] /\ FaintToldOnce /\ RewardOncePerFoe
      /\ active' = active /\ bench' = bench /\ slot' = slot
  BY FieldIsSound DEF BattleIInv, TypeOK, party
<1>2. Standing(s) /\ Standing(t)
  BY <1>0 DEF BothCanAct
<1>3. \A f \in Side : hp[active[f]] \in 0 .. MaxHp /\ hp[active[f]] > 0 /\ Standing(f)
  BY <1>0, <1>1, <1>2 DEF Standing
<1>4. \A f \in Side : lock[f] > 0 => runner[f] = active[f]
  BY <1>1 DEF FieldSound, ScratchIsCurrent
<1>5. hp[active[s]] \in Nat /\ hp[active[s]] <= MaxHp /\ hp[active[s]] > 0
      /\ hp[active[t]] \in Nat /\ 1 .. hp[active[t]] \subseteq Nat
  BY <1>0, <1>3
<1>6. CASE HitMove(s)
  <2>1. runner' = runner
    BY <1>6 DEF HitMove
  <2>2. PICK dealt \in 1 .. hp[active[t]], recoil \in 0 .. 1, skin \in 0 .. 1 :
          Lands(s, Minus(hp[active[s]], recoil), dealt,
                IF recoil > 0 THEN << <<s, Minus(hp[active[s]], recoil)>> >> ELSE << >>, skin, lock)
    BY <1>6 DEF HitMove
  <2>3. PICK own, calls : /\ own = Minus(hp[active[s]], recoil)
                          /\ calls = IF recoil > 0 THEN << <<s, own>> >> ELSE << >>
    OBVIOUS
  <2>4. own \in 0 .. MaxHp /\ ((calls = << >> /\ own > 0) \/ calls = << <<s, own>> >>)
    BY <1>5, <2>3 DEF Minus
  <2>5. dealt \in Nat /\ skin \in Nat /\ Lands(s, own, dealt, calls, skin, lock)
    BY <1>5, <2>2, <2>3
  <2> QED
    BY <1>1, <1>2, <1>4, <2>1, <2>4, <2>5, LandsSound
<1>7. CASE DrainMove(s)
  <2>1. runner' = runner
    BY <1>7 DEF DrainMove
  <2>2. \E own \in 0 .. MaxHp, dealt \in 1 .. hp[active[t]], skin \in 0 .. 1 :
          Lands(s, own, dealt, << <<s, own>> >>, skin, lock)
    <3>1. PICK dealt \in 1 .. hp[active[t]], oozes \in BOOLEAN, skin \in 0 .. 1 :
            LET own == IF oozes THEN Minus(hp[active[s]], 1) ELSE Healed(hp[active[s]])
            IN  Lands(s, own, dealt, << <<s, own>> >>, skin, lock)
      BY <1>7 DEF DrainMove
    <3>2. /\ Minus(hp[active[s]], 1) \in 0 .. MaxHp /\ Healed(hp[active[s]]) \in 0 .. MaxHp
      BY <1>5 DEF Minus, Healed
    <3> QED
      BY <3>1, <3>2
  <2>3. PICK own \in 0 .. MaxHp, dealt \in 1 .. hp[active[t]], skin \in 0 .. 1 :
          Lands(s, own, dealt, << <<s, own>> >>, skin, lock)
    BY <2>2
  <2>4. PICK calls : calls = << <<s, own>> >>
    OBVIOUS
  <2>5. dealt \in Nat /\ skin \in Nat /\ Lands(s, own, dealt, calls, skin, lock)
    BY <1>5, <2>3, <2>4
  <2> QED
    BY <1>1, <1>2, <1>4, <2>1, <2>3, <2>4, <2>5, LandsSound
<1>8. CASE MultiHitMove(s)
  <2>1. runner' = runner
    BY <1>8 DEF MultiHitMove
  <2>2. PICK strikes \in 1 .. hp[active[t]], skin \in 0 .. 1 :
          LET own == Minus(hp[active[s]], skin * strikes)
          IN  Lands(s, own, strikes, IF skin > 0 THEN << <<s, own>> >> ELSE << >>, 0, lock)
    BY <1>8 DEF MultiHitMove
  <2>3. PICK own, calls : /\ own = Minus(hp[active[s]], skin * strikes)
                          /\ calls = IF skin > 0 THEN << <<s, own>> >> ELSE << >>
    OBVIOUS
  <2>4. strikes \in Nat
    BY <1>5
  <2>5. own \in 0 .. MaxHp /\ ((calls = << >> /\ own > 0) \/ calls = << <<s, own>> >>)
    <3>1. CASE skin = 0
      <4>1. skin * strikes = 0
        BY <2>4, <3>1
      <4> QED
        BY <1>5, <2>3, <3>1, <4>1 DEF Minus
    <3>2. CASE skin = 1
      <4>1. skin * strikes = strikes
        BY <2>4, <3>2
      <4> QED
        BY <1>5, <2>3, <2>4, <3>2, <4>1 DEF Minus
    <3> QED
      BY <3>1, <3>2
  <2>6. Lands(s, own, strikes, calls, 0, lock)
    BY <2>2, <2>3
  <2> QED
    BY <1>1, <1>2, <1>4, <2>1, <2>4, <2>5, <2>6, LandsSound
<1>9. CASE RolloutMove(s)
  <2>1. runner' = IF lock[s] = 0 THEN [runner EXCEPT ![s] = active[s]] ELSE runner
    BY <1>9 DEF RolloutMove
  <2>2. PICK dealt \in 1 .. hp[active[t]], skin \in 0 .. 1 :
          Lands(s, hp[active[s]], dealt, << >>, skin, [lock EXCEPT ![s] = NextAttempt(@)])
    BY <1>9 DEF RolloutMove
  <2>3. PICK own, calls, locks : /\ own = hp[active[s]] /\ calls = << >>
                                 /\ locks = [lock EXCEPT ![s] = NextAttempt(@)]
    OBVIOUS
  <2>4. locks \in [Side -> 0 .. (SeriesAttempts - 1)] /\ \A f \in Side : f # s => locks[f] = lock[f]
    BY <1>1, <2>3 DEF NextAttempt
  <2>5. runner' \in [Side -> Mons] /\ \A f \in Side : f # s => runner'[f] = runner[f]
    BY <1>1, <2>1
  <2>6. runner'[s] = active[s]
    <3>1. lock[s] \in 0 .. (SeriesAttempts - 1)
      BY <1>1
    <3>2. CASE lock[s] = 0
      BY <1>1, <2>1, <3>2
    <3>3. CASE lock[s] > 0
      BY <1>4, <2>1, <3>3
    <3> QED
      BY <3>1, <3>2, <3>3
  <2>7. \A f \in Side : locks[f] > 0 => runner'[f] = active[f]
    BY <1>4, <2>4, <2>5, <2>6
  <2>8. own \in 0 .. MaxHp /\ own > 0
    BY <1>5, <2>3
  <2>9. dealt \in Nat /\ skin \in Nat /\ Lands(s, own, dealt, calls, skin, locks)
    BY <1>5, <2>2, <2>3
  <2> QED
    BY <1>1, <1>2, <2>3, <2>4, <2>5, <2>7, <2>8, <2>9, LandsSound
<1>10. CASE SelfHit(s)
  <2>1. runner' = runner
    BY <1>10 DEF SelfHit
  <2>2. PICK own \in 0 .. hp[active[s]] :
          /\ hp' = [hp EXCEPT ![active[s]] = own]
          /\ SettleFaints(<< <<s, own>> >>, [lock EXCEPT ![s] = 0])
          /\ ailing' = IF own = 0 THEN ailing \ {active[s]} ELSE ailing
    <3>1. PICK hurt \in 1 .. hp[active[s]] :
            LET own == Minus(hp[active[s]], hurt)
            IN  /\ hp' = [hp EXCEPT ![active[s]] = own]
                /\ SettleFaints(<< <<s, own>> >>, [lock EXCEPT ![s] = 0])
                /\ ailing' = IF own = 0 THEN ailing \ {active[s]} ELSE ailing
      BY <1>10 DEF SelfHit
    <3>2. hurt \in Nat
      BY <1>5
    <3>3. Minus(hp[active[s]], hurt) \in 0 .. hp[active[s]]
      BY <1>5, <3>2, MinusLess
    <3> QED
      BY <3>1, <3>3
  <2>3. PICK calls, locks : calls = << <<s, own>> >> /\ locks = [lock EXCEPT ![s] = 0]
    OBVIOUS
  <2>4. SettleFaints(calls, locks)
    BY <2>2, <2>3
  <2>5. own \in Nat /\ own <= MaxHp
    BY <1>5
  <2>6. active[s] # active[t]
    <3>1. active["player"] # active["enemy"]
      BY WhoIsWho DEF BattleIInv
    <3> QED
      BY <1>0, <3>1 DEF Side
  <2>7. /\ hp' \in [Mons -> 0 .. MaxHp] /\ hp'[active[s]] = own /\ hp'[active[t]] = hp[active[t]]
        /\ \A m \in Mons : m # active[s] => hp'[m] = hp[m]
    BY <1>0, <1>1, <2>2, <2>5, <2>6
  <2>8. Sides(calls) /\ \A f \in Side : Tells(calls, f, hp[active[f]], hp'[active[f]])
    <3>1. DOMAIN calls = {1} /\ calls[1][1] = s /\ calls[1][2] = own
      BY <2>3
    <3>2. Sides(calls)
      BY <3>1 DEF Sides
    <3>3. Tells(calls, s, hp[active[s]], own) /\ Tells(calls, t, hp[active[t]], hp[active[t]])
      BY <1>0, <1>3, <2>5, <3>1 DEF Tells
    <3> QED
      BY <1>0, <2>7, <3>2, <3>3
  <2>9. /\ locks \in [Side -> 0 .. (SeriesAttempts - 1)]
        /\ \A f \in Side : locks[f] > 0 => runner'[f] = active[f] /\ Standing(f)
    BY <1>1, <1>3, <1>4, <2>1, <2>3
  <2>10. /\ \A m \in Mons : m # active["player"] /\ m # active["enemy"] => hp'[m] = hp[m]
         /\ \A f \in Side : hp[active[f]] = 0 => hp'[active[f]] = 0
    <3>1. active[s] = active["player"] \/ active[s] = active["enemy"]
      BY DEF Side
    <3>2. \A f \in Side : hp[active[f]] # 0
      BY <1>3
    <3> QED
      BY <2>7, <3>1, <3>2
  <2>11. Hurt'
    BY <1>1, <2>1, <2>4, <2>7, <2>8, <2>9, <2>10, FaintsSettled
  <2> QED
    BY <1>1, <2>2, <2>4, <2>11 DEF SettleFaints
<1>11. CASE AttractMove(s)
  <2>1. /\ inLove' = inLove \cup {t} /\ courted' = [courted EXCEPT ![t] = active[s]]
        /\ hp' = hp /\ ailing' = ailing /\ seeded' = seeded /\ lock' = lock /\ runner' = runner
        /\ reported' = reported /\ paid' = paid /\ money' = money
        /\ t \notin inLove
    BY <1>11 DEF AttractMove, told
  <2>2. /\ courted' \in [Side -> Mons] /\ courted'[t] = active[s]
        /\ \A f \in Side : f # t => courted'[f] = courted[f]
    BY <1>0, <1>1, <2>1
  <2>3. \A f \in Side : Other(f) \in Side /\ Standing(f)'
    BY <1>1, <1>3, <2>1 DEF Standing, Side, Other
  <2>4. Other(t) = s
    BY <1>0 DEF Other, Side
  <2>5. ScratchIsCurrent'
    <3>1. \A f \in inLove' : f \in Side /\ courted'[f] = active'[Other(f)]
      BY <1>0, <1>1, <2>1, <2>2, <2>4 DEF FieldSound, ScratchIsCurrent
    <3> QED
      BY <1>1, <1>4, <2>1, <2>3, <3>1 DEF ScratchIsCurrent
  <2>6. PartyOrderKept'
    BY <1>1 DEF FieldSound, PartyOrderKept, Members, Roster
  <2>7. FaintToldOnce' /\ RewardOncePerFoe'
    BY <1>1, <2>1 DEF FaintToldOnce, RewardOncePerFoe
  <2> QED
    BY <1>0, <1>1, <2>1, <2>2, <2>5, <2>6, <2>7 DEF Hurt, FieldSound
<1>12. CASE LeechSeedMove(s) \/ NothingLands(s)
  <2>1. /\ hp' = hp /\ ailing' = ailing /\ runner' = runner /\ inLove' = inLove /\ courted' = courted
        /\ reported' = reported /\ paid' = paid /\ money' = money
        /\ (seeded' = seeded \cup {t} \/ seeded' = seeded)
        /\ (lock' = lock \/ lock' = [lock EXCEPT ![s] = 0])
    BY <1>12 DEF LeechSeedMove, NothingLands, told
  <2>2. seeded' \subseteq Side
    BY <1>0, <1>1, <2>1 DEF FieldSound
  <2>3. /\ lock' \in [Side -> 0 .. (SeriesAttempts - 1)]
        /\ \A f \in Side : lock'[f] > 0 => lock[f] > 0
    BY <1>1, <2>1
  <2>4. ScratchIsCurrent'
    BY <1>1, <2>1, <2>3 DEF FieldSound, ScratchIsCurrent, Standing
  <2>5. PartyOrderKept'
    BY <1>1 DEF FieldSound, PartyOrderKept, Members, Roster
  <2>6. FaintToldOnce' /\ RewardOncePerFoe'
    BY <1>1, <2>1 DEF FaintToldOnce, RewardOncePerFoe
  <2> QED
    BY <1>1, <2>1, <2>2, <2>3, <2>4, <2>5, <2>6 DEF Hurt, FieldSound
<1> QED
  BY <1>6, <1>7, <1>8, <1>9, <1>10, <1>11, <1>12

---------------------------------------------------------------------------
(* The end of the turn.                                                    *)

\* The queue of a phase holds at most two sides.
LEMMA Queues ==
  /\ \A q : q \in SeqOf(Side, 2) => q \in Seq(Side) /\ Len(q) <= 2
  /\ \A q \in Seq(Side) : Len(q) <= 2 => q \in SeqOf(Side, 2)
<1>1. ASSUME NEW q \in SeqOf(Side, 2) PROVE q \in Seq(Side) /\ Len(q) <= 2
  <2>1. PICK m \in 0 .. 2 : q \in [1 .. m -> Side]
    BY DEF SeqOf
  <2>2. m \in Nat /\ m <= 2
    OBVIOUS
  <2>3. q \in Seq(Side)
    BY <2>1, <2>2, SeqDef
  <2>4. DOMAIN q = 1 .. m
    BY <2>1
  <2> QED
    BY <2>2, <2>3, <2>4, LenProperties
<1>2. ASSUME NEW q \in Seq(Side), Len(q) <= 2 PROVE q \in SeqOf(Side, 2)
  <2>1. Len(q) \in Nat /\ q \in [1 .. Len(q) -> Side]
    BY LenProperties
  <2>2. Len(q) \in 0 .. 2
    BY <1>2, <2>1
  <2> QED
    BY <2>1, <2>2 DEF SeqOf
<1> QED
  BY <1>1, <1>2

LEMMA QueueFacts ==
  /\ << >> \in SeqOf(Side, 2)
  /\ <<"player", "enemy">> \in SeqOf(Side, 2) /\ <<"player", "enemy">> # << >>
  /\ <<"enemy", "player">> \in SeqOf(Side, 2) /\ <<"enemy", "player">> # << >>
  /\ <<"enemy">> \in SeqOf(Side, 2) /\ <<"enemy">> # << >>
<1>1. <<"player", "enemy">> # << >> /\ <<"enemy", "player">> # << >> /\ <<"enemy">> # << >>
  OBVIOUS
<1>2. /\ << >> \in [1 .. 0 -> Side] /\ <<"enemy">> \in [1 .. 1 -> Side]
      /\ <<"player", "enemy">> \in [1 .. 2 -> Side] /\ <<"enemy", "player">> \in [1 .. 2 -> Side]
      /\ 0 \in 0 .. 2 /\ 1 \in 0 .. 2 /\ 2 \in 0 .. 2
  BY DEF Side
<1> QED
  BY <1>1, <1>2 DEF SeqOf

LEMMA QueueTail ==
  \A q \in SeqOf(Side, 2) : q # << >> =>
    /\ Head(q) \in Side /\ Tail(q) \in SeqOf(Side, 2)
    /\ Len(q) \in Nat /\ (Len(q) # 1 => Tail(q) # << >>)
<1> TAKE q \in SeqOf(Side, 2)
<1> HAVE q # << >>
<1>1. q \in Seq(Side) /\ Len(q) <= 2 /\ Len(q) \in Nat
  BY Queues, LenProperties
<1>2. Head(q) \in Side /\ Tail(q) \in Seq(Side) /\ Len(Tail(q)) = Len(q) - 1
  BY <1>1, HeadTailProperties
<1>3. Len(q) # 1 => Tail(q) # << >>
  <2>1. Len(q) # 1 => Len(Tail(q)) # 0
    BY <1>1, <1>2
  <2> QED
    BY <1>2, <2>1, EmptySeq
<1>4. Len(Tail(q)) <= 2
  BY <1>1, <1>2
<1> QED
  BY <1>1, <1>2, <1>3, <1>4, Queues

LEMMA ResidualSound ==
  ASSUME BattleIInv, UNCHANGED <<kind, party>>, runner' = runner,
         NEW s \in Side, Standing(s), queue # << >>, ResidualOf(s)
  PROVE  /\ Hurt' /\ ailing' \subseteq Mons /\ paid' = paid /\ money' = money
         /\ queue' \in SeqOf(Side, 2)
<1> DEFINE o == Other(s)
           drains == s \in seeded /\ Standing(o)
           sapped == IF drains THEN Minus(hp[active[s]], 1) ELSE hp[active[s]]
           fed == IF drains THEN Healed(hp[active[o]]) ELSE hp[active[o]]
           drained == IF drains THEN << <<s, sapped>>, <<o, fed>> >> ELSE << >>
<1> USE SizesAssumption
<1>0. /\ o \in Side /\ o # s /\ \A f \in Side : f = s \/ f = o
  BY OtherSide
<1>1. /\ FieldSound /\ \A f \in Side : active[f] \in Mons
      /\ hp \in [Mons -> 0 .. MaxHp] /\ ailing \subseteq Mons
      /\ lock \in [Side -> 0 .. (SeriesAttempts - 1)] /\ runner \in [Side -> Mons]
      /\ queue \in SeqOf(Side, 2)
  BY FieldIsSound DEF BattleIInv, TypeOK
<1>2. active[s] # active[o]
  <2>1. active["player"] # active["enemy"]
    BY WhoIsWho DEF BattleIInv
  <2> QED
    BY <1>0, <2>1 DEF Side
<1>3. /\ hp[active[s]] \in Nat /\ hp[active[s]] <= MaxHp /\ hp[active[s]] > 0
      /\ hp[active[o]] \in Nat /\ hp[active[o]] <= MaxHp
  BY <1>0, <1>1 DEF Standing
<1>4. /\ sapped \in Nat /\ sapped <= MaxHp /\ (~drains => sapped > 0)
      /\ fed \in Nat /\ fed <= MaxHp
      /\ drains => hp[active[o]] > 0 /\ fed > 0
      /\ ~drains => fed = hp[active[o]]
  BY <1>3 DEF Minus, Healed, Standing
<1>5. PICK left \in Nat, more \in {TRUE, FALSE} :
        /\ left <= sapped /\ (sapped > 0 /\ left = 0 <=> more)
        /\ hp' = [hp EXCEPT ![active[s]] = left, ![active[o]] = fed]
        /\ SettleFaints(IF more THEN drained \o << <<s, left>> >> ELSE drained, lock)
        /\ ailing' \subseteq ailing
        /\ queue' = << >> \/ queue' = Tail(queue)
  <2>1. PICK cured \in BOOLEAN, hurt \in 1 .. hp[active[s]] :
          LET sick == active[s] \in ailing /\ ~cured /\ sapped > 0
              left == IF sick THEN Minus(sapped, hurt) ELSE sapped
              fell == sapped > 0 /\ left = 0
          IN  /\ hp' = [hp EXCEPT ![active[s]] = left, ![active[o]] = fed]
              /\ SettleFaints(IF fell THEN drained \o << <<s, left>> >> ELSE drained, lock)
              /\ ailing' = IF cured \/ left = 0 THEN ailing \ {active[s]} ELSE ailing
              /\ queue' = IF fell /\ FaintingDecides(s) THEN << >> ELSE Tail(queue)
    BY DEF ResidualOf
  <2> DEFINE sick == active[s] \in ailing /\ ~cured /\ sapped > 0
             left == IF sick THEN Minus(sapped, hurt) ELSE sapped
             fell == sapped > 0 /\ left = 0
  <2>2. /\ hp' = [hp EXCEPT ![active[s]] = left, ![active[o]] = fed]
        /\ SettleFaints(IF fell THEN drained \o << <<s, left>> >> ELSE drained, lock)
        /\ ailing' = IF cured \/ left = 0 THEN ailing \ {active[s]} ELSE ailing
        /\ queue' = IF fell /\ FaintingDecides(s) THEN << >> ELSE Tail(queue)
    BY <2>1
  <2> HIDE DEF drains, sapped, fed, drained
  <2>3. left \in Nat /\ left <= sapped
    <3>1. hurt \in Nat
      BY <1>3
    <3>2. Minus(sapped, hurt) \in 0 .. sapped
      BY <1>4, <3>1, MinusLess
    <3> QED
      BY <1>4, <3>2
  <2>4. ailing' \subseteq ailing /\ (queue' = << >> \/ queue' = Tail(queue))
    BY <2>2
  <2> HIDE DEF sick, left
  <2>5. fell \in {TRUE, FALSE} /\ (sapped > 0 /\ left = 0 <=> fell)
    OBVIOUS
  <2> HIDE DEF fell
  <2> QED
    BY <2>2, <2>3, <2>4, <2>5
<1>6. PICK calls : calls = IF more THEN drained \o << <<s, left>> >> ELSE drained
  OBVIOUS
<1>7. /\ hp' \in [Mons -> 0 .. MaxHp] /\ hp'[active[s]] = left /\ hp'[active[o]] = fed
      /\ \A m \in Mons : m # active[s] /\ m # active[o] => hp'[m] = hp[m]
  <2> HIDE DEF drains, sapped, fed, drained, o
  <2>1. left \in 0 .. MaxHp /\ fed \in 0 .. MaxHp
    BY <1>4, <1>5
  <2> QED
    BY <1>0, <1>1, <1>2, <1>5, <2>1
<1>8. /\ Tells(calls, s, hp[active[s]], left) /\ Tells(calls, o, hp[active[o]], fed) /\ Sides(calls)
  <2>1. CASE drains /\ more
    <3>1. calls = << <<s, sapped>>, <<o, fed>>, <<s, left>> >>
      <4>1. << <<s, sapped>>, <<o, fed>> >> \o << <<s, left>> >>
              = << <<s, sapped>>, <<o, fed>>, <<s, left>> >>
        BY ShortLists
      <4> QED
        BY <1>6, <2>1, <4>1
    <3>2. drains
      BY <2>1
    <3>3. sapped > 0 /\ left = 0
      BY <1>5, <2>1
    <3> HIDE DEF drains, sapped, fed, drained, o
    <3>4. /\ DOMAIN calls = {1, 2, 3} /\ calls[1][1] = s /\ calls[1][2] = sapped
          /\ calls[2][1] = o /\ calls[2][2] = fed
          /\ calls[3][1] = s /\ calls[3][2] = left
      BY <3>1
    <3> QED
      BY <1>0, <1>3, <1>4, <1>5, <3>2, <3>3, <3>4 DEF Tells, Sides
  <2>2. CASE drains /\ ~more
    <3>1. calls = << <<s, sapped>>, <<o, fed>> >>
      BY <1>6, <2>2
    <3>2. drains
      BY <2>2
    <3>3. ~(sapped > 0 /\ left = 0)
      BY <1>5, <2>2
    <3> HIDE DEF drains, sapped, fed, drained, o
    <3>4. /\ DOMAIN calls = {1, 2} /\ calls[1][1] = s /\ calls[1][2] = sapped
          /\ calls[2][1] = o /\ calls[2][2] = fed
      BY <3>1
    <3>5. sapped = 0 <=> left = 0
      BY <1>4, <1>5, <3>3
    <3> QED
      BY <1>0, <1>3, <1>4, <1>5, <3>2, <3>4, <3>5 DEF Tells, Sides
  <2>3. CASE ~drains /\ more
    <3>1. calls = << <<s, left>> >>
      <4>1. << >> \o << <<s, left>> >> = << <<s, left>> >>
        BY ShortLists
      <4> QED
        BY <1>6, <2>3, <4>1
    <3>2. ~drains
      BY <2>3
    <3>3. left = 0
      BY <1>5, <2>3
    <3> HIDE DEF drains, sapped, fed, drained, o
    <3>4. DOMAIN calls = {1} /\ calls[1][1] = s /\ calls[1][2] = left
      BY <3>1
    <3> QED
      BY <1>0, <1>3, <1>4, <1>5, <3>2, <3>3, <3>4 DEF Tells, Sides
  <2>4. CASE ~drains /\ ~more
    <3>1. calls = << >>
      BY <1>6, <2>4
    <3>2. ~drains /\ left # 0
      BY <1>4, <1>5, <2>4
    <3> HIDE DEF drains, sapped, fed, drained, o
    <3>3. DOMAIN calls = {}
      BY <3>1
    <3> QED
      BY <1>3, <1>4, <1>5, <3>2, <3>3 DEF Tells, Sides
  <2> QED
    BY <1>5, <2>1, <2>2, <2>3, <2>4
<1> HIDE DEF drains, sapped, fed, drained, o
<1>9. /\ \A f \in Side : Tells(calls, f, hp[active[f]], hp'[active[f]])
      /\ Sides(calls) /\ SettleFaints(calls, lock)
  <2>1. Sides(calls) /\ SettleFaints(calls, lock)
    BY <1>5, <1>6, <1>8
  <2>2. Tells(calls, s, hp[active[s]], hp'[active[s]]) /\ Tells(calls, o, hp[active[o]], hp'[active[o]])
    BY <1>7, <1>8
  <2> QED
    BY <1>0, <2>1, <2>2
<1>10. /\ \A m \in Mons : m # active["player"] /\ m # active["enemy"] => hp'[m] = hp[m]
       /\ \A f \in Side : hp[active[f]] = 0 => hp'[active[f]] = 0
       /\ \A f \in Side : lock[f] > 0 => runner'[f] = active[f] /\ Standing(f)
  <2>1. \A m \in Mons : m # active["player"] /\ m # active["enemy"] => m # active[s] /\ m # active[o]
    BY <1>0 DEF Side
  <2>2. hp[active[o]] = 0 => fed = 0
    BY <1>3, <1>4
  <2>3. \A f \in Side : hp[active[f]] = 0 => hp'[active[f]] = 0
    BY <1>0, <1>3, <1>7, <2>2
  <2>4. \A f \in Side : lock[f] > 0 => runner'[f] = active[f] /\ Standing(f)
    BY <1>1 DEF FieldSound, ScratchIsCurrent
  <2> QED
    BY <1>7, <2>1, <2>3, <2>4
<1>11. Hurt'
  BY <1>1, <1>7, <1>9, <1>10, FaintsSettled
<1>12. queue' \in SeqOf(Side, 2)
  BY <1>1, <1>5, QueueFacts, QueueTail
<1> QED
  BY <1>1, <1>5, <1>9, <1>11, <1>12 DEF SettleFaints

---------------------------------------------------------------------------
(* Every step.                                                             *)

\* The rest of the types.
Others ==
  /\ kind \in Kinds /\ hp \in [Mons -> 0 .. MaxHp] /\ ailing \subseteq Mons /\ held \in BOOLEAN
  /\ phase \in {"idle", "acts", "closing", "pass", "residual", "settling"}
  /\ queue \in SeqOf(Side, 2) /\ fleeing \in BOOLEAN
  /\ reported \in [Mons -> Nat] /\ passes \in Nat

LEMMA TakenApart == BattleIInv => Settled /\ FaintToldOnce /\ Others /\ Underway
BY AlreadySettled DEF BattleIInv, TypeOK, Others

LEMMA PutTogether ==
  ASSUME Settled', FaintToldOnce', Others', Underway'
  PROVE  BattleIInv'
<1>1. TypeOK'
  BY DEF Settled, FieldSound, Others, TypeOK
<1>2. OutcomeJustified'
  BY DEF Settled, OutcomeSays, Underway, OutcomeJustified
<1> QED
  BY <1>1, <1>2 DEF Settled, FieldSound, BattleIInv

\* A step that moves only the call leaves the battle as it is.
LEMMA OnlyTheCall ==
  ASSUME BattleIInv, UNCHANGED <<kind, party, hp, ailing, scratch, pending, told, outcome>>
  PROVE  /\ Settled' /\ FaintToldOnce'
         /\ kind' \in Kinds /\ hp' \in [Mons -> 0 .. MaxHp] /\ ailing' \subseteq Mons
         /\ reported' \in [Mons -> Nat]
         /\ pending' = pending /\ outcome' = outcome
         /\ \A s \in {"player", "enemy"} : Standing(s)' <=> Standing(s)
<1>1. Settled /\ FaintToldOnce /\ Others
  BY TakenApart
<1>2. /\ kind' = kind /\ hp' = hp /\ reported' = reported /\ paid' = paid /\ money' = money
      /\ active' = active
  BY DEF told, party
<1>3. Settled'
  BY <1>1, <1>2, SettledStays
<1>4. FaintToldOnce'
  BY <1>1, <1>2 DEF FaintToldOnce
<1> QED
  BY <1>1, <1>2, <1>3, <1>4 DEF Others, Standing

LEMMA TakeTurnKeeps == ASSUME BattleIInv, TakeTurn PROVE BattleIInv'
<1>1. /\ UNCHANGED <<kind, party, hp, ailing, scratch, pending, told, outcome>> /\ held' = held
  BY DEF TakeTurn, CallUnchanged
<1>2. Settled /\ Others /\ Underway
  BY TakenApart
<1>3. phase = "idle" /\ pending = 0 /\ phase' = "acts" /\ passes' = 0 /\ fleeing' \in BOOLEAN
  BY DEF TakeTurn, Accepting, EnemyChooses
<1>4. queue' \in SeqOf(Side, 2) /\ queue' # << >>
  BY QueueFacts DEF TakeTurn
<1>5. /\ Settled' /\ FaintToldOnce'
      /\ kind' \in Kinds /\ hp' \in [Mons -> 0 .. MaxHp] /\ ailing' \subseteq Mons
      /\ reported' \in [Mons -> Nat] /\ pending' = pending /\ outcome' = outcome
  BY <1>1, OnlyTheCall
<1>6. Others'
  BY <1>1, <1>2, <1>3, <1>4, <1>5 DEF Others
<1>7. Underway'
  BY <1>1, <1>2, <1>3, <1>4, <1>5 DEF Underway, Settled
<1> QED
  BY <1>5, <1>6, <1>7, PutTogether

LEMMA RunAwayKeeps == ASSUME BattleIInv, RunAway PROVE BattleIInv'
<1>1. /\ UNCHANGED <<kind, party, hp, ailing, scratch, pending, told>> /\ held' = held /\ passes' = 0
      /\ phase = "idle" /\ pending = 0 /\ outcome = "none"
  BY DEF RunAway, CallUnchanged, Accepting
<1>2. Settled /\ Others /\ Underway /\ FaintToldOnce
  BY TakenApart
<1>3. CASE outcome' = "PlayerRan" /\ UNCHANGED <<phase, queue, fleeing>>
  <2>1. /\ kind' = kind /\ active' = active /\ hp' = hp /\ paid' = paid /\ money' = money
        /\ pending' = 0 /\ reported' = reported /\ ailing' = ailing
    BY <1>1 DEF told, party
  <2>2. FieldSound'
    BY <1>1, <1>2, <2>1, FieldStays DEF Settled
  <2>3. OutcomeSays' /\ RewardOncePerFoe' /\ FoeUnpaid'
    BY <1>1, <1>2, <1>3, <2>1 DEF Settled, OutcomeSays, RewardOncePerFoe, FoeUnpaid
  <2>4. Settled'
    BY <1>1, <1>2, <1>3, <2>1, <2>2, <2>3 DEF Settled, Outcomes
  <2>5. FaintToldOnce'
    BY <1>2, <2>1 DEF FaintToldOnce
  <2>6. Others'
    BY <1>1, <1>2, <1>3, <2>1 DEF Others
  <2>7. Underway'
    BY <1>1, <1>2, <1>3, <2>1 DEF Underway
  <2> QED
    BY <2>4, <2>5, <2>6, <2>7, PutTogether
<1>4. CASE EnemyChooses /\ queue' = <<"enemy">> /\ phase' = "acts" /\ UNCHANGED outcome
  <2>1. queue' \in SeqOf(Side, 2) /\ queue' # << >> /\ fleeing' \in BOOLEAN
    BY <1>4, QueueFacts DEF EnemyChooses
  <2>2. /\ Settled' /\ FaintToldOnce'
        /\ kind' \in Kinds /\ hp' \in [Mons -> 0 .. MaxHp] /\ ailing' \subseteq Mons
        /\ reported' \in [Mons -> Nat] /\ pending' = pending /\ outcome' = outcome
    BY <1>1, <1>4, OnlyTheCall
  <2>3. Others'
    BY <1>1, <1>2, <1>4, <2>1, <2>2 DEF Others
  <2>4. Underway'
    BY <1>1, <1>2, <1>4, <2>1, <2>2 DEF Underway
  <2> QED
    BY <2>2, <2>3, <2>4, PutTogether
<1> QED
  BY <1>3, <1>4 DEF RunAway

LEMMA ActKeeps == ASSUME BattleIInv, Act PROVE BattleIInv'
<1>0. /\ FieldSound /\ Settled /\ Others /\ Underway /\ FaintToldOnce
      /\ "player" \in Side /\ "enemy" \in Side
  BY TakenApart, FieldIsSound DEF Side
<1>1. /\ phase = "acts" /\ outcome = "none" /\ BothCanAct
      /\ queue' = Tail(queue) /\ phase' = IF Len(queue) = 1 THEN "closing" ELSE "acts"
      /\ UNCHANGED <<kind, party>> /\ pending' = pending /\ held' = held /\ fleeing' = fleeing
      /\ passes' = passes
  BY DEF Act, BothCanAct
<1>2. PICK s : s = Head(queue)
  OBVIOUS
<1>3. /\ queue # << >> /\ pending = 0 /\ ~held /\ passes = 0 /\ queue \in SeqOf(Side, 2)
  BY <1>0, <1>1 DEF Underway, Others
<1>4. s \in Side /\ queue' \in SeqOf(Side, 2) /\ (phase' = "acts" => queue' # << >>)
  BY <1>1, <1>2, <1>3, QueueTail
<1>5. CASE s = "enemy" /\ fleeing /\ outcome' = "WildFled" /\ UNCHANGED <<hp, ailing, scratch, told>>
  <2>1. /\ kind' = kind /\ active' = active /\ hp' = hp /\ paid' = paid /\ money' = money
        /\ pending' = 0 /\ reported' = reported /\ ailing' = ailing
    BY <1>1, <1>3, <1>5 DEF told, party
  <2>2. FieldSound'
    BY <1>0, <1>1, <1>5, <2>1, FieldStays
  <2>3. OutcomeSays' /\ RewardOncePerFoe' /\ FoeUnpaid'
    BY <1>0, <1>1, <1>5, <2>1 DEF Settled, OutcomeSays, RewardOncePerFoe, FoeUnpaid
  <2>4. Settled'
    BY <1>0, <1>3, <1>5, <2>1, <2>2, <2>3 DEF Settled, Outcomes
  <2>5. FaintToldOnce'
    BY <1>0, <2>1 DEF FaintToldOnce
  <2>6. Others'
    BY <1>0, <1>1, <1>4, <1>5, <2>1 DEF Others
  <2>7. Underway'
    BY <1>1, <1>3, <1>4, <1>5, <2>1 DEF Underway
  <2> QED
    BY <2>4, <2>5, <2>6, <2>7, PutTogether
<1>6. CASE /\ \/ HitMove(s) \/ DrainMove(s) \/ MultiHitMove(s) \/ RolloutMove(s)
              \/ SelfHit(s) \/ AttractMove(s) \/ LeechSeedMove(s) \/ NothingLands(s)
           /\ UNCHANGED outcome
  <2>1. Hurt' /\ ailing' \subseteq Mons /\ paid' = paid /\ money' = money
    BY <1>1, <1>4, <1>6, MoveSound
  <2>2. pending' = 0 /\ outcome' = "none" /\ active' = active /\ kind' = kind
    BY <1>1, <1>3, <1>6 DEF party
  <2>3. OutcomeSays' /\ FoeUnpaid'
    BY <1>0, <1>1, <1>3, <2>1, <2>2 DEF Settled, OutcomeSays, FoeUnpaid
  <2>4. Settled'
    BY <1>0, <1>3, <2>1, <2>2, <2>3 DEF Settled, Hurt
  <2>5. Others'
    BY <1>0, <1>1, <1>4, <2>1, <2>2 DEF Others, Hurt
  <2>6. Underway'
    BY <1>1, <1>3, <1>4, <2>2 DEF Underway
  <2> QED
    BY <2>1, <2>4, <2>5, <2>6, PutTogether DEF Hurt
<1> QED
  BY <1>2, <1>5, <1>6 DEF Act

LEMMA SkipKeeps == ASSUME BattleIInv, SkipAction PROVE BattleIInv'
<1>1. /\ UNCHANGED <<kind, party, hp, ailing, scratch, pending, told, outcome>> /\ held' = held
      /\ phase = "acts" /\ phase' = "closing" /\ queue' = << >> /\ fleeing' = fleeing /\ passes' = passes
  BY DEF SkipAction
<1>2. Settled /\ Others /\ Underway
  BY TakenApart
<1>3. /\ Settled' /\ FaintToldOnce'
      /\ kind' \in Kinds /\ hp' \in [Mons -> 0 .. MaxHp] /\ ailing' \subseteq Mons
      /\ reported' \in [Mons -> Nat] /\ pending' = pending /\ outcome' = outcome
  BY <1>1, OnlyTheCall
<1>4. Others'
  BY <1>1, <1>2, <1>3, QueueFacts DEF Others
<1>5. Underway'
  BY <1>1, <1>2, <1>3 DEF Underway
<1> QED
  BY <1>3, <1>4, <1>5, PutTogether

LEMMA CloseKeeps == ASSUME BattleIInv, CloseActions PROVE BattleIInv'
<1>1. /\ phase = "closing" /\ HandleFaintedMons /\ held' = (pending' > 0)
      /\ phase' = IF pending' > 0 THEN "idle" ELSE "pass"
      /\ kind' = kind /\ hp' = hp /\ ailing' = ailing /\ queue' = queue /\ fleeing' = fleeing
      /\ passes' = passes
  BY DEF CloseActions
<1>2. Others /\ Underway /\ FaintToldOnce
  BY TakenApart
<1>3. Settled' /\ BothStand' /\ reported' = reported
  BY <1>1, Handled
<1>4. passes = 0
  BY <1>1, <1>2 DEF Underway
<1>5. FaintToldOnce'
  BY <1>1, <1>2, <1>3 DEF FaintToldOnce
<1>6. CASE pending' > 0
  <2>1. phase' = "idle" /\ held' = TRUE
    BY <1>1, <1>6
  <2>2. Others'
    BY <1>1, <1>2, <1>3, <2>1 DEF Others
  <2>3. outcome' = "none" /\ Standing("player")' /\ ~Standing("enemy")'
    BY <1>3, <1>6 DEF Settled
  <2>4. Underway'
    BY <1>1, <1>4, <1>6, <2>1, <2>3 DEF Underway
  <2> QED
    BY <1>3, <1>5, <2>2, <2>4, PutTogether
<1>7. CASE ~(pending' > 0)
  <2>1. phase' = "pass" /\ held' = FALSE
    <3>1. phase' = "pass"
      BY <1>1, <1>7
    <3>2. held' = (pending' > 0)
      BY <1>1
    <3>3. ~held'
      BY <1>7, <3>2
    <3>4. held' \in BOOLEAN
      BY <3>2
    <3> QED
      BY <3>1, <3>3, <3>4
  <2>2. Others'
    BY <1>1, <1>2, <1>3, <2>1 DEF Others
  <2>3. pending' = 0
    BY <1>3, <1>7, SizesAssumption DEF Settled
  <2>4. Underway'
    BY <1>1, <1>4, <2>1, <2>3 DEF Underway
  <2> QED
    BY <1>3, <1>5, <2>2, <2>4, PutTogether
<1> QED
  BY <1>6, <1>7

LEMMA StartPassKeeps == ASSUME BattleIInv, StartPass PROVE BattleIInv'
<1>1. /\ UNCHANGED <<kind, party, hp, ailing, scratch, pending, told, outcome>> /\ held' = held
      /\ phase = "pass" /\ fleeing' = fleeing
  BY DEF StartPass
<1>2. Settled /\ Others /\ Underway
  BY TakenApart
<1>3. /\ Settled' /\ FaintToldOnce'
      /\ kind' \in Kinds /\ hp' \in [Mons -> 0 .. MaxHp] /\ ailing' \subseteq Mons
      /\ reported' \in [Mons -> Nat] /\ pending' = pending /\ outcome' = outcome
  BY <1>1, OnlyTheCall
<1>4. passes = 0 /\ pending = 0 /\ ~held
  BY <1>1, <1>2 DEF Underway
<1>5. CASE outcome # "none"
  <2>1. phase' = "settling" /\ queue' = queue /\ passes' = 0
    BY <1>4, <1>5 DEF StartPass
  <2> QED
    BY <1>1, <1>2, <1>3, <1>4, <1>5, <2>1, PutTogether DEF Others, Underway
<1>6. CASE outcome = "none"
  <2>1. phase' = "residual" /\ queue' \in SeqOf(Side, 2) /\ passes' = 1
    BY <1>4, <1>6, QueueFacts DEF StartPass
  <2> QED
    BY <1>1, <1>2, <1>3, <1>4, <1>6, <2>1, PutTogether DEF Others, Underway
<1> QED
  BY <1>5, <1>6

LEMMA ResidualKeeps == ASSUME BattleIInv, Residual PROVE BattleIInv'
<1>1. /\ phase = "residual" /\ UNCHANGED <<kind, party>> /\ pending' = pending /\ held' = held
      /\ outcome' = outcome /\ fleeing' = fleeing /\ passes' = passes
  BY DEF Residual
<1>2. Settled /\ Others /\ Underway /\ FaintToldOnce
  BY TakenApart
<1>3. pending = 0 /\ ~held /\ passes = 1 /\ outcome = "none" /\ queue \in SeqOf(Side, 2)
  BY <1>1, <1>2 DEF Underway, Others
<1>4. CASE UNCHANGED <<hp, ailing, scratch, told>> /\ queue' \in SeqOf(Side, 2)
           /\ phase' \in {"residual", "settling"}
  <2>1. /\ Settled' /\ FaintToldOnce'
        /\ kind' \in Kinds /\ hp' \in [Mons -> 0 .. MaxHp] /\ ailing' \subseteq Mons
        /\ reported' \in [Mons -> Nat] /\ pending' = pending /\ outcome' = outcome
    BY <1>1, <1>4, OnlyTheCall
  <2>2. Others'
    BY <1>1, <1>2, <1>4, <2>1 DEF Others
  <2>3. Underway'
    BY <1>1, <1>3, <1>4 DEF Underway
  <2> QED
    BY <2>1, <2>2, <2>3, PutTogether
<1>5. CASE queue = << >>
  <2>1. UNCHANGED <<hp, ailing, scratch, told>> /\ queue' = queue /\ phase' = "settling"
    BY <1>5 DEF Residual
  <2> QED
    BY <1>3, <1>4, <2>1
<1>6. CASE queue # << >> /\ ~Standing(Head(queue))
  <2>1. /\ UNCHANGED <<hp, ailing, seeded, inLove, lock, courted, told, runner>>
        /\ queue' = Tail(queue) /\ phase' = phase
    BY <1>6 DEF Residual
  <2>2. queue' \in SeqOf(Side, 2)
    BY <1>3, <1>6, <2>1, QueueTail
  <2> QED
    BY <1>1, <1>4, <2>1, <2>2 DEF scratch
<1>7. CASE queue # << >> /\ Standing(Head(queue))
  <2>1. PICK s : s = Head(queue)
    OBVIOUS
  <2>2. s \in Side /\ Standing(s) /\ ResidualOf(s) /\ phase' = phase /\ runner' = runner
    BY <1>3, <1>7, <2>1, QueueTail DEF Residual
  <2>3. /\ Hurt' /\ ailing' \subseteq Mons /\ paid' = paid /\ money' = money
        /\ queue' \in SeqOf(Side, 2)
    BY <1>1, <1>7, <2>2, ResidualSound
  <2>4. active' = active /\ kind' = kind
    BY <1>1 DEF party
  <2>5. OutcomeSays' /\ FoeUnpaid'
    BY <1>1, <1>2, <1>3, <2>3, <2>4 DEF Settled, OutcomeSays, FoeUnpaid
  <2>6. Settled'
    BY <1>1, <1>2, <1>3, <2>3, <2>5 DEF Settled, Hurt
  <2>7. Others'
    BY <1>1, <1>2, <2>2, <2>3, <2>4 DEF Others, Hurt
  <2>8. Underway'
    BY <1>1, <1>3, <2>2 DEF Underway
  <2> QED
    BY <2>3, <2>6, <2>7, <2>8, PutTogether DEF Hurt
<1> QED
  BY <1>5, <1>6, <1>7

LEMMA EndTurnKeeps == ASSUME BattleIInv, EndTurn PROVE BattleIInv'
<1>1. /\ phase = "settling" /\ HandleFaintedMons /\ phase' = "idle"
      /\ kind' = kind /\ hp' = hp /\ ailing' = ailing /\ held' = held /\ queue' = queue
      /\ fleeing' = fleeing /\ passes' = passes
  BY DEF EndTurn
<1>2. Others /\ Underway /\ FaintToldOnce /\ Settled
  BY TakenApart
<1>3. Settled' /\ BothStand' /\ reported' = reported
  BY <1>1, Handled
<1>4. /\ passes <= 1 /\ ~held /\ pending = 0 /\ (outcome = "none" => passes = 1)
  BY <1>1, <1>2 DEF Underway
<1>5. FaintToldOnce'
  BY <1>1, <1>2, <1>3 DEF FaintToldOnce
<1>6. Others'
  BY <1>1, <1>2, <1>3 DEF Others
<1>7. outcome' = "none" => outcome = "none"
  BY <1>1, <1>4 DEF HandleFaintedMons
<1>8. Underway'
  <2>1. pending' > 0 => outcome' = "none" /\ Standing("player")' /\ ~Standing("enemy")'
    BY <1>3 DEF Settled
  <2>2. outcome' = "none" /\ pending' = 0 => Standing("player")' /\ Standing("enemy")'
    BY <1>3 DEF BothStand
  <2> QED
    BY <1>1, <1>4, <1>7, <2>1, <2>2 DEF Underway
<1> QED
  BY <1>3, <1>5, <1>6, <1>8, PutTogether

LEMMA ResolveKeeps == ASSUME BattleIInv, ResolveMoveLearn PROVE BattleIInv'
<1> USE SizesAssumption
<1>1. /\ phase = "idle" /\ pending > 0 /\ pending' = pending - 1
      /\ kind' = kind /\ hp' = hp /\ ailing' = ailing /\ reported' = reported /\ paid' = paid
      /\ queue' = queue /\ fleeing' = fleeing /\ passes' = passes
  BY DEF ResolveMoveLearn
<1>2. Others /\ Underway /\ FaintToldOnce /\ Settled /\ FieldSound
  BY TakenApart, FieldIsSound
<1>3. /\ outcome = "none" /\ Standing("player") /\ ~Standing("enemy") /\ pending \in 0 .. MaxPrompts
      /\ money \in Nat /\ money = 0 /\ paid \in [ToSet(Foes) -> Nat]
  BY <1>1, <1>2 DEF Underway, Settled, OutcomeSays
<1>4. passes <= 1 /\ (held => passes = 0) /\ (~held => passes = 1)
  BY <1>1, <1>2, <1>3 DEF Underway
<1>5. FaintToldOnce'
  BY <1>1, <1>2 DEF FaintToldOnce
<1>6. CASE pending > 1
  <2>1. UNCHANGED <<party, scratch, outcome, money, held, phase>>
    BY <1>6 DEF ResolveMoveLearn
  <2>2. active' = active /\ outcome' = "none" /\ money' = money /\ held' = held /\ phase' = "idle"
    BY <1>1, <1>3, <2>1 DEF party
  <2>3. pending' \in 0 .. MaxPrompts /\ pending' > 0 /\ pending' # 0
    BY <1>1, <1>3, <1>6
  <2>4. FieldSound'
    BY <1>1, <1>2, <2>1, FieldStays
  <2>5. OutcomeSays' /\ RewardOncePerFoe' /\ FoeUnpaid'
    BY <1>1, <1>2, <1>3, <2>2, <2>3 DEF Settled, OutcomeSays, RewardOncePerFoe, FoeUnpaid
  <2>6. Standing("player")' /\ ~Standing("enemy")'
    BY <1>1, <1>3, <2>2 DEF Standing
  <2>7. Settled'
    BY <1>1, <1>3, <2>2, <2>3, <2>4, <2>5, <2>6 DEF Settled
  <2>8. Others'
    BY <1>1, <1>2, <2>2 DEF Others
  <2>9. Underway'
    BY <1>1, <1>4, <2>2, <2>3, <2>6 DEF Underway
  <2> QED
    BY <1>5, <2>7, <2>8, <2>9, PutTogether
<1>7. CASE ~(pending > 1)
  <2>1. pending' = 0
    BY <1>1, <1>3, <1>7
  <2>2. SettleFaintedEnemy(<< >>) /\ held' = FALSE /\ phase' = IF held THEN "pass" ELSE "idle"
    BY <1>3, <1>7 DEF ResolveMoveLearn
  <2>3. PICK ins : ins = << >>
    OBVIOUS
  <2>4. Fits(ins) /\ DOMAIN ins \subseteq {"player"} /\ SettleFaintedEnemy(ins)
    BY <2>2, <2>3, NoneFits
  <2>5. ~PartyLost
    BY <1>3 DEF PartyLost
  <2>6. /\ FieldSound'
        /\ \/ /\ outcome' = "none" /\ money' = money
              /\ Standing("player")' /\ Standing("enemy")'
           \/ /\ outcome' = "PlayerWon" /\ money' = (IF kind = "Trainer" THEN 1 ELSE 0)
              /\ \A e \in ToSet(Roster("enemy")) : hp[e] = 0
              /\ \E m \in ToSet(Team) : hp[m] > 0
    BY <1>1, <1>3, <2>4, <2>5, EnemySettled
  <2>7. Roster("enemy")' = Roster("enemy")
    BY <1>1 DEF Roster
  <2>8. OutcomeSays' /\ money' \in Nat /\ outcome' \in Outcomes \cup {"none"}
    <3>1. CASE outcome' = "none" /\ money' = money
      BY <1>3, <2>1, <3>1 DEF OutcomeSays
    <3>2. CASE /\ outcome' = "PlayerWon" /\ money' = (IF kind = "Trainer" THEN 1 ELSE 0)
               /\ \A e \in ToSet(Roster("enemy")) : hp[e] = 0
               /\ \E m \in ToSet(Team) : hp[m] > 0
      BY <1>1, <2>1, <2>7, <3>2 DEF OutcomeSays, Outcomes
    <3> QED
      BY <2>6, <3>1, <3>2
  <2>9. RewardOncePerFoe'
    BY <1>1, <1>2 DEF Settled, RewardOncePerFoe
  <2>10. FoeUnpaid'
    <3> SUFFICES ASSUME outcome' = "none" PROVE paid'[active'["enemy"]] = 0
      BY DEF FoeUnpaid
    <3>1. hp[active'["enemy"]] > 0
      BY <1>1, <2>6 DEF Standing
    <3>2. active'["enemy"] \in ToSet(Foes)
      <4>1. "enemy" \in Side
        BY DEF Side
      <4>2. active'["enemy"] \in ToSet(Roster("enemy"))
        BY <2>6, <2>7, <4>1, OutIsOfTheParty
      <4> QED
        BY <4>1, <4>2, RosterType
    <3>3. paid[active'["enemy"]] <= (IF hp[active'["enemy"]] = 0 THEN 1 ELSE 0)
      BY <1>2, <1>3, <3>2 DEF Settled, RewardOncePerFoe
    <3>4. paid[active'["enemy"]] \in Nat /\ hp[active'["enemy"]] # 0
      BY <1>3, <3>1, <3>2
    <3> QED
      BY <1>1, <3>3, <3>4
  <2>11. Settled'
    BY <1>1, <1>3, <2>1, <2>6, <2>8, <2>9, <2>10 DEF Settled
  <2>12. held' = FALSE /\ phase' \in {"idle", "pass"}
    BY <2>2
  <2>13. Others'
    BY <1>1, <1>2, <2>12 DEF Others
  <2>14. outcome' = "none" => Standing("player")' /\ Standing("enemy")'
    BY <2>6
  <2>15. Underway'
    <3>1. CASE held
      <4>1. phase' = "pass" /\ passes' = 0
        BY <1>1, <1>4, <2>2, <3>1
      <4> QED
        BY <2>1, <2>12, <4>1 DEF Underway
    <3>2. CASE ~held
      <4>1. phase' = "idle" /\ passes' = 1
        BY <1>1, <1>4, <2>2, <3>2
      <4> QED
        BY <2>1, <2>12, <2>14, <4>1 DEF Underway
    <3> QED
      BY <3>1, <3>2
  <2> QED
    BY <1>5, <2>11, <2>13, <2>15, PutTogether
<1> QED
  BY <1>6, <1>7

LEMMA StutterKeeps == ASSUME BattleIInv, UNCHANGED vars PROVE BattleIInv'
<1>1. /\ UNCHANGED <<kind, party, hp, ailing, scratch, pending, told, outcome>>
      /\ held' = held /\ phase' = phase /\ queue' = queue /\ fleeing' = fleeing /\ passes' = passes
  BY DEF vars
<1>2. Settled /\ Others /\ Underway
  BY TakenApart
<1>3. /\ Settled' /\ FaintToldOnce'
      /\ kind' \in Kinds /\ hp' \in [Mons -> 0 .. MaxHp] /\ ailing' \subseteq Mons
      /\ reported' \in [Mons -> Nat] /\ pending' = pending /\ outcome' = outcome
      /\ \A s \in {"player", "enemy"} : Standing(s)' <=> Standing(s)
  BY <1>1, OnlyTheCall
<1> QED
  BY <1>1, <1>2, <1>3, PutTogether DEF Others, Underway

LEMMA StepsSound == BattleIInv /\ [Next]_vars => BattleIInv'
BY TakeTurnKeeps, RunAwayKeeps, ActKeeps, SkipKeeps, CloseKeeps, StartPassKeeps, ResidualKeeps,
   EndTurnKeeps, ResolveKeeps, StutterKeeps DEF Next

\* The inductive invariant holds of every behaviour: parties of any size, any HP, any
\* order of moves, faints, prompts and answers.
THEOREM BattleInvariant == Spec => []BattleIInv
<1> QED
  BY StartsSound, StepsSound, PTL DEF Spec

---------------------------------------------------------------------------
(* What the runs check.                                                    *)

\* Whoever was sent out, from either side of the active member's position and however
\* often, the members in party order are the caller's, and a battler carries only its own
\* love and lock (`send_out_next_player_reserve`, `switch_enemy_to`, `settle_faint`).
THEOREM FieldIsFiled == Spec => []BattleInv
<1>1. BattleIInv => BattleInv
  BY DEF BattleIInv, BattleInv
<1> QED
  BY <1>1, BattleInvariant, PTL

\* When `take_turn` accepts an action both battlers stand and the end-of-turn pass has
\* run exactly once, however prompts cut the turn up.
THEOREM TurnsAreComplete == Spec => []TurnsComplete
<1>1. BattleIInv => TurnsComplete
  <2> SUFFICES ASSUME BattleIInv PROVE TurnsComplete
    OBVIOUS
  <2>1. Underway /\ Others
    BY TakenApart
  <2>2. AskedBattlersStand
    BY <2>1 DEF Underway, AskedBattlersStand, Accepting, Side
  <2>3. Accepting => passes = 1
    BY <2>1 DEF Underway, Accepting
  <2>4. passes <= 1
    <3>1. phase \in {"acts", "closing", "pass"} => passes = 0
      BY <2>1 DEF Underway
    <3>2. phase \in {"idle", "residual", "settling"} => passes <= 1
      BY <2>1 DEF Underway
    <3> QED
      BY <2>1, <3>1, <3>2 DEF Others
  <2> QED
    BY <2>2, <2>3, <2>4 DEF TurnsComplete, OnePassPerTurn
<1> QED
  BY <1>1, BattleInvariant, PTL

\* Every faint is reported exactly once and every defeated opponent pays at most once
\* (`settle_faint` and `handle_fainted_mons` are each called several times a turn).
THEOREM EventsAddUp == Spec => []ToldOnce
<1>1. BattleIInv => ToldOnce
  BY DEF BattleIInv, ToldOnce
<1> QED
  BY <1>1, BattleInvariant, PTL

\* An outcome is what the two parties say, with the prize paid once and nothing waiting.
THEOREM OutcomesAreJustified == Spec => []OutcomeJustified
<1>1. BattleIInv => OutcomeJustified
  BY DEF BattleIInv
<1> QED
  BY <1>1, BattleInvariant, PTL

\* Once a battle is decided the rest of the turn leaves everything as it is.
THEOREM DecidedStaysDecided == Spec => DecidedIsOver
<1>1. ASSUME BattleIInv, [Next]_vars, outcome # "none"
      PROVE  UNCHANGED <<outcome, party, hp, ailing, scratch, told, pending, passes>>
  <2>1. Underway
    BY <1>1, TakenApart
  <2>2. pending = 0 /\ phase # "residual"
    <3>1. pending \in 0 .. MaxPrompts
      BY <1>1 DEF BattleIInv, TypeOK
    <3> QED
      BY <1>1, <2>1, <3>1, SizesAssumption DEF Underway
  <2>3. ~TakeTurn /\ ~RunAway
    BY <1>1 DEF TakeTurn, RunAway, Accepting
  <2>4. ~Act /\ ~Residual /\ ~ResolveMoveLearn
    BY <1>1, <2>2 DEF Act, BothCanAct, Residual, ResolveMoveLearn
  <2>5. HandleFaintedMons => UNCHANGED <<party, scratch, pending, outcome, told>>
    BY <1>1 DEF HandleFaintedMons
  <2>6. CASE SkipAction
    BY <2>6 DEF SkipAction
  <2>7. CASE CloseActions \/ EndTurn
    BY <2>5, <2>7 DEF CloseActions, EndTurn
  <2>8. CASE StartPass
    BY <1>1, <2>8 DEF StartPass
  <2>9. CASE UNCHANGED vars
    BY <2>9 DEF vars
  <2> QED
    BY <1>1, <2>3, <2>4, <2>6, <2>7, <2>8, <2>9 DEF Next
<1> QED
  BY <1>1, BattleInvariant, PTL DEF Spec, DecidedIsOver

====
