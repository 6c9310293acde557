---------------------------- MODULE KeeperProofs ----------------------------
(***************************************************************************)
(* Proofs about the keeper's write-ahead log (KeeperWal) and about the     *)
(* processes that run it (KeeperProcess).                                  *)
(*                                                                         *)
(* Of the log: for any events, stories, segments, group sizes, requests    *)
(* and any number of crashes, power losses and recoveries, what was        *)
(* acknowledged comes back, what was destroyed does not, a pending copy is *)
(* on disk and recovery refuses no directory the keeper left.  Failed      *)
(* housekeeping is in the theorems; a behaviour in which a write, a data   *)
(* sync, an erase or the preparation of a segment failed is left to TLC.   *)
(*                                                                         *)
(* Of the processes: the exit summary is true.                             *)
(***************************************************************************)
EXTENDS KeeperWal, KeeperProcess, FiniteSetTheorems, SequenceTheorems, WellFoundedInduction, NaturalsInduction, TLAPS

-----------------------------------------------------------------------------
(* Records, segments and rows                                              *)

\* A record tells its kind, and no record is a slot of zeros or a damaged one.
LEMMA RecordFacts ==
  /\ Zero[1] = "zero" /\ Bad[1] = "bad" /\ Zero # Bad
  /\ \A x : /\ G(x)[1] = "G" /\ N(x)[1] = "N" /\ E(x)[1] = "E" /\ D(x)[1] = "D"
            /\ G(x)[2] = x /\ N(x)[2] = x /\ E(x)[2] = x /\ D(x)[2] = x
  /\ \A v \in Records : v[1] \in {"G", "N", "E", "D"} /\ v # Zero /\ v # Bad
  /\ \A e \in Events : E(e) \in Records /\ E(e) \in Entries
  /\ \A s \in Stories : N(s) \in Records /\ D(s) \in Records /\ D(s) \in Entries
  /\ \A n \in Slots : G(n) \in Records
  /\ Zero \in SlotValues /\ Bad \in SlotValues /\ Records \subseteq SlotValues
  /\ \A v \in SlotValues : v \in Records \/ v = Zero \/ v = Bad
<1>1. /\ Zero[1] = "zero" /\ Bad[1] = "bad"
      /\ \A x : /\ G(x)[1] = "G" /\ N(x)[1] = "N" /\ E(x)[1] = "E" /\ D(x)[1] = "D"
                /\ G(x)[2] = x /\ N(x)[2] = x /\ E(x)[2] = x /\ D(x)[2] = x
  BY DEF Zero, Bad, G, N, E, D
<1>2. "zero" # "bad" /\ {"zero", "bad"} \cap {"G", "N", "E", "D"} = {}
  OBVIOUS
<1>3. ASSUME NEW v \in Records PROVE v[1] \in {"G", "N", "E", "D"} /\ v # Zero /\ v # Bad
  <2>1. v[1] \in {"G", "N", "E", "D"}
    BY <1>1 DEF Records
  <2> QED BY <1>1, <1>2, <2>1
<1> QED BY <1>1, <1>2, <1>3 DEF Records, SlotValues, Entries

\* A set of numbers that is not empty has a least, the one Least picks.
LEMMA LeastIn ==
  ASSUME NEW S \in SUBSET Nat, S # {}
  PROVE  Least(S) \in S /\ \A y \in S : Least(S) <= y
<1>1. PICK m \in S : \A y \in S : ~(<<y, m>> \in OpToRel(<, Nat))
  BY WFMin, NatLessThanWellFounded
<1>2. ASSUME NEW y \in S PROVE m <= y
  <2>1. y \in Nat /\ m \in Nat
    OBVIOUS
  <2>2. ASSUME y < m PROVE FALSE
    <3>1. <<y, m>> \in OpToRel(<, Nat)
      BY <2>1, <2>2 DEF OpToRel
    <3> QED BY <1>1, <3>1
  <2> QED BY <2>1, <2>2
<1> QED BY <1>2 DEF Least

\* A bounded one has a greatest, the one Greatest picks.
LEMMA GreatestIn ==
  ASSUME NEW h \in Nat, NEW S \in SUBSET (0 .. h), S # {}
  PROVE  Greatest(S) \in S /\ \A y \in S : Greatest(S) >= y
<1> DEFINE T == {h - y : y \in S}
<1>1. \A y \in S : y \in Nat /\ h - y \in Nat
  OBVIOUS
<1>2. T \in SUBSET Nat /\ T # {}
  BY <1>1
<1>3. PICK t \in T : \A u \in T : t <= u
  <2> HIDE DEF T
  <2> QED BY <1>2, LeastIn
<1>4. PICK m \in S : t = h - m
  OBVIOUS
<1>5. ASSUME NEW y \in S PROVE m >= y
  <2>1. h - m <= h - y
    BY <1>3, <1>4
  <2> QED BY <1>1, <2>1
<1> QED BY <1>5 DEF Greatest

\* Both, of segments.
LEMMA SegmentBounds ==
  ASSUME NEW S \in SUBSET Segments, S # {}
  PROVE  /\ Greatest(S) \in S /\ Greatest(S) \in Segments /\ \A y \in S : Greatest(S) >= y
         /\ Least(S) \in S /\ Least(S) \in Segments /\ \A y \in S : Least(S) <= y
<1>1. MaxSeg \in Nat /\ S \in SUBSET (0 .. MaxSeg) /\ S \in SUBSET Nat
  BY ConstantsAssumption DEF Segments
<1> QED BY <1>1, LeastIn, GreatestIn

\* The contents of a segment.
Row == [Slots -> SlotValues]

\* Where the data of a row ends: records before it, and none at it.
LEMMA DataEndFacts ==
  ASSUME NEW row \in Row
  PROVE  /\ DataEnd(row) \in 1 .. (SegSlots + 1)
         /\ \A i \in 1 .. (DataEnd(row) - 1) : i \in Slots /\ row[i] \in Records
         /\ DataEnd(row) \in Slots => row[DataEnd(row)] \in {Zero, Bad}
<1> DEFINE S == {i \in Slots : row[i] \in {Zero, Bad}} \cup {SegSlots + 1}
<1>1. SegSlots \in Nat /\ SegSlots + 1 \in Nat
  BY ConstantsAssumption
<1>2. S \in SUBSET Nat /\ S # {} /\ SegSlots + 1 \in S
  BY <1>1 DEF Slots
<1>3. Least(S) \in S /\ \A y \in S : Least(S) <= y
  <2> HIDE DEF S
  <2> QED BY <1>2, LeastIn
<1>4. DataEnd(row) = Least(S)
  BY DEF DataEnd
<1>5. DataEnd(row) \in 1 .. (SegSlots + 1)
  BY <1>1, <1>3, <1>4 DEF Slots
<1>6. ASSUME NEW i \in 1 .. (DataEnd(row) - 1) PROVE i \in Slots /\ row[i] \in Records
  <2>1. i \in Slots
    BY <1>1, <1>5 DEF Slots
  <2>2. i \notin S
    <3>1. i < Least(S)
      BY <1>1, <1>4, <1>5
    <3>2. i \in Nat /\ Least(S) \in Nat
      BY <1>1, <1>4, <1>5
    <3> HIDE DEF S
    <3> QED BY <1>3, <3>1, <3>2
  <2>3. row[i] \notin {Zero, Bad} /\ row[i] \in SlotValues
    BY <2>1, <2>2 DEF Row
  <2> QED BY <2>1, <2>3, RecordFacts
<1>7. DataEnd(row) \in Slots => row[DataEnd(row)] \in {Zero, Bad}
  BY <1>1, <1>3, <1>4 DEF Slots
<1> QED BY <1>5, <1>6, <1>7

\* A row that is records up to i has data up to i, and the other way round.
LEMMA BeforeEnd ==
  ASSUME NEW row \in Row, NEW i \in Slots
  PROVE  i \in 1 .. (DataEnd(row) - 1) <=> \A j \in 1 .. i : row[j] \in Records
<1>1. SegSlots \in Nat /\ i \in Nat /\ i >= 1 /\ i <= SegSlots
  BY ConstantsAssumption DEF Slots
<1>2. DataEnd(row) \in 1 .. (SegSlots + 1)
  BY DataEndFacts
<1>3. ASSUME i \in 1 .. (DataEnd(row) - 1), NEW j \in 1 .. i PROVE row[j] \in Records
  <2>1. j \in 1 .. (DataEnd(row) - 1)
    BY <1>1, <1>2, <1>3
  <2> QED BY <2>1, DataEndFacts
<1>4. ASSUME \A j \in 1 .. i : row[j] \in Records, i \notin 1 .. (DataEnd(row) - 1) PROVE FALSE
  <2>1. DataEnd(row) \in 1 .. i /\ DataEnd(row) \in Slots
    BY <1>1, <1>2, <1>4 DEF Slots
  <2>2. row[DataEnd(row)] \in {Zero, Bad} /\ row[DataEnd(row)] \in Records
    BY <1>4, <2>1, DataEndFacts
  <2> QED BY <2>2, RecordFacts
<1> QED BY <1>3, <1>4

\* What Holds asks, slot by slot.
LEMMA HoldsFacts ==
  ASSUME NEW row \in Row, NEW rec \in Records
  PROVE  Holds(row, rec) <=> \E i \in Slots : row[i] = rec /\ \A j \in 1 .. i : row[j] \in Records
<1>1. \A i \in 1 .. (DataEnd(row) - 1) : i \in Slots
  BY DataEndFacts
<1> QED BY <1>1, BeforeEnd DEF Holds

\* A row with nothing after its data is zeros from the end of the data on.
LEMMA NothingAfter ==
  ASSUME NEW row \in Row
  PROVE  ~ AfterEnd(row) <=> \A i \in Slots : row[i] = Zero \/ \A j \in 1 .. i : row[j] \in Records
<1>1. SegSlots \in Nat
  BY ConstantsAssumption
<1>2. DataEnd(row) \in 1 .. (SegSlots + 1)
  BY DataEndFacts
<1>3. ASSUME NEW i \in Slots PROVE i \in DataEnd(row) .. SegSlots <=> ~ \A j \in 1 .. i : row[j] \in Records
  <2>1. i \in DataEnd(row) .. SegSlots <=> i \notin 1 .. (DataEnd(row) - 1)
    BY <1>1, <1>2 DEF Slots
  <2> QED BY <2>1, BeforeEnd
<1>4. \A i \in DataEnd(row) .. SegSlots : i \in Slots
  BY <1>1, <1>2 DEF Slots
<1> QED BY <1>3, <1>4 DEF AfterEnd

-----------------------------------------------------------------------------
(* The frames of a group                                                   *)

\* An entry is an event or a destroy, and belongs to the story it names.
LEMMA EntryFacts ==
  ASSUME NEW entry \in Entries
  PROVE  /\ \/ \E e \in Events : entry = E(e) /\ entry[1] = "E" /\ EntryStory(entry) = StoryOf[e]
            \/ \E s \in Stories : entry = D(s) /\ entry[1] = "D" /\ EntryStory(entry) = s
         /\ entry \in Records /\ entry[1] # "G" /\ entry[1] # "N" /\ EntryStory(entry) \in Stories
<1>1. CASE \E e \in Events : entry = E(e)
  BY <1>1, RecordFacts, ConstantsAssumption DEF EntryStory
<1>2. CASE \E s \in Stories : entry = D(s)
  BY <1>2, RecordFacts DEF EntryStory
<1> QED BY <1>1, <1>2 DEF Entries

\* The entries lie one after the other, each a slot after the last, or two with
\* its name between; the last ends the group.
LEMMA Positions ==
  ASSUME NEW g \in Seq(Entries), NEW names
  PROVE  /\ EntryPos(g, names, 0) = 1 /\ EntryPos(g, names, Len(g)) = GroupSlots(g, names)
         /\ \A i \in 0 .. Len(g) : EntryPos(g, names, i) \in Nat
         /\ \A i \in 1 .. Len(g) : EntryPos(g, names, i) =
              EntryPos(g, names, i - 1) + (IF NeedsName(g, names, i) THEN 2 ELSE 1)
         /\ \A i, j \in 0 .. Len(g) : i < j => EntryPos(g, names, i) < EntryPos(g, names, j)
<1> DEFINE NN == NamesNeeded(g, names)
           Up(i) == {j \in NN : j <= i}
<1>1. Len(g) \in Nat /\ DOMAIN g = 1 .. Len(g) /\ NN \in SUBSET (1 .. Len(g))
  BY DEF NamesNeeded
<1>2. IsFiniteSet(NN) /\ \A i : Up(i) \in SUBSET NN
  <2>1. IsFiniteSet(1 .. Len(g))
    BY <1>1, FS_Interval
  <2>2. IsFiniteSet(NN)
    <3> HIDE DEF NN
    <3> QED BY <1>1, <2>1, FS_Subset
  <2> QED BY <2>2
<1>3. \A i : IsFiniteSet(Up(i)) /\ Cardinality(Up(i)) \in Nat
  <2> TAKE i
  <2>1. Up(i) \in SUBSET NN
    BY <1>2
  <2> HIDE DEF Up, NN
  <2> QED BY <1>2, <2>1, FS_Subset, FS_CardinalityType
<1>4. \A i : EntryPos(g, names, i) = 1 + i + Cardinality(Up(i))
  BY DEF EntryPos
<1>5. Up(0) = {} /\ Up(Len(g)) = NN
  BY <1>1
<1>6. EntryPos(g, names, 0) = 1 /\ EntryPos(g, names, Len(g)) = GroupSlots(g, names)
  <2>1. Cardinality(Up(0)) = 0 /\ Cardinality(Up(Len(g))) = Cardinality(NN)
    BY <1>5, FS_EmptySet
  <2> HIDE DEF Up
  <2>2. EntryPos(g, names, 0) = 1 + 0 + 0 /\ EntryPos(g, names, Len(g)) = 1 + Len(g) + Cardinality(NN)
    BY <1>4, <2>1
  <2> QED BY <2>2 DEF GroupSlots
<1>7. ASSUME NEW i \in 0 .. Len(g) PROVE EntryPos(g, names, i) \in Nat
  <2> HIDE DEF Up
  <2> QED BY <1>1, <1>3, <1>4
<1>8. ASSUME NEW i \in 1 .. Len(g)
      PROVE  EntryPos(g, names, i) = EntryPos(g, names, i - 1) + (IF NeedsName(g, names, i) THEN 2 ELSE 1)
  <2>1. i \in NN <=> NeedsName(g, names, i)
    BY <1>1 DEF NamesNeeded
  <2>2. i \notin Up(i - 1) /\ (i \in NN => Up(i) = Up(i - 1) \cup {i}) /\ (i \notin NN => Up(i) = Up(i - 1))
    <3>1. i \in Int /\ \A j \in NN : j \in Int
      BY <1>1
    <3> HIDE DEF NN
    <3>2. \A j \in NN : j <= i <=> j <= i - 1 \/ j = i
      BY <3>1
    <3>3. ~ i <= i - 1
      BY <3>1
    <3> QED BY <3>1, <3>2, <3>3
  <2> HIDE DEF Up, NN
  <2>3. Cardinality(Up(i)) = Cardinality(Up(i - 1)) + (IF i \in NN THEN 1 ELSE 0)
    BY <1>3, <2>2, FS_AddElement
  <2>4. /\ EntryPos(g, names, i) = 1 + i + Cardinality(Up(i))
        /\ EntryPos(g, names, i - 1) = 1 + (i - 1) + Cardinality(Up(i - 1))
    BY <1>4
  <2>5. Cardinality(Up(i)) \in Nat /\ Cardinality(Up(i - 1)) \in Nat
    BY <1>3
  <2> QED BY <1>1, <2>1, <2>3, <2>4, <2>5
<1>9. ASSUME NEW i \in 0 .. Len(g), NEW j \in 0 .. Len(g), i < j
      PROVE  EntryPos(g, names, i) < EntryPos(g, names, j)
  <2>1. Up(i) \in SUBSET Up(j)
    <3>1. \A m \in NN : m <= i => m <= j
      BY <1>1, <1>9
    <3> HIDE DEF NN
    <3> QED BY <3>1
  <2> HIDE DEF Up
  <2>2. Cardinality(Up(i)) <= Cardinality(Up(j))
    BY <1>3, <2>1, FS_Subset
  <2>3. /\ EntryPos(g, names, i) = 1 + i + Cardinality(Up(i)) /\ Cardinality(Up(i)) \in Nat
        /\ EntryPos(g, names, j) = 1 + j + Cardinality(Up(j)) /\ Cardinality(Up(j)) \in Nat
    BY <1>3, <1>4
  <2> QED BY <1>1, <1>9, <2>2, <2>3
<1> QED BY <1>6, <1>7, <1>8, <1>9

\* The frames: one G, which tells the length, then the entries in their order,
\* and a story's name before the first of its events that has none in the segment.
LEMMA Frames ==
  ASSUME NEW g \in Seq(Entries), NEW names
  PROVE  /\ GroupSlots(g, names) \in Nat /\ GroupSlots(g, names) >= 1
         /\ GroupFrame(g, names, 1) = G(GroupSlots(g, names))
         /\ \A i \in DOMAIN g : /\ EntryPos(g, names, i) \in 2 .. GroupSlots(g, names)
                                /\ GroupFrame(g, names, EntryPos(g, names, i)) = g[i]
         /\ \A i, j \in DOMAIN g : i < j <=> EntryPos(g, names, i) < EntryPos(g, names, j)
         /\ \A k \in 2 .. GroupSlots(g, names) :
              \/ \E i \in DOMAIN g : EntryPos(g, names, i) = k
              \/ \E s \in Stories : GroupFrame(g, names, k) = N(s)
         /\ \A i \in DOMAIN g : g[i][1] = "E" /\ EntryStory(g[i]) \notin names =>
              \E k \in 2 .. (EntryPos(g, names, i) - 1) : GroupFrame(g, names, k) = N(EntryStory(g[i]))
<1> DEFINE L == GroupSlots(g, names)
           P(i) == EntryPos(g, names, i)
<1>1. /\ P(0) = 1 /\ P(Len(g)) = L
      /\ \A i \in 0 .. Len(g) : P(i) \in Nat
      /\ \A i \in 1 .. Len(g) : P(i) = P(i - 1) + (IF NeedsName(g, names, i) THEN 2 ELSE 1)
      /\ \A i, j \in 0 .. Len(g) : i < j => P(i) < P(j)
  BY Positions
<1>2. Len(g) \in Nat /\ DOMAIN g = 1 .. Len(g) /\ 0 \in 0 .. Len(g) /\ Len(g) \in 0 .. Len(g)
  OBVIOUS
<1> HIDE DEF P, L
<1>3. L \in Nat /\ L >= 1 /\ (Len(g) # 0 => L >= 2)
  <2>1. L \in Nat /\ (Len(g) # 0 => P(0) < P(Len(g)))
    BY <1>1, <1>2
  <2> QED BY <1>1, <1>2, <2>1
<1>4. ASSUME NEW i \in DOMAIN g PROVE P(i) \in 2 .. L
  <2>1. P(0) < P(i) /\ (i = Len(g) \/ P(i) < P(Len(g))) /\ P(i) \in Nat
    BY <1>1, <1>2
  <2> QED BY <1>1, <1>3, <2>1
<1>5. \A i, j \in DOMAIN g : (i < j <=> P(i) < P(j)) /\ (P(i) = P(j) => i = j)
  <2> SUFFICES ASSUME NEW i \in DOMAIN g, NEW j \in DOMAIN g
               PROVE  (i < j <=> P(i) < P(j)) /\ (P(i) = P(j) => i = j)
    OBVIOUS
  <2>1. i \in 0 .. Len(g) /\ j \in 0 .. Len(g) /\ P(i) \in Nat /\ P(j) \in Nat
    BY <1>1, <1>2
  <2>2. (i < j => P(i) < P(j)) /\ (j < i => P(j) < P(i))
    BY <1>1, <2>1
  <2> QED BY <2>1, <2>2
<1>6. ASSUME NEW i \in DOMAIN g PROVE GroupFrame(g, names, P(i)) = g[i]
  <2>1. P(i) # 1 /\ \E j \in DOMAIN g : EntryPos(g, names, j) = P(i)
    BY <1>4 DEF P
  <2>2. (CHOOSE j \in DOMAIN g : EntryPos(g, names, j) = P(i)) = i
    BY <1>5 DEF P
  <2> QED BY <2>1, <2>2 DEF GroupFrame
<1>7. ASSUME NEW k \in 2 .. L, \A i \in DOMAIN g : P(i) # k
      PROVE  \E i \in DOMAIN g : P(i) = k + 1
  <2> DEFINE T == {i \in DOMAIN g : P(i) > k}
  <2>1. Len(g) \in DOMAIN g /\ P(Len(g)) > k
    <3>1. Len(g) # 0
      BY <1>1, <1>2, <1>7
    <3>2. Len(g) \in DOMAIN g
      BY <1>2, <3>1
    <3> QED BY <1>1, <1>3, <1>7, <3>2
  <2>2. T \in SUBSET Nat /\ T # {}
    BY <1>2, <2>1
  <2>3. PICK i \in T : \A j \in T : i <= j
    <3> HIDE DEF T
    <3> QED BY <2>2, LeastIn
  <2>4. P(i - 1) < k /\ P(i - 1) \in Nat /\ P(i) \in Nat
    <3>1. i - 1 \in 0 .. Len(g) /\ i - 1 \notin T /\ (i - 1 = 0 \/ i - 1 \in DOMAIN g)
      BY <1>2, <2>3
    <3>2. P(i - 1) \in Nat /\ P(i) \in Nat
      BY <1>1, <1>2, <3>1
    <3>3. CASE i - 1 = 0
      BY <1>1, <3>2, <3>3
    <3>4. CASE i - 1 \in DOMAIN g
      BY <1>7, <3>1, <3>2, <3>4
    <3> QED BY <3>1, <3>2, <3>3, <3>4
  <2>5. P(i) <= P(i - 1) + 2
    <3>1. i \in 1 .. Len(g)
      BY <1>2, <2>3
    <3>2. P(i) = P(i - 1) + (IF NeedsName(g, names, i) THEN 2 ELSE 1)
      BY <1>1, <3>1
    <3> QED BY <2>4, <3>2
  <2>6. P(i) = k + 1
    BY <2>3, <2>4, <2>5
  <2> QED BY <2>6
<1>8. ASSUME NEW k \in 2 .. L, NEW i \in DOMAIN g, \A j \in DOMAIN g : P(j) # k, P(i) = k + 1
      PROVE  GroupFrame(g, names, k) = N(EntryStory(g[i]))
  <2>1. k # 1 /\ ~ \E j \in DOMAIN g : EntryPos(g, names, j) = k
    BY <1>8 DEF P
  <2>2. (CHOOSE j \in DOMAIN g : EntryPos(g, names, j) = k + 1) = i
    BY <1>5, <1>8 DEF P
  <2> QED BY <2>1, <2>2 DEF GroupFrame
<1>9. ASSUME NEW k \in 2 .. L, \A i \in DOMAIN g : P(i) # k
      PROVE  \E s \in Stories : GroupFrame(g, names, k) = N(s)
  <2>1. PICK i \in DOMAIN g : P(i) = k + 1
    BY <1>7, <1>9
  <2>2. g[i] \in Entries
    OBVIOUS
  <2> QED BY <1>8, <1>9, <2>1, <2>2, EntryFacts
<1>10. ASSUME NEW i \in DOMAIN g, g[i][1] = "E", EntryStory(g[i]) \notin names
       PROVE  \E k \in 2 .. (P(i) - 1) : GroupFrame(g, names, k) = N(EntryStory(g[i]))
  <2> DEFINE T == {j \in DOMAIN g : g[j][1] = "E" /\ EntryStory(g[j]) = EntryStory(g[i])}
  <2>1. T \in SUBSET Nat /\ i \in T
    BY <1>2, <1>10
  <2>2. PICK m \in T : \A j \in T : m <= j
    <3> HIDE DEF T
    <3> QED BY <2>1, LeastIn
  <2>3. NeedsName(g, names, m)
    <3>1. ASSUME NEW j \in 1 .. (m - 1), g[j][1] = "E" PROVE EntryStory(g[j]) # EntryStory(g[m])
      <4>1. j \in DOMAIN g /\ j < m
        BY <1>2, <2>2
      <4> QED BY <1>2, <2>2, <3>1, <4>1
    <3> QED BY <1>10, <2>2, <3>1 DEF NeedsName
  <2>4. m \in DOMAIN g /\ P(m) = P(m - 1) + 2 /\ P(m - 1) \in Nat /\ m - 1 \in 0 .. Len(g) /\ P(m) \in 2 .. L
    BY <1>1, <1>2, <1>4, <2>2, <2>3
  <2>5. \A j \in DOMAIN g : P(j) # P(m) - 1
    <3> SUFFICES ASSUME NEW j \in DOMAIN g, P(j) = P(m) - 1 PROVE FALSE
      OBVIOUS
    <3>1. P(j) < P(m) /\ P(m - 1) < P(j)
      BY <2>4
    <3>2. j < m
      BY <1>5, <2>4, <3>1
    <3>3. j = m - 1 \/ j < m - 1
      BY <1>2, <2>4, <3>2
    <3>4. P(j) <= P(m - 1)
      BY <1>1, <1>2, <2>4, <3>3
    <3> QED BY <1>2, <1>4, <2>4, <3>1, <3>4
  <2>6. P(m) - 1 \in 2 .. L
    <3>1. P(0) <= P(m - 1)
      BY <1>1, <1>2, <2>4
    <3> QED BY <1>1, <1>3, <2>4, <3>1
  <2>7. GroupFrame(g, names, P(m) - 1) = N(EntryStory(g[m]))
    BY <1>8, <2>4, <2>5, <2>6
  <2>8. P(m) <= P(i)
    <3>1. m <= i /\ m \in DOMAIN g
      BY <2>1, <2>2
    <3>2. P(m) \in Nat /\ P(i) \in Nat /\ (m < i => P(m) < P(i))
      BY <1>1, <1>2, <3>1
    <3> QED BY <1>2, <3>1, <3>2
  <2>9. P(m) - 1 \in 2 .. (P(i) - 1)
    BY <1>3, <1>4, <2>4, <2>6, <2>8
  <2> QED BY <2>2, <2>7, <2>9
<1>11. GroupFrame(g, names, 1) = G(L)
  <2>1. ~ \E i \in DOMAIN g : EntryPos(g, names, i) = 1
    BY <1>4 DEF P
  <2> QED BY <2>1 DEF GroupFrame, L
<1> QED BY <1>3, <1>4, <1>5, <1>6, <1>9, <1>10, <1>11 DEF P, L

-----------------------------------------------------------------------------
(* The invariant                                                           *)

\* The faults the theorems allow: removing a segment, syncing the directory after
\* it, and replacing the unlogged-drops file.  A write, a data sync, an erase or
\* the preparation of a segment has not failed.
Housekeeping == {"remove", "dirsync", "dropsfile"}
OnlyHousekeepingFails == budget.faults = 0 \/ Faults \subseteq Housekeeping

\* A keeper is there: its committer runs, or has ended.
Up == state \in {"running", "stopped"}
\* The segments and the unlogged-drops files that may be there after a power loss,
\* and the segments that will.
Known == dirCache.segs \cup dirDisk.segs
Stays == dirCache.segs \cap dirDisk.segs
Lines == {dirCache.lines, dirDisk.lines}
\* What slot i of g may read as before and after a power loss.
Cells(g, i) == {cache[g][i], disk[g][i]}
\* Records up to slot i, the same in both layers: no crash takes them.
Even(g, i) == \A j \in 1 .. i : cache[g][j] = disk[g][j] /\ cache[g][j] \in Records
\* A record no crash takes.
Firm(g, i, rec) == i \in Slots /\ cache[g][i] = rec /\ Even(g, i)

\* A copy of e that every recovery finds and no destroy on the medium reaches.
Good(e, g) ==
  /\ g \in Stays
  /\ \E i \in Slots : /\ Firm(g, i, E(e))
                      /\ \A h \in Known, j \in Slots : D(StoryOf[e]) \in Cells(h, j) => h < g \/ (h = g /\ j < i)
  /\ \A lines \in Lines, n \in Segments : <<StoryOf[e], n>> \in lines => n < g

\* A copy of e, in slot i of g, that every recovery finds destroyed: by a D record
\* after it that stays at least as long, or by a line of both unlogged-drops files.
Covered(e, g, i) ==
  \/ \E h \in Known, j \in Slots : Firm(h, j, D(StoryOf[e])) /\ ((h = g /\ j > i) \/ (h > g /\ h \in Stays))
  \/ \A lines \in Lines : \E n \in Segments : <<StoryOf[e], n>> \in lines /\ n >= g

\* A slot that is not dirty is on disk.
MediumInv == \A g \in Segments, i \in Slots : i \notin dirty[g] => cache[g][i] = disk[g][i]

\* The written end of segment x: whole groups up to w, one group that may be torn
\* from w up to n, and zeros from there on.
Edge(x, w, n) ==
  /\ 1 <= w /\ w <= n /\ n <= SegSlots + 1
  /\ Even(x, w - 1)
  /\ \A i \in w .. (n - 1), v \in Records : v \in Cells(x, i) => IF i = w THEN v = G(n - w) ELSE v[1] # "G"
  /\ \A i \in n .. SegSlots : Cells(x, i) = {Zero}
  /\ w = 1 \/ \E b \in 1 .. (w - 1) : cache[x][b] = G(w - b) /\ \A i \in (b + 1) .. (w - 1) : cache[x][i][1] # "G"
\* Only x has such an end; the segments before it are clean, those after it empty.
Rows(x, w, n) ==
  /\ x \in Known => Edge(x, w, n)
  /\ \A g \in Known \ {x} : dirty[g] = {} /\ ~ AfterEnd(cache[g])
  /\ \A g \in Known : g > x => cache[g] = EmptySegment /\ disk[g] = EmptySegment

\* In a keeper x is the active segment and w its next slot; while a group is
\* written and not synced its frames lie there.
RowInv ==
  IF Up THEN /\ pc = "sync" => /\ Fits /\ Rows(active, writeOffset, writeOffset + GroupSlots(group, named))
                               /\ \A i \in DOMAIN GroupFrames : cache[active][i] = GroupFrames[i]
             /\ pc # "sync" => Rows(active, writeOffset, writeOffset) /\ dirty[active] = {}
  ELSE \E x \in Segments, w, n \in 1 .. (SegSlots + 1) : Rows(x, w, n)

\* Every E record has the N record of its story before it, unless that is lost too.
NamesInv ==
  /\ \A g \in Known, i \in Slots, e \in Events : E(e) \in Cells(g, i) =>
       \E j \in 1 .. (i - 1) : Cells(g, j) \subseteq {N(StoryOf[e]), Zero, Bad}
  /\ Up => \A s \in named : \E j \in 1 .. (writeOffset - 1) : cache[active][j] = N(s)

\* How far recovery has come with the syncs and the zeros of the torn tail.
RecoveryInv ==
  state = "recovering" =>
    \/ pc = "rec_zero" /\ TornNow # {} /\ \A g \in dirCache.segs \ TornNow : dirty[g] = {}
    \/ /\ pc = "rec_zerosync" /\ \A g \in dirCache.segs : ~ AfterEnd(cache[g])
       /\ \E x \in Segments : \A g \in dirCache.segs \ {x} : dirty[g] = {}
    \/ pc = "rec_dir" /\ \A g \in dirCache.segs : dirty[g] = {} /\ ~ AfterEnd(cache[g])

\* The committer does not get to the steps after a failure, and a keeper that is
\* not there holds nothing.
IdleInv ==
  /\ ~ failed
  /\ Up => pc \in {"idle", "commit", "sync", "delete", "remove", "remove_sync"}
  /\ pc \notin {"commit", "sync"} => group = <<>>
  /\ state # "running" => pc \notin {"commit", "sync"} /\ queue = <<>>
  /\ ~ Up => spare = {} /\ toDelete = {} /\ ~ syncOwed

\* What the segment manager lists is in the directory, durably.  Only the segments
\* that a pass just removed may still be there after a power loss.
DirectoryInv ==
  Up => /\ dirCache.segs = listed \cup spare /\ listed \subseteq dirDisk.segs /\ active \in listed
        /\ \A g \in listed : g <= active
        /\ \A g \in spare : g > active /\ spare = {g}
        /\ \A g \in dirDisk.segs \ dirCache.segs : g < active /\ (pc = "remove_sync" \/ syncOwed)
        /\ toDelete # {} => pc \in {"remove", "remove_sync"}
        /\ syncOwed => pc \notin {"remove", "remove_sync"}

\* What the running pass deletes: no copy is pending in it, and a destroy recorded
\* in it that a segment before it needs is a line of both unlogged-drops files.
DeleteInv ==
  Up => /\ toDelete \subseteq listed \ {active}
        /\ \A g \in toDelete : ~ Outstanding(g)
        /\ \A d \in toDelete, g \in listed \ toDelete, s \in Stories :
             g < d /\ s \in dropsBySegment[d] => \A lines \in Lines : <<s, d>> \in lines
        /\ \A g \in Segments \ listed : dropsBySegment[g] = {}
        /\ \A g \in listed, s \in Stories :
             s \in dropsBySegment[g] <=> \E j \in Slots : Firm(g, j, D(s)) /\ (g = active => j < writeOffset)

\* A line of the unlogged-drops file names a segment before the active one: it
\* never reaches an event written later.
LineInv ==
  \A lines \in Lines, l \in Stories \X Segments : l \in lines =>
    IF Up THEN l[2] < active ELSE \E g \in Stays : l[2] < g

\* A pending copy is one no crash takes, and one of an event's copies is Good
\* until the destroy of its story is being committed.
PendingInv ==
  Up => \A e \in Events :
    /\ \A g \in pending[e] : g \in listed /\ \E i \in Slots : Firm(g, i, E(e))
    /\ pending[e] # {} /\ ~ InSeq(D(StoryOf[e]), group) => \E g \in pending[e] : Good(e, g)

\* What is owed is pending, or its copy survives to the next recovery.
OwedInv ==
  \A e \in owed : IF Up THEN /\ pending[e] # {}
                             /\ ~ InSeq(D(StoryOf[e]), queue) /\ ~ InSeq(D(StoryOf[e]), group)
                  ELSE \E g \in Segments : Good(e, g)

\* Every copy of a buried event is one recovery finds destroyed.
BuriedInv ==
  \A e \in buried : /\ ~ InFlight(e)
                    /\ Up => pending[e] = {}
                    /\ \A g \in Known, i \in Slots : E(e) \in Cells(g, i) => Covered(e, g, i)

\* The types of the variables the proofs speak of.
TypeInv ==
  /\ cache \in [Segments -> Row] /\ disk \in [Segments -> Row] /\ dirty \in [Segments -> SUBSET Slots]
  /\ dirCache \in [segs : SUBSET Segments, lines : SUBSET (Stories \X Segments)]
  /\ dirDisk \in [segs : SUBSET Segments, lines : SUBSET (Stories \X Segments)]
  /\ state \in {"down", "recovering", "running", "stopped"}
  /\ queue \in Seq(Entries) /\ group \in Seq(Entries) /\ pending \in [Events -> SUBSET Segments]
  /\ active \in Nat /\ writeOffset \in 1 .. (SegSlots + 1) /\ named \subseteq Stories
  /\ listed \subseteq Segments /\ spare \subseteq Segments /\ toDelete \subseteq Segments
  /\ dropsBySegment \in [Segments -> SUBSET Stories]
  /\ owed \subseteq Events /\ buried \subseteq Events

\* The parts of the invariant by what they are about.
ContentInv == MediumInv /\ RowInv /\ NamesInv /\ RecoveryInv
FileInv == IdleInv /\ DirectoryInv /\ DeleteInv /\ LineInv
EventInv == PendingInv /\ OwedInv /\ BuriedInv
Inv == TypeInv /\ ContentInv /\ FileInv /\ EventInv

\* What the hypothesis reads, and the group size that makes every group fit.
BudgetInv ==
  /\ scenario \in Scenarios
  /\ budget \in [faults : Nat, crashes : Nat, appends : Nat, drops : Nat, destroyed : SUBSET Stories]
\* The invariant of the specification: of the log as long as only housekeeping failed.
WalInv == BudgetInv /\ (OnlyHousekeepingFails => Inv)

-----------------------------------------------------------------------------
(* What is on the medium fades, and no more                                *)

\* The types of what the proofs use most.
LEMMA Types ==
  ASSUME TypeInv
  PROVE  /\ Known \subseteq Segments /\ Stays \subseteq Known /\ dirCache.segs \subseteq Known
         /\ \A lines \in Lines : lines \subseteq Stories \X Segments
         /\ \A g \in Segments : g \in Nat /\ cache[g] \in Row /\ disk[g] \in Row /\ dirty[g] \subseteq Slots
         /\ \A i \in Slots : i \in Nat /\ i >= 1 /\ \A j \in 1 .. i : j \in Slots
         /\ \A g \in Segments, i \in Slots : Cells(g, i) \subseteq SlotValues
         /\ MaxSeg \in Nat /\ SegSlots \in Nat
<1>1. MaxSeg \in Nat /\ SegSlots \in Nat
  BY ConstantsAssumption
<1>2. /\ Known \subseteq Segments /\ Stays \subseteq Known /\ dirCache.segs \subseteq Known
      /\ \A lines \in Lines : lines \subseteq Stories \X Segments
  BY DEF TypeInv, Known, Stays, Lines
<1>3. \A g \in Segments : g \in Nat /\ cache[g] \in Row /\ disk[g] \in Row /\ dirty[g] \subseteq Slots
  BY <1>1 DEF TypeInv, Segments
<1>4. \A i \in Slots : i \in Nat /\ i >= 1 /\ \A j \in 1 .. i : j \in Slots
  BY <1>1 DEF Slots
<1>5. \A g \in Segments, i \in Slots : Cells(g, i) \subseteq SlotValues
  BY <1>3 DEF Cells, Row
<1> QED BY <1>1, <1>2, <1>3, <1>4, <1>5

\* What a crash, a sync or recovery may do to the log: slots that are not the
\* same in both layers may be lost, segments and lines that one layer has may go.
Fades ==
  /\ Known' \subseteq Known /\ Stays \subseteq Stays' /\ Lines' \subseteq Lines
  /\ \A g \in Known', i \in Slots :
       /\ Cells(g, i)' \subseteq Cells(g, i) \cup {Zero, Bad}
       /\ Cells(g, i) = {Zero} => Cells(g, i)' = {Zero}
       /\ Even(g, i) => cache'[g][i] = cache[g][i] /\ disk'[g][i] = disk[g][i]

\* Then the records at the head of a row stay.
LEMMA FadeEven ==
  ASSUME TypeInv, Fades, NEW g \in Known', NEW i \in 0 .. SegSlots, Even(g, i)
  PROVE  Even(g, i)' /\ \A j \in 1 .. i : cache'[g][j] = cache[g][j]
<1>1. ASSUME NEW j \in 1 .. i
      PROVE  /\ cache'[g][j] = cache[g][j] /\ disk'[g][j] = disk[g][j]
             /\ cache[g][j] = disk[g][j] /\ cache[g][j] \in Records
  <2>1. j \in Slots /\ \A m \in 1 .. j : m \in 1 .. i
    BY Types DEF Slots
  <2>2. Even(g, j)
    BY <2>1 DEF Even
  <2> QED BY <2>1, <2>2 DEF Fades, Even
<1> QED BY <1>1 DEF Even

\* So does each of them.
LEMMA FadeFirm ==
  ASSUME TypeInv, Fades, NEW g \in Known', NEW i, NEW rec, Firm(g, i, rec)
  PROVE  Firm(g, i, rec)'
<1>1. i \in Slots /\ i \in 0 .. SegSlots /\ i \in 1 .. i /\ Even(g, i) /\ cache[g][i] = rec
  BY Types DEF Firm, Slots
<1>2. Even(g, i)' /\ cache'[g][i] = cache[g][i]
  BY <1>1, FadeEven
<1> QED BY <1>1, <1>2 DEF Firm

\* A copy that every recovery finds is still one.
LEMMA FadeGood ==
  ASSUME TypeInv, Fades, NEW e \in Events, NEW g, Good(e, g)
  PROVE  Good(e, g)'
<1>1. g \in Stays' /\ g \in Known'
  BY DEF Good, Fades, Stays, Known
<1>2. PICK i \in Slots : /\ Firm(g, i, E(e))
                         /\ \A h \in Known, j \in Slots : D(StoryOf[e]) \in Cells(h, j) => h < g \/ (h = g /\ j < i)
  BY DEF Good
<1>3. Firm(g, i, E(e))'
  BY <1>1, <1>2, FadeFirm
<1>4. D(StoryOf[e]) # Zero /\ D(StoryOf[e]) # Bad
  BY RecordFacts, ConstantsAssumption
<1>5. ASSUME NEW h \in Known', NEW j \in Slots, D(StoryOf[e]) \in Cells(h, j)' PROVE h < g \/ (h = g /\ j < i)
  BY <1>2, <1>4, <1>5 DEF Fades
<1>6. \A lines \in Lines', n \in Segments : <<StoryOf[e], n>> \in lines => n < g
  BY DEF Good, Fades
<1> QED BY <1>1, <1>3, <1>5, <1>6 DEF Good

\* And one that is destroyed stays destroyed.
LEMMA FadeCovered ==
  ASSUME TypeInv, Fades, NEW e \in Events, NEW g \in Known', NEW i, Covered(e, g, i)
  PROVE  Covered(e, g, i)'
<1>1. CASE \A lines \in Lines : \E n \in Segments : <<StoryOf[e], n>> \in lines /\ n >= g
  BY <1>1 DEF Covered, Fades
<1>2. ASSUME NEW h \in Known, NEW j \in Slots, Firm(h, j, D(StoryOf[e])), (h = g /\ j > i) \/ (h > g /\ h \in Stays)
      PROVE  Covered(e, g, i)'
  <2>1. h \in Known' /\ ((h = g /\ j > i) \/ (h > g /\ h \in Stays'))
    BY <1>2 DEF Fades, Stays, Known
  <2>2. Firm(h, j, D(StoryOf[e]))'
    BY <1>2, <2>1, FadeFirm
  <2> QED BY <2>1, <2>2 DEF Covered
<1> QED BY <1>1, <1>2 DEF Covered

\* The N record before an E record goes only with it.
LEMMA FadeNames ==
  ASSUME TypeInv, NamesInv, Fades, NEW g \in Known', NEW i \in Slots, NEW e \in Events, E(e) \in Cells(g, i)'
  PROVE  \E j \in 1 .. (i - 1) : Cells(g, j)' \subseteq {N(StoryOf[e]), Zero, Bad}
<1>1. E(e) \in Cells(g, i) /\ g \in Known
  BY RecordFacts DEF Fades
<1>2. PICK j \in 1 .. (i - 1) : Cells(g, j) \subseteq {N(StoryOf[e]), Zero, Bad}
  BY <1>1 DEF NamesInv
<1>3. j \in Slots
  BY Types DEF Slots
<1> QED BY <1>2, <1>3 DEF Fades

\* The torn group of a segment stays its last.
LEMMA FadeEdge ==
  ASSUME TypeInv, Fades, NEW x \in Known', NEW w \in Nat, NEW n \in Nat, Edge(x, w, n)
  PROVE  Edge(x, w, n)'
<1>1. 1 <= w /\ w <= n /\ n <= SegSlots + 1 /\ SegSlots \in Nat
  BY Types DEF Edge
<1>2. w - 1 \in 0 .. SegSlots
  BY <1>1
<1>3. Even(x, w - 1)' /\ \A j \in 1 .. (w - 1) : cache'[x][j] = cache[x][j]
  BY <1>2, FadeEven DEF Edge
<1>4. ASSUME NEW i \in w .. (n - 1), NEW v \in Records, v \in Cells(x, i)'
      PROVE  IF i = w THEN v = G(n - w) ELSE v[1] # "G"
  <2>1. i \in Slots
    BY <1>1 DEF Slots
  <2>2. v \in Cells(x, i)
    BY <1>4, <2>1, RecordFacts DEF Fades
  <2> QED BY <1>4, <2>2 DEF Edge
<1>5. ASSUME NEW i \in n .. SegSlots PROVE Cells(x, i)' = {Zero}
  <2>1. i \in Slots
    BY <1>1 DEF Slots
  <2> QED BY <2>1 DEF Fades, Edge
<1>6. w = 1 \/ \E b \in 1 .. (w - 1) : cache'[x][b] = G(w - b) /\ \A i \in (b + 1) .. (w - 1) : cache'[x][i][1] # "G"
  <2>1. CASE w = 1
    BY <2>1
  <2>2. ASSUME NEW b \in 1 .. (w - 1), cache[x][b] = G(w - b), \A i \in (b + 1) .. (w - 1) : cache[x][i][1] # "G"
        PROVE  cache'[x][b] = G(w - b) /\ \A i \in (b + 1) .. (w - 1) : cache'[x][i][1] # "G"
    <3>1. \A i \in (b + 1) .. (w - 1) : i \in 1 .. (w - 1)
      BY <1>1
    <3> QED BY <1>3, <2>2, <3>1
  <2> QED BY <2>1, <2>2 DEF Edge
<1> QED BY <1>1, <1>3, <1>4, <1>5, <1>6 DEF Edge

-----------------------------------------------------------------------------
(* Recovery admits the directory, and crashes keep the invariant           *)

\* A segment of zeros holds nothing.
LEMMA EmptyRow ==
  /\ EmptySegment \in Row /\ \A i \in Slots : EmptySegment[i] = Zero
  /\ ~ AfterEnd(EmptySegment) /\ ~ DataAfterHeader(EmptySegment)
<1>1. EmptySegment \in Row /\ \A i \in Slots : EmptySegment[i] = Zero
  BY RecordFacts DEF EmptySegment, Row
<1>2. ~ AfterEnd(EmptySegment)
  BY <1>1, NothingAfter
<1>3. DataEnd(EmptySegment) \in 1 .. (SegSlots + 1) /\ SegSlots \in Nat
  BY <1>1, DataEndFacts, ConstantsAssumption
<1>4. ~ DataEnd(EmptySegment) > 1
  <2> SUFFICES ASSUME DataEnd(EmptySegment) > 1 PROVE FALSE
    OBVIOUS
  <2>1. 1 \in 1 .. (DataEnd(EmptySegment) - 1)
    BY <1>3
  <2>2. 1 \in Slots /\ EmptySegment[1] \in Records
    BY <1>1, <2>1, DataEndFacts
  <2> QED BY <1>1, <2>2, RecordFacts
<1> QED BY <1>1, <1>2, <1>4 DEF DataAfterHeader

\* Only the segment x may be torn, it is when there is anything after its data,
\* and recovery does not take the directory for damaged.
LEMMA Admitted ==
  ASSUME TypeInv, NEW x \in Segments, NEW w \in 1 .. (SegSlots + 1), NEW n \in 1 .. (SegSlots + 1), Rows(x, w, n)
  PROVE  /\ \A g \in dirCache.segs : AfterEnd(cache[g]) => g = x /\ g \in TornNow
         /\ TornNow \subseteq {x} /\ \A g \in TornNow : AfterEnd(cache[g]) /\ g \in dirCache.segs
         /\ ~ Damaged(dirCache.segs, cache)
<1> DEFINE S == dirCache.segs
           W == WithData(S, cache)
<1>1. /\ S \subseteq Known /\ S \subseteq Segments /\ W \subseteq S
      /\ \A g \in S : g \in Nat /\ cache[g] \in Row
      /\ SegSlots \in Nat /\ x \in Nat /\ w \in Nat /\ n \in Nat
  BY Types DEF WithData, Segments
<1>2. \A g \in S : AfterEnd(cache[g]) => g = x
  BY <1>1 DEF Rows
<1>3. ASSUME NEW g \in W PROVE g <= x
  <2>1. g \in S /\ DataAfterHeader(cache[g])
    BY DEF WithData
  <2>2. ~ g > x
    BY <1>1, <2>1, EmptyRow DEF Rows
  <2> QED BY <1>1, <2>1, <2>2
<1>4. ASSUME x \in S, AfterEnd(cache[x]) PROVE x \in W /\ x = Greatest(W)
  <2>1. x \in W
    BY <1>4 DEF WithData, DataAfterHeader
  <2>2. Greatest(W) \in W /\ Greatest(W) >= x
    <3> HIDE DEF W
    <3> QED BY <1>1, <2>1, SegmentBounds
  <2>3. Greatest(W) <= x /\ Greatest(W) \in Nat
    BY <1>1, <1>3, <2>2
  <2> QED BY <1>1, <2>1, <2>2, <2>3
<1>5. TornNow = {g \in W : g = Greatest(W) /\ AfterEnd(cache[g])}
  BY DEF TornNow, Torn
<1>6. \A g \in S : AfterEnd(cache[g]) => g = x /\ g \in TornNow
  BY <1>2, <1>4, <1>5
<1>7. TornNow \subseteq {x} /\ \A g \in TornNow : AfterEnd(cache[g]) /\ g \in S
  BY <1>1, <1>2, <1>5
<1>8. ~ \E g \in W : g # Greatest(W) /\ AfterEnd(cache[g])
  BY <1>1, <1>2, <1>4
<1>9. ASSUME NEW g \in TornNow, GroupStarts(cache[g]) # {},
             \/ DataEnd(cache[g]) > GroupEnd(cache[g])
             \/ DataEnd(cache[g]) < GroupEnd(cache[g]) /\ \E i \in GroupEnd(cache[g]) .. SegSlots : cache[g][i] # Zero
      PROVE  FALSE
  <2> DEFINE row == cache[x]
             d == DataEnd(row)
             GS == GroupStarts(row)
  <2>1. g = x /\ x \in S /\ row \in Row /\ Edge(x, w, n)
    BY <1>1, <1>7 DEF Rows
  <2>2. d \in 1 .. (SegSlots + 1) /\ \A i \in 1 .. (d - 1) : i \in Slots /\ row[i] \in Records
    BY <2>1, DataEndFacts
  <2>3. 1 <= w /\ w <= n /\ n <= SegSlots + 1
    BY <2>1 DEF Edge
  <2>4. w <= d
    <3>1. CASE w = 1
      BY <2>2, <3>1
    <3>2. CASE w # 1
      <4>1. w - 1 \in Slots /\ \A j \in 1 .. (w - 1) : row[j] \in Records
        BY <1>1, <2>1, <2>3, <3>2 DEF Edge, Even, Slots
      <4>2. w - 1 \in 1 .. (d - 1)
        BY <2>1, <4>1, BeforeEnd
      <4> QED BY <1>1, <2>2, <4>2
    <3> QED BY <3>1, <3>2
  <2>5. d <= n
    <3> SUFFICES ASSUME d > n PROVE FALSE
      BY <1>1, <2>2
    <3>1. n \in 1 .. (d - 1) /\ n \in n .. SegSlots
      BY <1>1, <2>2, <2>3
    <3>2. row[n] \in Records /\ row[n] = Zero
      BY <2>1, <2>2, <3>1 DEF Edge, Cells
    <3> QED BY <3>2, RecordFacts
  <2>6. GS = {i \in 1 .. (d - 1) : row[i][1] = "G"} /\ GS # {} /\ GS \in SUBSET (0 .. (SegSlots + 1))
    BY <1>1, <1>9, <2>1, <2>2 DEF GroupStarts
  <2> DEFINE b == Greatest(GS)
  <2>7. b \in GS /\ \A i \in GS : b >= i
    <3>1. SegSlots + 1 \in Nat
      BY <1>1
    <3> HIDE DEF GS
    <3> QED BY <2>6, <3>1, GreatestIn
  <2>8. GroupEnd(row) = b + row[b][2]
    BY DEF GroupEnd
  <2>9. CASE d > w
    <3>1. w \in 1 .. (d - 1) /\ w \in w .. (n - 1) /\ row[w] \in Cells(x, w)
      BY <1>1, <2>2, <2>3, <2>5, <2>9 DEF Cells
    <3>2. row[w] = G(n - w)
      BY <2>1, <2>2, <3>1 DEF Edge
    <3>3. w \in GS
      BY <2>6, <3>1, <3>2, RecordFacts
    <3>4. ASSUME b > w PROVE FALSE
      <4>1. b \in 1 .. (d - 1) /\ row[b][1] = "G"
        BY <2>6, <2>7
      <4>2. b \in w .. (n - 1) /\ row[b] \in Records /\ b # w
        BY <1>1, <2>2, <2>5, <3>4, <4>1
      <4> QED BY <2>1, <4>1, <4>2 DEF Edge, Cells
    <3>5. b = w
      <4>1. b >= w /\ b \in Nat
        BY <2>6, <2>7, <3>3
      <4> QED BY <1>1, <3>4, <4>1
    <3>6. GroupEnd(row) = n
      <4>1. row[b][2] = n - w
        BY <3>2, <3>5, RecordFacts
      <4> QED BY <1>1, <2>8, <3>5, <4>1
    <3>7. \A i \in n .. SegSlots : row[i] = Zero
      BY <2>1 DEF Edge, Cells
    <3> QED BY <1>1, <1>9, <2>1, <2>2, <2>5, <3>6, <3>7
  <2>10. CASE d = w
    <3>1. w # 1
      BY <1>1, <2>2, <2>6, <2>10
    <3>2. PICK a \in 1 .. (w - 1) : row[a] = G(w - a) /\ \A i \in (a + 1) .. (w - 1) : row[i][1] # "G"
      BY <2>1, <3>1 DEF Edge
    <3>3. a \in GS
      BY <2>6, <2>10, <3>2, RecordFacts
    <3>4. b = a
      <4>1. b >= a /\ b \in 1 .. (w - 1) /\ row[b][1] = "G"
        BY <2>6, <2>7, <2>10, <3>3
      <4>2. b \notin (a + 1) .. (w - 1)
        BY <3>2, <4>1
      <4> QED BY <1>1, <3>2, <4>1, <4>2
    <3>5. GroupEnd(row) = w
      <4>1. row[b][2] = w - a
        BY <3>2, <3>4, RecordFacts
      <4> QED BY <1>1, <2>8, <3>2, <3>4, <4>1
    <3> QED BY <1>1, <1>9, <2>1, <2>10, <3>5
  <2> QED BY <1>1, <2>2, <2>4, <2>9, <2>10
<1>10. ~ Damaged(dirCache.segs, cache)
  BY <1>8, <1>9 DEF Damaged, TornNow
<1> QED BY <1>6, <1>7, <1>10

\* In every state the rows are as Rows says of some segment.
LEMMA SomeRows ==
  ASSUME Inv
  PROVE  \E x \in Segments, w, n \in 1 .. (SegSlots + 1) : Rows(x, w, n)
<1>1. TypeInv /\ RowInv /\ IdleInv /\ DirectoryInv
  BY DEF Inv, ContentInv, FileInv
<1>2. CASE ~ Up
  BY <1>1, <1>2 DEF RowInv
<1>3. CASE Up
  <2>1. active \in Segments /\ writeOffset \in 1 .. (SegSlots + 1) /\ SegSlots \in Nat
    BY <1>1, <1>3, Types DEF DirectoryInv, TypeInv
  <2>2. CASE pc # "sync"
    BY <1>1, <1>3, <2>1, <2>2 DEF RowInv
  <2>3. CASE pc = "sync"
    <3>1. Fits /\ Rows(active, writeOffset, writeOffset + GroupSlots(group, named))
      BY <1>1, <1>3, <2>3 DEF RowInv
    <3>2. GroupSlots(group, named) \in Nat
      BY <1>1, Frames DEF TypeInv
    <3>3. writeOffset + GroupSlots(group, named) \in 1 .. (SegSlots + 1)
      BY <2>1, <3>1, <3>2 DEF Fits
    <3> QED BY <2>1, <3>1, <3>3
  <2> QED BY <2>2, <2>3
<1> QED BY <1>2, <1>3

\* What is owed has a copy that every recovery finds.
LEMMA OwedGood ==
  ASSUME Inv, NEW e \in owed
  PROVE  e \in Events /\ \E g \in Segments : Good(e, g)
<1>1. e \in Events /\ OwedInv /\ PendingInv /\ TypeInv
  BY DEF Inv, EventInv, TypeInv
<1>2. CASE ~ Up
  BY <1>1, <1>2 DEF OwedInv
<1>3. CASE Up
  <2>1. \E g \in pending[e] : Good(e, g)
    BY <1>1, <1>3 DEF OwedInv, PendingInv
  <2> QED BY <1>1, <2>1 DEF TypeInv
<1> QED BY <1>1, <1>2, <1>3

\* A step of the medium, of a crash or of recovery leaves the invariant.
LEMMA DownStep ==
  ASSUME Inv, Fades, TypeInv', ~ Up', ~ failed', queue' = <<>>, group' = <<>>, pc' \notin {"commit", "sync"},
         spare' = {}, toDelete' = {}, ~ syncOwed', UNCHANGED <<owed, buried>>, MediumInv', RecoveryInv',
         NEW x \in Segments, NEW w \in 1 .. (SegSlots + 1), NEW n \in 1 .. (SegSlots + 1), Rows(x, w, n)'
  PROVE  Inv'
<1>1. TypeInv /\ NamesInv /\ LineInv /\ DirectoryInv /\ BuriedInv
  BY DEF Inv, ContentInv, FileInv, EventInv
<1>2. RowInv'
  BY DEF RowInv
<1>3. NamesInv'
  BY <1>1, FadeNames DEF NamesInv
<1>4. IdleInv'
  BY DEF IdleInv, Up
<1>5. DirectoryInv' /\ DeleteInv' /\ PendingInv'
  BY DEF DirectoryInv, DeleteInv, PendingInv
<1>6. LineInv'
  <2> SUFFICES ASSUME NEW lines \in Lines', NEW l \in Stories \X Segments, l \in lines PROVE \E g \in Stays' : l[2] < g
    BY DEF LineInv
  <2>1. lines \in Lines
    BY DEF Fades
  <2>2. \E g \in Stays : l[2] < g
    <3>1. CASE Up
      <4>1. active \in Stays
        BY <1>1, <3>1 DEF DirectoryInv, Stays
      <4> QED BY <1>1, <2>1, <3>1, <4>1 DEF LineInv
    <3>2. CASE ~ Up
      BY <1>1, <2>1, <3>2 DEF LineInv
    <3> QED BY <3>1, <3>2
  <2> QED BY <2>2 DEF Fades
<1>7. OwedInv'
  <2> SUFFICES ASSUME NEW e \in owed PROVE \E g \in Segments : Good(e, g)'
    BY DEF OwedInv
  <2>1. PICK g \in Segments : Good(e, g)
    BY OwedGood
  <2> QED BY <1>1, <2>1, OwedGood, FadeGood
<1>8. BuriedInv'
  <2> SUFFICES ASSUME NEW e \in buried
               PROVE  ~ InFlight(e)' /\ \A g \in Known', i \in Slots : E(e) \in Cells(g, i)' => Covered(e, g, i)'
    BY DEF BuriedInv
  <2>1. ~ InFlight(e)'
    BY DEF InFlight, InSeq
  <2>2. ASSUME NEW g \in Known', NEW i \in Slots, E(e) \in Cells(g, i)' PROVE Covered(e, g, i)'
    <3>1. e \in Events
      BY <1>1 DEF TypeInv
    <3>2. E(e) \in Cells(g, i) /\ g \in Known
      BY <2>2, <3>1, RecordFacts DEF Fades
    <3>3. Covered(e, g, i)
      BY <1>1, <3>2 DEF BuriedInv
    <3> QED BY <1>1, <3>1, <3>3, FadeCovered
  <2> QED BY <2>1, <2>2
<1> QED BY <1>2, <1>3, <1>4, <1>5, <1>6, <1>7, <1>8 DEF Inv, ContentInv, FileInv, EventInv

\* A keeper that does not run has no request.
LEMMA NotRunning ==
  ASSUME Inv, state # "running"
  PROVE  TypeInv /\ MediumInv /\ RowInv /\ ~ failed /\ queue = <<>> /\ group = <<>> /\ pc \notin {"commit", "sync"}
         /\ (~ Up => spare = {} /\ toDelete = {} /\ ~ syncOwed)
BY DEF Inv, ContentInv, FileInv, IdleInv

\* The syncs of the untorn segments.
LEMMA RecoverSyncInv ==
  ASSUME Inv, RecoverSync
  PROVE  Inv'
<1> DEFINE clean == dirCache.segs \ TornNow
<1>1. /\ state = "down" /\ state' = "recovering" /\ pc' = IF TornNow = {} THEN "rec_dir" ELSE "rec_zero"
      /\ disk' = [g \in Segments |-> [i \in Slots |-> IF g \in clean /\ i \in dirty[g] THEN cache[g][i] ELSE disk[g][i]]]
      /\ dirty' = [g \in Segments |-> IF g \in clean THEN {} ELSE dirty[g]]
      /\ UNCHANGED <<cache, dirCache, dirDisk, owed, buried, failed, queue, group, pending, active, writeOffset,
                     named, listed, spare, dropsBySegment, syncOwed, toDelete>>
  BY DEF RecoverSync, KeepKeeper, history
<1>2. /\ TypeInv /\ MediumInv /\ ~ failed /\ queue = <<>> /\ group = <<>> /\ pc \notin {"commit", "sync"}
      /\ spare = {} /\ toDelete = {} /\ ~ syncOwed
  BY <1>1, NotRunning DEF Up
<1>3. PICK x \in Segments, w \in 1 .. (SegSlots + 1), n \in 1 .. (SegSlots + 1) : Rows(x, w, n)
  BY SomeRows
<1>4. TypeInv'
  <2>1. disk' \in [Segments -> Row]
    BY <1>1, <1>2, Types DEF Row
  <2>2. dirty' \in [Segments -> SUBSET Slots]
    BY <1>1, <1>2, Types
  <2> QED BY <1>1, <1>2, <2>1, <2>2 DEF TypeInv
<1>5. ASSUME NEW g \in Segments, NEW i \in Slots
      PROVE  /\ disk'[g][i] = IF g \in clean THEN cache[g][i] ELSE disk[g][i]
             /\ cache'[g][i] = cache[g][i] /\ dirty'[g] = IF g \in clean THEN {} ELSE dirty[g]
  BY <1>1, <1>2 DEF MediumInv
<1>6. MediumInv'
  BY <1>2, <1>5 DEF MediumInv
<1>7. Fades
  <2>1. Known' = Known /\ Stays' = Stays /\ Lines' = Lines
    BY <1>1 DEF Known, Stays, Lines
  <2>2. ASSUME NEW g \in Known, NEW i \in Slots
        PROVE  /\ Cells(g, i)' \subseteq Cells(g, i) \cup {Zero, Bad}
               /\ Cells(g, i) = {Zero} => Cells(g, i)' = {Zero}
               /\ Even(g, i) => cache'[g][i] = cache[g][i] /\ disk'[g][i] = disk[g][i]
    <3>1. g \in Segments /\ i \in 1 .. i
      BY <1>2, Types
    <3>2. Even(g, i) => cache[g][i] = disk[g][i]
      BY <3>1 DEF Even
    <3> QED BY <1>5, <3>1, <3>2 DEF Cells
  <2> QED BY <2>1, <2>2 DEF Fades
<1>8. Rows(x, w, n)'
  <2>1. Known' = Known /\ Known \subseteq Segments /\ w \in Nat /\ n \in Nat
    BY <1>1, <1>2, Types DEF Known
  <2>2. x \in Known' => Edge(x, w, n)'
    BY <1>2, <1>3, <1>7, <2>1, FadeEdge DEF Rows
  <2>3. ASSUME NEW g \in Known \ {x} PROVE dirty'[g] = {} /\ ~ AfterEnd(cache'[g])
    BY <1>1, <1>3, <2>1 DEF Rows
  <2>4. ASSUME NEW g \in Known, g > x PROVE cache'[g] = EmptySegment /\ disk'[g] = EmptySegment
    <3>1. cache[g] = EmptySegment /\ disk[g] = EmptySegment /\ g \in Segments
      BY <1>3, <2>1, <2>4 DEF Rows
    <3>2. \A i \in Slots : disk'[g][i] = Zero
      BY <1>5, <3>1, EmptyRow
    <3>3. disk'[g] \in Row /\ EmptySegment \in Row
      BY <1>4, <3>1, EmptyRow DEF TypeInv
    <3> QED BY <1>1, <3>1, <3>2, <3>3, EmptyRow DEF Row
  <2> QED BY <2>1, <2>2, <2>3, <2>4 DEF Rows
<1>9. RecoveryInv'
  <2>1. TornNow' = TornNow
    BY <1>1 DEF TornNow
  <2>2. \A g \in dirCache.segs : g \in Segments
    BY <1>2 DEF TypeInv
  <2>3. CASE TornNow = {}
    <3>1. \A g \in dirCache.segs : ~ AfterEnd(cache[g])
      BY <1>2, <1>3, <2>3, Admitted
    <3>2. \A g \in dirCache.segs : dirty'[g] = {}
      BY <1>1, <2>2, <2>3
    <3> QED BY <1>1, <2>3, <3>1, <3>2 DEF RecoveryInv
  <2>4. CASE TornNow # {}
    <3>1. \A g \in dirCache.segs \ TornNow : dirty'[g] = {}
      BY <1>1, <2>2
    <3> QED BY <1>1, <2>1, <2>4, <3>1 DEF RecoveryInv
  <2> QED BY <2>3, <2>4
<1>10. ~ Up' /\ pc' \notin {"commit", "sync"}
  BY <1>1 DEF Up
<1> QED BY <1>1, <1>2, <1>4, <1>6, <1>7, <1>8, <1>9, <1>10, DownStep

\* The slots a write changes.
LEMMA Written ==
  ASSUME TypeInv, NEW g \in Segments, NEW frames, DOMAIN frames \subseteq Slots,
         \A i \in DOMAIN frames : frames[i] \in SlotValues, WriteSlots(g, frames)
  PROVE  /\ cache' \in [Segments -> Row] /\ dirty' \in [Segments -> SUBSET Slots]
         /\ \A h \in Segments : h # g => cache'[h] = cache[h] /\ dirty'[h] = dirty[h]
         /\ \A i \in Slots : cache'[g][i] = IF i \in DOMAIN frames THEN frames[i] ELSE cache[g][i]
         /\ dirty'[g] = dirty[g] \cup DOMAIN frames
<1>1. cache \in [Segments -> Row] /\ dirty \in [Segments -> SUBSET Slots]
  BY DEF TypeInv
<1> DEFINE new == [i \in Slots |-> IF i \in DOMAIN frames THEN frames[i] ELSE cache[g][i]]
<1>2. cache' = [cache EXCEPT ![g] = new] /\ dirty' = [dirty EXCEPT ![g] = dirty[g] \cup DOMAIN frames]
  BY DEF WriteSlots
<1>3. new \in Row
  BY <1>1 DEF Row
<1>4. \A i \in Slots : new[i] = IF i \in DOMAIN frames THEN frames[i] ELSE cache[g][i]
  OBVIOUS
<1> HIDE DEF new
<1> QED BY <1>1, <1>2, <1>3, <1>4

\* What a data sync writes: the segment is the same in both layers.
LEMMA Synced ==
  ASSUME TypeInv, MediumInv, NEW g \in Segments, SyncSlots(g, cache)
  PROVE  /\ disk' \in [Segments -> Row] /\ dirty' \in [Segments -> SUBSET Slots]
         /\ \A h \in Segments : h # g => disk'[h] = disk[h] /\ dirty'[h] = dirty[h]
         /\ disk'[g] = cache[g] /\ dirty'[g] = {}
<1>1. cache \in [Segments -> Row] /\ disk \in [Segments -> Row] /\ dirty \in [Segments -> SUBSET Slots]
  BY DEF TypeInv
<1> DEFINE new == [i \in Slots |-> IF i \in dirty[g] THEN cache[g][i] ELSE disk[g][i]]
<1>2. disk' = [disk EXCEPT ![g] = new] /\ dirty' = [dirty EXCEPT ![g] = {}]
  BY DEF SyncSlots
<1>3. new = cache[g]
  BY <1>1 DEF MediumInv, Row
<1> HIDE DEF new
<1> QED BY <1>1, <1>2, <1>3

\* The zeros over the torn tail take only what was not whole in both layers.
LEMMA RecoverZeroInv ==
  ASSUME Inv, RecoverZero
  PROVE  Inv'
<1>1. PICK g \in TornNow : WriteSlots(g, [i \in DataEnd(cache[g]) .. SegSlots |-> Zero])
  BY DEF RecoverZero
<1>2. /\ state = "recovering" /\ state' = state /\ pc = "rec_zero" /\ pc' = "rec_zerosync"
      /\ UNCHANGED <<disk, dirCache, dirDisk, owed, buried, failed, queue, group, pending, active, writeOffset,
                     named, listed, spare, dropsBySegment, syncOwed, toDelete>>
  BY DEF RecoverZero, KeepKeeper, history
<1>3. /\ TypeInv /\ MediumInv /\ ~ failed /\ queue = <<>> /\ group = <<>>
      /\ spare = {} /\ toDelete = {} /\ ~ syncOwed
  BY <1>2, NotRunning DEF Up
<1>4. PICK x \in Segments, w \in 1 .. (SegSlots + 1), n \in 1 .. (SegSlots + 1) : Rows(x, w, n)
  BY SomeRows
<1>5. g = x /\ g \in dirCache.segs /\ TornNow = {x} /\ cache[g] \in Row /\ dirCache.segs \subseteq Known
      /\ Known \subseteq Segments
  BY <1>3, <1>4, Admitted, Types
<1> DEFINE d == DataEnd(cache[g])
           frames == [i \in d .. SegSlots |-> Zero]
<1>6. d \in 1 .. (SegSlots + 1) /\ SegSlots \in Nat
  BY <1>3, <1>5, DataEndFacts, Types
<1>7. DOMAIN frames = d .. SegSlots /\ DOMAIN frames \subseteq Slots /\ \A i \in DOMAIN frames : frames[i] = Zero
  BY <1>6 DEF Slots
<1>8. /\ cache' \in [Segments -> Row] /\ dirty' \in [Segments -> SUBSET Slots]
      /\ \A h \in Segments : h # x => cache'[h] = cache[h] /\ dirty'[h] = dirty[h]
      /\ \A i \in Slots : cache'[x][i] = IF i \in d .. SegSlots THEN Zero ELSE cache[x][i]
      /\ dirty'[x] = dirty[x] \cup d .. SegSlots
  <2>1. WriteSlots(x, frames) /\ \A i \in DOMAIN frames : frames[i] \in SlotValues
    BY <1>1, <1>5, <1>7, RecordFacts
  <2> HIDE DEF frames
  <2>2. /\ cache' \in [Segments -> Row] /\ dirty' \in [Segments -> SUBSET Slots]
        /\ \A h \in Segments : h # x => cache'[h] = cache[h] /\ dirty'[h] = dirty[h]
        /\ \A i \in Slots : cache'[x][i] = IF i \in DOMAIN frames THEN frames[i] ELSE cache[x][i]
        /\ dirty'[x] = dirty[x] \cup DOMAIN frames
    BY <1>3, <1>7, <2>1, Written
  <2> QED BY <1>7, <2>2
<1>9. TypeInv'
  BY <1>2, <1>3, <1>8 DEF TypeInv
<1>10. MediumInv'
  <2> SUFFICES ASSUME NEW h \in Segments, NEW i \in Slots, i \notin dirty'[h] PROVE cache'[h][i] = disk[h][i]
    BY <1>2 DEF MediumInv
  <2> QED BY <1>3, <1>8 DEF MediumInv
<1>11. Known' = Known /\ Stays' = Stays /\ Lines' = Lines
  BY <1>2 DEF Known, Stays, Lines
<1>12. ASSUME NEW i \in Slots, \A j \in 1 .. i : cache[x][j] \in Records PROVE cache'[x][i] = cache[x][i]
  <2>1. i \in 1 .. (d - 1)
    BY <1>5, <1>12, BeforeEnd
  <2> QED BY <1>6, <1>8, <2>1
<1>13. Fades
  <2> SUFFICES ASSUME NEW h \in Known, NEW i \in Slots
        PROVE  /\ Cells(h, i)' \subseteq Cells(h, i) \cup {Zero, Bad}
               /\ Cells(h, i) = {Zero} => Cells(h, i)' = {Zero}
               /\ Even(h, i) => cache'[h][i] = cache[h][i] /\ disk'[h][i] = disk[h][i]
    BY <1>11 DEF Fades
  <2>1. CASE h # x
    BY <1>2, <1>5, <1>8, <2>1 DEF Cells
  <2>2. CASE h = x
    <3>1. cache'[x][i] = cache[x][i] \/ cache'[x][i] = Zero
      BY <1>8
    <3>2. Even(x, i) => cache'[x][i] = cache[x][i]
      BY <1>12 DEF Even
    <3> QED BY <1>2, <2>2, <3>1, <3>2 DEF Cells
  <2> QED BY <2>1, <2>2
<1>14. Rows(x, w, n)'
  <2>1. x \in Known' => Edge(x, w, n)'
    BY <1>3, <1>4, <1>13, <1>11, FadeEdge DEF Rows
  <2>2. \A h \in Known \ {x} : dirty'[h] = {} /\ ~ AfterEnd(cache'[h])
    BY <1>4, <1>5, <1>8 DEF Rows
  <2>3. \A h \in Known : h > x => cache'[h] = EmptySegment /\ disk'[h] = EmptySegment
    <3>1. ~ x > x
      BY <1>3, Types
    <3> QED BY <1>2, <1>4, <1>5, <1>8, <3>1 DEF Rows
  <2> QED BY <1>11, <2>1, <2>2, <2>3 DEF Rows
<1>15. ~ AfterEnd(cache'[x])
  <2> SUFFICES ASSUME NEW i \in Slots, cache'[x][i] # Zero PROVE \A j \in 1 .. i : cache'[x][j] \in Records
    BY <1>8, NothingAfter
  <2>1. i \in 1 .. (d - 1)
    BY <1>6, <1>8 DEF Slots
  <2>2. \A j \in 1 .. i : j \in Slots /\ cache[x][j] \in Records
    BY <1>3, <1>5, <2>1, BeforeEnd, Types
  <2>3. ASSUME NEW j \in 1 .. i PROVE cache'[x][j] = cache[x][j]
    <3>1. \A m \in 1 .. j : m \in 1 .. i
      BY <1>6, <2>1
    <3> QED BY <1>12, <2>2, <3>1
  <2> QED BY <2>2, <2>3
<1>16. RecoveryInv'
  <2>1. \A h \in dirCache.segs : ~ AfterEnd(cache'[h])
    BY <1>4, <1>5, <1>8, <1>15 DEF Rows
  <2>2. \A h \in dirCache.segs \ {x} : dirty'[h] = {}
    BY <1>4, <1>5, <1>8 DEF Rows
  <2> QED BY <1>2, <2>1, <2>2 DEF RecoveryInv
<1>17. ~ Up'
  BY <1>2 DEF Up
<1> QED BY <1>2, <1>3, <1>9, <1>10, <1>13, <1>14, <1>16, <1>17, DownStep

\* The sync of the zeros.
LEMMA RecoverZeroSyncInv ==
  ASSUME Inv, RecoverZeroSync
  PROVE  Inv'
<1>1. PICK g \in dirCache.segs : dirty[g] # {} /\ SyncSlots(g, cache)
  BY DEF RecoverZeroSync
<1>2. /\ state = "recovering" /\ state' = state /\ pc = "rec_zerosync" /\ pc' = "rec_dir"
      /\ UNCHANGED <<cache, dirCache, dirDisk, owed, buried, failed, queue, group, pending, active, writeOffset,
                     named, listed, spare, dropsBySegment, syncOwed, toDelete>>
  BY DEF RecoverZeroSync, KeepKeeper, history
<1>3. /\ TypeInv /\ MediumInv /\ ~ failed /\ queue = <<>> /\ group = <<>> /\ RecoveryInv
      /\ spare = {} /\ toDelete = {} /\ ~ syncOwed
  BY <1>2, NotRunning DEF Inv, ContentInv, Up
<1>4. PICK x \in Segments, w \in 1 .. (SegSlots + 1), n \in 1 .. (SegSlots + 1) : Rows(x, w, n)
  BY SomeRows
<1>5. g \in Segments /\ Known \subseteq Segments
  BY <1>3, Types
<1>6. /\ disk' \in [Segments -> Row] /\ dirty' \in [Segments -> SUBSET Slots]
      /\ \A h \in Segments : h # g => disk'[h] = disk[h] /\ dirty'[h] = dirty[h]
      /\ disk'[g] = cache[g] /\ dirty'[g] = {}
  BY <1>1, <1>3, <1>5, Synced
<1>7. TypeInv' /\ MediumInv'
  <2>1. TypeInv'
    BY <1>2, <1>3, <1>6 DEF TypeInv
  <2>2. MediumInv'
    BY <1>2, <1>3, <1>6 DEF MediumInv
  <2> QED BY <2>1, <2>2
<1>8. Known' = Known /\ Stays' = Stays /\ Lines' = Lines
  BY <1>2 DEF Known, Stays, Lines
<1>9. Fades
  <2> SUFFICES ASSUME NEW h \in Known, NEW i \in Slots
        PROVE  /\ Cells(h, i)' \subseteq Cells(h, i) \cup {Zero, Bad}
               /\ Cells(h, i) = {Zero} => Cells(h, i)' = {Zero}
               /\ Even(h, i) => cache'[h][i] = cache[h][i] /\ disk'[h][i] = disk[h][i]
    BY <1>8 DEF Fades
  <2>1. Even(h, i) => cache[h][i] = disk[h][i]
    BY <1>3, Types DEF Even
  <2> QED BY <1>2, <1>5, <1>6, <2>1 DEF Cells
<1>10. Rows(x, w, n)'
  <2>1. x \in Known' => Edge(x, w, n)'
    BY <1>3, <1>4, <1>8, <1>9, FadeEdge DEF Rows
  <2>2. \A h \in Known \ {x} : dirty'[h] = {} /\ ~ AfterEnd(cache'[h])
    BY <1>2, <1>4, <1>5, <1>6 DEF Rows
  <2>3. \A h \in Known : h > x => cache'[h] = EmptySegment /\ disk'[h] = EmptySegment
    BY <1>2, <1>4, <1>5, <1>6 DEF Rows
  <2> QED BY <1>8, <2>1, <2>2, <2>3 DEF Rows
<1>11. RecoveryInv'
  <2>1. \A h \in dirCache.segs : ~ AfterEnd(cache[h])
    BY <1>2, <1>3 DEF RecoveryInv
  <2>2. PICK y \in Segments : \A h \in dirCache.segs \ {y} : dirty[h] = {}
    BY <1>2, <1>3 DEF RecoveryInv
  <2>3. g = y /\ \A h \in dirCache.segs : h \in Segments
    BY <1>1, <1>3, <2>2 DEF TypeInv
  <2>4. \A h \in dirCache.segs : dirty'[h] = {}
    BY <1>6, <2>2, <2>3
  <2> QED BY <1>2, <2>1, <2>4 DEF RecoveryInv
<1>12. ~ Up'
  BY <1>2 DEF Up
<1> QED BY <1>2, <1>3, <1>7, <1>9, <1>10, <1>11, <1>12, DownStep

\* The state of a keeper that is not there.
LEMMA KeeperGone ==
  ASSUME Down
  PROVE  /\ state' = "down" /\ ~ failed' /\ queue' = <<>> /\ group' = <<>> /\ pc' = "idle" /\ ~ Up' /\ RecoveryInv'
         /\ spare' = {} /\ toDelete' = {} /\ ~ syncOwed'
         /\ pending' \in [Events -> SUBSET Segments] /\ active' \in Nat /\ writeOffset' \in 1 .. (SegSlots + 1)
         /\ named' \subseteq Stories /\ listed' \subseteq Segments /\ spare' \subseteq Segments
         /\ toDelete' \subseteq Segments /\ dropsBySegment' \in [Segments -> SUBSET Stories]
         /\ queue' \in Seq(Entries) /\ group' \in Seq(Entries)
BY ConstantsAssumption DEF Down, NoKeeper, Up, RecoveryInv

\* A keeper that dies leaves the medium, and every promise to it.
LEMMA ProcessCrashInv ==
  ASSUME Inv, ProcessCrash
  PROVE  Inv'
<1>1. Down /\ UNCHANGED <<cache, disk, dirty, dirCache, dirDisk, owed, buried>>
  BY DEF ProcessCrash, medium, history
<1>2. TypeInv /\ MediumInv
  BY DEF Inv, ContentInv
<1>3. PICK x \in Segments, w \in 1 .. (SegSlots + 1), n \in 1 .. (SegSlots + 1) : Rows(x, w, n)
  BY SomeRows
<1>4. TypeInv'
  BY <1>1, <1>2, KeeperGone DEF TypeInv
<1>5. MediumInv' /\ Rows(x, w, n)'
  BY <1>1, <1>2, <1>3 DEF MediumInv, Rows, Known, Edge, Even, Cells
<1>6. Fades
  BY <1>1 DEF Fades, Known, Stays, Lines, Cells
<1> QED BY <1>1, <1>4, <1>5, <1>6, KeeperGone, DownStep

\* A power loss takes from the medium what was not in both layers, and no more.
LEMMA PowerLossInv ==
  ASSUME Inv, PowerLoss
  PROVE  Inv'
<1>1. PICK g \in Segments :
        /\ \A h \in Segments \ {g} : dirty[h] = {}
        /\ \E row \in [dirty[g] -> {"old", "new", "bad"}] :
             disk' = [disk EXCEPT ![g] = [i \in Slots |->
                       IF i \notin dirty[g] \/ row[i] = "old" THEN disk[g][i]
                       ELSE IF row[i] = "new" \/ disk[g][i] = cache[g][i] THEN cache[g][i] ELSE Bad]]
  BY DEF PowerLoss
<1>2. PICK row \in [dirty[g] -> {"old", "new", "bad"}] :
             disk' = [disk EXCEPT ![g] = [i \in Slots |->
                       IF i \notin dirty[g] \/ row[i] = "old" THEN disk[g][i]
                       ELSE IF row[i] = "new" \/ disk[g][i] = cache[g][i] THEN cache[g][i] ELSE Bad]]
  BY <1>1
<1>3. PICK gone \in SUBSET (dirDisk.segs \ dirCache.segs), made \in SUBSET (dirCache.segs \ dirDisk.segs),
           lines \in Lines : dirCache' = DirWith((dirDisk.segs \ gone) \cup made, lines)
  BY DEF PowerLoss, Lines
<1>4. /\ cache' = disk' /\ dirty' = [h \in Segments |-> {}] /\ dirDisk' = dirCache' /\ Down
      /\ UNCHANGED <<owed, buried>>
  BY DEF PowerLoss, SyncDirectory, history
<1>5. TypeInv /\ MediumInv
  BY DEF Inv, ContentInv
<1>6. PICK x \in Segments, w \in 1 .. (SegSlots + 1), n \in 1 .. (SegSlots + 1) : Rows(x, w, n)
  BY SomeRows
<1>7. ASSUME NEW h \in Segments, NEW i \in Slots
      PROVE  /\ disk'[h][i] \in Cells(h, i) \cup {Bad}
             /\ cache[h][i] = disk[h][i] => disk'[h][i] = disk[h][i]
  <2>1. disk \in [Segments -> Row]
    BY <1>5 DEF TypeInv
  <2>2. CASE h # g
    BY <1>2, <2>1, <2>2 DEF Cells
  <2>3. CASE h = g
    <3>1. disk'[g][i] = IF i \notin dirty[g] \/ row[i] = "old" THEN disk[g][i]
                        ELSE IF row[i] = "new" \/ disk[g][i] = cache[g][i] THEN cache[g][i] ELSE Bad
      BY <1>2, <2>1
    <3> QED BY <2>3, <3>1 DEF Cells
  <2> QED BY <2>2, <2>3
<1>8. disk' \in [Segments -> Row] /\ \A h \in Segments : dirty[h] = {} => disk'[h] = cache[h]
  <2> DEFINE new == [i \in Slots |-> IF i \notin dirty[g] \/ row[i] = "old" THEN disk[g][i]
                       ELSE IF row[i] = "new" \/ disk[g][i] = cache[g][i] THEN cache[g][i] ELSE Bad]
  <2>1. cache \in [Segments -> Row] /\ disk \in [Segments -> Row]
    BY <1>5 DEF TypeInv
  <2>2. new \in Row
    BY <2>1, RecordFacts DEF Row
  <2>3. disk' \in [Segments -> Row]
    <3> HIDE DEF new
    <3> QED BY <1>2, <2>1, <2>2 DEF new
  <2>4. ASSUME NEW h \in Segments, dirty[h] = {} PROVE disk'[h] = cache[h]
    <3>1. \A i \in Slots : cache[h][i] = disk[h][i] /\ disk'[h][i] = cache[h][i]
      BY <1>5, <1>7, <2>4 DEF MediumInv
    <3>2. disk'[h] \in Row /\ cache[h] \in Row
      BY <2>1, <2>3
    <3> QED BY <3>1, <3>2 DEF Row
  <2> QED BY <2>3, <2>4
<1>9. /\ dirCache'.segs = (dirDisk.segs \ gone) \cup made /\ dirCache'.lines = lines
      /\ dirCache' \in [segs : SUBSET Segments, lines : SUBSET (Stories \X Segments)]
  BY <1>3, <1>5 DEF DirWith, TypeInv, Lines
<1>10. TypeInv'
  <2>1. cache' \in [Segments -> Row] /\ dirty' \in [Segments -> SUBSET Slots]
    BY <1>4, <1>8
  <2> QED BY <1>4, <1>5, <1>8, <1>9, <2>1, KeeperGone DEF TypeInv
<1>11. MediumInv'
  BY <1>4 DEF MediumInv
<1>12. Fades
  <2>1. Known' \subseteq Known /\ Stays \subseteq Stays' /\ Lines' \subseteq Lines
    BY <1>4, <1>9 DEF Known, Stays, Lines
  <2>2. ASSUME NEW h \in Known', NEW i \in Slots
        PROVE  /\ Cells(h, i)' \subseteq Cells(h, i) \cup {Zero, Bad}
               /\ Cells(h, i) = {Zero} => Cells(h, i)' = {Zero}
               /\ Even(h, i) => cache'[h][i] = cache[h][i] /\ disk'[h][i] = disk[h][i]
    <3>1. h \in Segments /\ i \in 1 .. i
      BY <1>5, <2>1, Types
    <3>2. Even(h, i) => cache[h][i] = disk[h][i]
      BY <3>1 DEF Even
    <3>3. Cells(h, i)' = {disk'[h][i]}
      BY <1>4 DEF Cells
    <3>4. Cells(h, i) = {Zero} => cache[h][i] = disk[h][i] /\ disk[h][i] = Zero
      BY DEF Cells
    <3> QED BY <1>4, <1>7, <3>1, <3>2, <3>3, <3>4
  <2> QED BY <2>1, <2>2 DEF Fades
<1>13. Rows(x, w, n)'
  <2>1. Known' \subseteq Known /\ Known \subseteq Segments
    BY <1>5, <1>12, Types DEF Fades
  <2>2. x \in Known' => Edge(x, w, n)'
    BY <1>5, <1>6, <1>12, <2>1, FadeEdge DEF Rows
  <2>3. \A h \in Known' \ {x} : dirty'[h] = {} /\ ~ AfterEnd(cache'[h])
    BY <1>4, <1>6, <1>8, <2>1 DEF Rows
  <2>4. ASSUME NEW h \in Known', h > x PROVE cache'[h] = EmptySegment /\ disk'[h] = EmptySegment
    <3>1. h \in Known \ {x} /\ h \in Segments /\ cache[h] = EmptySegment
      BY <1>5, <1>6, <2>1, <2>4, Types DEF Rows
    <3>2. disk'[h] = cache[h]
      BY <1>6, <1>8, <3>1 DEF Rows
    <3> QED BY <1>4, <3>1, <3>2
  <2> QED BY <2>2, <2>3, <2>4 DEF Rows
<1> QED BY <1>4, <1>10, <1>11, <1>12, <1>13, KeeperGone, DownStep

-----------------------------------------------------------------------------
(* Steps that leave the medium alone                                       *)

\* What is said of the medium stays with it.
LEMMA SameMedium ==
  ASSUME UNCHANGED <<cache, disk, dirty, dirCache, dirDisk>>
  PROVE  /\ Known' = Known /\ Stays' = Stays /\ Lines' = Lines
         /\ \A g, i : Cells(g, i)' = Cells(g, i) /\ (Even(g, i)' <=> Even(g, i))
         /\ \A g, i, rec : Firm(g, i, rec)' <=> Firm(g, i, rec)
         /\ \A e, g : Good(e, g)' <=> Good(e, g)
         /\ \A e, g, i : Covered(e, g, i)' <=> Covered(e, g, i)
         /\ \A x, w, n : Rows(x, w, n)' <=> Rows(x, w, n)
         /\ MediumInv' <=> MediumInv
<1>1. /\ Known' = Known /\ Stays' = Stays /\ Lines' = Lines
      /\ \A g, i : Cells(g, i)' = Cells(g, i) /\ (Even(g, i)' <=> Even(g, i))
  BY DEF Known, Stays, Lines, Cells, Even
<1>2. \A g, i, rec : Firm(g, i, rec)' <=> Firm(g, i, rec)
  BY <1>1 DEF Firm
<1>3. \A e, g : Good(e, g)' <=> Good(e, g)
  BY <1>1, <1>2 DEF Good
<1>4. \A e, g, i : Covered(e, g, i)' <=> Covered(e, g, i)
  BY <1>1, <1>2 DEF Covered
<1>5. \A x, w, n : Edge(x, w, n)' <=> Edge(x, w, n)
  BY <1>1 DEF Edge
<1>6. \A x, w, n : Rows(x, w, n)' <=> Rows(x, w, n)
  BY <1>1, <1>5 DEF Rows
<1>7. MediumInv' <=> MediumInv
  BY DEF MediumInv
<1> QED BY <1>1, <1>2, <1>3, <1>4, <1>6, <1>7

\* Then what the log holds is as it was, as long as no group is written.
LEMMA QuietStep ==
  ASSUME Inv, Up, Up', UNCHANGED <<cache, disk, dirty, dirCache, dirDisk, active, writeOffset, named>>,
         pc' = "sync" <=> pc = "sync", pc = "sync" => group' = group
  PROVE  ContentInv' /\ LineInv'
<1>1. MediumInv /\ RowInv /\ NamesInv /\ LineInv
  BY DEF Inv, ContentInv, FileInv
<1>2. RowInv'
  <2>1. CASE pc = "sync"
    <3>1. Rows(active, writeOffset, writeOffset + GroupSlots(group, named))'
      BY <1>1, <2>1, SameMedium DEF RowInv
    <3>2. (Fits <=> Fits') /\ GroupFrames' = GroupFrames
      BY <2>1 DEF Fits, GroupFrames
    <3> QED BY <1>1, <2>1, <3>1, <3>2 DEF RowInv
  <2>2. CASE pc # "sync"
    BY <1>1, <2>2, SameMedium DEF RowInv
  <2> QED BY <2>1, <2>2
<1>3. NamesInv' /\ LineInv'
  BY <1>1, SameMedium DEF NamesInv, LineInv
<1>4. RecoveryInv'
  BY DEF RecoveryInv, Up
<1> QED BY <1>1, <1>2, <1>3, <1>4, SameMedium DEF ContentInv

\* A D record is no E record, and both tell what they are about.
LEMMA Apart ==
  /\ \A e, s : E(e) # D(s) /\ D(s) # E(e)
  /\ \A e, f : E(e) = E(f) => e = f
  /\ \A s, t : D(s) = D(t) => s = t
BY RecordFacts

\* What is in a sequence that grew.
LEMMA InAppend ==
  ASSUME NEW q \in Seq(Entries), NEW y \in Entries
  PROVE  Append(q, y) \in Seq(Entries) /\ \A x : InSeq(x, Append(q, y)) <=> InSeq(x, q) \/ x = y
<1>1. /\ Append(q, y) \in Seq(Entries) /\ Len(Append(q, y)) = Len(q) + 1 /\ Append(q, y)[Len(q) + 1] = y
      /\ \A i \in 1 .. Len(q) : Append(q, y)[i] = q[i]
  BY AppendProperties
<1>2. Len(q) \in Nat /\ DOMAIN q = 1 .. Len(q) /\ DOMAIN Append(q, y) = 1 .. (Len(q) + 1)
  BY <1>1
<1>3. \A i \in 1 .. (Len(q) + 1) : i \in 1 .. Len(q) \/ i = Len(q) + 1
  BY <1>2
<1>4. \A i \in 1 .. Len(q) : i \in 1 .. (Len(q) + 1)
  BY <1>2
<1>5. Len(q) + 1 \in 1 .. (Len(q) + 1)
  BY <1>2
<1> QED BY <1>1, <1>2, <1>3, <1>4, <1>5 DEF InSeq

\* A request is queued.
LEMMA AppendDurableInv ==
  ASSUME Inv, NEW e \in Events, AppendDurable(e)
  PROVE  Inv'
<1>1. /\ state = "running" /\ queue' = Append(queue, E(e)) /\ buried' = buried \ {e} /\ pending[e] = {}
      /\ UNCHANGED <<cache, disk, dirty, dirCache, dirDisk, state, pc, failed, group, pending, active, writeOffset,
                     named, listed, spare, dropsBySegment, syncOwed, toDelete, owed>>
  BY DEF AppendDurable, Running, medium, files
<1>2. Up /\ Up' /\ TypeInv /\ IdleInv /\ DirectoryInv /\ DeleteInv /\ PendingInv /\ OwedInv /\ BuriedInv
  BY <1>1 DEF Inv, ContentInv, FileInv, EventInv, Up
<1>3. ContentInv' /\ LineInv'
  BY <1>1, <1>2, QuietStep
<1>4. queue' \in Seq(Entries) /\ \A x : InSeq(x, queue') <=> InSeq(x, queue) \/ x = E(e)
  BY <1>1, <1>2, InAppend, RecordFacts DEF TypeInv
<1>5. TypeInv'
  BY <1>1, <1>2, <1>4 DEF TypeInv
<1>6. IdleInv' /\ DirectoryInv' /\ DeleteInv'
  BY <1>1, <1>2, SameMedium DEF IdleInv, DirectoryInv, DeleteInv, Outstanding, Up
<1>7. PendingInv'
  BY <1>1, <1>2, SameMedium DEF PendingInv
<1>8. OwedInv'
  BY <1>1, <1>2, <1>4, Apart DEF OwedInv
<1>9. BuriedInv'
  BY <1>1, <1>2, <1>4, Apart, SameMedium DEF BuriedInv, InFlight
<1> QED BY <1>3, <1>5, <1>6, <1>7, <1>8, <1>9 DEF Inv, FileInv, EventInv

\* A retry of a pending event is answered at once, and is owed from then on.
LEMMA RetryDurableInv ==
  ASSUME Inv, NEW e \in Events, RetryDurable(e)
  PROVE  Inv'
<1>1. /\ pending[e] # {}
      /\ owed' = IF InSeq(D(StoryOf[e]), queue) \/ InSeq(D(StoryOf[e]), group) THEN owed ELSE owed \cup {e}
      /\ UNCHANGED <<cache, disk, dirty, dirCache, dirDisk, state, pc, failed, queue, group, pending, active,
                     writeOffset, named, listed, spare, dropsBySegment, syncOwed, toDelete, buried>>
  BY DEF RetryDurable, medium, files
<1>2. Up /\ Up' /\ TypeInv /\ IdleInv /\ DirectoryInv /\ DeleteInv /\ PendingInv /\ OwedInv /\ BuriedInv
  BY <1>1 DEF Inv, ContentInv, FileInv, EventInv, Up, RetryDurable
<1>3. ContentInv' /\ LineInv'
  BY <1>1, <1>2, QuietStep
<1>4. TypeInv'
  BY <1>1, <1>2 DEF TypeInv
<1>5. IdleInv' /\ DirectoryInv' /\ DeleteInv'
  BY <1>1, <1>2, SameMedium DEF IdleInv, DirectoryInv, DeleteInv, Outstanding, Up
<1>6. PendingInv' /\ BuriedInv'
  BY <1>1, <1>2, SameMedium DEF PendingInv, BuriedInv, InFlight
<1>7. OwedInv'
  BY <1>1, <1>2 DEF OwedInv
<1> QED BY <1>3, <1>4, <1>5, <1>6, <1>7 DEF Inv, FileInv, EventInv

\* The copies of a confirmed event are released.
LEMMA ReleaseInv ==
  ASSUME Inv, NEW e \in Events, Release(e)
  PROVE  Inv'
<1>1. /\ pending' = [pending EXCEPT ![e] = {}] /\ owed' = owed \ {e}
      /\ UNCHANGED <<cache, disk, dirty, dirCache, dirDisk, state, pc, failed, queue, group, active,
                     writeOffset, named, listed, spare, dropsBySegment, syncOwed, toDelete, buried>>
  BY DEF Release, medium, files
<1>2. Up /\ Up' /\ TypeInv /\ IdleInv /\ DirectoryInv /\ DeleteInv /\ PendingInv /\ OwedInv /\ BuriedInv
  BY <1>1 DEF Inv, ContentInv, FileInv, EventInv, Up, Release
<1>3. ContentInv' /\ LineInv'
  BY <1>1, <1>2, QuietStep
<1>4. pending' \in [Events -> SUBSET Segments] /\ \A f \in Events : pending'[f] = IF f = e THEN {} ELSE pending[f]
  BY <1>1, <1>2 DEF TypeInv
<1>5. TypeInv'
  BY <1>1, <1>2, <1>4 DEF TypeInv
<1>6. IdleInv' /\ DirectoryInv'
  BY <1>1, <1>2 DEF IdleInv, DirectoryInv, Up
<1>7. DeleteInv'
  BY <1>1, <1>2, <1>4, SameMedium DEF DeleteInv, Outstanding
<1>8. PendingInv'
  BY <1>1, <1>2, <1>4, SameMedium DEF PendingInv
<1>9. OwedInv'
  BY <1>1, <1>2, <1>4 DEF OwedInv, TypeInv
<1>10. BuriedInv'
  BY <1>1, <1>2, <1>4, SameMedium DEF BuriedInv, InFlight, TypeInv
<1> QED BY <1>3, <1>5, <1>6, <1>7, <1>8, <1>9, <1>10 DEF Inv, FileInv, EventInv

\* The destroy of a story is queued.
LEMMA StoryDroppedInv ==
  ASSUME Inv, NEW s \in Stories, StoryDropped(s)
  PROVE  Inv'
<1>1. /\ queue' = IF state = "running" THEN Append(queue, D(s)) ELSE queue
      /\ owed' = {e \in owed : StoryOf[e] # s}
      /\ UNCHANGED <<cache, disk, dirty, dirCache, dirDisk, state, pc, failed, group, pending, active,
                     writeOffset, named, listed, spare, dropsBySegment, syncOwed, toDelete, buried>>
  BY DEF StoryDropped, medium, files, Running
<1>2. Up /\ Up' /\ TypeInv /\ IdleInv /\ DirectoryInv /\ DeleteInv /\ PendingInv /\ OwedInv /\ BuriedInv
  BY <1>1 DEF Inv, ContentInv, FileInv, EventInv, Up, StoryDropped
<1>3. ContentInv' /\ LineInv'
  BY <1>1, <1>2, QuietStep
<1>4. queue' \in Seq(Entries) /\ \A x : InSeq(x, queue') => InSeq(x, queue) \/ x = D(s)
  BY <1>1, <1>2, InAppend, RecordFacts DEF TypeInv
<1>5. TypeInv'
  BY <1>1, <1>2, <1>4 DEF TypeInv
<1>6. IdleInv' /\ DirectoryInv' /\ DeleteInv'
  BY <1>1, <1>2, SameMedium DEF IdleInv, DirectoryInv, DeleteInv, Outstanding, Up
<1>7. PendingInv'
  BY <1>1, <1>2, SameMedium DEF PendingInv
<1>8. OwedInv'
  BY <1>1, <1>2, <1>4, Apart DEF OwedInv
<1>9. BuriedInv'
  BY <1>1, <1>2, <1>4, Apart, SameMedium DEF BuriedInv, InFlight
<1> QED BY <1>3, <1>5, <1>6, <1>7, <1>8, <1>9 DEF Inv, FileInv, EventInv

\* Taking a group moves entries and loses none.
LEMMA Split ==
  ASSUME NEW q \in Seq(Entries), NEW n \in 0 .. Len(q)
  PROVE  /\ SubSeq(q, 1, n) \in Seq(Entries) /\ SubSeq(q, n + 1, Len(q)) \in Seq(Entries)
         /\ \A x : InSeq(x, SubSeq(q, 1, n)) \/ InSeq(x, SubSeq(q, n + 1, Len(q))) => InSeq(x, q)
<1>1. Len(q) \in Nat /\ DOMAIN q = 1 .. Len(q)
  OBVIOUS
<1>2. ASSUME NEW m \in 1 .. (Len(q) + 1), NEW k \in 0 .. Len(q)
      PROVE  SubSeq(q, m, k) \in Seq(Entries) /\ \A x : InSeq(x, SubSeq(q, m, k)) => InSeq(x, q)
  <2>1. \A i \in m .. k : i \in DOMAIN q /\ q[i] \in Entries
    BY <1>1
  <2>2. SubSeq(q, m, k) \in Seq(Entries) /\ Len(SubSeq(q, m, k)) = (IF m <= k THEN k - m + 1 ELSE 0)
        /\ \A i \in 1 .. (k - m + 1) : SubSeq(q, m, k)[i] = q[m + i - 1]
    BY <1>1, <2>1, SubSeqProperties
  <2>3. ASSUME NEW i \in DOMAIN SubSeq(q, m, k) PROVE i \in 1 .. (k - m + 1) /\ m + i - 1 \in DOMAIN q
    <3>1. DOMAIN SubSeq(q, m, k) = 1 .. Len(SubSeq(q, m, k))
      BY <2>2
    <3> QED BY <1>1, <2>2, <3>1
  <2>4. ASSUME NEW x, InSeq(x, SubSeq(q, m, k)) PROVE InSeq(x, q)
    <3>1. PICK i \in DOMAIN SubSeq(q, m, k) : SubSeq(q, m, k)[i] = x
      BY <2>4 DEF InSeq
    <3> QED BY <2>2, <2>3, <3>1 DEF InSeq
  <2> QED BY <2>2, <2>4
<1>3. 1 \in 1 .. (Len(q) + 1) /\ n + 1 \in 1 .. (Len(q) + 1) /\ n \in 0 .. Len(q) /\ Len(q) \in 0 .. Len(q)
  BY <1>1
<1> QED BY <1>2, <1>3

\* A group is taken from the queue.
LEMMA TakeGroupInv ==
  ASSUME Inv, scenario \in Scenarios, TakeGroup
  PROVE  Inv'
<1> DEFINE n == IF Len(queue) < GroupMax THEN Len(queue) ELSE GroupMax
<1>1. /\ state = "running" /\ pc = "idle" /\ group' = SubSeq(queue, 1, n)
      /\ queue' = SubSeq(queue, n + 1, Len(queue)) /\ pc' = IF failed THEN "latched" ELSE "commit"
      /\ UNCHANGED <<cache, disk, dirty, dirCache, dirDisk, state, failed, pending, active, writeOffset,
                     named, listed, spare, dropsBySegment, syncOwed, toDelete, owed, buried>>
  BY DEF TakeGroup, Running, medium, files, history
<1>2. Up /\ Up' /\ TypeInv /\ IdleInv /\ DirectoryInv /\ DeleteInv /\ PendingInv /\ OwedInv /\ BuriedInv
  BY <1>1 DEF Inv, ContentInv, FileInv, EventInv, Up
<1>3. n \in 0 .. Len(queue)
  BY <1>2, ConstantsAssumption DEF TypeInv, GroupMax
<1>4. /\ group' \in Seq(Entries) /\ queue' \in Seq(Entries)
      /\ \A x : InSeq(x, group') \/ InSeq(x, queue') => InSeq(x, queue)
  <2>1. queue \in Seq(Entries)
    BY <1>2 DEF TypeInv
  <2> HIDE DEF n
  <2> QED BY <1>1, <1>3, <2>1, Split
<1>5. pc' = "commit" /\ group = <<>>
  BY <1>1, <1>2 DEF IdleInv
<1>6. ContentInv' /\ LineInv'
  BY <1>1, <1>2, <1>5, QuietStep
<1>7. TypeInv'
  BY <1>1, <1>2, <1>4 DEF TypeInv
<1>8. IdleInv' /\ DirectoryInv' /\ DeleteInv'
  BY <1>1, <1>2, <1>5, SameMedium DEF IdleInv, DirectoryInv, DeleteInv, Outstanding, Up
<1>9. PendingInv'
  <2>1. \A x : ~ InSeq(x, group)
    BY <1>5 DEF InSeq
  <2> QED BY <1>1, <1>2, <2>1, SameMedium DEF PendingInv
<1>10. OwedInv'
  BY <1>1, <1>2, <1>4 DEF OwedInv
<1>11. BuriedInv'
  BY <1>1, <1>2, <1>4, SameMedium DEF BuriedInv, InFlight
<1> QED BY <1>6, <1>7, <1>8, <1>9, <1>10, <1>11 DEF Inv, FileInv, EventInv

\* The steps that only move the committer on, end its pass or stop the keeper.
LEMMA MoveOnInv ==
  ASSUME Inv, RemoveDone \/ PeriodicDelete \/ DeleteStillOwed \/ RemoveFails \/ Stop
  PROVE  Inv'
<1>1. /\ state = "running" /\ state' \in {"running", "stopped"} /\ pc \notin {"commit", "sync"}
      /\ (state' = "stopped" => queue = <<>>)
      /\ pc' \in {"idle", "delete"} /\ toDelete' \in {toDelete, {}}
      /\ UNCHANGED <<cache, disk, dirty, dirCache, dirDisk, failed, queue, group, pending, active, writeOffset,
                     named, listed, spare, dropsBySegment, owed, buried>>
  BY DEF RemoveDone, PeriodicDelete, DeleteStillOwed, RemoveFails, Stop, Running, medium, files, history
<1>2. Up /\ Up' /\ TypeInv /\ IdleInv /\ DirectoryInv /\ DeleteInv /\ PendingInv /\ OwedInv /\ BuriedInv
  BY <1>1 DEF Inv, ContentInv, FileInv, EventInv, Up
<1>3. toDelete' = {}
  BY <1>2 DEF RemoveDone, PeriodicDelete, DeleteStillOwed, RemoveFails, Stop, DirectoryInv, Up
<1>4. ContentInv' /\ LineInv'
  BY <1>1, <1>2, QuietStep
<1>5. TypeInv'
  BY <1>1, <1>2 DEF TypeInv
<1>6. IdleInv'
  BY <1>1, <1>2 DEF IdleInv, Up
<1>7. DirectoryInv'
  <2>1. \A g \in dirDisk.segs \ dirCache.segs : syncOwed'
    BY <1>2 DEF RemoveDone, PeriodicDelete, DeleteStillOwed, RemoveFails, Stop, DirectoryInv
  <2> QED BY <1>1, <1>2, <1>3, <2>1 DEF DirectoryInv
<1>8. DeleteInv'
  BY <1>1, <1>2, <1>3, SameMedium DEF DeleteInv, Outstanding
<1>9. PendingInv' /\ OwedInv'
  BY <1>1, <1>2, SameMedium DEF PendingInv, OwedInv
<1>10. BuriedInv'
  BY <1>1, <1>2, SameMedium DEF BuriedInv, InFlight
<1> QED BY <1>4, <1>5, <1>6, <1>7, <1>8, <1>9, <1>10 DEF Inv, FileInv, EventInv

-----------------------------------------------------------------------------
(* A new active segment                                                    *)

\* A segment that both layers hold as zeros has nothing in it.
LEMMA FreshEdge ==
  ASSUME TypeInv, NEW a \in Segments, cache[a] = EmptySegment, disk[a] = EmptySegment
  PROVE  Edge(a, 1, 1) /\ ~ AfterEnd(cache[a]) /\ \A i \in Slots : Cells(a, i) = {Zero}
<1>1. SegSlots \in Nat /\ \A i \in Slots : Cells(a, i) = {Zero}
  BY Types, EmptyRow DEF Cells
<1>2. Even(a, 0)
  BY DEF Even
<1> QED BY <1>1, <1>2, EmptyRow DEF Edge, Slots

\* Nothing lies after the data of a segment whose groups are all synced.
LEMMA CleanEdge ==
  ASSUME TypeInv, NEW a \in Segments, NEW w \in Nat, Edge(a, w, w)
  PROVE  /\ ~ AfterEnd(cache[a]) /\ \A i \in w .. SegSlots : Cells(a, i) = {Zero}
         /\ \A i \in Slots, v \in Records : v \in Cells(a, i) => i < w /\ Even(a, i) /\ Firm(a, i, v)
<1>1. SegSlots \in Nat /\ cache[a] \in Row
  BY Types
<1>2. \A i \in w .. SegSlots : Cells(a, i) = {Zero}
  BY DEF Edge
<1>3. ASSUME NEW i \in Slots, i < w PROVE Even(a, i)
  <2>1. \A j \in 1 .. i : j \in 1 .. (w - 1)
    BY <1>1, <1>3 DEF Slots
  <2> QED BY <2>1 DEF Edge, Even
<1>4. ASSUME NEW i \in Slots, ~ i < w PROVE cache[a][i] = Zero /\ Cells(a, i) = {Zero}
  <2>1. i \in w .. SegSlots
    BY <1>1, <1>4 DEF Slots
  <2> QED BY <1>2, <2>1 DEF Cells
<1>5. ~ AfterEnd(cache[a])
  BY <1>1, <1>3, <1>4, NothingAfter DEF Even
<1>6. ASSUME NEW i \in Slots, NEW v \in Records, v \in Cells(a, i) PROVE i < w /\ Even(a, i) /\ Firm(a, i, v)
  <2>1. i < w
    BY <1>4, <1>6, RecordFacts
  <2>2. i \in 1 .. i
    BY Types
  <2> QED BY <1>3, <1>6, <2>1, <2>2 DEF Even, Firm, Cells
<1> QED BY <1>2, <1>5, <1>6

\* The spare becomes active.
LEMMA SwitchInv ==
  ASSUME Inv, state = "running", spare # {}, spare \subseteq dirDisk.segs, pc \in {"commit", "idle"},
         pc' = pc \/ (pc = "idle" /\ pc' = "delete"),
         active' = Greatest(spare), listed' = listed \cup spare, spare' = {}, writeOffset' = 1, named' = {},
         UNCHANGED <<cache, disk, dirty, dirCache, dirDisk, state, failed, queue, group, pending, dropsBySegment,
                     syncOwed, toDelete, owed, buried>>
  PROVE  Inv'
<1>1. /\ Up /\ Up' /\ TypeInv /\ MediumInv /\ RowInv /\ NamesInv /\ IdleInv /\ DirectoryInv /\ DeleteInv
      /\ LineInv /\ PendingInv /\ OwedInv /\ BuriedInv
  BY DEF Inv, ContentInv, FileInv, EventInv, Up
<1>2. PICK a \in spare : spare = {a} /\ a > active
  BY <1>1 DEF DirectoryInv
<1>3. a \in Segments /\ a \in Nat /\ active \in Segments /\ active \in Nat /\ a \in Known /\ active \in Known
      /\ Known \subseteq Segments /\ listed \subseteq Segments /\ \A g \in Segments : g \in Nat
  BY <1>1, <1>2, Types DEF DirectoryInv, TypeInv, Known
<1>4. active' = a
  BY <1>1, <1>2, <1>3, SegmentBounds DEF TypeInv
<1>5. Rows(active, writeOffset, writeOffset) /\ dirty[active] = {} /\ Edge(active, writeOffset, writeOffset)
      /\ writeOffset \in Nat
  BY <1>1, <1>3, Types DEF RowInv, Rows, TypeInv
<1>6. ~ AfterEnd(cache[active]) /\ \A i \in Slots, v \in Records : v \in Cells(active, i) => i < writeOffset
  BY <1>1, <1>3, <1>5, CleanEdge
<1>7. cache[a] = EmptySegment /\ disk[a] = EmptySegment
  BY <1>2, <1>3, <1>5 DEF Rows
<1>8. Rows(a, 1, 1)
  <2>1. Edge(a, 1, 1)
    BY <1>1, <1>3, <1>7, FreshEdge
  <2>2. \A g \in Known \ {a} : dirty[g] = {} /\ ~ AfterEnd(cache[g])
    BY <1>5, <1>6 DEF Rows
  <2>3. \A g \in Known : g > a => cache[g] = EmptySegment /\ disk[g] = EmptySegment
    <3>1. ASSUME NEW g \in Known, g > a PROVE g > active
      <4>1. g \in Nat /\ a \in Nat /\ active \in Nat
        BY <1>3
      <4> QED BY <1>2, <3>1, <4>1
    <3> QED BY <1>5, <3>1 DEF Rows
  <2> QED BY <2>1, <2>2, <2>3 DEF Rows
<1>9. dirty[a] = {}
  BY <1>2, <1>3, <1>5 DEF Rows
<1>10. TypeInv'
  <2>1. 1 \in 1 .. (SegSlots + 1)
    BY ConstantsAssumption
  <2> QED BY <1>1, <1>3, <1>4, <2>1 DEF TypeInv
<1>11. ContentInv'
  <2>1. RowInv'
    BY <1>1, <1>4, <1>8, <1>9, SameMedium DEF RowInv
  <2>2. NamesInv' /\ RecoveryInv'
    BY <1>1, SameMedium DEF NamesInv, RecoveryInv, Up
  <2> QED BY <1>1, <2>1, <2>2, SameMedium DEF ContentInv
<1>12. IdleInv'
  BY <1>1 DEF IdleInv, Up
<1>13. DirectoryInv'
  <2>1. \A g \in listed' : g <= a
    BY <1>1, <1>2, <1>3 DEF DirectoryInv
  <2>2. ASSUME NEW g \in dirDisk.segs \ dirCache.segs PROVE g < a /\ syncOwed
    <3>1. g \in Nat /\ a \in Nat /\ active \in Nat
      BY <1>3 DEF Known
    <3>2. g < active /\ syncOwed
      BY <1>1 DEF DirectoryInv
    <3> QED BY <1>2, <3>1, <3>2
  <2>3. dirCache.segs = listed' /\ listed' \subseteq dirDisk.segs /\ a \in listed'
    BY <1>1, <1>2 DEF DirectoryInv
  <2>4. toDelete = {} /\ (syncOwed => pc' \notin {"remove", "remove_sync"})
    BY <1>1 DEF DirectoryInv
  <2> QED BY <1>4, <2>1, <2>2, <2>3, <2>4 DEF DirectoryInv
<1>14. DeleteInv'
  <2>1. toDelete = {}
    BY <1>1 DEF DirectoryInv
  <2>2. ASSUME NEW g \in listed', NEW s \in Stories
        PROVE  s \in dropsBySegment[g] <=> \E j \in Slots : Firm(g, j, D(s)) /\ (g = a => j < 1)
    <3>1. CASE g = a
      <4>1. a \notin listed
        BY <1>1, <1>2, <1>3 DEF DirectoryInv
      <4>2. dropsBySegment[a] = {}
        BY <1>1, <1>3, <4>1 DEF DeleteInv
      <4>3. \A j \in Slots : ~ j < 1
        BY <1>1, Types
      <4> QED BY <3>1, <4>2, <4>3
    <3>2. CASE g # a
      <4>1. g \in listed
        BY <1>2, <3>2
      <4>2. \A j \in Slots : g = active /\ Firm(g, j, D(s)) => j < writeOffset
        BY <1>6, RecordFacts DEF Firm, Cells
      <4> QED BY <1>1, <3>2, <4>1, <4>2 DEF DeleteInv
    <3> QED BY <3>1, <3>2
  <2>3. \A g \in Segments \ listed' : dropsBySegment[g] = {}
    BY <1>1 DEF DeleteInv
  <2> QED BY <1>1, <1>4, <2>1, <2>2, <2>3, SameMedium DEF DeleteInv
<1>15. LineInv'
  <2> SUFFICES ASSUME NEW lines \in Lines, NEW l \in Stories \X Segments, l \in lines PROVE l[2] < a
    BY <1>1, <1>4, SameMedium DEF LineInv
  <2>1. l[2] < active /\ l[2] \in Segments
    BY <1>1 DEF LineInv
  <2>2. l[2] \in Nat /\ a \in Nat /\ active \in Nat
    BY <1>3, <2>1
  <2> QED BY <1>2, <2>1, <2>2
<1>16. PendingInv'
  BY <1>1, SameMedium DEF PendingInv
<1>17. OwedInv' /\ BuriedInv'
  BY <1>1, SameMedium DEF OwedInv, BuriedInv, InFlight
<1> QED BY <1>10, <1>11, <1>12, <1>13, <1>14, <1>15, <1>16, <1>17 DEF Inv, FileInv, EventInv

\* The sync before the switch finds nothing to write.
LEMMA RotateInv ==
  ASSUME Inv, Rotate
  PROVE  Inv'
<1>1. /\ state = "running" /\ pc = "commit" /\ SyncSlots(active, cache)
      /\ spare # {} /\ spare \subseteq dirDisk.segs
      /\ active' = Greatest(spare) /\ listed' = listed \cup spare /\ spare' = {}
      /\ writeOffset' = 1 /\ named' = {}
      /\ UNCHANGED <<cache, dirCache, dirDisk, state, pc, failed, queue, group, pending,
                     dropsBySegment, syncOwed, toDelete, owed, buried>>
  BY DEF Rotate, Running, history
<1>2. TypeInv /\ MediumInv /\ RowInv /\ DirectoryInv /\ Up
  BY <1>1 DEF Inv, ContentInv, FileInv, Up
<1>3. active \in Segments /\ dirty[active] = {}
  BY <1>1, <1>2 DEF DirectoryInv, RowInv, TypeInv
<1>4. /\ disk' \in [Segments -> Row] /\ dirty' \in [Segments -> SUBSET Slots]
      /\ \A h \in Segments : h # active => disk'[h] = disk[h] /\ dirty'[h] = dirty[h]
      /\ disk'[active] = cache[active] /\ dirty'[active] = {}
  BY <1>1, <1>2, <1>3, Synced
<1>5. cache[active] = disk[active]
  BY <1>2, <1>3 DEF MediumInv, TypeInv, Row
<1>6. disk' = disk /\ dirty' = dirty
  <2>1. disk \in [Segments -> Row] /\ dirty \in [Segments -> SUBSET Slots]
    BY <1>2 DEF TypeInv
  <2> QED BY <1>3, <1>4, <1>5, <2>1
<1> QED BY <1>1, <1>6, SwitchInv

\* An idle keeper's active segment is replaced, unless the sync before it fails.
LEMMA IdleRotateInv ==
  ASSUME Inv, IdleRotate, failed' = failed
  PROVE  Inv'
<1>1. ~ failed
  BY DEF IdleRotate
<1>2. /\ state = "running" /\ pc = "idle" /\ pc' = "delete"
      /\ spare # {} /\ spare \subseteq dirDisk.segs
      /\ active' = Greatest(spare) /\ listed' = listed \cup spare /\ spare' = {}
      /\ writeOffset' = 1 /\ named' = {}
      /\ UNCHANGED <<cache, disk, dirty, dirCache, dirDisk, state, failed, queue, group, pending,
                     dropsBySegment, syncOwed, toDelete, owed, buried>>
  BY <1>1 DEF IdleRotate, Running, history, medium
<1> QED BY <1>2, SwitchInv

-----------------------------------------------------------------------------
(* Steps of the directory                                                  *)

\* What the rows hold stays with them.
LEMMA SameSlots ==
  ASSUME UNCHANGED <<cache, disk, dirty>>
  PROVE  /\ \A g, i : Cells(g, i)' = Cells(g, i) /\ (Even(g, i)' <=> Even(g, i))
         /\ \A g, i, rec : Firm(g, i, rec)' <=> Firm(g, i, rec)
         /\ \A x, w, n : Known' \subseteq Known /\ Rows(x, w, n) => Rows(x, w, n)'
         /\ MediumInv' <=> MediumInv
<1>1. \A g, i : Cells(g, i)' = Cells(g, i) /\ (Even(g, i)' <=> Even(g, i))
  BY DEF Cells, Even
<1>2. \A g, i, rec : Firm(g, i, rec)' <=> Firm(g, i, rec)
  BY <1>1 DEF Firm
<1>3. \A x, w, n : Edge(x, w, n)' <=> Edge(x, w, n)
  BY <1>1 DEF Edge
<1>4. \A x, w, n : Known' \subseteq Known /\ Rows(x, w, n) => Rows(x, w, n)'
  BY <1>3 DEF Rows
<1>5. MediumInv' <=> MediumInv
  BY DEF MediumInv
<1> QED BY <1>1, <1>2, <1>4, <1>5

\* Then what the log holds is as it was.
LEMMA DirectoryStep ==
  ASSUME Inv, Up, Up', Known' \subseteq Known,
         UNCHANGED <<cache, disk, dirty, active, writeOffset, named, group>>, pc' = "sync" <=> pc = "sync"
  PROVE  ContentInv'
<1>1. MediumInv /\ RowInv /\ NamesInv
  BY DEF Inv, ContentInv, FileInv
<1>2. RowInv'
  <2>1. CASE pc = "sync"
    <3>1. Rows(active, writeOffset, writeOffset + GroupSlots(group, named))'
      BY <1>1, <2>1, SameSlots DEF RowInv
    <3>2. (Fits <=> Fits') /\ GroupFrames' = GroupFrames
      BY <2>1 DEF Fits, GroupFrames
    <3> QED BY <1>1, <2>1, <3>1, <3>2 DEF RowInv
  <2>2. CASE pc # "sync"
    BY <1>1, <2>2, SameSlots DEF RowInv
  <2> QED BY <2>1, <2>2
<1>3. NamesInv'
  BY <1>1, SameSlots DEF NamesInv
<1>4. RecoveryInv'
  BY DEF RecoveryInv, Up
<1> QED BY <1>1, <1>2, <1>3, <1>4, SameSlots DEF ContentInv

\* A directory sync makes what is there durable.
LEMMA SyncStep ==
  ASSUME Inv, state = "running", dirDisk' = dirCache, syncOwed' \in {syncOwed, FALSE},
         pc' = pc \/ (pc = "remove_sync" /\ pc' = "remove"),
         UNCHANGED <<cache, disk, dirty, dirCache, state, failed, queue, group, pending, active, writeOffset, named,
                     listed, spare, dropsBySegment, toDelete, owed, buried>>
  PROVE  Inv'
<1>1. /\ Up /\ Up' /\ TypeInv /\ IdleInv /\ DirectoryInv /\ DeleteInv /\ LineInv /\ PendingInv /\ OwedInv /\ BuriedInv
  BY DEF Inv, ContentInv, FileInv, EventInv, Up
<1>2. Known' \subseteq Known /\ Stays \subseteq Stays' /\ Lines' \subseteq Lines
  BY DEF Known, Stays, Lines
<1>3. Fades
  BY <1>2, SameSlots DEF Fades
<1>4. ContentInv'
  BY <1>1, <1>2, DirectoryStep
<1>5. TypeInv'
  BY <1>1 DEF TypeInv
<1>6. IdleInv'
  BY <1>1 DEF IdleInv, Up
<1>7. DirectoryInv'
  BY <1>1 DEF DirectoryInv
<1>8. DeleteInv'
  BY <1>1, <1>2, SameSlots DEF DeleteInv, Outstanding
<1>9. LineInv'
  BY <1>1, <1>2 DEF LineInv
<1>10. PendingInv'
  <2> SUFFICES ASSUME NEW e \in Events
               PROVE  /\ \A g \in pending[e] : g \in listed /\ \E i \in Slots : Firm(g, i, E(e))'
                      /\ pending[e] # {} /\ ~ InSeq(D(StoryOf[e]), group) => \E g \in pending[e] : Good(e, g)'
    BY DEF PendingInv
  <2> QED BY <1>1, <1>3, SameSlots, FadeGood DEF PendingInv
<1>11. OwedInv'
  BY <1>1 DEF OwedInv
<1>12. BuriedInv'
  <2> SUFFICES ASSUME NEW e \in buried
               PROVE  /\ ~ InFlight(e) /\ pending[e] = {}
                      /\ \A g \in Known', i \in Slots : E(e) \in Cells(g, i)' => Covered(e, g, i)'
    BY <1>1 DEF BuriedInv, InFlight
  <2>1. e \in Events
    BY <1>1 DEF TypeInv
  <2> QED BY <1>1, <1>2, <1>3, <2>1, SameSlots, FadeCovered DEF BuriedInv
<1> QED BY <1>4, <1>5, <1>6, <1>7, <1>8, <1>9, <1>10, <1>11, <1>12 DEF Inv, FileInv, EventInv

\* The three syncs of the directory.
LEMMA SyncsInv ==
  ASSUME Inv, DeleteOwedSync \/ RemoveSync \/ SyncSpare
  PROVE  Inv'
<1>1. /\ state = "running" /\ dirDisk' = dirCache /\ syncOwed' \in {syncOwed, FALSE}
      /\ pc' = pc \/ (pc = "remove_sync" /\ pc' = "remove")
      /\ UNCHANGED <<cache, disk, dirty, dirCache, state, failed, queue, group, pending, active, writeOffset, named,
                     listed, spare, dropsBySegment, toDelete, owed, buried>>
  BY DEF DeleteOwedSync, RemoveSync, SyncSpare, Running, SyncDirectory, files, history
<1> QED BY <1>1, SyncStep

\* Outside of a removal and with no sync owed, the disk has no segment the
\* directory has lost.
LEMMA NoneLost ==
  ASSUME Inv, state = "running", pc \in {"delete", "remove"}, pc = "delete" => ~ syncOwed
  PROVE  Known = dirCache.segs /\ Known = listed \cup spare /\ ~ syncOwed
BY DEF Inv, FileInv, DirectoryInv, Up, Known

\* A released segment leaves the directory.  The destroys it held are in the
\* unlogged-drops file when an older segment stays.
LEMMA RemoveSegmentInv ==
  ASSUME Inv, RemoveSegment
  PROVE  Inv'
<1> DEFINE g == Least(toDelete)
<1>1. /\ state = "running" /\ pc = "remove" /\ toDelete # {} /\ pc' = "remove_sync"
      /\ dirCache' = DirWith(dirCache.segs \ {g}, dirCache.lines)
      /\ listed' = listed \ {g} /\ toDelete' = toDelete \ {g} /\ dropsBySegment' = [dropsBySegment EXCEPT ![g] = {}]
      /\ UNCHANGED <<cache, disk, dirty, dirDisk, state, failed, queue, group, pending, active, writeOffset, named,
                     spare, syncOwed, owed, buried>>
  BY DEF RemoveSegment, Running, history
<1>2. /\ Up /\ Up' /\ TypeInv /\ IdleInv /\ DirectoryInv /\ DeleteInv /\ LineInv /\ PendingInv /\ OwedInv /\ BuriedInv
  BY <1>1 DEF Inv, ContentInv, FileInv, EventInv, Up
<1>3. g \in toDelete /\ g \in Segments /\ \A h \in toDelete : g <= h
  BY <1>1, <1>2, SegmentBounds DEF TypeInv
<1> HIDE DEF g
<1>4. /\ g \in listed /\ g # active /\ ~ Outstanding(g) /\ active \in Segments
      /\ Known \subseteq Segments /\ \A h \in Segments : h \in Nat
  BY <1>2, <1>3, Types DEF DeleteInv, DirectoryInv, TypeInv
<1>5. g < active
  <2>1. g <= active /\ g \in Nat /\ active \in Nat
    BY <1>2, <1>3, <1>4 DEF DirectoryInv
  <2> QED BY <1>4, <2>1
<1>6. g \notin spare
  <2>1. g \in Nat /\ active \in Nat
    BY <1>3, <1>4
  <2>2. g \in spare => g > active
    BY <1>2 DEF DirectoryInv
  <2> QED BY <1>5, <2>1, <2>2
<1>7. Known = dirCache.segs /\ Known = listed \cup spare /\ ~ syncOwed
  BY <1>1, NoneLost
<1>8. dirCache'.segs = dirCache.segs \ {g} /\ dirCache'.lines = dirCache.lines
  BY <1>1 DEF DirWith
<1>9. Known' = Known /\ Stays' = Stays \ {g} /\ Lines' = Lines
  <2>1. g \in dirDisk.segs
    BY <1>2, <1>4 DEF DirectoryInv
  <2> QED BY <1>1, <1>8, <2>1 DEF Known, Stays, Lines
<1>10. ContentInv'
  BY <1>1, <1>2, <1>9, DirectoryStep
<1>11. TypeInv'
  <2>1. dirCache' \in [segs : SUBSET Segments, lines : SUBSET (Stories \X Segments)]
    BY <1>1, <1>2 DEF DirWith, TypeInv
  <2>2. dropsBySegment' \in [Segments -> SUBSET Stories]
    BY <1>1, <1>2 DEF TypeInv
  <2> QED BY <1>1, <1>2, <2>1, <2>2 DEF TypeInv
<1>12. IdleInv'
  BY <1>1, <1>2 DEF IdleInv, Up
<1>13. DirectoryInv'
  <2>1. dirCache'.segs = listed' \cup spare /\ listed' \subseteq dirDisk.segs /\ active \in listed'
    BY <1>1, <1>2, <1>4, <1>6, <1>8 DEF DirectoryInv
  <2>2. \A h \in dirDisk.segs \ dirCache'.segs : h = g
    BY <1>7, <1>8 DEF Known
  <2> QED BY <1>1, <1>2, <1>5, <1>7, <2>1, <2>2 DEF DirectoryInv
<1>14. DeleteInv'
  <2>1. dropsBySegment'[g] = {} /\ \A h \in Segments : h # g => dropsBySegment'[h] = dropsBySegment[h]
    BY <1>1, <1>2, <1>3 DEF TypeInv
  <2>2. toDelete' \subseteq listed' \ {active} /\ \A h \in toDelete' : ~ Outstanding(h)'
    BY <1>1, <1>2 DEF DeleteInv, Outstanding
  <2>3. listed \subseteq Segments /\ toDelete \subseteq listed
    BY <1>2 DEF TypeInv, DeleteInv
  <2>4. ASSUME NEW d \in toDelete', NEW h \in listed' \ toDelete', NEW s \in Stories, h < d, s \in dropsBySegment'[d]
        PROVE  \A lines \in Lines' : <<s, d>> \in lines
    <3>1. d \in toDelete /\ h \in listed \ toDelete /\ s \in dropsBySegment[d]
      BY <1>1, <2>1, <2>3, <2>4
    <3> QED BY <1>2, <1>9, <2>4, <3>1 DEF DeleteInv
  <2>5. \A h \in Segments \ listed' : dropsBySegment'[h] = {}
    BY <1>1, <1>2, <2>1 DEF DeleteInv
  <2>6. ASSUME NEW h \in listed', NEW s \in Stories
        PROVE  s \in dropsBySegment'[h] <=> \E j \in Slots : Firm(h, j, D(s))' /\ (h = active => j < writeOffset)
    <3>1. h \in listed /\ dropsBySegment'[h] = dropsBySegment[h]
      BY <1>1, <2>1, <2>3
    <3> QED BY <1>1, <1>2, <3>1, SameSlots DEF DeleteInv
  <2> QED BY <1>1, <2>2, <2>4, <2>5, <2>6 DEF DeleteInv
<1>15. LineInv'
  BY <1>1, <1>2, <1>9 DEF LineInv
<1>16. PendingInv'
  <2> SUFFICES ASSUME NEW e \in Events
               PROVE  /\ \A h \in pending[e] : h \in listed' /\ \E i \in Slots : Firm(h, i, E(e))'
                      /\ pending[e] # {} /\ ~ InSeq(D(StoryOf[e]), group) => \E h \in pending[e] : Good(e, h)'
    BY <1>1 DEF PendingInv
  <2>1. \A h \in pending[e] : h # g
    BY <1>4 DEF Outstanding
  <2>2. \A h \in pending[e] : Good(e, h) => Good(e, h)'
    BY <1>1, <1>9, <2>1, SameSlots DEF Good
  <2> QED BY <1>1, <1>2, <2>1, <2>2, SameSlots DEF PendingInv
<1>17. OwedInv'
  BY <1>1, <1>2 DEF OwedInv
<1>18. BuriedInv'
  <2> SUFFICES ASSUME NEW e \in buried
               PROVE  /\ ~ InFlight(e) /\ pending[e] = {}
                      /\ \A h \in Known, i \in Slots : E(e) \in Cells(h, i) => Covered(e, h, i)'
    BY <1>1, <1>2, <1>9, SameSlots DEF BuriedInv, InFlight
  <2>1. ASSUME NEW h \in Known, NEW i \in Slots, Covered(e, h, i) PROVE Covered(e, h, i)'
    <3>1. CASE \A lines \in Lines : \E n \in Segments : <<StoryOf[e], n>> \in lines /\ n >= h
      BY <1>9, <3>1 DEF Covered
    <3>2. ASSUME NEW k \in Known, NEW j \in Slots, Firm(k, j, D(StoryOf[e])), (k = h /\ j > i) \/ (k > h /\ k \in Stays)
          PROVE  Covered(e, h, i)'
      <4>1. CASE k = h \/ k # g
        <5>1. k \in Nat /\ h \in Nat
          BY <1>4
        <5>2. (k = h /\ j > i) \/ (k > h /\ k \in Stays')
          BY <1>9, <3>2, <4>1, <5>1
        <5>3. k \in Known' /\ Firm(k, j, D(StoryOf[e]))'
          BY <1>1, <1>9, <3>2, SameSlots
        <5> QED BY <5>2, <5>3 DEF Covered
      <4>2. CASE k = g /\ k # h
        <5>1. g > h /\ g \in Nat /\ h \in Nat /\ active \in Nat
          BY <1>4, <3>2, <4>2
        <5>2. h \notin spare
          <6>1. h \in spare => h > active
            BY <1>2 DEF DirectoryInv
          <6> QED BY <1>5, <5>1, <6>1
        <5>3. h \in listed \ toDelete
          <6>1. h \in listed
            BY <1>7, <5>2
          <6>2. ASSUME h \in toDelete PROVE FALSE
            BY <1>3, <5>1, <6>2
          <6> QED BY <6>1, <6>2
        <5>4. StoryOf[e] \in Stories
          BY <1>2, ConstantsAssumption DEF TypeInv
        <5>5. StoryOf[e] \in dropsBySegment[g]
          BY <1>2, <1>4, <3>2, <4>2, <5>4 DEF DeleteInv
        <5>6. \A lines \in Lines : <<StoryOf[e], g>> \in lines
          BY <1>2, <1>3, <5>1, <5>3, <5>4, <5>5 DEF DeleteInv
        <5>7. g >= h
          BY <5>1
        <5> QED BY <1>3, <1>9, <5>6, <5>7 DEF Covered
      <4> QED BY <4>1, <4>2
    <3> QED BY <2>1, <3>1, <3>2 DEF Covered
  <2> QED BY <1>2, <2>1 DEF BuriedInv
<1> QED BY <1>10, <1>11, <1>12, <1>13, <1>14, <1>15, <1>16, <1>17, <1>18 DEF Inv, FileInv, EventInv

\* Which destroys a pass keeps for the segments that stay, and that only those
\* segments go whose destroys are kept or are not needed.
LEMMA DeleteBeginFacts ==
  ASSUME Inv, DeleteBegin
  PROVE  \E L \in SUBSET (Stories \X Segments) :
           /\ \A l \in Stories \X Segments : l \in L =>
                l \in dirCache.lines \/ (l[2] \in Deletable /\ l[1] \in dropsBySegment[l[2]])
           /\ \A l \in dirCache.lines : (\E g \in listed : g <= l[2]) => l \in L
           /\ toDelete' \subseteq Deletable
           /\ \A d \in toDelete', g \in listed \ toDelete', s \in Stories :
                g < d /\ s \in dropsBySegment[d] => \A lines \in Lines' : <<s, d>> \in lines
           /\ dirCache'.segs = dirCache.segs /\ dirDisk'.segs \in {dirDisk.segs, dirCache.segs}
           /\ dirCache'.lines \in {dirCache.lines, L} /\ dirDisk'.lines \in {dirDisk.lines, L}
           /\ dirCache' \in [segs : SUBSET Segments, lines : SUBSET (Stories \X Segments)]
           /\ dirDisk' \in [segs : SUBSET Segments, lines : SUBSET (Stories \X Segments)]
<1> DEFINE C == CarriedBy(Deletable)
           carried == {l \in Stories \X Segments : l[2] \in C /\ l[1] \in dropsBySegment[l[2]]}
           L == {l \in dirCache.lines : l[2] >= Least(listed)} \cup carried
           kept == listed \ Deletable
<1>1. state = "running" /\ Up /\ TypeInv /\ DirectoryInv
  BY DEF DeleteBegin, Running, Up, Inv, FileInv
<1>2. /\ Deletable \subseteq listed /\ kept \subseteq Segments /\ listed \subseteq Segments /\ listed # {}
      /\ \A g \in Segments : g \in Nat
  BY <1>1, Types DEF Deletable, TypeInv, DirectoryInv
<1>3. C = {g \in Deletable : kept # {} /\ g > Least(kept) /\ dropsBySegment[g] # {}}
  BY DEF CarriedBy
<1>4. ASSUME NEW d \in Deletable, NEW g \in kept, g < d, dropsBySegment[d] # {} PROVE d \in C
  <2>1. Least(kept) <= g /\ Least(kept) \in Segments
    <3> HIDE DEF kept
    <3> QED BY <1>2, <1>4, SegmentBounds
  <2>2. Least(kept) \in Nat /\ g \in Nat /\ d \in Nat
    BY <1>2, <1>4, <2>1
  <2>3. d > Least(kept)
    BY <1>4, <2>1, <2>2
  <2> HIDE DEF kept, C
  <2> QED BY <1>3, <1>4, <2>3
<1>5. ASSUME NEW d \in Deletable, NEW g \in C, g < d, dropsBySegment[d] # {} PROVE d \in C
  <2>1. kept # {} /\ g > Least(kept) /\ g \in Deletable
    BY <1>3
  <2>2. Least(kept) \in Segments
    <3> HIDE DEF kept
    <3> QED BY <1>2, <2>1, SegmentBounds
  <2>3. Least(kept) \in Nat /\ g \in Nat /\ d \in Nat
    BY <1>2, <2>1, <2>2
  <2>4. d > Least(kept)
    BY <1>5, <2>1, <2>3
  <2> HIDE DEF kept, C
  <2> QED BY <1>3, <1>5, <2>1, <2>4
<1>6. /\ L \in SUBSET (Stories \X Segments)
      /\ \A l \in Stories \X Segments : l \in L =>
                l \in dirCache.lines \/ (l[2] \in Deletable /\ l[1] \in dropsBySegment[l[2]])
  <2>1. dirCache.lines \subseteq Stories \X Segments /\ C \subseteq Deletable
    BY <1>1, <1>3 DEF TypeInv
  <2> HIDE DEF C
  <2> QED BY <2>1
<1>7. ASSUME NEW l \in dirCache.lines, NEW g \in listed, g <= l[2] PROVE l \in L
  <2>1. Least(listed) <= g /\ Least(listed) \in Segments
    BY <1>2, SegmentBounds
  <2>2. l \in Stories \X Segments
    BY <1>1 DEF TypeInv
  <2>3. Least(listed) \in Nat /\ g \in Nat /\ l[2] \in Nat
    BY <1>2, <2>1, <2>2
  <2>4. l[2] >= Least(listed)
    BY <1>7, <2>1, <2>3
  <2> QED BY <2>4
<1>8. \A d \in C : \A s \in dropsBySegment[d] : <<s, d>> \in L
  <2>1. C \subseteq Deletable /\ Deletable \subseteq Segments /\ \A g \in Segments : dropsBySegment[g] \subseteq Stories
    BY <1>1, <1>2, <1>3 DEF TypeInv
  <2> HIDE DEF C
  <2> QED BY <2>1
<1>9. \/ C = {} /\ toDelete' = Deletable /\ UNCHANGED <<dirCache, dirDisk>>
      \/ toDelete' = Deletable /\ dirCache' = DirWith(dirCache.segs, L) /\ dirDisk' = dirCache'
      \/ toDelete' = Deletable \ C /\ dirDisk' = dirDisk /\ dirCache' \in {dirCache, DirWith(dirCache.segs, L)}
  <2> HIDE DEF C
  <2> QED BY DEF DeleteBegin, WriteDrops, SyncDirectory, C
<1>10. ASSUME NEW d \in toDelete', NEW g \in listed \ toDelete', NEW s \in Stories, g < d, s \in dropsBySegment[d]
       PROVE  \A lines \in Lines' : <<s, d>> \in lines
  <2>1. d \in Deletable /\ dropsBySegment[d] # {}
    BY <1>9, <1>10
  <2>2. g \in kept \/ g \in C
    BY <1>9, <1>10
  <2>3. d \in C
    <3> HIDE DEF C, kept
    <3> QED BY <1>4, <1>5, <1>10, <2>1, <2>2
  <2>4. toDelete' = Deletable /\ dirCache' = DirWith(dirCache.segs, L) /\ dirDisk' = dirCache'
    <3> HIDE DEF C, L
    <3> QED BY <1>9, <2>3
  <2>5. Lines' = {L}
    <3> HIDE DEF L
    <3> QED BY <2>4 DEF Lines, DirWith
  <2>6. <<s, d>> \in L
    <3> HIDE DEF L, C
    <3> QED BY <1>8, <1>10, <2>3
  <2> HIDE DEF L
  <2> QED BY <2>5, <2>6
<1>11. DirWith(dirCache.segs, L).segs = dirCache.segs /\ DirWith(dirCache.segs, L).lines = L
       /\ DirWith(dirCache.segs, L) \in [segs : SUBSET Segments, lines : SUBSET (Stories \X Segments)]
  <2> HIDE DEF L
  <2> QED BY <1>1, <1>6 DEF DirWith, TypeInv
<1>12. /\ dirCache \in [segs : SUBSET Segments, lines : SUBSET (Stories \X Segments)]
       /\ dirDisk \in [segs : SUBSET Segments, lines : SUBSET (Stories \X Segments)]
  BY <1>1 DEF TypeInv
<1>13. /\ toDelete' \subseteq Deletable
       /\ dirCache'.segs = dirCache.segs /\ dirDisk'.segs \in {dirDisk.segs, dirCache.segs}
       /\ dirCache'.lines \in {dirCache.lines, L} /\ dirDisk'.lines \in {dirDisk.lines, L}
       /\ dirCache' \in [segs : SUBSET Segments, lines : SUBSET (Stories \X Segments)]
       /\ dirDisk' \in [segs : SUBSET Segments, lines : SUBSET (Stories \X Segments)]
  <2> HIDE DEF L, C
  <2> QED BY <1>9, <1>11, <1>12
<1> HIDE DEF L
<1> QED BY <1>6, <1>7, <1>10, <1>13

\* A pass begins: the copies that stay keep what they need, and so does what
\* was destroyed.
LEMMA DeleteBeginInv ==
  ASSUME Inv, DeleteBegin
  PROVE  Inv'
<1>1. PICK L \in SUBSET (Stories \X Segments) :
           /\ \A l \in Stories \X Segments : l \in L =>
                l \in dirCache.lines \/ (l[2] \in Deletable /\ l[1] \in dropsBySegment[l[2]])
           /\ \A l \in dirCache.lines : (\E g \in listed : g <= l[2]) => l \in L
           /\ toDelete' \subseteq Deletable
           /\ \A d \in toDelete', g \in listed \ toDelete', s \in Stories :
                g < d /\ s \in dropsBySegment[d] => \A lines \in Lines' : <<s, d>> \in lines
           /\ dirCache'.segs = dirCache.segs /\ dirDisk'.segs \in {dirDisk.segs, dirCache.segs}
           /\ dirCache'.lines \in {dirCache.lines, L} /\ dirDisk'.lines \in {dirDisk.lines, L}
           /\ dirCache' \in [segs : SUBSET Segments, lines : SUBSET (Stories \X Segments)]
           /\ dirDisk' \in [segs : SUBSET Segments, lines : SUBSET (Stories \X Segments)]
  BY DeleteBeginFacts
<1>2. /\ state = "running" /\ pc = "delete" /\ ~ syncOwed /\ pc' = "remove"
      /\ UNCHANGED <<cache, disk, dirty, state, failed, queue, group, pending, active, writeOffset, named,
                     listed, spare, dropsBySegment, syncOwed, owed, buried>>
  BY DEF DeleteBegin, Running, files, history
<1>3. /\ Up /\ Up' /\ TypeInv /\ IdleInv /\ DirectoryInv /\ DeleteInv /\ LineInv /\ PendingInv /\ OwedInv /\ BuriedInv
  BY <1>2 DEF Inv, ContentInv, FileInv, EventInv, Up
<1>4. Known = dirCache.segs /\ Known = listed \cup spare
  BY <1>2, NoneLost
<1>5. Known' = Known /\ Stays \subseteq Stays' /\ Lines' \subseteq Lines \cup {L} /\ dirCache.lines \in Lines
  BY <1>1, <1>4 DEF Known, Stays, Lines
<1>6. Known \subseteq Segments /\ active \in listed /\ active \in Segments /\ \A g \in Segments : g \in Nat
  BY <1>3, Types DEF DirectoryInv, TypeInv
<1>7. Deletable \subseteq listed \ {active} /\ \A g \in Deletable : ~ Outstanding(g)
  BY DEF Deletable
<1>8. ContentInv'
  BY <1>2, <1>3, <1>5, DirectoryStep
<1>9. TypeInv'
  <2>1. toDelete' \subseteq Segments
    BY <1>1, <1>3, <1>7 DEF TypeInv
  <2> QED BY <1>1, <1>2, <1>3, <2>1 DEF TypeInv
<1>10. IdleInv'
  BY <1>2, <1>3 DEF IdleInv, Up
<1>11. DirectoryInv'
  <2>1. dirCache'.segs = listed \cup spare /\ listed \subseteq dirDisk'.segs /\ dirDisk'.segs \subseteq dirCache'.segs
    BY <1>1, <1>3, <1>4 DEF DirectoryInv, Known
  <2> QED BY <1>2, <1>3, <2>1 DEF DirectoryInv
<1>12. DeleteInv'
  <2>1. toDelete' \subseteq listed \ {active} /\ \A g \in toDelete' : ~ Outstanding(g)'
    BY <1>1, <1>2, <1>7 DEF Outstanding
  <2>2. \A d \in toDelete', g \in listed' \ toDelete', s \in Stories :
             g < d /\ s \in dropsBySegment'[d] => \A lines \in Lines' : <<s, d>> \in lines
    BY <1>1, <1>2
  <2>3. /\ \A g \in Segments \ listed' : dropsBySegment'[g] = {}
        /\ \A g \in listed', s \in Stories :
             s \in dropsBySegment'[g] <=> \E j \in Slots : Firm(g, j, D(s))' /\ (g = active' => j < writeOffset')
    BY <1>2, <1>3, SameSlots DEF DeleteInv
  <2> QED BY <1>2, <2>1, <2>2, <2>3 DEF DeleteInv
<1>13. LineInv'
  <2> SUFFICES ASSUME NEW l \in Stories \X Segments, l \in L PROVE l[2] < active
    BY <1>2, <1>3, <1>5 DEF LineInv
  <2>1. CASE l \in dirCache.lines
    BY <1>3, <1>5, <2>1 DEF LineInv
  <2>2. CASE l[2] \in Deletable
    <3>1. l[2] <= active /\ l[2] # active
      BY <1>3, <1>7, <2>2 DEF DirectoryInv
    <3>2. l[2] \in Nat /\ active \in Nat
      BY <1>6
    <3> QED BY <3>1, <3>2
  <2> QED BY <1>1, <2>1, <2>2
<1>14. ASSUME NEW e \in Events, NEW g \in pending[e], Good(e, g) PROVE Good(e, g)'
  <2>1. g \in Stays' /\ g \in Segments /\ StoryOf[e] \in Stories
    BY <1>3, <1>5, <1>14, ConstantsAssumption DEF Good, TypeInv
  <2>2. PICK i \in Slots : /\ Firm(g, i, E(e))
                           /\ \A h \in Known, j \in Slots : D(StoryOf[e]) \in Cells(h, j) => h < g \/ (h = g /\ j < i)
    BY <1>14 DEF Good
  <2>3. ASSUME NEW n \in Segments, <<StoryOf[e], n>> \in L PROVE n < g
    <3>1. CASE <<StoryOf[e], n>> \in dirCache.lines
      BY <1>5, <1>14, <3>1 DEF Good
    <3>2. CASE n \in Deletable /\ StoryOf[e] \in dropsBySegment[n]
      <4>1. n \in listed /\ n # g
        BY <1>7, <3>2 DEF Outstanding
      <4>2. \E j \in Slots : Firm(n, j, D(StoryOf[e]))
        BY <1>3, <2>1, <3>2, <4>1 DEF DeleteInv
      <4>3. \E j \in Slots : D(StoryOf[e]) \in Cells(n, j)
        BY <4>2 DEF Firm, Cells
      <4> QED BY <1>4, <2>2, <4>1, <4>3
    <3>3. <<StoryOf[e], n>> \in Stories \X Segments /\ <<StoryOf[e], n>>[1] = StoryOf[e] /\ <<StoryOf[e], n>>[2] = n
      BY <2>1
    <3> QED BY <1>1, <2>3, <3>1, <3>2, <3>3
  <2>4. \A lines \in Lines', n \in Segments : <<StoryOf[e], n>> \in lines => n < g
    BY <1>5, <1>14, <2>3 DEF Good
  <2> QED BY <1>2, <1>5, <2>1, <2>2, <2>4, SameSlots DEF Good
<1>15. PendingInv'
  <2> SUFFICES ASSUME NEW e \in Events
               PROVE  /\ \A g \in pending[e] : g \in listed /\ \E i \in Slots : Firm(g, i, E(e))'
                      /\ pending[e] # {} /\ ~ InSeq(D(StoryOf[e]), group) => \E g \in pending[e] : Good(e, g)'
    BY <1>2 DEF PendingInv
  <2> QED BY <1>2, <1>3, <1>14, SameSlots DEF PendingInv
<1>16. OwedInv'
  BY <1>2, <1>3 DEF OwedInv
<1>17. BuriedInv'
  <2> SUFFICES ASSUME NEW e \in buried
               PROVE  /\ ~ InFlight(e) /\ pending[e] = {}
                      /\ \A h \in Known, i \in Slots : E(e) \in Cells(h, i) => Covered(e, h, i)'
    BY <1>2, <1>3, <1>5, SameSlots DEF BuriedInv, InFlight
  <2>1. ASSUME NEW h \in Known, NEW i \in Slots, Covered(e, h, i) PROVE Covered(e, h, i)'
    <3>1. CASE \A lines \in Lines : \E n \in Segments : <<StoryOf[e], n>> \in lines /\ n >= h
      <4>1. PICK n \in Segments : <<StoryOf[e], n>> \in dirCache.lines /\ n >= h
        BY <1>5, <3>1
      <4>2. \E g \in listed : g <= n
        <5>1. h \in Nat /\ n \in Nat /\ active \in Nat
          BY <1>6
        <5>2. CASE h \in listed
          BY <4>1, <5>1, <5>2
        <5>3. CASE h \in spare
          <6>1. h > active
            BY <1>3, <5>3 DEF DirectoryInv
          <6>2. active <= n
            BY <4>1, <5>1, <6>1
          <6> QED BY <1>6, <6>2
        <5> QED BY <1>4, <5>2, <5>3
      <4>3. <<StoryOf[e], n>> \in L
        <5>1. <<StoryOf[e], n>>[2] = n
          OBVIOUS
        <5> QED BY <1>1, <4>1, <4>2, <5>1
      <4> QED BY <1>5, <3>1, <4>1, <4>3 DEF Covered
    <3>2. CASE \E k \in Known, j \in Slots : Firm(k, j, D(StoryOf[e])) /\ ((k = h /\ j > i) \/ (k > h /\ k \in Stays))
      BY <1>2, <1>5, <3>2, SameSlots DEF Covered
    <3> QED BY <2>1, <3>1, <3>2 DEF Covered
  <2> QED BY <1>3, <2>1 DEF BuriedInv
<1> QED BY <1>8, <1>9, <1>10, <1>11, <1>12, <1>13, <1>15, <1>16, <1>17 DEF Inv, FileInv, EventInv

-----------------------------------------------------------------------------
(* A spare is prepared                                                     *)

\* What is said of a row stays with that row.
LEMMA SameRow ==
  ASSUME NEW g, cache'[g] = cache[g], disk'[g] = disk[g]
  PROVE  /\ \A i : Cells(g, i)' = Cells(g, i) /\ (Even(g, i)' <=> Even(g, i))
         /\ \A i, rec : Firm(g, i, rec)' <=> Firm(g, i, rec)
         /\ \A w, n : Edge(g, w, n)' <=> Edge(g, w, n)
<1>1. \A i : Cells(g, i)' = Cells(g, i) /\ (Even(g, i)' <=> Even(g, i))
  BY DEF Cells, Even
<1>2. \A i, rec : Firm(g, i, rec)' <=> Firm(g, i, rec)
  BY <1>1 DEF Firm
<1>3. \A w, n : Edge(g, w, n)' <=> Edge(g, w, n)
  BY <1>1 DEF Edge
<1> QED BY <1>1, <1>2, <1>3

\* An empty segment with a new number joins the directory.
LEMMA PrepareSpareInv ==
  ASSUME Inv, PrepareSpare
  PROVE  Inv'
<1>0. PICK x : x = NextSegment
  OBVIOUS
<1>1. /\ state = "running" /\ spare = {} /\ x <= MaxSeg /\ spare' = {x}
      /\ dirCache' = DirWith(dirCache.segs \cup {x}, dirCache.lines)
      /\ cache' = [cache EXCEPT ![x] = EmptySegment] /\ disk' = [disk EXCEPT ![x] = EmptySegment]
      /\ dirty' = [dirty EXCEPT ![x] = {}]
      /\ UNCHANGED <<dirDisk, state, pc, failed, queue, group, pending, active, writeOffset, named,
                     listed, dropsBySegment, syncOwed, toDelete, owed, buried>>
  BY <1>0 DEF PrepareSpare, Running, history
<1>2. /\ Up /\ Up' /\ TypeInv /\ MediumInv /\ RowInv /\ NamesInv /\ IdleInv /\ DirectoryInv /\ DeleteInv /\ LineInv
      /\ PendingInv /\ OwedInv /\ BuriedInv
  BY <1>1 DEF Inv, ContentInv, FileInv, EventInv, Up
<1>3. /\ dirCache.segs = listed /\ active \in listed /\ listed \subseteq Segments /\ listed \subseteq Known
      /\ Known \subseteq Segments /\ active \in Segments /\ \A g \in Segments : g \in Nat
  BY <1>1, <1>2, Types DEF DirectoryInv, TypeInv, Known
<1>4. x \in Segments /\ x \in Nat /\ \A g \in listed : g < x
  <2> DEFINE m == Greatest(listed)
  <2>1. m \in Segments /\ \A g \in listed : m >= g
    BY <1>3, SegmentBounds
  <2>2. x = m + 1
    BY <1>0, <1>3 DEF NextSegment
  <2>3. m \in Nat /\ m >= 1 /\ MaxSeg \in Nat
    BY <1>3, <2>1, ConstantsAssumption DEF Segments
  <2> HIDE DEF m
  <2>4. x \in Segments /\ x \in Nat
    BY <1>1, <2>2, <2>3 DEF Segments
  <2>5. ASSUME NEW g \in listed PROVE g < x
    <3>1. g \in Nat /\ m >= g
      BY <1>3, <2>1
    <3> QED BY <2>2, <2>3, <3>1
  <2> QED BY <2>4, <2>5
<1>5. active < x /\ x \notin listed /\ x # active
  BY <1>3, <1>4
<1>6. x \notin Known
  <2> SUFFICES ASSUME x \in dirDisk.segs \ dirCache.segs PROVE FALSE
    BY <1>3, <1>5 DEF Known
  <2>1. x < active
    BY <1>2 DEF DirectoryInv
  <2>2. active \in Nat /\ x \in Nat /\ active < x
    BY <1>3, <1>4, <1>5
  <2> QED BY <2>1, <2>2
<1>7. /\ cache' \in [Segments -> Row] /\ disk' \in [Segments -> Row] /\ dirty' \in [Segments -> SUBSET Slots]
      /\ cache'[x] = EmptySegment /\ disk'[x] = EmptySegment /\ dirty'[x] = {}
      /\ \A g \in Segments : g # x => cache'[g] = cache[g] /\ disk'[g] = disk[g] /\ dirty'[g] = dirty[g]
  BY <1>1, <1>2, <1>4, EmptyRow DEF TypeInv
<1>8. dirCache'.segs = dirCache.segs \cup {x} /\ dirCache'.lines = dirCache.lines
  BY <1>1 DEF DirWith
<1>9. Known' = Known \cup {x} /\ Stays' = Stays /\ Lines' = Lines
  BY <1>1, <1>6, <1>8 DEF Known, Stays, Lines
<1>10. \A g \in Known : cache'[g] = cache[g] /\ disk'[g] = disk[g] /\ dirty'[g] = dirty[g]
  BY <1>3, <1>6, <1>7
<1>11. TypeInv'
  <2>1. dirCache' \in [segs : SUBSET Segments, lines : SUBSET (Stories \X Segments)]
    BY <1>1, <1>2, <1>4 DEF DirWith, TypeInv
  <2> QED BY <1>1, <1>2, <1>4, <1>7, <2>1 DEF TypeInv
<1>12. Edge(x, 1, 1)' /\ ~ AfterEnd(cache'[x]) /\ \A i \in Slots : Cells(x, i)' = {Zero}
  <2>1. \A i \in Slots : Cells(x, i)' = {Zero}
    BY <1>7, EmptyRow DEF Cells
  <2>2. Even(x, 0)' /\ SegSlots \in Nat
    BY ConstantsAssumption DEF Even
  <2> QED BY <1>7, <2>1, <2>2, EmptyRow DEF Edge, Slots
<1>13. ASSUME NEW w, NEW n, Rows(active, w, n) PROVE Rows(active, w, n)'
  <2>1. Edge(active, w, n)'
    BY <1>1, <1>3, <1>10, <1>13, SameRow DEF Rows
  <2>2. \A g \in Known' \ {active} : dirty'[g] = {} /\ ~ AfterEnd(cache'[g])
    BY <1>7, <1>9, <1>10, <1>12, <1>13 DEF Rows
  <2>3. \A g \in Known' : g > active => cache'[g] = EmptySegment /\ disk'[g] = EmptySegment
    BY <1>7, <1>9, <1>10, <1>13 DEF Rows
  <2> QED BY <1>1, <2>1, <2>2, <2>3 DEF Rows
<1>14. ContentInv'
  <2>1. MediumInv'
    <3> SUFFICES ASSUME NEW g \in Segments, NEW i \in Slots, i \notin dirty'[g] PROVE cache'[g][i] = disk'[g][i]
      BY DEF MediumInv
    <3> QED BY <1>2, <1>7 DEF MediumInv
  <2>2. RowInv'
    <3>1. cache'[active] = cache[active] /\ dirty'[active] = dirty[active]
      BY <1>3, <1>10
    <3>2. (Fits <=> Fits') /\ GroupFrames' = GroupFrames /\ GroupSlots(group, named)' = GroupSlots(group, named)
      BY <1>1 DEF Fits, GroupFrames
    <3>3. CASE pc = "sync"
      <4>1. Rows(active, writeOffset, writeOffset + GroupSlots(group, named))'
        BY <1>1, <1>2, <1>13, <3>3 DEF RowInv
      <4> QED BY <1>1, <1>2, <3>1, <3>2, <3>3, <4>1 DEF RowInv
    <3>4. CASE pc # "sync"
      <4>1. Rows(active, writeOffset, writeOffset)'
        BY <1>1, <1>2, <1>13, <3>4 DEF RowInv
      <4> QED BY <1>1, <1>2, <3>1, <3>4, <4>1 DEF RowInv
    <3> QED BY <3>3, <3>4
  <2>3. NamesInv'
    <3>1. ASSUME NEW g \in Known', NEW i \in Slots, NEW e \in Events, E(e) \in Cells(g, i)'
          PROVE  \E j \in 1 .. (i - 1) : Cells(g, j)' \subseteq {N(StoryOf[e]), Zero, Bad}
      <4>1. g # x
        BY <1>12, <3>1, RecordFacts
      <4> QED BY <1>2, <1>9, <1>10, <3>1, <4>1, SameRow DEF NamesInv
    <3>2. Up' => \A s \in named' : \E j \in 1 .. (writeOffset' - 1) : cache'[active'][j] = N(s)
      BY <1>1, <1>2, <1>3, <1>10 DEF NamesInv
    <3> QED BY <3>1, <3>2 DEF NamesInv
  <2>4. RecoveryInv'
    BY <1>2 DEF RecoveryInv, Up
  <2> QED BY <2>1, <2>2, <2>3, <2>4 DEF ContentInv
<1>15. IdleInv'
  BY <1>1, <1>2 DEF IdleInv, Up
<1>16. DirectoryInv'
  BY <1>1, <1>2, <1>3, <1>5, <1>8 DEF DirectoryInv
<1>17. DeleteInv'
  <2>1. \A g \in listed : \A j, rec : Firm(g, j, rec)' <=> Firm(g, j, rec)
    BY <1>3, <1>10, SameRow
  <2> QED BY <1>1, <1>2, <1>9, <2>1 DEF DeleteInv, Outstanding
<1>18. LineInv'
  BY <1>1, <1>2, <1>9 DEF LineInv
<1>19. ASSUME NEW e \in Events, NEW g, Good(e, g) PROVE Good(e, g)'
  <2>1. g \in Known /\ g \in Stays'
    BY <1>9, <1>19 DEF Good, Stays, Known
  <2>2. PICK i \in Slots : /\ Firm(g, i, E(e))
                           /\ \A h \in Known, j \in Slots : D(StoryOf[e]) \in Cells(h, j) => h < g \/ (h = g /\ j < i)
    BY <1>19 DEF Good
  <2>3. Firm(g, i, E(e))'
    BY <1>10, <2>1, <2>2, SameRow
  <2>4. D(StoryOf[e]) # Zero
    BY RecordFacts, ConstantsAssumption
  <2>5. ASSUME NEW h \in Known', NEW j \in Slots, D(StoryOf[e]) \in Cells(h, j)' PROVE h < g \/ (h = g /\ j < i)
    <3>1. h \in Known
      BY <1>9, <1>12, <2>4, <2>5
    <3> QED BY <1>10, <2>2, <2>5, <3>1, SameRow
  <2> QED BY <1>9, <1>19, <2>1, <2>3, <2>5 DEF Good
<1>20. PendingInv'
  <2> SUFFICES ASSUME NEW e \in Events
               PROVE  /\ \A g \in pending[e] : g \in listed /\ \E i \in Slots : Firm(g, i, E(e))'
                      /\ pending[e] # {} /\ ~ InSeq(D(StoryOf[e]), group) => \E g \in pending[e] : Good(e, g)'
    BY <1>1 DEF PendingInv
  <2> QED BY <1>2, <1>3, <1>10, <1>19, SameRow DEF PendingInv
<1>21. OwedInv'
  BY <1>1, <1>2 DEF OwedInv
<1>22. BuriedInv'
  <2> SUFFICES ASSUME NEW e \in buried
               PROVE  /\ ~ InFlight(e) /\ pending[e] = {}
                      /\ \A h \in Known', i \in Slots : E(e) \in Cells(h, i)' => Covered(e, h, i)'
    BY <1>1, <1>2 DEF BuriedInv, InFlight
  <2>1. ASSUME NEW h \in Known', NEW i \in Slots, E(e) \in Cells(h, i)' PROVE Covered(e, h, i)'
    <3>1. h \in Known /\ e \in Events
      BY <1>2, <1>9, <1>12, <2>1, RecordFacts DEF TypeInv
    <3>2. Covered(e, h, i)
      BY <1>2, <1>10, <2>1, <3>1, SameRow DEF BuriedInv
    <3>3. CASE \A lines \in Lines : \E n \in Segments : <<StoryOf[e], n>> \in lines /\ n >= h
      BY <1>9, <3>3 DEF Covered
    <3>4. CASE \E k \in Known, j \in Slots : Firm(k, j, D(StoryOf[e])) /\ ((k = h /\ j > i) \/ (k > h /\ k \in Stays))
      <4>1. PICK k \in Known, j \in Slots : Firm(k, j, D(StoryOf[e])) /\ ((k = h /\ j > i) \/ (k > h /\ k \in Stays))
        BY <3>4
      <4>2. k \in Known' /\ Firm(k, j, D(StoryOf[e]))'
        BY <1>9, <1>10, <4>1, SameRow
      <4> QED BY <1>9, <4>1, <4>2 DEF Covered
    <3> QED BY <3>2, <3>3, <3>4 DEF Covered
  <2> QED BY <1>2, <2>1 DEF BuriedInv
<1> QED BY <1>11, <1>14, <1>15, <1>16, <1>17, <1>18, <1>20, <1>21, <1>22 DEF Inv, FileInv, EventInv

-----------------------------------------------------------------------------
(* A group is written                                                      *)

\* the slot where the entry m of the group lies
Place(m) == writeOffset + EntryPos(group, named, m) - 1

\* How a group lies in the active segment.
LEMMA GroupLaid ==
  ASSUME TypeInv, Fits
  PROVE  /\ GroupSlots(group, named) \in Nat /\ GroupSlots(group, named) >= 1
         /\ writeOffset \in Nat /\ writeOffset >= 1 /\ writeOffset + GroupSlots(group, named) <= SegSlots + 1
         /\ DOMAIN GroupFrames = writeOffset .. (writeOffset + GroupSlots(group, named) - 1)
         /\ DOMAIN GroupFrames \subseteq Slots
         /\ \A i \in DOMAIN GroupFrames :
              /\ GroupFrames[i] \in Records
              /\ IF i = writeOffset THEN GroupFrames[i] = G(GroupSlots(group, named)) ELSE GroupFrames[i][1] # "G"
         /\ \A m \in DOMAIN group : Place(m) \in DOMAIN GroupFrames /\ GroupFrames[Place(m)] = group[m]
         /\ \A m, k \in DOMAIN group : m < k <=> Place(m) < Place(k)
         /\ \A i \in DOMAIN GroupFrames : \/ \E m \in DOMAIN group : Place(m) = i
                                          \/ GroupFrames[i][1] \in {"G", "N"}
         /\ \A m \in DOMAIN group, e \in Events : group[m] = E(e) /\ StoryOf[e] \notin named =>
              \E i \in DOMAIN GroupFrames : i < Place(m) /\ GroupFrames[i] = N(StoryOf[e])
<1> DEFINE w == writeOffset
           L == GroupSlots(group, named)
           P(m) == EntryPos(group, named, m)
<1>1. group \in Seq(Entries) /\ w \in Nat /\ w >= 1 /\ SegSlots \in Nat
  BY ConstantsAssumption DEF TypeInv
<1>2. /\ L \in Nat /\ L >= 1
      /\ GroupFrame(group, named, 1) = G(L)
      /\ \A m \in DOMAIN group : P(m) \in 2 .. L /\ GroupFrame(group, named, P(m)) = group[m]
      /\ \A m, k \in DOMAIN group : m < k <=> P(m) < P(k)
      /\ \A k \in 2 .. L : \/ \E m \in DOMAIN group : P(m) = k
                           \/ \E s \in Stories : GroupFrame(group, named, k) = N(s)
      /\ \A m \in DOMAIN group : group[m][1] = "E" /\ EntryStory(group[m]) \notin named =>
           \E k \in 2 .. (P(m) - 1) : GroupFrame(group, named, k) = N(EntryStory(group[m]))
  BY <1>1, Frames
<1>3. w + L <= SegSlots + 1
  BY <1>1, <1>2 DEF Fits
<1>4. GroupFrames = [i \in w .. (w + L - 1) |-> GroupFrame(group, named, i - w + 1)]
  BY DEF GroupFrames
<1>5. \A m : Place(m) = w + P(m) - 1
  BY DEF Place
<1> HIDE DEF w, L, P
<1>6. DOMAIN GroupFrames = w .. (w + L - 1) /\ DOMAIN GroupFrames \subseteq Slots
  BY <1>1, <1>2, <1>3, <1>4 DEF Slots
<1>7. ASSUME NEW i \in DOMAIN GroupFrames
      PROVE  /\ GroupFrames[i] = GroupFrame(group, named, i - w + 1)
             /\ i - w + 1 \in 1 .. L /\ (i = w <=> i - w + 1 = 1) /\ (i # w => i - w + 1 \in 2 .. L)
  <2>1. i \in w .. (w + L - 1)
    BY <1>6
  <2> QED BY <1>1, <1>2, <1>4, <2>1
<1>8. ASSUME NEW m \in DOMAIN group
      PROVE  Place(m) \in DOMAIN GroupFrames /\ GroupFrames[Place(m)] = group[m] /\ Place(m) - w + 1 = P(m)
  <2>1. P(m) \in 2 .. L /\ Place(m) = w + P(m) - 1
    BY <1>2, <1>5
  <2>2. Place(m) \in w .. (w + L - 1) /\ Place(m) - w + 1 = P(m)
    BY <1>1, <1>2, <2>1
  <2> QED BY <1>2, <1>6, <1>7, <2>2
<1>9. ASSUME NEW m \in DOMAIN group, NEW k \in DOMAIN group PROVE m < k <=> Place(m) < Place(k)
  <2>1. P(m) \in 2 .. L /\ P(k) \in 2 .. L /\ Place(m) = w + P(m) - 1 /\ Place(k) = w + P(k) - 1 /\ (m < k <=> P(m) < P(k))
    BY <1>2, <1>5
  <2> QED BY <1>1, <1>2, <2>1
<1>10. ASSUME NEW i \in DOMAIN GroupFrames, \A m \in DOMAIN group : Place(m) # i, i # w
       PROVE  \E s \in Stories : GroupFrames[i] = N(s)
  <2>1. \A m \in DOMAIN group : P(m) # i - w + 1
    <3> SUFFICES ASSUME NEW m \in DOMAIN group, P(m) = i - w + 1 PROVE FALSE
      OBVIOUS
    <3>1. i \in w .. (w + L - 1) /\ Place(m) = w + P(m) - 1 /\ Place(m) # i
      BY <1>5, <1>6, <1>10
    <3> QED BY <1>1, <1>2, <3>1
  <2> QED BY <1>2, <1>7, <1>10, <2>1
<1>11. G(L) \in Records
  <2>1. L \in Slots
    BY <1>1, <1>2, <1>3 DEF Slots
  <2> QED BY <2>1, RecordFacts
<1>12. \A m \in DOMAIN group : group[m] \in Records /\ group[m][1] # "G"
  <2> SUFFICES ASSUME NEW m \in DOMAIN group PROVE group[m] \in Records /\ group[m][1] # "G"
    OBVIOUS
  <2>1. group[m] \in Entries
    BY <1>1
  <2> QED BY <2>1, EntryFacts
<1>13. ASSUME NEW i \in DOMAIN GroupFrames
       PROVE  GroupFrames[i] \in Records /\ (IF i = w THEN GroupFrames[i] = G(L) ELSE GroupFrames[i][1] # "G")
  <2>1. CASE i = w
    BY <1>2, <1>7, <1>11, <2>1
  <2>2. CASE i # w
    <3>1. CASE \E m \in DOMAIN group : Place(m) = i
      BY <1>8, <1>12, <2>2, <3>1
    <3>2. CASE \A m \in DOMAIN group : Place(m) # i
      BY <1>10, <2>2, <3>2, RecordFacts
    <3> QED BY <3>1, <3>2
  <2> QED BY <2>1, <2>2
<1>14. \A i \in DOMAIN GroupFrames : (\E m \in DOMAIN group : Place(m) = i) \/ GroupFrames[i][1] \in {"G", "N"}
  BY <1>10, <1>13, RecordFacts
<1>15. ASSUME NEW m \in DOMAIN group, NEW e \in Events, group[m] = E(e), StoryOf[e] \notin named
       PROVE  \E i \in DOMAIN GroupFrames : i < Place(m) /\ GroupFrames[i] = N(StoryOf[e])
  <2>1. group[m][1] = "E" /\ EntryStory(group[m]) = StoryOf[e]
    BY <1>15, RecordFacts DEF EntryStory
  <2>2. PICK k \in 2 .. (P(m) - 1) : GroupFrame(group, named, k) = N(StoryOf[e])
    BY <1>2, <1>15, <2>1
  <2>3. P(m) \in 2 .. L /\ Place(m) = w + P(m) - 1
    BY <1>2, <1>5
  <2>4. w + k - 1 \in w .. (w + L - 1) /\ w + k - 1 < Place(m) /\ (w + k - 1) - w + 1 = k
    BY <1>1, <1>2, <2>3
  <2> QED BY <1>6, <1>7, <2>2, <2>4
<1>16. /\ L \in Nat /\ L >= 1 /\ w \in Nat /\ w >= 1 /\ w + L <= SegSlots + 1
       /\ DOMAIN GroupFrames = w .. (w + L - 1) /\ DOMAIN GroupFrames \subseteq Slots
  BY <1>1, <1>2, <1>3, <1>6
<1> QED BY <1>8, <1>9, <1>13, <1>14, <1>15, <1>16 DEF w, L

\* An entry that lies in a group's slots is an entry of the group.
LEMMA LaidEntry ==
  ASSUME TypeInv, Fits, NEW i \in DOMAIN GroupFrames, NEW v \in Entries, GroupFrames[i] = v
  PROVE  \E m \in DOMAIN group : Place(m) = i /\ group[m] = v
<1>1. v[1] # "G" /\ v[1] # "N"
  BY EntryFacts
<1>2. PICK m \in DOMAIN group : Place(m) = i
  BY <1>1, GroupLaid
<1> QED BY <1>2, GroupLaid

\* The write of a group: it lies after the data, and the data stays.
LEMMA CommitWriteInv ==
  ASSUME Inv, CommitWrite
  PROVE  Inv'
<1>1. /\ state = "running" /\ pc = "commit" /\ Fits /\ WriteSlots(active, GroupFrames) /\ pc' = "sync"
      /\ UNCHANGED <<disk, dirCache, dirDisk, state, failed, queue, group, pending, active, writeOffset, named,
                     listed, spare, dropsBySegment, syncOwed, toDelete, owed, buried>>
  BY DEF CommitWrite, Running, files, history
<1>2. /\ Up /\ Up' /\ TypeInv /\ MediumInv /\ RowInv /\ NamesInv /\ IdleInv /\ DirectoryInv /\ DeleteInv /\ LineInv
      /\ PendingInv /\ OwedInv /\ BuriedInv
  BY <1>1 DEF Inv, ContentInv, FileInv, EventInv, Up
<1>3. PICK a, w, n : a = active /\ w = writeOffset /\ n = writeOffset + GroupSlots(group, named)
  OBVIOUS
<1>4. /\ a \in listed /\ a \in Stays /\ a \in Known /\ a \in Segments /\ Known \subseteq Segments /\ listed \subseteq Known
  BY <1>2, <1>3, Types DEF DirectoryInv, Stays, Known
<1>5. /\ w \in Nat /\ n \in Nat /\ 1 <= w /\ w < n /\ n <= SegSlots + 1 /\ SegSlots \in Nat
      /\ DOMAIN GroupFrames = w .. (n - 1) /\ DOMAIN GroupFrames \subseteq Slots
      /\ \A i \in w .. (n - 1) : /\ GroupFrames[i] \in Records
                                 /\ IF i = w THEN GroupFrames[i] = G(n - w) ELSE GroupFrames[i][1] # "G"
  <2>1. n - w = GroupSlots(group, named) /\ w \in Nat /\ n \in Nat /\ 1 <= w /\ w < n /\ n <= SegSlots + 1
    BY <1>1, <1>2, <1>3, GroupLaid
  <2> QED BY <1>1, <1>2, <1>3, <2>1, GroupLaid, Types
<1>6. Rows(a, w, w) /\ Edge(a, w, w) /\ dirty[a] = {}
  BY <1>1, <1>2, <1>3, <1>4 DEF RowInv, Rows
<1>7. /\ cache' \in [Segments -> Row] /\ dirty' \in [Segments -> SUBSET Slots]
      /\ \A h \in Segments : h # a => cache'[h] = cache[h] /\ dirty'[h] = dirty[h]
      /\ \A i \in Slots : cache'[a][i] = IF i \in w .. (n - 1) THEN GroupFrames[i] ELSE cache[a][i]
      /\ dirty'[a] = w .. (n - 1)
  <2>1. \A i \in DOMAIN GroupFrames : GroupFrames[i] \in SlotValues
    BY <1>5, RecordFacts
  <2>2. WriteSlots(a, GroupFrames)
    BY <1>1, <1>3
  <2>3. /\ cache' \in [Segments -> Row] /\ dirty' \in [Segments -> SUBSET Slots]
        /\ \A h \in Segments : h # a => cache'[h] = cache[h] /\ dirty'[h] = dirty[h]
        /\ \A i \in Slots : cache'[a][i] = IF i \in DOMAIN GroupFrames THEN GroupFrames[i] ELSE cache[a][i]
        /\ dirty'[a] = dirty[a] \cup DOMAIN GroupFrames
    BY <1>2, <1>4, <1>5, <2>1, <2>2, Written
  <2> QED BY <1>5, <1>6, <2>3
<1>8. Known' = Known /\ Stays' = Stays /\ Lines' = Lines
  BY <1>1 DEF Known, Stays, Lines
<1>9. \A i \in Slots, v \in Records : v \in Cells(a, i) => i < w /\ Even(a, i) /\ Firm(a, i, v)
  BY <1>2, <1>4, <1>5, <1>6, CleanEdge
<1>10. \A i \in w .. SegSlots : cache[a][i] = Zero /\ disk[a][i] = Zero
  <2>1. \A i \in w .. SegSlots : Cells(a, i) = {Zero}
    BY <1>2, <1>4, <1>5, <1>6, CleanEdge
  <2> QED BY <2>1 DEF Cells
<1>11. \A i \in 1 .. (w - 1) : i \in Slots /\ cache'[a][i] = cache[a][i]
  BY <1>5, <1>7 DEF Slots
<1>12. \A i \in w .. (n - 1) : i \in Slots /\ Cells(a, i)' = {GroupFrames[i], Zero}
  <2> SUFFICES ASSUME NEW i \in w .. (n - 1) PROVE i \in Slots /\ Cells(a, i)' = {GroupFrames[i], Zero}
    OBVIOUS
  <2>1. i \in w .. SegSlots /\ i \in Slots
    BY <1>5 DEF Slots
  <2> QED BY <1>1, <1>7, <1>10, <2>1 DEF Cells
<1>13. ASSUME NEW g \in Known, NEW i \in Slots, ~ (g = a /\ i \in w .. (n - 1)) PROVE Cells(g, i)' = Cells(g, i)
  BY <1>1, <1>4, <1>7, <1>13 DEF Cells
<1>14. ASSUME NEW g \in Known, NEW i \in Slots, NEW rec \in Records, Firm(g, i, rec) PROVE Firm(g, i, rec)'
  <2>1. CASE g # a
    BY <1>1, <1>4, <1>7, <1>14, <2>1, SameRow
  <2>2. CASE g = a
    <3>1. rec \in Cells(a, i)
      BY <1>14, <2>2 DEF Firm, Cells
    <3>2. i < w /\ i \in Nat /\ i >= 1
      BY <1>2, <1>9, <3>1, Types
    <3>3. i \in 1 .. (w - 1) /\ \A j \in 1 .. i : j \in 1 .. (w - 1)
      BY <1>5, <3>2
    <3>4. \A j \in 1 .. i : cache'[a][j] = cache[a][j]
      BY <1>11, <3>3
    <3> QED BY <1>1, <1>11, <1>14, <2>2, <3>3, <3>4 DEF Firm, Even
  <2> QED BY <2>1, <2>2
<1>15. ASSUME NEW i \in Slots, NEW rec \in Records, i < w, Firm(a, i, rec)' PROVE Firm(a, i, rec)
  <2>1. i \in 1 .. (w - 1) /\ \A j \in 1 .. i : j \in 1 .. (w - 1)
    BY <1>5, <1>15 DEF Slots
  <2>2. \A j \in 1 .. i : cache'[a][j] = cache[a][j]
    BY <1>11, <2>1
  <2> QED BY <1>1, <1>11, <1>15, <2>1, <2>2 DEF Firm, Even
<1>16. TypeInv'
  BY <1>1, <1>2, <1>7 DEF TypeInv
<1>17. MediumInv'
  <2> SUFFICES ASSUME NEW g \in Segments, NEW i \in Slots, i \notin dirty'[g] PROVE cache'[g][i] = disk[g][i]
    BY <1>1 DEF MediumInv
  <2>1. CASE g = a
    BY <1>2, <1>4, <1>6, <1>7, <2>1 DEF MediumInv
  <2>2. CASE g # a
    BY <1>2, <1>7, <2>2 DEF MediumInv
  <2> QED BY <2>1, <2>2
<1>18. Rows(a, w, n)'
  <2>1. Edge(a, w, n)'
    <3>1. Even(a, w - 1)'
      BY <1>1, <1>6, <1>11 DEF Edge, Even
    <3>2. ASSUME NEW i \in w .. (n - 1), NEW v \in Records, v \in Cells(a, i)'
          PROVE  IF i = w THEN v = G(n - w) ELSE v[1] # "G"
      <4>1. v = GroupFrames[i]
        BY <1>12, <3>2, RecordFacts
      <4> QED BY <1>5, <4>1
    <3>3. ASSUME NEW i \in n .. SegSlots PROVE Cells(a, i)' = {Zero}
      <4>1. i \in Slots /\ i \notin w .. (n - 1) /\ i \in w .. SegSlots
        BY <1>5 DEF Slots
      <4> QED BY <1>4, <1>10, <1>13, <4>1 DEF Cells
    <3>4. w = 1 \/ \E b \in 1 .. (w - 1) : cache'[a][b] = G(w - b) /\ \A i \in (b + 1) .. (w - 1) : cache'[a][i][1] # "G"
      <4>1. CASE w # 1
        <5>1. PICK b \in 1 .. (w - 1) : cache[a][b] = G(w - b) /\ \A i \in (b + 1) .. (w - 1) : cache[a][i][1] # "G"
          BY <1>6, <4>1 DEF Edge
        <5>2. \A i \in (b + 1) .. (w - 1) : i \in 1 .. (w - 1)
          BY <1>5
        <5> QED BY <1>11, <5>1, <5>2
      <4> QED BY <4>1
    <3> QED BY <1>5, <3>1, <3>2, <3>3, <3>4 DEF Edge
  <2>2. \A g \in Known \ {a} : dirty'[g] = {} /\ ~ AfterEnd(cache'[g])
    BY <1>4, <1>6, <1>7 DEF Rows
  <2>3. \A g \in Known : g > a => cache'[g] = EmptySegment /\ disk'[g] = EmptySegment
    <3>1. ~ a > a
      BY <1>2, <1>4, Types
    <3> QED BY <1>1, <1>4, <1>6, <1>7, <3>1 DEF Rows
  <2> QED BY <1>8, <2>1, <2>2, <2>3 DEF Rows
<1>19. RowInv'
  <2>1. Fits' /\ GroupFrames' = GroupFrames /\ GroupSlots(group, named)' = GroupSlots(group, named)
    BY <1>1 DEF Fits, GroupFrames
  <2>2. Rows(active, writeOffset, writeOffset + GroupSlots(group, named))'
    BY <1>1, <1>3, <1>18
  <2>3. \A i \in DOMAIN GroupFrames : cache'[active][i] = GroupFrames[i]
    BY <1>3, <1>5, <1>7
  <2> QED BY <1>1, <1>2, <2>1, <2>2, <2>3 DEF RowInv
<1>20. NamesInv'
  <2>1. ASSUME NEW g \in Known, NEW i \in Slots, NEW e \in Events, E(e) \in Cells(g, i)'
        PROVE  \E j \in 1 .. (i - 1) : Cells(g, j)' \subseteq {N(StoryOf[e]), Zero, Bad}
    <3>1. CASE ~ (g = a /\ i \in w .. (n - 1))
      <4>1. E(e) \in Cells(g, i)
        BY <1>13, <2>1, <3>1
      <4>2. PICK j \in 1 .. (i - 1) : Cells(g, j) \subseteq {N(StoryOf[e]), Zero, Bad}
        BY <1>2, <4>1 DEF NamesInv
      <4>3. j \in Slots /\ j < i /\ i \in Nat /\ j \in Nat
        BY <1>5 DEF Slots
      <4>4. ~ (g = a /\ j \in w .. (n - 1))
        <5>1. g = a => i < w
          BY <1>9, <4>1, RecordFacts
        <5> QED BY <1>5, <4>3, <5>1
      <4> QED BY <1>13, <4>2, <4>3, <4>4
    <3>2. CASE g = a /\ i \in w .. (n - 1)
      <4>1. GroupFrames[i] = E(e) /\ E(e) \in Entries
        BY <1>12, <2>1, <3>2, RecordFacts
      <4>2. PICK m \in DOMAIN group : Place(m) = i /\ group[m] = E(e)
        BY <1>1, <1>2, <1>5, <3>2, <4>1, LaidEntry
      <4>3. CASE StoryOf[e] \notin named
        <5>1. PICK j \in DOMAIN GroupFrames : j < i /\ GroupFrames[j] = N(StoryOf[e])
          BY <1>1, <1>2, <4>2, <4>3, GroupLaid
        <5>2. j \in w .. (n - 1) /\ j \in 1 .. (i - 1)
          BY <1>5, <3>2, <5>1
        <5> QED BY <1>12, <3>2, <5>1, <5>2
      <4>4. CASE StoryOf[e] \in named
        <5>1. PICK j \in 1 .. (w - 1) : cache[a][j] = N(StoryOf[e])
          BY <1>2, <1>3, <4>4 DEF NamesInv
        <5>2. cache[a][j] = disk[a][j]
          BY <1>6 DEF Edge, Even
        <5>3. j \in 1 .. (i - 1)
          BY <1>5, <3>2
        <5>4. Cells(a, j)' = {N(StoryOf[e])}
          BY <1>1, <1>11, <5>1, <5>2 DEF Cells
        <5> QED BY <3>2, <5>3, <5>4
      <4> QED BY <4>3, <4>4
    <3> QED BY <3>1, <3>2
  <2>2. Up' => \A s \in named' : \E j \in 1 .. (writeOffset' - 1) : cache'[active'][j] = N(s)
    BY <1>1, <1>2, <1>3, <1>11 DEF NamesInv
  <2> QED BY <1>8, <2>1, <2>2 DEF NamesInv
<1>21. ContentInv'
  BY <1>2, <1>17, <1>19, <1>20 DEF ContentInv, RecoveryInv, Up
<1>22. IdleInv'
  BY <1>1, <1>2 DEF IdleInv, Up
<1>23. DirectoryInv'
  BY <1>1, <1>2 DEF DirectoryInv
<1>24. DeleteInv'
  <2>1. ASSUME NEW g \in listed, NEW s \in Stories
        PROVE  (\E j \in Slots : Firm(g, j, D(s))' /\ (g = a => j < w)) <=> \E j \in Slots : Firm(g, j, D(s)) /\ (g = a => j < w)
    <3>1. CASE g # a
      BY <1>1, <1>4, <1>7, <3>1, SameRow
    <3>2. CASE g = a
      BY <1>4, <1>14, <1>15, <3>2, RecordFacts
    <3> QED BY <3>1, <3>2
  <2> QED BY <1>1, <1>2, <1>3, <1>8, <2>1 DEF DeleteInv, Outstanding
<1>25. LineInv'
  BY <1>1, <1>2, <1>8 DEF LineInv
<1>26. PendingInv'
  <2> SUFFICES ASSUME NEW e \in Events
               PROVE  /\ \A g \in pending[e] : g \in listed /\ \E i \in Slots : Firm(g, i, E(e))'
                      /\ pending[e] # {} /\ ~ InSeq(D(StoryOf[e]), group) => \E g \in pending[e] : Good(e, g)'
    BY <1>1 DEF PendingInv
  <2>1. E(e) \in Records /\ D(StoryOf[e]) \in Records /\ D(StoryOf[e]) \in Entries
    BY RecordFacts, ConstantsAssumption
  <2>2. \A g \in pending[e] : g \in listed /\ \E i \in Slots : Firm(g, i, E(e))'
    BY <1>2, <1>4, <1>14, <2>1 DEF PendingInv
  <2>3. ASSUME NEW g \in pending[e], Good(e, g), ~ InSeq(D(StoryOf[e]), group) PROVE Good(e, g)'
    <3>1. PICK i \in Slots : /\ Firm(g, i, E(e))
                             /\ \A h \in Known, j \in Slots : D(StoryOf[e]) \in Cells(h, j) => h < g \/ (h = g /\ j < i)
      BY <2>3 DEF Good
    <3>2. g \in Stays /\ g \in Known
      BY <2>3 DEF Good, Stays, Known
    <3>3. ASSUME NEW h \in Known, NEW j \in Slots, D(StoryOf[e]) \in Cells(h, j)' PROVE D(StoryOf[e]) \in Cells(h, j)
      <4>1. ASSUME h = a, j \in w .. (n - 1) PROVE FALSE
        <5>1. GroupFrames[j] = D(StoryOf[e])
          BY <1>12, <2>1, <3>3, <4>1, RecordFacts
        <5>2. InSeq(D(StoryOf[e]), group)
          BY <1>1, <1>2, <1>5, <2>1, <4>1, <5>1, LaidEntry DEF InSeq
        <5> QED BY <2>3, <5>2
      <4> QED BY <1>13, <3>3, <4>1
    <3>4. Firm(g, i, E(e))'
      BY <1>14, <2>1, <3>1, <3>2
    <3> QED BY <1>8, <2>3, <3>1, <3>2, <3>3, <3>4 DEF Good
  <2> QED BY <1>2, <2>2, <2>3 DEF PendingInv
<1>27. OwedInv'
  BY <1>1, <1>2 DEF OwedInv
<1>28. BuriedInv'
  <2> SUFFICES ASSUME NEW e \in buried
               PROVE  /\ ~ InFlight(e) /\ pending[e] = {}
                      /\ \A h \in Known, i \in Slots : E(e) \in Cells(h, i)' => Covered(e, h, i)'
    BY <1>1, <1>2, <1>8 DEF BuriedInv, InFlight
  <2>1. e \in Events /\ D(StoryOf[e]) \in Records /\ ~ InFlight(e)
    BY <1>2, RecordFacts, ConstantsAssumption DEF TypeInv, BuriedInv
  <2>2. ASSUME NEW h \in Known, NEW i \in Slots, E(e) \in Cells(h, i)' PROVE Covered(e, h, i)'
    <3>1. ASSUME h = a, i \in w .. (n - 1) PROVE FALSE
      <4>1. GroupFrames[i] = E(e) /\ E(e) \in Entries
        BY <1>12, <2>1, <2>2, <3>1, RecordFacts
      <4>2. InSeq(E(e), group)
        BY <1>1, <1>2, <1>5, <3>1, <4>1, LaidEntry DEF InSeq
      <4> QED BY <2>1, <4>2 DEF InFlight
    <3>2. E(e) \in Cells(h, i)
      BY <1>13, <2>2, <3>1
    <3>3. Covered(e, h, i)
      BY <1>2, <3>2 DEF BuriedInv
    <3>4. CASE \A lines \in Lines : \E m \in Segments : <<StoryOf[e], m>> \in lines /\ m >= h
      BY <1>8, <3>4 DEF Covered
    <3>5. CASE \E k \in Known, j \in Slots : Firm(k, j, D(StoryOf[e])) /\ ((k = h /\ j > i) \/ (k > h /\ k \in Stays))
      BY <1>8, <1>14, <2>1, <3>5 DEF Covered
    <3> QED BY <3>3, <3>4, <3>5 DEF Covered
  <2> QED BY <1>2, <2>2 DEF BuriedInv
<1> QED BY <1>16, <1>21, <1>22, <1>23, <1>24, <1>25, <1>26, <1>27, <1>28 DEF Inv, FileInv, EventInv

-----------------------------------------------------------------------------
(* A group is synced                                                       *)

\* What is in a group, as the sets of the model say it.
LEMMA GroupFacts ==
  ASSUME TypeInv
  PROVE  /\ \A e \in Events : e \in Standing <=>
              \E m \in DOMAIN group : group[m] = E(e) /\ \A k \in DOMAIN group : group[k] = D(StoryOf[e]) => ~ k > m
         /\ \A e \in Events, m \in DOMAIN group : e \notin Standing /\ group[m] = E(e) =>
              \E k \in DOMAIN group : group[k] = D(StoryOf[e]) /\ k > m
         /\ \A s \in Stories : s \in GroupDrops <=> \E m \in DOMAIN group : group[m] = D(s)
         /\ \A e \in Events : e \in GroupEvents <=> \E m \in DOMAIN group : group[m] = E(e)
         /\ Standing \subseteq Events /\ GroupEvents \subseteq Events /\ GroupDrops \subseteq Stories /\ Reached \subseteq Events
BY DEF Standing, DroppedLater, GroupDrops, GroupEvents, InSeq, Reached

\* The group is registered and answered: what stands has a copy that every
\* recovery finds, and what a destroy of the group reached is covered.
LEMMA CommitSyncInv ==
  ASSUME Inv, CommitSync
  PROVE  Inv'
<1>1. /\ state = "running" /\ pc = "sync" /\ SyncSlots(active, cache)
      /\ writeOffset' = writeOffset + GroupSlots(group, named)
      /\ named' = named \cup {StoryOf[e] : e \in GroupEvents}
      /\ pending' = [e \in Events |-> IF e \in Standing THEN pending[e] \cup {active}
                                      ELSE IF StoryOf[e] \in GroupDrops THEN {} ELSE pending[e]]
      /\ dropsBySegment' = [dropsBySegment EXCEPT ![active] = @ \cup GroupDrops]
      /\ owed' = owed \cup {e \in Standing : ~ InSeq(D(StoryOf[e]), queue)}
      /\ buried' = buried \cup Reached
      /\ group' = <<>> /\ pc' = "delete"
      /\ UNCHANGED <<cache, dirCache, dirDisk, state, failed, queue, active, listed, spare, syncOwed, toDelete>>
  BY DEF CommitSync, Running
<1>2. /\ Up /\ Up' /\ TypeInv /\ MediumInv /\ RowInv /\ NamesInv /\ IdleInv /\ DirectoryInv /\ DeleteInv /\ LineInv
      /\ PendingInv /\ OwedInv /\ BuriedInv
  BY <1>1 DEF Inv, ContentInv, FileInv, EventInv, Up
<1>3. PICK a, w, n, grp, where : /\ a = active /\ w = writeOffset /\ n = writeOffset + GroupSlots(group, named)
                                 /\ grp = group /\ where = [m \in DOMAIN group |-> Place(m)]
  OBVIOUS
<1>4. /\ a \in listed /\ a \in Stays /\ a \in Known /\ a \in Segments /\ Known \subseteq Segments /\ listed \subseteq Known
      /\ \A g \in Segments : g \in Nat
  BY <1>2, <1>3, Types DEF DirectoryInv, Stays, Known
<1>5. Fits /\ Rows(a, w, n) /\ Edge(a, w, n) /\ \A i \in DOMAIN GroupFrames : cache[a][i] = GroupFrames[i]
  BY <1>1, <1>2, <1>3, <1>4 DEF RowInv, Rows
<1>6. /\ w \in Nat /\ n \in Nat /\ 1 <= w /\ w < n /\ n <= SegSlots + 1 /\ SegSlots \in Nat
      /\ DOMAIN GroupFrames = w .. (n - 1) /\ DOMAIN GroupFrames \subseteq Slots
      /\ \A i \in w .. (n - 1) : /\ cache[a][i] \in Records
                                 /\ IF i = w THEN cache[a][i] = G(n - w) ELSE cache[a][i][1] # "G"
  <2>1. n - w = GroupSlots(group, named) /\ w \in Nat /\ n \in Nat /\ 1 <= w /\ w < n /\ n <= SegSlots + 1
    BY <1>2, <1>3, <1>5, GroupLaid
  <2>2. DOMAIN GroupFrames = w .. (n - 1) /\ DOMAIN GroupFrames \subseteq Slots
    BY <1>2, <1>3, <1>5, GroupLaid
  <2>3. \A i \in DOMAIN GroupFrames : /\ GroupFrames[i] \in Records
                                      /\ IF i = w THEN GroupFrames[i] = G(n - w) ELSE GroupFrames[i][1] # "G"
    BY <1>2, <1>3, <1>5, <2>1, GroupLaid
  <2> QED BY <1>5, <2>1, <2>2, <2>3, ConstantsAssumption
<1>7. /\ disk' \in [Segments -> Row] /\ dirty' \in [Segments -> SUBSET Slots]
      /\ \A h \in Segments : h # a => disk'[h] = disk[h] /\ dirty'[h] = dirty[h]
      /\ disk'[a] = cache[a] /\ dirty'[a] = {}
  BY <1>1, <1>2, <1>3, <1>4, Synced
<1>8. Known' = Known /\ Stays' = Stays /\ Lines' = Lines
  BY <1>1 DEF Known, Stays, Lines
<1>9. Fades
  <2> SUFFICES ASSUME NEW h \in Known, NEW i \in Slots
        PROVE  /\ Cells(h, i)' \subseteq Cells(h, i) \cup {Zero, Bad}
               /\ Cells(h, i) = {Zero} => Cells(h, i)' = {Zero}
               /\ Even(h, i) => cache'[h][i] = cache[h][i] /\ disk'[h][i] = disk[h][i]
    BY <1>8 DEF Fades
  <2>1. Even(h, i) => cache[h][i] = disk[h][i]
    BY <1>2, Types DEF Even
  <2> QED BY <1>1, <1>4, <1>7, <2>1 DEF Cells
<1>10. \A i \in Slots : Cells(a, i)' = {cache[a][i]}
  BY <1>1, <1>7 DEF Cells
<1>11. \A i \in 1 .. (n - 1) : i \in Slots /\ cache[a][i] \in Records /\ Firm(a, i, cache[a][i])'
  <2>1. \A j \in 1 .. (w - 1) : cache[a][j] \in Records
    BY <1>5 DEF Edge, Even
  <2>2. \A j \in 1 .. (n - 1) : j \in 1 .. (w - 1) \/ j \in w .. (n - 1)
    BY <1>6
  <2>3. \A j \in 1 .. (n - 1) : j \in Slots /\ cache[a][j] \in Records
    BY <1>6, <2>1, <2>2 DEF Slots
  <2>4. \A i \in 1 .. (n - 1) : \A j \in 1 .. i : j \in 1 .. (n - 1)
    BY <1>6
  <2> QED BY <1>1, <1>7, <2>3, <2>4 DEF Firm, Even
<1>12. \A i \in n .. SegSlots : cache[a][i] = Zero
  BY <1>5 DEF Edge, Cells
<1>13. \A m \in DOMAIN grp : /\ where[m] \in w .. (n - 1) /\ where[m] \in 1 .. (n - 1) /\ where[m] \in Slots
                             /\ cache[a][where[m]] = grp[m] /\ Firm(a, where[m], grp[m])'
  <2> SUFFICES ASSUME NEW m \in DOMAIN grp
               PROVE  /\ where[m] \in w .. (n - 1) /\ where[m] \in 1 .. (n - 1) /\ where[m] \in Slots
                      /\ cache[a][where[m]] = grp[m] /\ Firm(a, where[m], grp[m])'
    OBVIOUS
  <2>1. where[m] \in w .. (n - 1) /\ GroupFrames[where[m]] = grp[m]
    BY <1>2, <1>3, <1>5, <1>6, GroupLaid
  <2>2. where[m] \in 1 .. (n - 1) /\ cache[a][where[m]] = grp[m]
    BY <1>5, <1>6, <2>1
  <2> QED BY <1>1, <1>11, <2>1, <2>2
<1>14. /\ \A m, k \in DOMAIN grp : m < k <=> where[m] < where[k]
       /\ \A i \in w .. (n - 1), v \in Entries : cache[a][i] = v => \E m \in DOMAIN grp : where[m] = i /\ grp[m] = v
  <2>1. \A m, k \in DOMAIN grp : m < k <=> where[m] < where[k]
    BY <1>2, <1>3, <1>5, GroupLaid
  <2>2. ASSUME NEW i \in w .. (n - 1), NEW v \in Entries, cache[a][i] = v
        PROVE  \E m \in DOMAIN grp : where[m] = i /\ grp[m] = v
    <3>1. i \in DOMAIN GroupFrames /\ GroupFrames[i] = v
      BY <1>5, <1>6, <2>2
    <3> QED BY <1>2, <1>3, <1>5, <3>1, LaidEntry
  <2> QED BY <2>1, <2>2
<1>15. /\ \A e \in Events : e \in Standing =>
            \E m \in DOMAIN grp : grp[m] = E(e) /\ \A k \in DOMAIN grp : grp[k] = D(StoryOf[e]) => ~ k > m
       /\ \A e \in Events, m \in DOMAIN grp : e \notin Standing /\ grp[m] = E(e) =>
            \E k \in DOMAIN grp : grp[k] = D(StoryOf[e]) /\ k > m
       /\ \A s \in Stories : s \in GroupDrops <=> \E m \in DOMAIN grp : grp[m] = D(s)
       /\ \A e \in Events : e \in GroupEvents => \E m \in DOMAIN grp : grp[m] = E(e)
       /\ \A m \in DOMAIN grp : m \in Nat
       /\ Standing \subseteq Events /\ GroupEvents \subseteq Events /\ GroupDrops \subseteq Stories /\ Reached \subseteq Events
  BY <1>2, <1>3, GroupFacts DEF TypeInv
<1>16. /\ pending' \in [Events -> SUBSET Segments]
       /\ \A e \in Events : /\ e \in Standing => pending'[e] = pending[e] \cup {a}
                            /\ e \notin Standing /\ StoryOf[e] \in GroupDrops => pending'[e] = {}
                            /\ e \notin Standing /\ StoryOf[e] \notin GroupDrops => pending'[e] = pending[e]
  <2>1. pending \in [Events -> SUBSET Segments]
    BY <1>2 DEF TypeInv
  <2>2. \A e \in Events : pending'[e] = IF e \in Standing THEN pending[e] \cup {a}
                                        ELSE IF StoryOf[e] \in GroupDrops THEN {} ELSE pending[e]
    BY <1>1, <1>3
  <2>3. \A e \in Events : pending'[e] \in SUBSET Segments
    BY <1>4, <2>1, <2>2
  <2>4. pending' \in [Events -> SUBSET Segments]
    BY <1>1, <2>3
  <2> QED BY <2>2, <2>4
<1>17. TypeInv'
  <2>1. named' \subseteq Stories
    <3>1. \A e \in GroupEvents : StoryOf[e] \in Stories
      BY <1>15, ConstantsAssumption
    <3> QED BY <1>1, <1>2, <3>1 DEF TypeInv
  <2>2. dropsBySegment' \in [Segments -> SUBSET Stories]
    BY <1>1, <1>2, <1>3, <1>4, <1>15 DEF TypeInv
  <2>3. writeOffset' \in 1 .. (SegSlots + 1)
    BY <1>1, <1>3, <1>6
  <2>4. owed' \subseteq Events /\ buried' \subseteq Events
    BY <1>1, <1>2, <1>15 DEF TypeInv
  <2>5. group' \in Seq(Entries)
    BY <1>1
  <2> QED BY <1>1, <1>2, <1>7, <1>16, <2>1, <2>2, <2>3, <2>4, <2>5 DEF TypeInv
<1>18. MediumInv'
  BY <1>1, <1>2, <1>7 DEF MediumInv
<1>19. Rows(a, n, n)'
  <2>1. Edge(a, n, n)'
    <3>1. Even(a, n - 1)'
      BY <1>1, <1>7, <1>11 DEF Even
    <3>2. \A i \in n .. SegSlots : Cells(a, i)' = {Zero}
      <4>1. \A i \in n .. SegSlots : i \in Slots
        BY <1>6 DEF Slots
      <4> QED BY <1>10, <1>12, <4>1
    <3>3. w \in 1 .. (n - 1) /\ cache'[a][w] = G(n - w) /\ \A i \in (w + 1) .. (n - 1) : cache'[a][i][1] # "G"
      <4>1. w \in w .. (n - 1) /\ \A i \in (w + 1) .. (n - 1) : i \in w .. (n - 1) /\ i # w
        BY <1>6
      <4> QED BY <1>1, <1>6, <4>1
    <3>4. 1 <= n /\ n <= n /\ \A i \in n .. (n - 1) : FALSE
      BY <1>6
    <3> QED BY <1>6, <3>1, <3>2, <3>3, <3>4 DEF Edge
  <2>2. \A g \in Known \ {a} : dirty'[g] = {} /\ ~ AfterEnd(cache'[g])
    BY <1>1, <1>4, <1>5, <1>7 DEF Rows
  <2>3. \A g \in Known : g > a => cache'[g] = EmptySegment /\ disk'[g] = EmptySegment
    <3>1. ~ a > a
      BY <1>4
    <3> QED BY <1>1, <1>4, <1>5, <1>7, <3>1 DEF Rows
  <2> QED BY <1>8, <2>1, <2>2, <2>3 DEF Rows
<1>20. RowInv'
  BY <1>1, <1>2, <1>3, <1>7, <1>19 DEF RowInv
<1>21. NamesInv'
  <2>1. \A g \in Known', i \in Slots, e \in Events : E(e) \in Cells(g, i)' =>
          \E j \in 1 .. (i - 1) : Cells(g, j)' \subseteq {N(StoryOf[e]), Zero, Bad}
    BY <1>2, <1>9, FadeNames
  <2>2. ASSUME NEW s \in named PROVE \E j \in 1 .. (n - 1) : cache[a][j] = N(s)
    <3>1. \A j \in 1 .. (w - 1) : j \in 1 .. (n - 1)
      BY <1>6
    <3> QED BY <1>2, <1>3, <3>1 DEF NamesInv
  <2>3. ASSUME NEW e \in GroupEvents, StoryOf[e] \notin named PROVE \E j \in 1 .. (n - 1) : cache[a][j] = N(StoryOf[e])
    <3>1. PICK m \in DOMAIN group : group[m] = E(e)
      BY <1>3, <1>15
    <3>2. PICK i \in DOMAIN GroupFrames : GroupFrames[i] = N(StoryOf[e])
      BY <1>2, <1>5, <1>15, <2>3, <3>1, GroupLaid
    <3>3. i \in 1 .. (n - 1)
      BY <1>6
    <3> QED BY <1>5, <3>2, <3>3
  <2>4. \A s \in named' : \E j \in 1 .. (writeOffset' - 1) : cache'[active'][j] = N(s)
    BY <1>1, <1>3, <2>2, <2>3
  <2> QED BY <2>1, <2>4 DEF NamesInv
<1>22. ContentInv'
  BY <1>2, <1>18, <1>20, <1>21 DEF ContentInv, RecoveryInv, Up
<1>23. IdleInv'
  BY <1>1, <1>2 DEF IdleInv, Up
<1>24. DirectoryInv'
  BY <1>1, <1>2 DEF DirectoryInv
<1>25. DeleteInv'
  <2>1. toDelete = {}
    BY <1>1, <1>2 DEF DirectoryInv
  <2>2. /\ dropsBySegment'[a] = dropsBySegment[a] \cup GroupDrops
        /\ \A g \in Segments : g # a => dropsBySegment'[g] = dropsBySegment[g]
    BY <1>1, <1>2, <1>3, <1>4 DEF TypeInv
  <2>3. \A g \in Segments \ listed : dropsBySegment'[g] = {}
    BY <1>2, <1>4, <2>2 DEF DeleteInv
  <2>4. ASSUME NEW g \in listed, NEW s \in Stories
        PROVE  s \in dropsBySegment'[g] <=> \E j \in Slots : Firm(g, j, D(s))' /\ (g = a => j < n)
    <3>1. CASE g # a
      <4>1. g \in Segments /\ cache'[g] = cache[g] /\ disk'[g] = disk[g] /\ dropsBySegment'[g] = dropsBySegment[g]
        BY <1>1, <1>4, <1>7, <2>2, <3>1
      <4> QED BY <1>2, <1>3, <3>1, <4>1, SameRow DEF DeleteInv
    <3>2. CASE g = a
      <4>1. D(s) \in Entries /\ D(s) \in Records
        BY RecordFacts
      <4>2. ASSUME s \in dropsBySegment[a] PROVE \E j \in Slots : Firm(a, j, D(s))' /\ j < n
        <5>1. PICK j \in Slots : Firm(a, j, D(s)) /\ j < w
          BY <1>2, <1>3, <1>4, <4>2 DEF DeleteInv
        <5>2. j < n
          BY <1>2, <1>6, <5>1, Types
        <5> QED BY <1>2, <1>4, <1>8, <1>9, <5>1, <5>2, FadeFirm
      <4>3. ASSUME s \in GroupDrops PROVE \E j \in Slots : Firm(a, j, D(s))' /\ j < n
        <5>1. PICK m \in DOMAIN grp : grp[m] = D(s)
          BY <1>15, <4>3
        <5>2. where[m] < n
          BY <1>6, <1>13
        <5> QED BY <1>13, <5>1, <5>2
      <4>4. ASSUME NEW j \in Slots, Firm(a, j, D(s))', j < n PROVE s \in dropsBySegment[a] \cup GroupDrops
        <5>1. cache[a][j] = D(s) /\ j \in Nat /\ j >= 1
          BY <1>1, <1>2, <4>4, Types DEF Firm
        <5>2. CASE j < w
          <6>1. \A i \in 1 .. j : i \in 1 .. (w - 1)
            BY <1>6, <5>1, <5>2
          <6>2. Firm(a, j, D(s))
            BY <1>5, <5>1, <6>1 DEF Firm, Edge, Even
          <6> QED BY <1>2, <1>3, <1>4, <5>2, <6>2 DEF DeleteInv
        <5>3. CASE ~ j < w
          <6>1. j \in w .. (n - 1)
            BY <1>6, <4>4, <5>1, <5>3
          <6> QED BY <1>14, <1>15, <4>1, <5>1, <6>1
        <5> QED BY <5>2, <5>3
      <4> QED BY <2>2, <3>2, <4>2, <4>3, <4>4
    <3> QED BY <3>1, <3>2
  <2> QED BY <1>1, <1>3, <2>1, <2>3, <2>4 DEF DeleteInv
<1>26. LineInv'
  BY <1>1, <1>2, <1>8 DEF LineInv
<1>27. ASSUME NEW e \in Standing PROVE e \in Events /\ Good(e, a)' /\ \E i \in Slots : Firm(a, i, E(e))'
  <2>1. e \in Events /\ StoryOf[e] \in Stories /\ D(StoryOf[e]) \in Entries /\ D(StoryOf[e]) \in Records
    BY <1>15, RecordFacts, ConstantsAssumption
  <2>2. PICK m \in DOMAIN grp : grp[m] = E(e) /\ \A k \in DOMAIN grp : grp[k] = D(StoryOf[e]) => ~ k > m
    BY <1>15, <2>1
  <2>3. where[m] \in Slots /\ Firm(a, where[m], E(e))' /\ where[m] \in w .. (n - 1)
    BY <1>13, <2>2
  <2>4. ASSUME NEW h \in Known, NEW j \in Slots, D(StoryOf[e]) \in Cells(h, j)' PROVE h < a \/ (h = a /\ j < where[m])
    <3>1. h \in Nat /\ a \in Nat /\ j \in Nat /\ j >= 1 /\ j <= SegSlots
      BY <1>4, <1>6 DEF Slots
    <3>2. CASE h > a
      <4>1. cache'[h] = EmptySegment /\ disk'[h] = EmptySegment
        BY <1>8, <1>19, <3>2 DEF Rows
      <4> QED BY <2>1, <2>4, <4>1, EmptyRow, RecordFacts DEF Cells
    <3>3. CASE h = a
      <4>1. cache[a][j] = D(StoryOf[e])
        BY <1>10, <2>4, <3>3
      <4>2. CASE j < w
        BY <1>6, <2>3, <3>1, <3>3, <4>2
      <4>3. CASE j >= w /\ j < n
        <5>1. j \in w .. (n - 1)
          BY <1>6, <3>1, <4>3
        <5>2. PICK k \in DOMAIN grp : where[k] = j /\ grp[k] = D(StoryOf[e])
          BY <1>14, <2>1, <4>1, <5>1
        <5>3. ~ k > m /\ k # m
          BY <2>2, <5>2, Apart
        <5>4. k < m
          BY <1>15, <5>3
        <5> QED BY <1>14, <3>3, <5>2, <5>4
      <4>4. CASE j >= n
        <5>1. j \in n .. SegSlots
          BY <1>6, <3>1, <4>4
        <5> QED BY <1>12, <2>1, <4>1, <5>1, RecordFacts
      <4> QED BY <1>6, <3>1, <4>2, <4>3, <4>4
    <3> QED BY <3>1, <3>2, <3>3
  <2>5. ASSUME NEW lines \in Lines, NEW k \in Segments, <<StoryOf[e], k>> \in lines PROVE k < a
    <3>1. <<StoryOf[e], k>> \in Stories \X Segments /\ <<StoryOf[e], k>>[2] = k
      BY <2>1
    <3> QED BY <1>2, <1>3, <2>5, <3>1 DEF LineInv
  <2> QED BY <1>4, <1>8, <2>1, <2>3, <2>4, <2>5 DEF Good
<1>28. PendingInv'
  <2> SUFFICES ASSUME NEW e \in Events
               PROVE  /\ \A g \in pending'[e] : g \in listed /\ \E i \in Slots : Firm(g, i, E(e))'
                      /\ pending'[e] # {} => \E g \in pending'[e] : Good(e, g)'
    BY <1>1 DEF PendingInv
  <2>1. ASSUME NEW g \in pending[e] PROVE g \in listed /\ \E i \in Slots : Firm(g, i, E(e))'
    <3>1. g \in listed /\ g \in Known' /\ \E i \in Slots : Firm(g, i, E(e))
      BY <1>2, <1>4, <1>8 DEF PendingInv
    <3> QED BY <1>2, <1>9, <3>1, FadeFirm
  <2>2. CASE e \in Standing
    BY <1>4, <1>16, <1>27, <2>1, <2>2
  <2>3. CASE e \notin Standing /\ StoryOf[e] \in GroupDrops
    BY <1>16, <2>3
  <2>4. CASE e \notin Standing /\ StoryOf[e] \notin GroupDrops
    <3>1. ~ InSeq(D(StoryOf[e]), group)
      BY <2>4, ConstantsAssumption DEF GroupDrops
    <3>2. pending'[e] = pending[e]
      BY <1>16, <2>4
    <3>3. pending[e] # {} => \E g \in pending[e] : Good(e, g)'
      BY <1>2, <1>9, <3>1, FadeGood DEF PendingInv
    <3> QED BY <2>1, <3>2, <3>3
  <2> QED BY <2>2, <2>3, <2>4
<1>29. OwedInv'
  <2> SUFFICES ASSUME NEW e \in owed' PROVE pending'[e] # {} /\ ~ InSeq(D(StoryOf[e]), queue)
    <3>1. \A x : ~ InSeq(x, group')
      BY <1>1 DEF InSeq
    <3> QED BY <1>1, <1>2, <3>1 DEF OwedInv
  <2>1. CASE e \in Standing /\ ~ InSeq(D(StoryOf[e]), queue)
    BY <1>15, <1>16, <2>1
  <2>2. CASE e \in owed
    <3>1. e \in Events /\ pending[e] # {} /\ ~ InSeq(D(StoryOf[e]), queue) /\ ~ InSeq(D(StoryOf[e]), group)
      BY <1>2, <2>2 DEF OwedInv, TypeInv
    <3>2. StoryOf[e] \notin GroupDrops
      BY <3>1 DEF GroupDrops
    <3> QED BY <1>16, <3>1, <3>2
  <2> QED BY <1>1, <2>1, <2>2
<1>30. \A e \in Events : ~ InSeq(E(e), queue) => ~ InFlight(e)'
  BY <1>1 DEF InFlight, InSeq
<1>31. ASSUME NEW e \in buried
       PROVE  /\ ~ InFlight(e)' /\ pending'[e] = {}
              /\ \A g \in Known, i \in Slots : E(e) \in Cells(g, i)' => Covered(e, g, i)'
  <2>1. e \in Events /\ ~ InFlight(e) /\ pending[e] = {}
    BY <1>2 DEF BuriedInv, TypeInv
  <2>2. e \notin Standing
    <3>1. ~ InSeq(E(e), group)
      BY <2>1 DEF InFlight
    <3> QED BY <3>1 DEF Standing, InSeq
  <2>3. ASSUME NEW g \in Known, NEW i \in Slots, E(e) \in Cells(g, i)' PROVE Covered(e, g, i)'
    <3>1. E(e) \in Cells(g, i)
      BY <1>8, <1>9, <2>1, <2>3, RecordFacts DEF Fades
    <3>2. Covered(e, g, i)
      BY <1>2, <3>1 DEF BuriedInv
    <3> QED BY <1>2, <1>8, <1>9, <2>1, <3>2, FadeCovered
  <2> QED BY <1>16, <1>30, <2>1, <2>2, <2>3 DEF InFlight
<1>32. ASSUME NEW e \in Reached
       PROVE  /\ ~ InFlight(e)' /\ pending'[e] = {}
              /\ \A g \in Known, i \in Slots : E(e) \in Cells(g, i)' => Covered(e, g, i)'
  <2>1. /\ e \in Events /\ StoryOf[e] \in GroupDrops /\ e \notin Standing /\ ~ InSeq(E(e), queue)
        /\ E(e) \in Entries /\ E(e) \in Records
    BY RecordFacts DEF Reached
  <2>2. PICK m \in DOMAIN grp : grp[m] = D(StoryOf[e])
    BY <1>15, <2>1
  <2>3. where[m] \in Slots /\ Firm(a, where[m], D(StoryOf[e]))' /\ where[m] \in w .. (n - 1)
    BY <1>13, <2>2
  <2>4. ASSUME NEW g \in Known, NEW i \in Slots, E(e) \in Cells(g, i)' PROVE Covered(e, g, i)'
    <3>1. g \in Nat /\ a \in Nat /\ i \in Nat /\ i >= 1 /\ i <= SegSlots /\ a \in Known' /\ a \in Stays'
      BY <1>4, <1>6, <1>8 DEF Slots
    <3>2. CASE g > a
      <4>1. cache'[g] = EmptySegment /\ disk'[g] = EmptySegment
        BY <1>8, <1>19, <3>2 DEF Rows
      <4> QED BY <2>1, <2>4, <4>1, EmptyRow, RecordFacts DEF Cells
    <3>3. CASE g < a
      <4>1. a > g
        BY <3>1, <3>3
      <4> QED BY <2>3, <3>1, <4>1 DEF Covered
    <3>4. CASE g = a
      <4>1. cache[a][i] = E(e)
        BY <1>10, <2>4, <3>4
      <4>2. CASE i < w
        <5>1. where[m] > i
          BY <1>6, <2>3, <3>1, <4>2
        <5> QED BY <2>3, <3>1, <3>4, <5>1 DEF Covered
      <4>3. CASE i >= w /\ i < n
        <5>1. i \in w .. (n - 1)
          BY <1>6, <3>1, <4>3
        <5>2. PICK k \in DOMAIN grp : where[k] = i /\ grp[k] = E(e)
          BY <1>14, <2>1, <4>1, <5>1
        <5>3. PICK l \in DOMAIN grp : grp[l] = D(StoryOf[e]) /\ l > k
          BY <1>15, <2>1, <5>2
        <5>4. k < l
          BY <1>15, <5>3
        <5>5. where[k] < where[l]
          BY <1>14, <5>4
        <5>6. where[l] > i /\ where[l] \in Slots /\ Firm(a, where[l], D(StoryOf[e]))'
          <6>1. where[l] \in w .. (n - 1)
            BY <1>13
          <6>2. where[l] > i
            BY <1>6, <3>1, <5>2, <5>5, <6>1
          <6> QED BY <1>13, <5>3, <6>2
        <5> QED BY <3>1, <3>4, <5>6 DEF Covered
      <4>4. CASE i >= n
        <5>1. i \in n .. SegSlots
          BY <1>6, <3>1, <4>4
        <5> QED BY <1>12, <2>1, <4>1, <5>1, RecordFacts
      <4> QED BY <1>6, <3>1, <4>2, <4>3, <4>4
    <3> QED BY <3>1, <3>2, <3>3, <3>4
  <2> QED BY <1>16, <1>30, <2>1, <2>4
<1>33. BuriedInv'
  BY <1>1, <1>8, <1>31, <1>32 DEF BuriedInv
<1> QED BY <1>17, <1>22, <1>23, <1>24, <1>25, <1>26, <1>28, <1>29, <1>33 DEF Inv, FileInv, EventInv

-----------------------------------------------------------------------------
(* The keeper starts                                                       *)

\* A segment with nothing after its header is zeros.
LEMMA OnlyHeader ==
  ASSUME NEW row \in Row, ~ DataAfterHeader(row)
  PROVE  row = EmptySegment
<1>1. DataEnd(row) \in 1 .. (SegSlots + 1) /\ SegSlots \in Nat /\ ~ DataEnd(row) > 1 /\ ~ AfterEnd(row)
  BY DataEndFacts, ConstantsAssumption DEF DataAfterHeader
<1>2. DataEnd(row) = 1
  BY <1>1
<1>3. \A i \in Slots : row[i] = Zero
  BY <1>1, <1>2 DEF AfterEnd, Slots
<1> QED BY <1>3, EmptyRow DEF Row

\* In a segment that is synced, with nothing after its data, every record is
\* one that recovery reads, and every power loss leaves.
LEMMA CleanRow ==
  ASSUME TypeInv, MediumInv, NEW g \in Segments, dirty[g] = {}, ~ AfterEnd(cache[g])
  PROVE  /\ cache[g] = disk[g]
         /\ \A i \in Slots, v \in Records : (v \in Cells(g, i) <=> Firm(g, i, v)) /\ (cache[g][i] = v <=> Firm(g, i, v))
         /\ \A i \in 1 .. (DataEnd(cache[g]) - 1) : i \in Slots /\ Firm(g, i, cache[g][i])
         /\ \A i \in Slots, v \in Records : Firm(g, i, v) => i \in 1 .. (DataEnd(cache[g]) - 1)
<1>1. cache[g] \in Row /\ disk[g] \in Row
  BY Types
<1>2. cache[g] = disk[g]
  BY <1>1 DEF MediumInv, Row
<1>3. ASSUME NEW i \in Slots, NEW v \in Records, cache[g][i] = v PROVE Firm(g, i, v) /\ i \in 1 .. (DataEnd(cache[g]) - 1)
  <2>1. \A j \in 1 .. i : cache[g][j] \in Records
    BY <1>1, <1>3, NothingAfter, RecordFacts
  <2> QED BY <1>1, <1>2, <1>3, <2>1, BeforeEnd DEF Firm, Even
<1>4. \A i \in Slots, v \in Records : Firm(g, i, v) => cache[g][i] = v
  BY DEF Firm
<1>5. \A i \in Slots, v \in Records : v \in Cells(g, i) <=> cache[g][i] = v
  BY <1>2 DEF Cells
<1>6. \A i \in 1 .. (DataEnd(cache[g]) - 1) : i \in Slots /\ cache[g][i] \in Records
  BY <1>1, DataEndFacts
<1> QED BY <1>2, <1>3, <1>4, <1>5, <1>6

\* every segment of the directory is synced and ends with its data
CleanDirectory == \A g \in dirCache.segs : dirty[g] = {} /\ ~ AfterEnd(cache[g])

\* What recovery makes of such a directory: copies that are there, the last of
\* them after every destroy of the story; what has such a copy is recovered, and
\* what is covered is not.
LEMMA RecoveredFacts ==
  ASSUME TypeInv, MediumInv, NamesInv, CleanDirectory, NEW e \in Events
  PROVE  /\ Recovered(dirCache.segs, cache, dirCache.lines, e) \subseteq dirCache.segs
         /\ \A g \in Recovered(dirCache.segs, cache, dirCache.lines, e) : \E i \in Slots : Firm(g, i, E(e))
         /\ Recovered(dirCache.segs, cache, dirCache.lines, e) # {} =>
              \E g \in Recovered(dirCache.segs, cache, dirCache.lines, e), i \in Slots :
                /\ Firm(g, i, E(e))
                /\ \A h \in dirCache.segs, j \in Slots : D(StoryOf[e]) \in Cells(h, j) => h < g \/ (h = g /\ j < i)
                /\ \A n \in Segments : <<StoryOf[e], n>> \in dirCache.lines => n < g
         /\ (\E g : Good(e, g)) => Recovered(dirCache.segs, cache, dirCache.lines, e) # {}
         /\ (\A g \in Known, i \in Slots : E(e) \in Cells(g, i) => Covered(e, g, i)) =>
              Recovered(dirCache.segs, cache, dirCache.lines, e) = {}
<1> DEFINE B == dirCache.segs
           R == Recovered(B, cache, dirCache.lines, e)
           C == LiveCopies(B, cache, e)
           s == StoryOf[e]
           Live(g, i) == ~ \E h \in B : h >= g /\ \E j \in 1 .. (DataEnd(cache[h]) - 1) :
                                           cache[h][j] = D(s) /\ (h > g \/ j > i)
<1>1. /\ s \in Stories /\ E(e) \in Records /\ D(s) \in Records /\ N(s) \in Records
      /\ B \subseteq Segments /\ B \subseteq Known /\ \A g \in Segments : g \in Nat
  BY RecordFacts, ConstantsAssumption, Types
<1>2. ASSUME NEW g \in B
      PROVE  /\ cache[g] \in Row
             /\ \A i \in Slots, v \in Records : (v \in Cells(g, i) <=> Firm(g, i, v)) /\ (cache[g][i] = v <=> Firm(g, i, v))
             /\ \A i \in 1 .. (DataEnd(cache[g]) - 1) : i \in Slots /\ Firm(g, i, cache[g][i])
             /\ \A i \in Slots, v \in Records : Firm(g, i, v) => i \in 1 .. (DataEnd(cache[g]) - 1)
  BY <1>1, CleanRow, Types DEF CleanDirectory
<1>3. C = {g \in B : \E i \in 1 .. (DataEnd(cache[g]) - 1) : cache[g][i] = E(e) /\ Live(g, i)}
  BY DEF LiveCopies
<1>4. R = IF Dropped(dirCache.lines, C, s) \/ \A g \in B : ~ Holds(cache[g], N(s)) THEN {} ELSE C
  BY DEF Recovered
<1>5. ASSUME NEW g \in B, NEW i \in Slots, Live(g, i), NEW h \in B, NEW j \in Slots, D(s) \in Cells(h, j), cache[g][i] = E(e)
      PROVE  h < g \/ (h = g /\ j < i)
  <2>1. Firm(h, j, D(s)) /\ j \in 1 .. (DataEnd(cache[h]) - 1) /\ cache[h][j] = D(s)
    BY <1>1, <1>2, <1>5
  <2>2. ~ (h >= g /\ (h > g \/ j > i))
    BY <1>5, <2>1
  <2>3. h = g => j # i
    BY <1>5, <2>1, Apart
  <2>4. h \in Nat /\ g \in Nat /\ i \in Nat /\ j \in Nat
    BY <1>1, Types
  <2> QED BY <2>2, <2>3, <2>4
<1>6. ASSUME NEW g \in B, NEW i \in Slots, Firm(g, i, E(e)),
             \A h \in B, j \in Slots : D(s) \in Cells(h, j) => h < g \/ (h = g /\ j < i)
      PROVE  g \in C
  <2>1. i \in 1 .. (DataEnd(cache[g]) - 1) /\ cache[g][i] = E(e)
    BY <1>1, <1>2, <1>6
  <2>2. ASSUME NEW h \in B, h >= g, NEW j \in 1 .. (DataEnd(cache[h]) - 1), cache[h][j] = D(s), h > g \/ j > i PROVE FALSE
    <3>1. j \in Slots /\ D(s) \in Cells(h, j)
      BY <1>1, <1>2, <2>2
    <3>2. h < g \/ (h = g /\ j < i)
      BY <1>6, <3>1
    <3>3. h \in Nat /\ g \in Nat /\ i \in Nat /\ j \in Nat
      BY <1>1, <3>1, Types
    <3> QED BY <2>2, <3>2, <3>3
  <2>3. Live(g, i)
    BY <2>2
  <2> HIDE DEF Live
  <2> QED BY <1>3, <2>1, <2>3
<1> HIDE DEF Live, C, R
<1>7. C \subseteq B /\ R \subseteq C
  BY <1>3, <1>4
<1>8. \A g \in C : \E i \in Slots : Firm(g, i, E(e)) /\ Live(g, i) /\ cache[g][i] = E(e)
  BY <1>1, <1>2, <1>3
<1>9. ASSUME R # {}
      PROVE  \E g \in R, i \in Slots :
                /\ Firm(g, i, E(e))
                /\ \A h \in B, j \in Slots : D(s) \in Cells(h, j) => h < g \/ (h = g /\ j < i)
                /\ \A n \in Segments : <<s, n>> \in dirCache.lines => n < g
  <2>1. R = C /\ C # {} /\ ~ Dropped(dirCache.lines, C, s)
    BY <1>4, <1>9
  <2>2. PICK g \in C : \A h \in C : g >= h
    BY <1>1, <1>7, <2>1, SegmentBounds
  <2>3. PICK i \in Slots : Firm(g, i, E(e)) /\ Live(g, i) /\ cache[g][i] = E(e)
    BY <1>8, <2>2
  <2>4. ASSUME NEW n \in Segments, <<s, n>> \in dirCache.lines PROVE n < g
    <3>1. PICK h \in C : ~ h <= n
      BY <2>1, <2>4 DEF Dropped
    <3>2. h \in Nat /\ n \in Nat /\ g \in Nat /\ g >= h
      BY <1>1, <1>7, <2>2
    <3> QED BY <3>1, <3>2
  <2>5. \A h \in B, j \in Slots : D(s) \in Cells(h, j) => h < g \/ (h = g /\ j < i)
    BY <1>5, <1>7, <2>3
  <2> QED BY <2>1, <2>3, <2>4, <2>5
<1>10. ASSUME NEW g, Good(e, g) PROVE R # {}
  <2>1. PICK i \in Slots : /\ Firm(g, i, E(e))
                           /\ \A h \in Known, j \in Slots : D(s) \in Cells(h, j) => h < g \/ (h = g /\ j < i)
    BY <1>10 DEF Good
  <2>2. g \in B /\ dirCache.lines \in Lines /\ g \in Nat
    BY <1>1, <1>10 DEF Good, Stays, Lines
  <2>3. g \in C
    BY <1>1, <1>6, <2>1, <2>2
  <2>4. ~ Dropped(dirCache.lines, C, s)
    <3> SUFFICES ASSUME NEW n \in Segments, <<s, n>> \in dirCache.lines, g <= n PROVE FALSE
      BY <2>3 DEF Dropped
    <3>1. n < g /\ n \in Nat
      BY <1>1, <1>10, <2>2 DEF Good
    <3> QED BY <2>2, <3>1
  <2>5. Holds(cache[g], N(s))
    <3>1. E(e) \in Cells(g, i)
      BY <2>1 DEF Firm, Cells
    <3>2. PICK j \in 1 .. (i - 1) : Cells(g, j) \subseteq {N(s), Zero, Bad}
      BY <1>1, <2>2, <3>1 DEF NamesInv
    <3>3. j \in 1 .. i /\ j \in Slots /\ \A m \in 1 .. j : m \in 1 .. i
      BY Types, ConstantsAssumption DEF Slots
    <3>4. \A m \in 1 .. i : cache[g][m] \in Records
      BY <2>1 DEF Firm, Even
    <3>5. cache[g][j] = N(s)
      BY <3>2, <3>3, <3>4, RecordFacts DEF Cells
    <3> QED BY <1>1, <1>2, <2>2, <3>3, <3>4, <3>5, HoldsFacts
  <2> QED BY <1>4, <2>2, <2>3, <2>4, <2>5
<1>11. ASSUME \A g \in Known, i \in Slots : E(e) \in Cells(g, i) => Covered(e, g, i), R # {} PROVE FALSE
  <2>1. PICK g \in R, i \in Slots :
                /\ Firm(g, i, E(e))
                /\ \A h \in B, j \in Slots : D(s) \in Cells(h, j) => h < g \/ (h = g /\ j < i)
                /\ \A n \in Segments : <<s, n>> \in dirCache.lines => n < g
    BY <1>9, <1>11
  <2>2. g \in B /\ g \in Nat /\ E(e) \in Cells(g, i) /\ i \in Nat
    BY <1>1, <1>7, <2>1, Types DEF Firm, Cells
  <2>3. Covered(e, g, i)
    BY <1>1, <1>11, <2>2
  <2>4. CASE \A lines \in Lines : \E n \in Segments : <<s, n>> \in lines /\ n >= g
    <3>1. PICK n \in Segments : <<s, n>> \in dirCache.lines /\ n >= g
      BY <2>4 DEF Lines
    <3>2. n < g /\ n \in Nat
      BY <1>1, <2>1, <3>1
    <3> QED BY <2>2, <3>1, <3>2
  <2>5. ASSUME NEW h \in Known, NEW j \in Slots, Firm(h, j, D(s)), (h = g /\ j > i) \/ (h > g /\ h \in Stays) PROVE FALSE
    <3>1. h \in B /\ D(s) \in Cells(h, j) /\ h \in Nat /\ j \in Nat
      BY <1>1, <2>2, <2>5, Types DEF Stays, Firm, Cells
    <3>2. h < g \/ (h = g /\ j < i)
      BY <2>1, <3>1
    <3> QED BY <2>2, <2>5, <3>1, <3>2
  <2> QED BY <2>3, <2>4, <2>5 DEF Covered
<1> QED BY <1>7, <1>8, <1>9, <1>10, <1>11 DEF R

\* The active segment of a keeper that starts is the newest and is empty.
LEMMA StartFacts ==
  ASSUME TypeInv, MediumInv, CleanDirectory, RecoverStart
  PROVE  \E a \in Segments :
           /\ active' = a /\ listed' = dirCache.segs \cup {a} /\ \A g \in dirCache.segs : g <= a
           /\ dirCache' = DirWith(listed', {l \in dirCache.lines : \E g \in dirCache.segs : g <= l[2]})
           /\ dirDisk' = dirCache'
           /\ cache' \in [Segments -> Row] /\ disk' \in [Segments -> Row] /\ dirty' \in [Segments -> SUBSET Slots]
           /\ cache'[a] = EmptySegment /\ disk'[a] = EmptySegment /\ dirty'[a] = {}
           /\ a \in dirCache.segs => cache[a] = EmptySegment
           /\ \A g \in Segments : g # a => cache'[g] = cache[g] /\ disk'[g] = disk[g] /\ dirty'[g] = dirty[g]
           /\ \A g \in dirCache.segs : cache'[g] = cache[g] /\ disk'[g] = cache[g] /\ disk[g] = cache[g] /\ dirty'[g] = {}
<1> DEFINE B == dirCache.segs
           reuse == ReusableSpare(B, cache)
           first == IF B = {} THEN 1 ELSE Greatest(B) + 1
<1>1. /\ reuse # {} \/ first <= MaxSeg
      /\ active' = IF reuse # {} THEN Greatest(B) ELSE first
      /\ listed' = B \cup {active'}
      /\ dirCache' = DirWith(listed', {l \in dirCache.lines : \E g \in B : g <= l[2]})
      /\ dirDisk' = dirCache'
      /\ cache' = IF reuse # {} THEN cache ELSE [cache EXCEPT ![first] = EmptySegment]
      /\ disk' = IF reuse # {} THEN disk ELSE [disk EXCEPT ![first] = EmptySegment]
      /\ dirty' = IF reuse # {} THEN dirty ELSE [dirty EXCEPT ![first] = {}]
  BY DEF RecoverStart, SyncDirectory
<1>2. /\ B \subseteq Segments /\ \A g \in Segments : g \in Nat /\ g >= 1
      /\ cache \in [Segments -> Row] /\ disk \in [Segments -> Row] /\ dirty \in [Segments -> SUBSET Slots]
      /\ MaxSeg \in Nat /\ MaxSeg >= 1
  BY Types, ConstantsAssumption DEF TypeInv, Segments
<1>3. \A g \in B : disk[g] = cache[g] /\ dirty[g] = {}
  BY <1>2, CleanRow DEF CleanDirectory
<1>4. CASE reuse # {}
  <2>1. PICK a \in B : a = Greatest(B) /\ ~ DataAfterHeader(cache[a])
    BY <1>4 DEF ReusableSpare
  <2>2. \A g \in B : a >= g
    BY <1>2, <2>1, SegmentBounds
  <2>3. \A g \in B : g <= a
    BY <1>2, <2>2
  <2>4. cache[a] = EmptySegment /\ a \in Segments
    BY <1>2, <2>1, OnlyHeader
  <2> HIDE DEF reuse, first
  <2>5. active' = a /\ cache' = cache /\ disk' = disk /\ dirty' = dirty
    BY <1>1, <1>4, <2>1
  <2> QED BY <1>1, <1>2, <1>3, <2>1, <2>3, <2>4, <2>5
<1>5. CASE reuse = {}
  <2>1. first \in Segments /\ \A g \in B : g <= first /\ g # first
    <3>1. first <= MaxSeg
      BY <1>1, <1>5
    <3>2. CASE B = {}
      BY <1>2, <3>2 DEF Segments
    <3>3. CASE B # {}
      <4>1. Greatest(B) \in Segments /\ \A g \in B : Greatest(B) >= g
        BY <1>2, <3>3, SegmentBounds
      <4>2. PICK m \in Segments : m = Greatest(B)
        BY <4>1
      <4>3. first = m + 1 /\ m \in Nat /\ m >= 1
        BY <1>2, <3>3, <4>2
      <4> HIDE DEF first
      <4>4. first \in Segments
        BY <1>2, <3>1, <4>3 DEF Segments
      <4>5. ASSUME NEW g \in B PROVE g <= first /\ g # first
        <5>1. g \in Nat /\ m >= g
          BY <1>2, <4>1, <4>2
        <5> QED BY <4>3, <5>1
      <4> QED BY <4>4, <4>5
    <3> QED BY <3>2, <3>3
  <2>2. PICK a \in Segments : a = first
    BY <2>1
  <2> HIDE DEF reuse, first
  <2>3. active' = a /\ cache' = [cache EXCEPT ![a] = EmptySegment] /\ disk' = [disk EXCEPT ![a] = EmptySegment]
        /\ dirty' = [dirty EXCEPT ![a] = {}]
    BY <1>1, <1>5, <2>2
  <2>4. /\ cache' \in [Segments -> Row] /\ disk' \in [Segments -> Row] /\ dirty' \in [Segments -> SUBSET Slots]
        /\ cache'[a] = EmptySegment /\ disk'[a] = EmptySegment /\ dirty'[a] = {}
        /\ \A g \in Segments : g # a => cache'[g] = cache[g] /\ disk'[g] = disk[g] /\ dirty'[g] = dirty[g]
    BY <1>2, <2>3, EmptyRow
  <2>5. a \notin B /\ \A g \in B : g <= a /\ g # a
    BY <2>1, <2>2
  <2>6. \A g \in B : cache'[g] = cache[g] /\ disk'[g] = cache[g] /\ disk[g] = cache[g] /\ dirty'[g] = {}
    BY <1>2, <1>3, <2>4, <2>5
  <2> QED BY <1>1, <2>3, <2>4, <2>5, <2>6
<1> QED BY <1>4, <1>5

\* What was owed is pending again, and what was buried is not.
LEMMA RecoverStartInv ==
  ASSUME Inv, RecoverStart
  PROVE  Inv'
<1>1. /\ state = "recovering" /\ pc = "rec_dir" /\ state' = "running" /\ pc' = "delete" /\ writeOffset' = 1 /\ named' = {}
      /\ pending' = [e \in Events |-> Recovered(dirCache.segs, cache, dirCache.lines, e)]
      /\ dropsBySegment' = [g \in Segments |-> IF g \in dirCache.segs THEN {s \in Stories : Holds(cache[g], D(s))} ELSE {}]
      /\ UNCHANGED <<failed, queue, group, spare, syncOwed, toDelete, owed, buried>>
  BY DEF RecoverStart, history
<1>2. /\ ~ Up /\ Up' /\ TypeInv /\ MediumInv /\ NamesInv /\ RecoveryInv /\ IdleInv /\ LineInv /\ OwedInv /\ BuriedInv
      /\ ~ failed /\ queue = <<>> /\ group = <<>> /\ spare = {} /\ toDelete = {} /\ ~ syncOwed
  BY <1>1, NotRunning DEF Inv, ContentInv, FileInv, EventInv, Up
<1>3. CleanDirectory
  BY <1>1, <1>2 DEF RecoveryInv, CleanDirectory
<1>4. PICK B, L : B = dirCache.segs /\ L = dirCache.lines
  OBVIOUS
<1>5. PICK a \in Segments :
        /\ active' = a /\ listed' = B \cup {a} /\ \A g \in B : g <= a
        /\ dirCache' = DirWith(listed', {l \in L : \E g \in B : g <= l[2]})
        /\ dirDisk' = dirCache'
        /\ cache' \in [Segments -> Row] /\ disk' \in [Segments -> Row] /\ dirty' \in [Segments -> SUBSET Slots]
        /\ cache'[a] = EmptySegment /\ disk'[a] = EmptySegment /\ dirty'[a] = {}
        /\ a \in B => cache[a] = EmptySegment
        /\ \A g \in Segments : g # a => cache'[g] = cache[g] /\ disk'[g] = disk[g] /\ dirty'[g] = dirty[g]
        /\ \A g \in B : cache'[g] = cache[g] /\ disk'[g] = cache[g] /\ disk[g] = cache[g] /\ dirty'[g] = {}
  BY <1>2, <1>3, <1>4, StartFacts
<1>6. /\ B \subseteq Segments /\ B \subseteq Known /\ L \subseteq Stories \X Segments /\ L \in Lines /\ Stays \subseteq B
      /\ \A g \in Segments : g \in Nat
  BY <1>2, <1>4, Types DEF Stays, Lines
<1>7. PICK K : K = {l \in L : \E g \in B : g <= l[2]}
  OBVIOUS
<1>8. /\ Known' = B \cup {a} /\ Stays' = B \cup {a} /\ Lines' = {K} /\ K \subseteq L
      /\ dirCache'.segs = B \cup {a} /\ dirDisk'.segs = B \cup {a}
      /\ dirCache' \in [segs : SUBSET Segments, lines : SUBSET (Stories \X Segments)]
  <2>1. dirCache' = DirWith(B \cup {a}, K) /\ dirDisk' = DirWith(B \cup {a}, K) /\ K \subseteq L
    BY <1>5, <1>7
  <2> QED BY <1>6, <2>1 DEF Known, Stays, Lines, DirWith
<1>9. \A i \in Slots : Cells(a, i)' = {Zero}
  BY <1>5, EmptyRow DEF Cells
<1>10. ASSUME NEW g \in B
       PROVE  /\ \A i : Cells(g, i)' = Cells(g, i) /\ (Even(g, i)' <=> Even(g, i))
              /\ \A i, rec : Firm(g, i, rec)' <=> Firm(g, i, rec)
  <2>1. cache'[g] = cache[g] /\ disk'[g] = disk[g]
    BY <1>5
  <2> QED BY <2>1, SameRow
<1>11. ASSUME NEW g \in Known', NEW i \in Slots, NEW v \in Records, v \in Cells(g, i)' PROVE g \in B /\ v \in Cells(g, i)
  <2>1. g # a
    BY <1>9, <1>11, RecordFacts
  <2> QED BY <1>8, <1>10, <1>11, <2>1
<1>12. ASSUME NEW e \in Events
       PROVE  /\ pending'[e] \subseteq B /\ \A g \in pending'[e] : \E i \in Slots : Firm(g, i, E(e))
              /\ pending'[e] # {} => \E g \in pending'[e], i \in Slots :
                   /\ Firm(g, i, E(e))
                   /\ \A h \in B, j \in Slots : D(StoryOf[e]) \in Cells(h, j) => h < g \/ (h = g /\ j < i)
                   /\ \A n \in Segments : <<StoryOf[e], n>> \in L => n < g
              /\ (\E g : Good(e, g)) => pending'[e] # {}
              /\ (\A g \in Known, i \in Slots : E(e) \in Cells(g, i) => Covered(e, g, i)) => pending'[e] = {}
  <2>1. pending'[e] = Recovered(dirCache.segs, cache, dirCache.lines, e)
    BY <1>1
  <2> QED BY <1>2, <1>3, <1>4, <2>1, RecoveredFacts
<1>13. TypeInv'
  <2>1. pending' \in [Events -> SUBSET Segments]
    <3>1. \A e \in Events : pending'[e] \in SUBSET Segments
      BY <1>6, <1>12
    <3> QED BY <1>1, <3>1
  <2>2. dropsBySegment' \in [Segments -> SUBSET Stories] /\ writeOffset' \in 1 .. (SegSlots + 1)
    BY <1>1, ConstantsAssumption
  <2>3. active' \in Nat /\ listed' \subseteq Segments /\ named' \subseteq Stories /\ state' = "running"
    BY <1>1, <1>5, <1>6
  <2> QED BY <1>1, <1>2, <1>5, <1>8, <2>1, <2>2, <2>3 DEF TypeInv
<1>14. MediumInv'
  <2> SUFFICES ASSUME NEW g \in Segments, NEW i \in Slots, i \notin dirty'[g] PROVE cache'[g][i] = disk'[g][i]
    BY DEF MediumInv
  <2>1. CASE g = a
    BY <1>5, <2>1
  <2>2. CASE g # a
    BY <1>2, <1>5, <2>2 DEF MediumInv
  <2> QED BY <2>1, <2>2
<1>15. RowInv'
  <2>1. Edge(a, 1, 1)'
    <3>1. Even(a, 0)' /\ SegSlots \in Nat
      BY ConstantsAssumption DEF Even
    <3> QED BY <1>9, <3>1 DEF Edge, Slots
  <2>2. \A g \in Known' \ {a} : dirty'[g] = {} /\ ~ AfterEnd(cache'[g])
    BY <1>3, <1>4, <1>5, <1>8 DEF CleanDirectory
  <2>3. ASSUME NEW g \in Known', g > a PROVE FALSE
    <3>1. g \in Nat /\ a \in Nat /\ g <= a
      BY <1>5, <1>6, <1>8
    <3> QED BY <2>3, <3>1
  <2>4. Rows(a, 1, 1)'
    BY <2>1, <2>2, <2>3 DEF Rows
  <2> QED BY <1>1, <1>2, <1>5, <2>4 DEF RowInv
<1>16. NamesInv'
  <2>1. ASSUME NEW g \in Known', NEW i \in Slots, NEW e \in Events, E(e) \in Cells(g, i)'
        PROVE  \E j \in 1 .. (i - 1) : Cells(g, j)' \subseteq {N(StoryOf[e]), Zero, Bad}
    <3>1. g \in B /\ E(e) \in Cells(g, i)
      BY <1>11, <2>1, RecordFacts
    <3>2. \E j \in 1 .. (i - 1) : Cells(g, j) \subseteq {N(StoryOf[e]), Zero, Bad}
      BY <1>2, <1>6, <3>1 DEF NamesInv
    <3> QED BY <1>10, <3>1, <3>2
  <2> QED BY <1>1, <2>1 DEF NamesInv
<1>17. ContentInv'
  BY <1>2, <1>14, <1>15, <1>16 DEF ContentInv, RecoveryInv, Up
<1>18. IdleInv' /\ DirectoryInv'
  <2>1. \A g \in B \cup {a} : g <= a
    BY <1>5, <1>6
  <2>2. IdleInv'
    BY <1>1, <1>2 DEF IdleInv
  <2> QED BY <1>1, <1>2, <1>5, <1>8, <2>1, <2>2 DEF DirectoryInv
<1>19. DeleteInv'
  <2>1. \A g \in Segments \ listed' : dropsBySegment'[g] = {}
    BY <1>1, <1>4, <1>5
  <2>2. ASSUME NEW g \in listed', NEW s \in Stories
        PROVE  s \in dropsBySegment'[g] <=> \E j \in Slots : Firm(g, j, D(s))' /\ (g = a => j < 1)
    <3>1. g \in Segments /\ \A j \in Slots : ~ j < 1
      BY <1>2, <1>5, <1>6, Types
    <3>2. CASE g = a
      <4>1. s \notin dropsBySegment'[a]
        <5>1. CASE a \in B
          <6>1. ~ Holds(EmptySegment, D(s))
            BY EmptyRow, HoldsFacts, RecordFacts
          <6> QED BY <1>1, <1>4, <1>5, <5>1, <6>1
        <5>2. CASE a \notin B
          BY <1>1, <1>4, <5>2
        <5> QED BY <5>1, <5>2
      <4> QED BY <3>1, <3>2, <4>1
    <3>3. CASE g # a
      <4>1. g \in B /\ g \in dirCache.segs /\ D(s) \in Records
        BY <1>4, <1>5, <3>3, RecordFacts
      <4>2. s \in dropsBySegment'[g] <=> Holds(cache[g], D(s))
        BY <1>1, <3>1, <4>1
      <4>3. Holds(cache[g], D(s)) <=> \E j \in Slots : Firm(g, j, D(s))
        <5>1. cache[g] \in Row /\ disk[g] = cache[g]
          BY <1>2, <1>5, <3>1, <4>1, Types
        <5> QED BY <4>1, <5>1, HoldsFacts DEF Firm, Even
      <4> QED BY <1>10, <3>3, <4>1, <4>2, <4>3
    <3> QED BY <3>2, <3>3
  <2> QED BY <1>1, <1>2, <1>5, <2>1, <2>2 DEF DeleteInv
<1>20. LineInv'
  <2> SUFFICES ASSUME NEW l \in Stories \X Segments, l \in L PROVE l[2] < a
    BY <1>2, <1>5, <1>8 DEF LineInv
  <2>1. PICK g \in Stays : l[2] < g
    BY <1>2, <1>6 DEF LineInv
  <2>2. l[2] \in Nat /\ g \in Nat /\ a \in Nat /\ g <= a
    BY <1>5, <1>6
  <2> QED BY <2>1, <2>2
<1>21. PendingInv'
  <2> SUFFICES ASSUME NEW e \in Events
               PROVE  /\ \A g \in pending'[e] : g \in listed' /\ \E i \in Slots : Firm(g, i, E(e))'
                      /\ pending'[e] # {} => \E g \in pending'[e] : Good(e, g)'
    BY DEF PendingInv
  <2>1. \A g \in pending'[e] : g \in listed' /\ \E i \in Slots : Firm(g, i, E(e))'
    BY <1>5, <1>10, <1>12
  <2>2. ASSUME pending'[e] # {} PROVE \E g \in pending'[e] : Good(e, g)'
    <3>1. PICK g \in pending'[e], i \in Slots :
                   /\ Firm(g, i, E(e))
                   /\ \A h \in B, j \in Slots : D(StoryOf[e]) \in Cells(h, j) => h < g \/ (h = g /\ j < i)
                   /\ \A n \in Segments : <<StoryOf[e], n>> \in L => n < g
      BY <1>12, <2>2
    <3>2. g \in B /\ Firm(g, i, E(e))' /\ D(StoryOf[e]) \in Records
      BY <1>10, <1>12, <3>1, RecordFacts, ConstantsAssumption
    <3>3. \A h \in Known', j \in Slots : D(StoryOf[e]) \in Cells(h, j)' => h < g \/ (h = g /\ j < i)
      BY <1>11, <3>1, <3>2
    <3>4. Good(e, g)'
      BY <1>8, <3>1, <3>2, <3>3 DEF Good
    <3> QED BY <3>4
  <2> QED BY <2>1, <2>2
<1>22. OwedInv'
  <2>1. \A x : ~ InSeq(x, queue') /\ ~ InSeq(x, group')
    BY <1>1, <1>2 DEF InSeq
  <2>2. \A e \in owed : pending'[e] # {}
    BY <1>2, <1>12 DEF OwedInv, TypeInv
  <2> QED BY <1>1, <1>2, <2>1, <2>2 DEF OwedInv
<1>23. BuriedInv'
  <2> SUFFICES ASSUME NEW e \in buried
               PROVE  /\ ~ InFlight(e)' /\ pending'[e] = {}
                      /\ \A g \in Known', i \in Slots : E(e) \in Cells(g, i)' => Covered(e, g, i)'
    BY <1>1 DEF BuriedInv
  <2>1. ~ InFlight(e)'
    BY <1>1, <1>2 DEF InFlight, InSeq
  <2>2. e \in Events /\ E(e) \in Records /\ \A g \in Known, i \in Slots : E(e) \in Cells(g, i) => Covered(e, g, i)
    BY <1>2, RecordFacts DEF BuriedInv, TypeInv
  <2>3. pending'[e] = {}
    BY <1>12, <2>2
  <2>4. ASSUME NEW g \in Known', NEW i \in Slots, E(e) \in Cells(g, i)' PROVE Covered(e, g, i)'
    <3>1. g \in B /\ E(e) \in Cells(g, i)
      BY <1>11, <2>2, <2>4
    <3>2. Covered(e, g, i)
      BY <1>6, <2>2, <3>1
    <3>3. CASE \A lines \in Lines : \E n \in Segments : <<StoryOf[e], n>> \in lines /\ n >= g
      <4>1. PICK n \in Segments : <<StoryOf[e], n>> \in L /\ n >= g
        BY <1>6, <3>3
      <4>2. g <= n
        BY <1>6, <3>1, <4>1
      <4>3. <<StoryOf[e], n>>[2] = n
        OBVIOUS
      <4>4. <<StoryOf[e], n>> \in K
        BY <1>7, <3>1, <4>1, <4>2, <4>3
      <4> QED BY <1>8, <4>1, <4>4 DEF Covered
    <3>4. CASE \E h \in Known, j \in Slots : Firm(h, j, D(StoryOf[e])) /\ ((h = g /\ j > i) \/ (h > g /\ h \in Stays))
      <4>1. PICK h \in Known, j \in Slots : Firm(h, j, D(StoryOf[e])) /\ ((h = g /\ j > i) \/ (h > g /\ h \in Stays))
        BY <3>4
      <4>2. h \in B /\ h \in Known' /\ h \in Stays'
        BY <1>6, <1>8, <3>1, <4>1
      <4>3. Firm(h, j, D(StoryOf[e]))'
        BY <1>10, <4>1, <4>2
      <4> QED BY <4>1, <4>2, <4>3 DEF Covered
    <3> QED BY <3>2, <3>3, <3>4 DEF Covered
  <2> QED BY <2>1, <2>3, <2>4
<1> QED BY <1>13, <1>17, <1>18, <1>19, <1>20, <1>21, <1>22, <1>23 DEF Inv, FileInv, EventInv

-----------------------------------------------------------------------------
(* The whole specification                                                 *)

\* An empty directory satisfies the invariant.
LEMMA InitInv == Init => WalInv
<1> SUFFICES ASSUME Init PROVE WalInv
  OBVIOUS
<1>1. SegSlots \in Nat /\ MaxSeg \in Nat /\ MaxSeg >= 1 /\ 1 \in Segments
  BY ConstantsAssumption DEF Segments
<1>2. /\ EmptySegment \in Row /\ Zero \in SlotValues /\ \A g \in Segments : cache[g] = EmptySegment /\ disk[g] = EmptySegment
      /\ \A i \in Slots : EmptySegment[i] = Zero
  BY RecordFacts DEF Init, EmptySegment, Row
<1>3. /\ dirCache = [segs |-> {}, lines |-> {}] /\ dirDisk = [segs |-> {}, lines |-> {}]
      /\ Known = {} /\ Stays = {} /\ Lines = {{}} /\ ~ Up
  BY DEF Init, DirWith, Known, Stays, Lines, Up
<1>4. BudgetInv
  BY DEF Init, BudgetInv
<1>5. TypeInv
  <2>1. <<>> \in Seq(Entries)
    OBVIOUS
  <2>2. dirCache \in [segs : SUBSET Segments, lines : SUBSET (Stories \X Segments)] /\ dirDisk = dirCache
    BY <1>3
  <2>3. cache \in [Segments -> Row] /\ disk \in [Segments -> Row] /\ dirty \in [Segments -> SUBSET Slots]
    BY <1>2 DEF Init
  <2> QED BY <1>1, <2>1, <2>2, <2>3 DEF Init, TypeInv
<1>6. ContentInv
  <2>1. \A x, w, n : Rows(x, w, n)
    BY <1>3 DEF Rows
  <2>2. MediumInv /\ NamesInv /\ RecoveryInv
    BY <1>2, <1>3 DEF Init, MediumInv, NamesInv, RecoveryInv
  <2> QED BY <1>1, <1>3, <2>1, <2>2 DEF ContentInv, RowInv
<1>7. FileInv
  BY <1>3 DEF Init, FileInv, IdleInv, DirectoryInv, DeleteInv, LineInv
<1>8. EventInv
  BY <1>3 DEF Init, EventInv, PendingInv, OwedInv, BuriedInv
<1> QED BY <1>4, <1>5, <1>6, <1>7, <1>8 DEF WalInv, Inv

\* What is spent stays spent: a step may only add a fault.
LEMMA BudgetStep ==
  ASSUME BudgetInv, Next
  PROVE  BudgetInv' /\ (OnlyHousekeepingFails' => OnlyHousekeepingFails)
<1> DEFINE Spends == \/ budget' = budget \/ UseFault
                     \/ budget' = [budget EXCEPT !.crashes = @ + 1]
                     \/ budget' = [budget EXCEPT !.appends = @ + 1]
                     \/ \E s \in Stories : budget' = [budget EXCEPT !.drops = @ + 1, !.destroyed = @ \cup {s}]
<1>1. scenario' = scenario
  BY DEF Next
<1>2. Spends
  <2>1. CASE Requests
    BY <2>1 DEF Requests, AppendDurable, RetryDurable, Release, StoryDropped
  <2>2. CASE TakeGroup \/ CommitWrite \/ CommitSync \/ Rotate \/ Erase \/ EraseSync
    BY <2>2 DEF TakeGroup, CommitWrite, CommitSync, Rotate, Erase, EraseSync
  <2>3. CASE LatchedGroup \/ FailGroup
    BY <2>3 DEF LatchedGroup, FailGroup, RecordUnloggedDrops, WriteDrops
  <2>4. CASE DeleteBegin
    BY <2>4 DEF DeleteBegin, WriteDrops
  <2>5. CASE DeleteOwedSync \/ RemoveSegment \/ RemoveSync \/ RemoveDone
    BY <2>5 DEF DeleteOwedSync, RemoveSegment, RemoveSync, RemoveDone
  <2>6. CASE IoFaults
    BY <2>6 DEF IoFaults, RecoverFails, CommitWriteFails, CommitSyncFails, RotateFails, EraseFails,
                DeleteStillOwed, RemoveFails
  <2>7. CASE Recovery
    BY <2>7 DEF Recovery, RecoverSync, RecoverZero, RecoverZeroSync, RecoverStart
  <2>8. CASE Background
    BY <2>8 DEF Background, PeriodicDelete, IdleRotate, PrepareSpare, SyncSpare
  <2>9. CASE Stop \/ ProcessCrash \/ PowerLoss
    BY <2>9 DEF Stop, ProcessCrash, PowerLoss, UseCrash
  <2> QED BY <2>1, <2>2, <2>3, <2>4, <2>5, <2>6, <2>7, <2>8, <2>9 DEF Next, Committer
<1>3. /\ budget' \in [faults : Nat, crashes : Nat, appends : Nat, drops : Nat, destroyed : SUBSET Stories]
      /\ budget'.faults = 0 => budget.faults = 0
  <2>1. CASE UseFault
    BY <2>1 DEF UseFault, BudgetInv
  <2>2. CASE \E s \in Stories : budget' = [budget EXCEPT !.drops = @ + 1, !.destroyed = @ \cup {s}]
    <3>1. PICK s \in Stories : budget' = [budget EXCEPT !.drops = @ + 1, !.destroyed = @ \cup {s}]
      BY <2>2
    <3>2. budget' = [[budget EXCEPT !.drops = @ + 1] EXCEPT !.destroyed = @ \cup {s}]
      BY <3>1 DEF BudgetInv
    <3>3. [budget EXCEPT !.drops = @ + 1] \in [faults : Nat, crashes : Nat, appends : Nat, drops : Nat, destroyed : SUBSET Stories]
      BY DEF BudgetInv
    <3>4. [budget EXCEPT !.drops = @ + 1].faults = budget.faults
      BY DEF BudgetInv
    <3> QED BY <3>2, <3>3, <3>4
  <2>3. CASE budget' = budget \/ budget' = [budget EXCEPT !.crashes = @ + 1] \/ budget' = [budget EXCEPT !.appends = @ + 1]
    BY <2>3 DEF BudgetInv
  <2> QED BY <1>2, <2>1, <2>2, <2>3
<1> QED BY <1>1, <1>3 DEF BudgetInv, OnlyHousekeepingFails, Faults

\* After a failed write, sync, erase or preparation the hypothesis is gone.
LEMMA OtherFault ==
  ASSUME BudgetInv, scenario' = scenario, NEW kind, kind \notin Housekeeping, Fault(kind), UseFault
  PROVE  ~ OnlyHousekeepingFails'
BY DEF BudgetInv, UseFault, Fault, OnlyHousekeepingFails, Faults

\* Every step keeps the invariant as long as only housekeeping fails.
LEMMA NextInv ==
  ASSUME WalInv, [Next]_vars
  PROVE  WalInv'
<1>1. CASE UNCHANGED vars
  <2>1. UNCHANGED <<scenario, cache, disk, dirty, dirCache, dirDisk, state, pc, failed, queue, group, pending,
                    active, writeOffset, named, listed, spare, dropsBySegment, syncOwed, toDelete, owed, buried, budget>>
    BY <1>1 DEF vars, moving
  <2>2. BudgetInv' /\ (OnlyHousekeepingFails' => Inv)
    BY <2>1 DEF WalInv, BudgetInv, OnlyHousekeepingFails, Faults
  <2>3. ASSUME Inv PROVE Inv'
    <3>1. TypeInv' /\ (Up' <=> Up) /\ FileInv'
      BY <2>1, <2>3, SameMedium DEF Inv, TypeInv, Up, FileInv, IdleInv, DirectoryInv, DeleteInv, LineInv, Outstanding
    <3>2. ContentInv'
      <4>1. RowInv'
        BY <2>1, <2>3, <3>1, SameMedium DEF Inv, ContentInv, RowInv, Fits, GroupFrames
      <4>2. NamesInv' /\ RecoveryInv'
        BY <2>1, <2>3, <3>1, SameMedium DEF Inv, ContentInv, NamesInv, RecoveryInv, TornNow
      <4> QED BY <2>1, <2>3, <4>1, <4>2, SameMedium DEF Inv, ContentInv
    <3>3. EventInv'
      BY <2>1, <2>3, <3>1, SameMedium DEF Inv, EventInv, PendingInv, OwedInv, BuriedInv, InFlight
    <3> QED BY <3>1, <3>2, <3>3 DEF Inv
  <2> QED BY <2>2, <2>3 DEF WalInv
<1>2. CASE Next
  <2>1. BudgetInv /\ BudgetInv' /\ scenario' = scenario /\ scenario \in Scenarios
    BY <1>2, BudgetStep DEF WalInv, BudgetInv, Next
  <2>2. SUFFICES ASSUME OnlyHousekeepingFails' PROVE Inv'
    BY <2>1 DEF WalInv
  <2>3. Inv
    BY <1>2, <2>1, <2>2, BudgetStep DEF WalInv
  <2>4. \A kind : kind \notin Housekeeping => ~ (Fault(kind) /\ UseFault)
    BY <2>1, <2>2, OtherFault
  <2>5. "write" \notin Housekeeping /\ "sync" \notin Housekeeping /\ "erase" \notin Housekeeping /\ "spare" \notin Housekeeping
    BY DEF Housekeeping
  <2>6. CASE Requests
    BY <2>3, <2>6, AppendDurableInv, RetryDurableInv, ReleaseInv, StoryDroppedInv DEF Requests
  <2>7. CASE Committer
    <3>1. state = "running" => pc \notin {"latched", "fail_written", "fail_unwritten", "erase", "erase_sync"}
      BY <2>3 DEF Inv, FileInv, IdleInv, Up
    <3>2. ~ LatchedGroup /\ ~ FailGroup /\ ~ Erase /\ ~ EraseSync
      BY <3>1 DEF LatchedGroup, FailGroup, Erase, EraseSync, Running
    <3> QED BY <2>1, <2>3, <2>7, <3>2, TakeGroupInv, CommitWriteInv, CommitSyncInv, RotateInv, SyncsInv, DeleteBeginInv,
               RemoveSegmentInv, MoveOnInv DEF Committer
  <2>8. CASE IoFaults
    <3>1. ~ RecoverFails /\ ~ CommitWriteFails /\ ~ CommitSyncFails /\ ~ RotateFails /\ ~ EraseFails
      BY <2>4, <2>5 DEF RecoverFails, CommitWriteFails, CommitSyncFails, RotateFails, EraseFails
    <3> QED BY <2>3, <2>8, <3>1, MoveOnInv DEF IoFaults
  <2>9. CASE Recovery
    BY <2>3, <2>9, RecoverSyncInv, RecoverZeroInv, RecoverZeroSyncInv, RecoverStartInv DEF Recovery
  <2>10. CASE Background
    <3>1. IdleRotate => failed' = failed
      BY <2>4, <2>5 DEF IdleRotate
    <3> QED BY <2>3, <2>10, <3>1, MoveOnInv, IdleRotateInv, PrepareSpareInv, SyncsInv DEF Background
  <2>11. CASE Stop \/ ProcessCrash \/ PowerLoss
    BY <2>3, <2>11, MoveOnInv, ProcessCrashInv, PowerLossInv
  <2> QED BY <1>2, <2>6, <2>7, <2>8, <2>9, <2>10, <2>11 DEF Next
<1> QED BY <1>1, <1>2

\* The invariant holds in every state of every behaviour.
LEMMA WalInvHolds == Spec => []WalInv
<1> QED BY InitInv, NextInv, PTL DEF Spec

\* What an acknowledgement promises: with any number of crashes, power losses,
\* recoveries and re-created stories, and any failure of the housekeeping
\* (removing segments, syncing the directory, replacing the unlogged-drops
\* file), every event answered CL_SUCCESS and neither confirmed nor destroyed
\* since is pending in every running keeper.  Here no event is excepted.
THEOREM AcknowledgedSurvives == Spec => [](OnlyHousekeepingFails => DurableSurvives /\ EveryAnswerSurvives)
<1>1. WalInv /\ OnlyHousekeepingFails => DurableSurvives /\ EveryAnswerSurvives
  BY DEF WalInv, Inv, EventInv, OwedInv, Up, DurableSurvives, EveryAnswerSurvives, Running
<1> QED BY <1>1, WalInvHolds, PTL

\* A destroy that was recorded, as a D record or as a line of the
\* unlogged-drops file, outlives the segments it was recorded in, and whatever
\* order they are deleted in: no event it reached is pending again.
THEOREM DestroyedStaysDestroyed == Spec => [](OnlyHousekeepingFails => NoResurrection)
<1>1. WalInv /\ OnlyHousekeepingFails => NoResurrection
  BY DEF WalInv, Inv, EventInv, BuriedInv, Up, NoResurrection, Running
<1> QED BY <1>1, WalInvHolds, PTL

\* What the release tracker counts as a copy is one on disk, before the end of
\* the data of a segment whose directory entry is durable: the pass over the
\* released segments never removes the last copy of a pending event.
THEOREM CopiesAreOnDisk == Spec => [](OnlyHousekeepingFails => PendingCopiesOnDisk)
<1>1. ASSUME WalInv, OnlyHousekeepingFails PROVE PendingCopiesOnDisk
  <2>1. SUFFICES ASSUME Up, NEW e \in Events, NEW g \in pending[e]
                 PROVE  g \in listed /\ g \in dirDisk.segs /\ Holds(disk[g], E(e))
    BY DEF PendingCopiesOnDisk, Up
  <2>2. TypeInv /\ PendingInv /\ DirectoryInv
    BY <1>1 DEF WalInv, Inv, FileInv, EventInv
  <2>3. g \in listed /\ g \in dirDisk.segs /\ g \in Segments /\ disk[g] \in Row
    BY <2>1, <2>2 DEF PendingInv, DirectoryInv, TypeInv
  <2>4. PICK i \in Slots : Firm(g, i, E(e))
    BY <2>1, <2>2 DEF PendingInv
  <2>5. disk[g][i] = E(e) /\ \A j \in 1 .. i : disk[g][j] \in Records
    <3>1. i \in 1 .. i
      BY ConstantsAssumption DEF Slots
    <3> QED BY <2>4, <3>1 DEF Firm, Even
  <2> QED BY <2>3, <2>5, HoldsFacts, RecordFacts
<1> QED BY <1>1, WalInvHolds, PTL

\* Whatever slots of the last group a power loss keeps, loses or tears, and
\* whichever directory changes, recovery finds the torn group last and never
\* takes the directory for damaged.
THEOREM RecoveryNeverRefuses == Spec => [](OnlyHousekeepingFails => RecoveryAdmits)
<1>1. ASSUME WalInv, OnlyHousekeepingFails PROVE RecoveryAdmits
  <2>1. Inv /\ TypeInv
    BY <1>1 DEF WalInv, Inv
  <2>2. PICK x \in Segments, w, n \in 1 .. (SegSlots + 1) : Rows(x, w, n)
    BY <2>1, SomeRows
  <2> QED BY <2>1, <2>2, Admitted DEF RecoveryAdmits
<1> QED BY <1>1, WalInvHolds, PTL

-----------------------------------------------------------------------------
(* The exit summary: its files, and where a process is when it has them    *)

Files == [there : BOOLEAN, count : Nat, synced : BOOLEAN]
Services == [service : BOOLEAN, gate : BOOLEAN, admin : BOOLEAN, wal : BOOLEAN]
Outside == {"off", "opened"}
\* where the process has a WAL that takes appends and confirmations
WalRuns == {"recovered", "serving", "running", "unregistered", "gate closed", "collected", "waited",
            "stopping wal"}
\* where its summary is complete, under its name or on disk as well
Named == {"renamed", "unsummarized", "summarized", "handlers waited"}
Summarized == {"summarized", "handlers waited"}

Places == {"off", "opened", "locked", "recovering", "recovered", "serving", "running", "unregistered",
           "gate closed", "collected", "waited", "stopping wal", "wal stopped", "created", "synced",
           "renamed", "unsummarized", "summarized", "handlers waited"}

PlaceInv == place \in [Processes -> Places]

ProcessTypeInv ==
  /\ holder \in Processes \cup {Nobody} /\ alive \in Services
  /\ inside \subseteq DurableEvents /\ everLogged \subseteq DurableEvents /\ sealed \subseteq DurableEvents
  /\ outstanding \subseteq DurableEvents /\ unconfirmed \subseteq outstanding
  /\ summary \in Files /\ onDisk \in Files /\ partial \in Files /\ staleKept \in BOOLEAN

\* The lock: exactly the holder is past it.  Without a holder nothing runs, and
\* only a WAL that runs lets the outstanding events change.
LockInv ==
  /\ \A p \in Processes : place[p] \notin Outside <=> holder = p
  /\ alive.wal => holder # Nobody /\ place[holder] \in WalRuns

True(f) == f.there /\ f.count = Cardinality(outstanding)

\* Until it is renamed the summary is only a partial file; its data is synced
\* before that, and counts what is outstanding since the WAL was stopped.
PartialInv ==
  /\ \A p \in Processes : place[p] = "created" => partial.there /\ partial.count = Cardinality(outstanding)
  /\ \A p \in Processes : place[p] = "synced" => True(partial) /\ partial.synced
  /\ \A p \in Processes : place[p] = "renamed" => True(summary)
  /\ summary.synced /\ onDisk.synced

\* A summary under its name, or left by a power loss, is true while nobody can
\* change what is outstanding, and is gone before somebody can.
AtRest == holder = Nobody \/ place[holder] \in {"locked"} \cup Named
SummaryInv ==
  /\ summary.there /\ ~staleKept => True(summary) /\ AtRest
  /\ onDisk.there /\ ~staleKept => summary.there /\ True(onDisk) /\ AtRest

\* A summary whose directory was synced is the one on disk too, and stays so
\* until the next process takes the lock.
CleanInv ==
  /\ lastEnd = "clean" => holder = Nobody
  /\ (lastEnd = "clean" \/ \E p \in Processes : place[p] \in Summarized) => summary = onDisk /\ True(summary)

ExitInv == PlaceInv /\ ProcessTypeInv /\ LockInv /\ PartialInv /\ SummaryInv /\ CleanInv

-----------------------------------------------------------------------------
USE DEF file, writes, durable, Line, NoFile, NothingUp, Go, End, Files, Services, Outside,
        WalRuns, Named, Summarized, True, AtRest

\* Where a process may be, for proofs that keep Places unexpanded.
LEMMA InPlaces ==
  /\ "off" \in Places /\ "opened" \in Places /\ "locked" \in Places /\ "recovering" \in Places
  /\ "recovered" \in Places /\ "serving" \in Places /\ "running" \in Places
  /\ "unregistered" \in Places /\ "gate closed" \in Places /\ "collected" \in Places
  /\ "waited" \in Places /\ "stopping wal" \in Places /\ "wal stopped" \in Places
  /\ "created" \in Places /\ "synced" \in Places /\ "renamed" \in Places
  /\ "unsummarized" \in Places /\ "summarized" \in Places /\ "handlers waited" \in Places
BY DEF Places

\* Nobody is the name of no process, so a lock it has is free.
LEMMA Free == Nobody \notin Processes
BY ProcessAssumption

\* The set of outstanding events is finite, so its size is a number.
LEMMA Counted == ASSUME ProcessTypeInv PROVE Cardinality(outstanding) \in Nat
<1>1. IsFiniteSet(outstanding)
  BY FS_Subset, ProcessAssumption DEF ProcessTypeInv
<1> QED
  BY <1>1, FS_CardinalityType

\* The first state, with no process and nothing outstanding, satisfies the invariant.
LEMMA ProcessInitInv == ProcessInit => ExitInv
<1> SUFFICES ASSUME ProcessInit PROVE ExitInv
  OBVIOUS
<1> USE DEF ProcessInit
<1>1. PlaceInv /\ ProcessTypeInv
  BY InPlaces DEF PlaceInv, ProcessTypeInv
<1>2. LockInv
  BY Free DEF LockInv
<1>3. PartialInv /\ SummaryInv /\ CleanInv
  BY DEF PartialInv, SummaryInv, CleanInv
<1> QED
  BY <1>1, <1>2, <1>3 DEF ExitInv

\* Every step of a process keeps it: main from open to exit, the signal, the kill.
LEMMA ProcessInv ==
  ASSUME ExitInv, NEW p \in Processes, openDirectory(p) \/ MainStep(p) \/ sigterm_handler(p) \/ Kill(p)
  PROVE ExitInv'
<1> USE DEF ExitInv
<1>1. CASE openDirectory(p)
  <2> USE <1>1 DEF openDirectory
  <2>1. PlaceInv'
    BY InPlaces DEF PlaceInv
  <2>2. ProcessTypeInv'
    BY Counted DEF ProcessTypeInv
  <2>3. LockInv'
    BY Free DEF PlaceInv, ProcessTypeInv, LockInv
  <2>4. PartialInv'
    BY Free DEF PlaceInv, ProcessTypeInv, LockInv, PartialInv
  <2>5. SummaryInv'
    BY Free DEF PlaceInv, ProcessTypeInv, LockInv, PartialInv, SummaryInv, CleanInv
  <2>6. CleanInv'
    BY Free DEF PlaceInv, ProcessTypeInv, LockInv, PartialInv, SummaryInv, CleanInv
  <2> QED
    BY <2>1, <2>2, <2>3, <2>4, <2>5, <2>6
<1>2. CASE lockDirectory(p)
  <2>1. CASE Go(p, "opened", "off") /\ UNCHANGED <<holder, lastEnd>>
    <3> USE <1>2, <2>1 DEF lockDirectory
    <3>1. PlaceInv'
      BY InPlaces DEF PlaceInv
    <3>2. ProcessTypeInv'
      BY Counted DEF ProcessTypeInv
    <3>3. LockInv'
      BY Free DEF PlaceInv, ProcessTypeInv, LockInv
    <3>4. PartialInv'
      BY Free DEF PlaceInv, ProcessTypeInv, LockInv, PartialInv
    <3>5. SummaryInv'
      BY Free DEF PlaceInv, ProcessTypeInv, LockInv, PartialInv, SummaryInv, CleanInv
    <3>6. CleanInv'
      BY Free DEF PlaceInv, ProcessTypeInv, LockInv, PartialInv, SummaryInv, CleanInv
    <3> QED
      BY <3>1, <3>2, <3>3, <3>4, <3>5, <3>6
  <2>2. CASE holder = Nobody /\ Go(p, "opened", "locked") /\ holder' = p /\ lastEnd' = "none"
    <3> USE <1>2, <2>2 DEF lockDirectory
    <3>1. PlaceInv'
      BY InPlaces DEF PlaceInv
    <3>2. ProcessTypeInv'
      BY Counted DEF ProcessTypeInv
    <3>3. LockInv'
      BY Free DEF PlaceInv, ProcessTypeInv, LockInv
    <3>4. PartialInv'
      BY Free DEF PlaceInv, ProcessTypeInv, LockInv, PartialInv
    <3>5. SummaryInv'
      BY Free DEF PlaceInv, ProcessTypeInv, LockInv, PartialInv, SummaryInv, CleanInv
    <3>6. CleanInv'
      BY Free DEF PlaceInv, ProcessTypeInv, LockInv, PartialInv, SummaryInv, CleanInv
    <3> QED
      BY <3>1, <3>2, <3>3, <3>4, <3>5, <3>6
  <2> QED
    BY <1>2, <2>1, <2>2 DEF lockDirectory
<1>3. CASE RemoveSummary(p)
  <2>1. CASE ~summary.there /\ UNCHANGED <<summary, onDisk, staleKept>>
    <3> USE <1>3, <2>1 DEF RemoveSummary
    <3>1. PlaceInv'
      BY InPlaces DEF PlaceInv
    <3>2. ProcessTypeInv'
      BY Counted DEF ProcessTypeInv
    <3>3. LockInv'
      BY Free DEF PlaceInv, ProcessTypeInv, LockInv
    <3>4. PartialInv'
      BY Free DEF PlaceInv, ProcessTypeInv, LockInv, PartialInv
    <3>5. SummaryInv'
      <4>1. ~summary'.there /\ (onDisk'.there => staleKept')
        BY DEF SummaryInv
      <4> QED
        BY <4>1 DEF SummaryInv
    <3>6. CleanInv'
      BY Free DEF PlaceInv, ProcessTypeInv, LockInv, PartialInv, SummaryInv, CleanInv
    <3> QED
      BY <3>1, <3>2, <3>3, <3>4, <3>5, <3>6
  <2>2. CASE summary' = NoFile /\ onDisk' = NoFile /\ staleKept' = FALSE
    <3> USE <1>3, <2>2 DEF RemoveSummary
    <3>1. PlaceInv'
      BY InPlaces DEF PlaceInv
    <3>2. ProcessTypeInv'
      BY Counted DEF ProcessTypeInv
    <3>3. LockInv'
      BY Free DEF PlaceInv, ProcessTypeInv, LockInv
    <3>4. PartialInv'
      BY Free DEF PlaceInv, ProcessTypeInv, LockInv, PartialInv
    <3>5. SummaryInv'
      BY Free DEF PlaceInv, ProcessTypeInv, LockInv, PartialInv, SummaryInv, CleanInv
    <3>6. CleanInv'
      BY Free DEF PlaceInv, ProcessTypeInv, LockInv, PartialInv, SummaryInv, CleanInv
    <3> QED
      BY <3>1, <3>2, <3>3, <3>4, <3>5, <3>6
  <2>3. CASE staleKept' = TRUE /\ summary' = summary /\ UNCHANGED onDisk
    <3> USE <1>3, <2>3 DEF RemoveSummary
    <3>1. PlaceInv'
      BY InPlaces DEF PlaceInv
    <3>2. ProcessTypeInv'
      BY Counted DEF ProcessTypeInv
    <3>3. LockInv'
      BY Free DEF PlaceInv, ProcessTypeInv, LockInv
    <3>4. PartialInv'
      BY Free DEF PlaceInv, ProcessTypeInv, LockInv, PartialInv
    <3>5. SummaryInv'
      BY Free DEF PlaceInv, ProcessTypeInv, LockInv, PartialInv, SummaryInv, CleanInv
    <3>6. CleanInv'
      BY Free DEF PlaceInv, ProcessTypeInv, LockInv, PartialInv, SummaryInv, CleanInv
    <3> QED
      BY <3>1, <3>2, <3>3, <3>4, <3>5, <3>6
  <2>4. CASE staleKept' = TRUE /\ summary' = NoFile /\ UNCHANGED onDisk
    <3> USE <1>3, <2>4 DEF RemoveSummary
    <3>1. PlaceInv'
      BY InPlaces DEF PlaceInv
    <3>2. ProcessTypeInv'
      BY Counted DEF ProcessTypeInv
    <3>3. LockInv'
      BY Free DEF PlaceInv, ProcessTypeInv, LockInv
    <3>4. PartialInv'
      BY Free DEF PlaceInv, ProcessTypeInv, LockInv, PartialInv
    <3>5. SummaryInv'
      BY Free DEF PlaceInv, ProcessTypeInv, LockInv, PartialInv, SummaryInv, CleanInv
    <3>6. CleanInv'
      BY Free DEF PlaceInv, ProcessTypeInv, LockInv, PartialInv, SummaryInv, CleanInv
    <3> QED
      BY <3>1, <3>2, <3>3, <3>4, <3>5, <3>6
  <2> QED
    BY <1>3, <2>1, <2>2, <2>3, <2>4 DEF RemoveSummary
<1>4. CASE replayRecoveredEvents(p)
  <2>1. CASE End(p, "refused") /\ UNCHANGED <<outstanding, sealed>>
    <3> USE <1>4, <2>1 DEF replayRecoveredEvents
    <3>1. PlaceInv'
      BY InPlaces DEF PlaceInv
    <3>2. ProcessTypeInv'
      BY Counted DEF ProcessTypeInv
    <3>3. LockInv'
      BY Free DEF PlaceInv, ProcessTypeInv, LockInv
    <3>4. PartialInv'
      BY Free DEF PlaceInv, ProcessTypeInv, LockInv, PartialInv
    <3>5. SummaryInv'
      BY Free DEF PlaceInv, ProcessTypeInv, LockInv, PartialInv, SummaryInv, CleanInv
    <3>6. CleanInv'
      BY Free DEF PlaceInv, ProcessTypeInv, LockInv, PartialInv, SummaryInv, CleanInv
    <3> QED
      BY <3>1, <3>2, <3>3, <3>4, <3>5, <3>6
  <2>2. CASE Go(p, "recovering", "recovered") /\ sealed' = outstanding' /\ alive' = [alive EXCEPT !.wal = TRUE] /\ UNCHANGED <<holder, inside, lastEnd>>
    <3> USE <1>4, <2>2 DEF replayRecoveredEvents
    <3>1. PlaceInv'
      BY InPlaces DEF PlaceInv
    <3>2. ProcessTypeInv'
      BY Counted DEF ProcessTypeInv
    <3>3. LockInv'
      BY Free DEF PlaceInv, ProcessTypeInv, LockInv
    <3>4. PartialInv'
      BY Free DEF PlaceInv, ProcessTypeInv, LockInv, PartialInv
    <3>5. SummaryInv'
      BY Free DEF PlaceInv, ProcessTypeInv, LockInv, PartialInv, SummaryInv, CleanInv
    <3>6. CleanInv'
      BY Free DEF PlaceInv, ProcessTypeInv, LockInv, PartialInv, SummaryInv, CleanInv
    <3> QED
      BY <3>1, <3>2, <3>3, <3>4, <3>5, <3>6
  <2> QED
    BY <1>4, <2>1, <2>2 DEF replayRecoveredEvents
<1>5. CASE CreateServices(p)
  <2> USE <1>5 DEF CreateServices
  <2>1. PlaceInv'
    BY InPlaces DEF PlaceInv
  <2>2. ProcessTypeInv'
    BY Counted DEF ProcessTypeInv
  <2>3. LockInv'
    BY Free DEF PlaceInv, ProcessTypeInv, LockInv
  <2>4. PartialInv'
    BY Free DEF PlaceInv, ProcessTypeInv, LockInv, PartialInv
  <2>5. SummaryInv'
    BY Free DEF PlaceInv, ProcessTypeInv, LockInv, PartialInv, SummaryInv, CleanInv
  <2>6. CleanInv'
    BY Free DEF PlaceInv, ProcessTypeInv, LockInv, PartialInv, SummaryInv, CleanInv
  <2> QED
    BY <2>1, <2>2, <2>3, <2>4, <2>5, <2>6
<1>6. CASE send_register_msg(p)
  <2> USE <1>6 DEF send_register_msg
  <2>1. PlaceInv'
    BY InPlaces DEF PlaceInv
  <2>2. ProcessTypeInv'
    BY Counted DEF ProcessTypeInv
  <2>3. LockInv'
    BY Free DEF PlaceInv, ProcessTypeInv, LockInv
  <2>4. PartialInv'
    BY Free DEF PlaceInv, ProcessTypeInv, LockInv, PartialInv
  <2>5. SummaryInv'
    BY Free DEF PlaceInv, ProcessTypeInv, LockInv, PartialInv, SummaryInv, CleanInv
  <2>6. CleanInv'
    BY Free DEF PlaceInv, ProcessTypeInv, LockInv, PartialInv, SummaryInv, CleanInv
  <2> QED
    BY <2>1, <2>2, <2>3, <2>4, <2>5, <2>6
<1>7. CASE GiveUpRegistration(p)
  <2>1. CASE Go(p, "serving", "stopping wal") /\ alive' = [alive EXCEPT !.service = FALSE, !.admin = FALSE] /\ UNCHANGED <<holder, inside, lastEnd>>
    <3> USE <1>7, <2>1 DEF GiveUpRegistration
    <3>1. PlaceInv'
      BY InPlaces DEF PlaceInv
    <3>2. ProcessTypeInv'
      BY Counted DEF ProcessTypeInv
    <3>3. LockInv'
      BY Free DEF PlaceInv, ProcessTypeInv, LockInv
    <3>4. PartialInv'
      BY Free DEF PlaceInv, ProcessTypeInv, LockInv, PartialInv
    <3>5. SummaryInv'
      BY Free DEF PlaceInv, ProcessTypeInv, LockInv, PartialInv, SummaryInv, CleanInv
    <3>6. CleanInv'
      BY Free DEF PlaceInv, ProcessTypeInv, LockInv, PartialInv, SummaryInv, CleanInv
    <3> QED
      BY <3>1, <3>2, <3>3, <3>4, <3>5, <3>6
  <2>2. CASE End(p, "crashed")
    <3> USE <1>7, <2>2 DEF GiveUpRegistration
    <3>1. PlaceInv'
      BY InPlaces DEF PlaceInv
    <3>2. ProcessTypeInv'
      BY Counted DEF ProcessTypeInv
    <3>3. LockInv'
      BY Free DEF PlaceInv, ProcessTypeInv, LockInv
    <3>4. PartialInv'
      BY Free DEF PlaceInv, ProcessTypeInv, LockInv, PartialInv
    <3>5. SummaryInv'
      BY Free DEF PlaceInv, ProcessTypeInv, LockInv, PartialInv, SummaryInv, CleanInv
    <3>6. CleanInv'
      BY Free DEF PlaceInv, ProcessTypeInv, LockInv, PartialInv, SummaryInv, CleanInv
    <3> QED
      BY <3>1, <3>2, <3>3, <3>4, <3>5, <3>6
  <2> QED
    BY <1>7, <2>1, <2>2 DEF GiveUpRegistration
<1>8. CASE ShutdownStep(p)
  <2> USE <1>8 DEF ShutdownStep, send_unregister_msg, stopAcceptingWrites, shutdownDataCollection, waitUntilDurable, deleteDataAdminService, waitForWriteHandlers
  <2>1. PlaceInv'
    BY InPlaces DEF PlaceInv
  <2>2. ProcessTypeInv'
    BY Counted DEF ProcessTypeInv
  <2>3. LockInv'
    BY Free DEF PlaceInv, ProcessTypeInv, LockInv
  <2>4. PartialInv'
    BY Free DEF PlaceInv, ProcessTypeInv, LockInv, PartialInv
  <2>5. SummaryInv'
    BY Free DEF PlaceInv, ProcessTypeInv, LockInv, PartialInv, SummaryInv, CleanInv
  <2>6. CleanInv'
    BY Free DEF PlaceInv, ProcessTypeInv, LockInv, PartialInv, SummaryInv, CleanInv
  <2> QED
    BY <2>1, <2>2, <2>3, <2>4, <2>5, <2>6
<1>9. CASE stop_keeper_wal(p)
  <2> USE <1>9 DEF stop_keeper_wal, Commit
  <2>1. PlaceInv'
    BY InPlaces DEF PlaceInv
  <2>2. ProcessTypeInv'
    BY Counted DEF ProcessTypeInv
  <2>3. LockInv'
    BY Free DEF PlaceInv, ProcessTypeInv, LockInv
  <2>4. PartialInv'
    BY Free DEF PlaceInv, ProcessTypeInv, LockInv, PartialInv
  <2>5. SummaryInv'
    BY Free DEF PlaceInv, ProcessTypeInv, LockInv, PartialInv, SummaryInv, CleanInv
  <2>6. CleanInv'
    BY Free DEF PlaceInv, ProcessTypeInv, LockInv, PartialInv, SummaryInv, CleanInv
  <2> QED
    BY <2>1, <2>2, <2>3, <2>4, <2>5, <2>6
<1>10. CASE write_wal_exit_summary(p)
  <2>1. CASE CreatePartial(p) /\ UNCHANGED staleKept
    <3> USE <1>10, <2>1 DEF write_wal_exit_summary, CreatePartial
    <3>1. PlaceInv'
      BY InPlaces DEF PlaceInv
    <3>2. ProcessTypeInv'
      BY Counted DEF ProcessTypeInv
    <3>3. LockInv'
      BY Free DEF PlaceInv, ProcessTypeInv, LockInv
    <3>4. PartialInv'
      BY Free DEF PlaceInv, ProcessTypeInv, LockInv, PartialInv
    <3>5. SummaryInv'
      BY Free DEF PlaceInv, ProcessTypeInv, LockInv, PartialInv, SummaryInv, CleanInv
    <3>6. CleanInv'
      BY Free DEF PlaceInv, ProcessTypeInv, LockInv, PartialInv, SummaryInv, CleanInv
    <3> QED
      BY <3>1, <3>2, <3>3, <3>4, <3>5, <3>6
  <2>2. CASE SyncPartial(p) /\ UNCHANGED staleKept
    <3> USE <1>10, <2>2 DEF write_wal_exit_summary, SyncPartial
    <3>1. PlaceInv'
      BY InPlaces DEF PlaceInv
    <3>2. ProcessTypeInv'
      BY Counted DEF ProcessTypeInv
    <3>3. LockInv'
      BY Free DEF PlaceInv, ProcessTypeInv, LockInv
    <3>4. PartialInv'
      BY Free DEF PlaceInv, ProcessTypeInv, LockInv, PartialInv
    <3>5. SummaryInv'
      BY Free DEF PlaceInv, ProcessTypeInv, LockInv, PartialInv, SummaryInv, CleanInv
    <3>6. CleanInv'
      BY Free DEF PlaceInv, ProcessTypeInv, LockInv, PartialInv, SummaryInv, CleanInv
    <3> QED
      BY <3>1, <3>2, <3>3, <3>4, <3>5, <3>6
  <2>3. CASE RenamePartial(p) /\ UNCHANGED staleKept
    <3> USE <1>10, <2>3 DEF write_wal_exit_summary, RenamePartial
    <3>1. PlaceInv'
      BY InPlaces DEF PlaceInv
    <3>2. ProcessTypeInv'
      BY Counted DEF ProcessTypeInv
    <3>3. LockInv'
      BY Free DEF PlaceInv, ProcessTypeInv, LockInv
    <3>4. PartialInv'
      BY Free DEF PlaceInv, ProcessTypeInv, LockInv, PartialInv
    <3>5. SummaryInv'
      BY Free DEF PlaceInv, ProcessTypeInv, LockInv, PartialInv, SummaryInv, CleanInv
    <3>6. CleanInv'
      BY Free DEF PlaceInv, ProcessTypeInv, LockInv, PartialInv, SummaryInv, CleanInv
    <3> QED
      BY <3>1, <3>2, <3>3, <3>4, <3>5, <3>6
  <2>4. CASE SyncSummaryName(p)
    <3> USE <1>10, <2>4 DEF write_wal_exit_summary, SyncSummaryName
    <3>0. holder = p /\ place[p] = "renamed" /\ place'[p] = "summarized" /\ True(summary)
      BY DEF PlaceInv, LockInv, PartialInv
    <3>1. PlaceInv'
      BY InPlaces DEF PlaceInv
    <3>2. ProcessTypeInv'
      BY Counted DEF ProcessTypeInv
    <3>3. LockInv'
      BY Free DEF PlaceInv, ProcessTypeInv, LockInv
    <3>4. PartialInv'
      BY Free DEF PlaceInv, ProcessTypeInv, LockInv, PartialInv
    <3>5. SummaryInv'
      BY <3>0, Free DEF PlaceInv, SummaryInv
    <3>6. CleanInv'
      BY <3>0, Free DEF PlaceInv, LockInv, CleanInv
    <3> QED
      BY <3>1, <3>2, <3>3, <3>4, <3>5, <3>6
  <2> QED
    BY <1>10, <2>1, <2>2, <2>3, <2>4 DEF write_wal_exit_summary
<1>11. CASE SummaryFails(p)
  <2> USE <1>11 DEF SummaryFails
  <2>1. PlaceInv'
    BY InPlaces DEF PlaceInv
  <2>2. ProcessTypeInv'
    BY Counted DEF ProcessTypeInv
  <2>3. LockInv'
    BY Free DEF PlaceInv, ProcessTypeInv, LockInv
  <2>4. PartialInv'
    BY Free DEF PlaceInv, ProcessTypeInv, LockInv, PartialInv
  <2>5. SummaryInv'
    BY Free DEF PlaceInv, ProcessTypeInv, LockInv, PartialInv, SummaryInv, CleanInv
  <2>6. CleanInv'
    BY Free DEF PlaceInv, ProcessTypeInv, LockInv, PartialInv, SummaryInv, CleanInv
  <2> QED
    BY <2>1, <2>2, <2>3, <2>4, <2>5, <2>6
<1>12. CASE EndMain(p)
  <2> USE <1>12 DEF EndMain
  <2>1. PlaceInv'
    BY InPlaces DEF PlaceInv
  <2>2. ProcessTypeInv'
    BY Counted DEF ProcessTypeInv
  <2>3. LockInv'
    BY Free DEF PlaceInv, ProcessTypeInv, LockInv
  <2>4. PartialInv'
    BY Free DEF PlaceInv, ProcessTypeInv, LockInv, PartialInv
  <2>5. SummaryInv'
    BY Free DEF PlaceInv, ProcessTypeInv, LockInv, PartialInv, SummaryInv, CleanInv
  <2>6. CleanInv'
    BY Free DEF PlaceInv, ProcessTypeInv, LockInv, PartialInv, SummaryInv, CleanInv
  <2> QED
    BY <2>1, <2>2, <2>3, <2>4, <2>5, <2>6
<1>13. CASE sigterm_handler(p)
  <2> USE <1>13 DEF sigterm_handler
  <2>1. PlaceInv'
    BY InPlaces DEF PlaceInv
  <2>2. ProcessTypeInv'
    BY Counted DEF ProcessTypeInv
  <2>3. LockInv'
    BY Free DEF PlaceInv, ProcessTypeInv, LockInv
  <2>4. PartialInv'
    BY Free DEF PlaceInv, ProcessTypeInv, LockInv, PartialInv
  <2>5. SummaryInv'
    BY Free DEF PlaceInv, ProcessTypeInv, LockInv, PartialInv, SummaryInv, CleanInv
  <2>6. CleanInv'
    BY Free DEF PlaceInv, ProcessTypeInv, LockInv, PartialInv, SummaryInv, CleanInv
  <2> QED
    BY <2>1, <2>2, <2>3, <2>4, <2>5, <2>6
<1>14. CASE Kill(p)
  <2>1. CASE holder = p /\ End(p, "crashed")
    <3> USE <1>14, <2>1 DEF Kill
    <3>1. PlaceInv'
      BY InPlaces DEF PlaceInv
    <3>2. ProcessTypeInv'
      BY Counted DEF ProcessTypeInv
    <3>3. LockInv'
      BY Free DEF PlaceInv, ProcessTypeInv, LockInv
    <3>4. PartialInv'
      BY Free DEF PlaceInv, ProcessTypeInv, LockInv, PartialInv
    <3>5. SummaryInv'
      BY Free DEF PlaceInv, ProcessTypeInv, LockInv, PartialInv, SummaryInv, CleanInv
    <3>6. CleanInv'
      BY Free DEF PlaceInv, ProcessTypeInv, LockInv, PartialInv, SummaryInv, CleanInv
    <3> QED
      BY <3>1, <3>2, <3>3, <3>4, <3>5, <3>6
  <2>2. CASE Go(p, "opened", "off") /\ UNCHANGED <<holder, alive, inside, lastEnd>>
    <3> USE <1>14, <2>2 DEF Kill
    <3>1. PlaceInv'
      BY InPlaces DEF PlaceInv
    <3>2. ProcessTypeInv'
      BY Counted DEF ProcessTypeInv
    <3>3. LockInv'
      BY Free DEF PlaceInv, ProcessTypeInv, LockInv
    <3>4. PartialInv'
      BY Free DEF PlaceInv, ProcessTypeInv, LockInv, PartialInv
    <3>5. SummaryInv'
      BY Free DEF PlaceInv, ProcessTypeInv, LockInv, PartialInv, SummaryInv, CleanInv
    <3>6. CleanInv'
      BY Free DEF PlaceInv, ProcessTypeInv, LockInv, PartialInv, SummaryInv, CleanInv
    <3> QED
      BY <3>1, <3>2, <3>3, <3>4, <3>5, <3>6
  <2> QED
    BY <1>14, <2>1, <2>2 DEF Kill
<1> QED
  BY <1>1, <1>2, <1>3, <1>4, <1>5, <1>6, <1>7, <1>8, <1>9, <1>10, <1>11, <1>12, <1>13, <1>14 DEF MainStep, StartStep

\* Every step that moves events through the keeper keeps it.
LEMMA ServiceInv == ASSUME ExitInv, ServiceStep PROVE ExitInv'
<1> USE DEF ExitInv
<1>1. PICK e \in DurableEvents :
        EnterWrite(e) \/ appendDurable(e) \/ collectEvent(e) \/ leaveWrite(e) \/ applyReport(e)
  BY DEF ServiceStep
<1>2. UNCHANGED <<place, keepRunning, holder, attempts, file, lastEnd, staleKept, alive>>
  BY <1>1 DEF ServiceStep, EnterWrite, appendDurable, collectEvent, leaveWrite, applyReport
<1>3. /\ inside' \subseteq DurableEvents /\ everLogged' \subseteq DurableEvents /\ sealed' \subseteq DurableEvents
      /\ outstanding' \subseteq DurableEvents /\ unconfirmed' \subseteq outstanding'
  BY <1>1 DEF ProcessTypeInv, EnterWrite, appendDurable, Commit, collectEvent, leaveWrite, applyReport
<1>4. PlaceInv' /\ ProcessTypeInv' /\ LockInv'
  <2>1. PlaceInv'
    BY <1>2 DEF PlaceInv
  <2>2. ProcessTypeInv'
    BY <1>2, <1>3 DEF ProcessTypeInv
  <2>3. LockInv'
    BY <1>2 DEF LockInv
  <2> QED
    BY <2>1, <2>2, <2>3
<1>5. CASE UNCHANGED outstanding
  BY <1>2, <1>4, <1>5 DEF PartialInv, SummaryInv, CleanInv
<1>6. CASE alive.wal
  <2>1. holder \in Processes /\ place[holder] \in WalRuns
    BY <1>6, Free DEF LockInv, ProcessTypeInv
  <2>2. \A p \in Processes : place[p] \in Outside \cup WalRuns
    BY <2>1 DEF LockInv
  <2>3. PartialInv' /\ CleanInv'
    BY <1>2, <2>1, <2>2, Free DEF PartialInv, CleanInv
  <2>4. SummaryInv'
    BY <1>2, <2>1, Free DEF SummaryInv
  <2> QED
    BY <1>4, <2>3, <2>4
<1> QED
  BY <1>1, <1>5, <1>6 DEF EnterWrite, appendDurable, collectEvent, leaveWrite, applyReport

\* A power loss, which takes every process and its lock with it, keeps it.
LEMMA LosePowerInv == ASSUME ExitInv, LosePower PROVE ExitInv'
<1> USE DEF ExitInv
<1>1. PICK kept \in {summary, onDisk} : summary' = kept /\ onDisk' = kept
  BY DEF LosePower, PartialInv
<1>2. PlaceInv'
  BY InPlaces DEF LosePower, PlaceInv
<1>3. ProcessTypeInv'
  BY <1>1 DEF LosePower, ProcessTypeInv
<1>4. LockInv' /\ PartialInv'
  BY <1>1, Free DEF LosePower, LockInv, PartialInv
<1>5. SummaryInv'
  BY <1>1 DEF LosePower, SummaryInv
<1>6. CleanInv'
  <2>1. ASSUME lastEnd' = "clean" PROVE summary = onDisk /\ True(summary)
    BY <2>1 DEF LosePower, CleanInv
  <2> QED
    BY <1>1, <2>1 DEF LosePower, CleanInv
<1> QED
  BY <1>2, <1>3, <1>4, <1>5, <1>6

\* A step that changes nothing keeps it.
LEMMA StutterInv == ASSUME ExitInv, UNCHANGED processVars PROVE ExitInv'
<1> USE DEF ExitInv, processVars
<1>1. PlaceInv'
  BY DEF PlaceInv
<1>2. ProcessTypeInv'
  BY DEF ProcessTypeInv
<1>3. LockInv'
  BY DEF LockInv
<1>4. PartialInv'
  BY DEF PartialInv
<1>5. SummaryInv' /\ CleanInv'
  BY DEF SummaryInv, CleanInv
<1> QED
  BY <1>1, <1>2, <1>3, <1>4, <1>5

\* Every reachable state satisfies the invariant.
LEMMA InductiveInv == ProcessSpec => []ExitInv
<1>1. ExitInv /\ [ProcessNext]_processVars => ExitInv'
  BY ProcessInv, ServiceInv, LosePowerInv, StutterInv DEF ProcessNext
<1> QED
  BY ProcessInitInv, <1>1, PTL DEF ProcessSpec

\* An exit summary found while no keeper has the directory counts what the WAL
\* had outstanding, with every event the grapher has not confirmed, and a clean
\* end leaves one: write_wal_exit_summary and the lock suffice, whatever
\* signals, kills and losses of power came between.
THEOREM SummaryTrue == ProcessSpec => []SummaryIsTrue
<1>1. ExitInv => SummaryIsTrue
  BY DEF ExitInv, ProcessTypeInv, SummaryInv, CleanInv, SummaryIsTrue, CountsWal
<1> QED
  BY InductiveInv, <1>1, PTL
=============================================================================
