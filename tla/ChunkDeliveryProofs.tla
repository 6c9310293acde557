------------------------- MODULE ChunkDeliveryProofs -------------------------
(***************************************************************************)
(* Proofs that nothing a keeper sealed is lost or deleted twice on its way *)
(* to the archive, for any chunks, sizes, streams, faults and restarts.    *)
(***************************************************************************)
EXTENDS ChunkDelivery, FiniteSetTheorems, SequenceTheorems, NaturalsInduction, TLAPS

-----------------------------------------------------------------------------
(* The invariants                                                          *)

LastWindow == Horizon + 2
Transfers == [at : {"none", "failed", "acked"}, inst : Nat, n : Nat]
Deliveries == [inst : Nat, n : Nat, c : Chunks]
Windows == [win : 1 .. LastWindow, evs : SUBSET Events, rec : SUBSET Nat]
Entries == [known : BOOLEAN, anchor : Nat, w : Nat, writeFailed : BOOLEAN, parked : SUBSET Nat]

ScenarioInv == scenario \in Scenarios

\* A chunk in the extraction queue, or in a drain thread's hands
InQueue(c) == \E i \in DOMAIN queue : queue[i] = c
Moving(c) == InQueue(c) \/ transfer[c].at # "none"

KeeperType ==
  /\ sealed \subseteq Chunks /\ tracked \subseteq sealed /\ freed \subseteq sealed
  /\ chunk \in [Chunks -> ChunkStates] /\ queue \in Seq(Chunks)
  /\ transfer \in [Chunks -> Transfers]

\* Whoever moves a chunk has it alone.
MovedOnce ==
  /\ \A i, j \in DOMAIN queue : queue[i] = queue[j] => i = j
  /\ \A c \in Chunks : InQueue(c) => transfer[c].at = "none"

\* Somebody owns a sealed chunk until it is deleted.
Owned(c) ==
  /\ Moving(c) => c \in sealed /\ c \notin freed
  /\ c \in tracked => c \notin freed /\ (chunk[c].inQueue <=> Moving(c))
  /\ c \in sealed /\ c \notin tracked => (c \in freed <=> ~Moving(c))

CustodyInv == MovedOnce /\ \A c \in Chunks : Owned(c)

\* The pipeline's windows are consecutive, and the ones on their way to the
\* archive are windows of it.
WindowType ==
  /\ \E lo, hi \in 1 .. LastWindow : DOMAIN timeline \in {{}, lo .. hi}
  /\ \A k \in DOMAIN timeline : timeline[k] \in [evs : SUBSET Events, rec : SUBSET Nat]
  /\ extraction \in Seq(Windows)
  /\ settling \subseteq [win : 1 .. LastWindow, rec : SUBSET Nat]
  /\ persisted \subseteq 1 .. LastWindow

\* W, and what has been written beyond it
WatermarkInv ==
  /\ entry \in Entries /\ failedEarly \in BOOLEAN
  /\ ~entry.known => persisted = {}
  /\ entry.known /\ entry.w # DropWatermark =>
       /\ entry.w <= LastWindow + 1
       /\ \A k \in entry.anchor .. (entry.w - 1) : k \in persisted \cup covered
       /\ entry.w \notin persisted
       /\ entry.parked = {k \in persisted : k > entry.w}

\* Receipts are given out once, for one chunk each.
ReceiptInv ==
  /\ instance \in Nat /\ 1 <= instance /\ lastReceipt \in Nat /\ lastAssigned \in 0 .. lastReceipt
  /\ deliveries \subseteq Deliveries
  /\ \A d \in deliveries : /\ 1 <= d.inst /\ d.inst <= instance /\ 1 <= d.n
                           /\ d.inst = instance => d.n <= lastReceipt
  /\ \A d, e \in deliveries : d.inst = e.inst /\ d.n = e.n => d = e
  /\ \A n \in 1 .. lastReceipt : \E d \in deliveries : d.inst = instance /\ d.n = n
  /\ arrived \subseteq 1 .. lastReceipt /\ DOMAIN pending \subseteq 1 .. lastReceipt

Written(c) == EventsOf(c) \subseteq archive

\* What v says of a receipt of its grapher process is true.
Truthful(v) ==
  \A d \in deliveries : d.inst = v.inst /\ d.n <= v.highest /\ d.n \notin v.pending => Written(d.c)

\* What a keeper knows, and will hear, is of grapher processes that were
ViewInv ==
  /\ view \in [inst : Nat, highest : Nat, pending : SUBSET Nat]
  /\ view.inst <= instance /\ (view.inst = instance => view.highest <= lastReceipt)
ReportInv ==
  \A r \in reports :
    /\ r \in [inst : Nat, w : Nat, highest : Nat, pending : SUBSET Nat, failed : BOOLEAN]
    /\ r.inst <= instance /\ (r.inst = instance => r.highest <= lastReceipt)

\* The ack of a chunk names a receipt given for it.
AckInv ==
  \A c \in Chunks : transfer[c].at = "acked" => [inst |-> transfer[c].inst, n |-> transfer[c].n, c |-> c] \in deliveries
ShipInv ==
  \A c \in Chunks : chunk[c].shipped => [inst |-> chunk[c].inst, n |-> chunk[c].receipt, c |-> c] \in deliveries

KeeperInv == ViewInv /\ ReportInv /\ AckInv /\ ShipInv

\* While the story is not destroyed a chunk leaves the keeper only when it is
\* confirmed, and every view of the receipts is true.
TruthInv ==
  /\ ~droppedHere
  /\ \A c \in Chunks : Moving(c) => c \in tracked
  /\ \A r \in reports : r.w # DropWatermark /\ Truthful(r)
  /\ Truthful(view)
  /\ \A c \in freed \cup released : Written(c)

\* Window k holds receipt n: in the timeline, on its way to the archive, or
\* written and not let go yet.
InTimeline(k, n) == k \in DOMAIN timeline /\ n \in timeline[k].rec
InExtraction(k, n) == \E i \in DOMAIN extraction : extraction[i].win = k /\ n \in extraction[i].rec
InSettling(k, n) == \E x \in settling : x.win = k /\ n \in x.rec
Holds(k, n) == InTimeline(k, n) \/ InExtraction(k, n) \/ InSettling(k, n)

\* The windows of a chunk that keep its receipt n from settling
Unsettled(n) == {k \in Span[ChunkOf(n)] : <<ChunkOf(n), k>> \notin archive \/ Holds(k, n)}

\* A window that holds a receipt is one of its chunk's, has the event, and
\* holds it in one place.
Rightly(k, n) == n \in 1 .. lastReceipt /\ n \notin arrived /\ k \in Span[ChunkOf(n)]
TimelineHolders ==
  \A k \in DOMAIN timeline : \A n \in timeline[k].rec :
    /\ Rightly(k, n) /\ <<ChunkOf(n), k>> \in timeline[k].evs
    /\ ~InExtraction(k, n) /\ ~InSettling(k, n)
ExtractionHolders ==
  \A i \in DOMAIN extraction : \A n \in extraction[i].rec :
    /\ Rightly(extraction[i].win, n) /\ <<ChunkOf(n), extraction[i].win>> \in extraction[i].evs
    /\ ~InSettling(extraction[i].win, n)
    /\ \A j \in DOMAIN extraction : n \in extraction[j].rec /\ extraction[j].win = extraction[i].win => i = j
SettlingHolders ==
  \A x \in settling : \A n \in x.rec :
    /\ Rightly(x.win, n) /\ <<ChunkOf(n), x.win>> \in archive
    /\ \A y \in settling : n \in y.rec /\ y.win = x.win => x = y
HolderInv == TimelineHolders /\ ExtractionHolders /\ SettlingHolders

Counts == [holders : Nat, merged : BOOLEAN]

\* A receipt of a merged chunk counts at least the windows that keep it.
CountInv ==
  \A n \in DOMAIN pending :
    /\ pending[n] \in Counts
    /\ n \in arrived => pending[n].holders = 0 /\ ~pending[n].merged
    /\ pending[n].merged => Cardinality(Unsettled(n)) <= pending[n].holders

\* A receipt that is no longer pending is of a chunk that is written.
PendingInv ==
  /\ ~tombstone /\ ~dropped /\ entry.w # DropWatermark
  /\ arrived \subseteq DOMAIN pending
  /\ \A d \in deliveries : d.inst = instance /\ d.n \notin DOMAIN pending => Written(d.c)

HeldInv == HolderInv /\ CountInv /\ PendingInv
LiveInv == TruthInv /\ HeldInv

GrapherInv == WindowType /\ WatermarkInv /\ ReceiptInv
Inv ==
  /\ ScenarioInv /\ KeeperType /\ CustodyInv /\ GrapherInv /\ KeeperInv
  /\ ~destroyed => LiveInv

-----------------------------------------------------------------------------
(* Numbers, sequences and the scenario                                     *)

\* A set of numbers that is not empty has a least element, the one Min picks.
LEMMA MinIn ==
  ASSUME NEW S \in SUBSET Nat, S # {}
  PROVE  Min(S) \in S /\ \A y \in S : Min(S) <= y
<1>1. PICK m \in S : \A y \in S : ~(<<y, m>> \in OpToRel(<, Nat))
  BY WFMin, NatLessThanWellFounded
<1>2. ASSUME NEW y \in S PROVE m <= y
  <2>1. y \in Nat /\ m \in Nat
    OBVIOUS
  <2>2. ASSUME y < m PROVE FALSE
    <3>1. <<y, m>> \in OpToRel(<, Nat)
      BY <2>1, <2>2 DEF OpToRel
    <3> QED BY <1>1, <3>1
  <2> QED BY <2>1, <2>2
<1> QED BY <1>2 DEF Min

\* A bounded set of numbers that is not empty has a largest, the one Max picks.
LEMMA MaxIn ==
  ASSUME NEW h \in Nat, NEW S \in SUBSET (0 .. h), S # {}
  PROVE  Max(S) \in S /\ \A y \in S : Max(S) >= y
<1> DEFINE T == {h - y : y \in S}
<1>1. \A y \in S : y \in Nat /\ h - y \in Nat
  OBVIOUS
<1>2. T \in SUBSET Nat /\ T # {}
  BY <1>1
<1>3. PICK t \in T : \A u \in T : t <= u
  <2> HIDE DEF T
  <2> QED BY <1>2, MinIn
<1>4. PICK m \in S : t = h - m
  OBVIOUS
<1>5. ASSUME NEW y \in S PROVE m >= y
  <2>1. h - m <= h - y
    BY <1>3, <1>4
  <2> QED BY <1>1, <2>1
<1> QED BY <1>5 DEF Max

\* The larger of two numbers
LEMMA MaxPair ==
  ASSUME NEW a \in Nat, NEW b \in Nat
  PROVE  Max({a, b}) = IF a >= b THEN a ELSE b
BY DEF Max

\* The smaller of two numbers
LEMMA MinPair ==
  ASSUME NEW a \in Nat, NEW b \in Nat
  PROVE  Min({a, b}) = IF a <= b THEN a ELSE b
BY DEF Min

\* The ends of an interval
LEMMA Ends ==
  ASSUME NEW a \in Nat, NEW b \in Nat, a <= b
  PROVE  Min(a .. b) = a /\ Max(a .. b) = b
<1>1. a \in a .. b /\ b \in a .. b /\ \A y \in a .. b : a <= y /\ b >= y
  OBVIOUS
<1>2. \A x \in a .. b : (\A y \in a .. b : x <= y) => x = a
  BY <1>1
<1>3. \A x \in a .. b : (\A y \in a .. b : x >= y) => x = b
  BY <1>1
<1> QED BY <1>1, <1>2, <1>3 DEF Min, Max

\* Where the element now at j was before the one at i was removed
Skip(i, j) == IF j < i THEN j ELSE j + 1

\* What RemoveAt leaves of a sequence
LEMMA Removed ==
  ASSUME NEW S, NEW s \in Seq(S), NEW i \in DOMAIN s, NEW t, t = RemoveAt(s, i)
  PROVE  /\ t \in Seq(S)
         /\ \A j \in DOMAIN t : t[j] = s[Skip(i, j)] /\ Skip(i, j) \in DOMAIN s /\ Skip(i, j) # i
         /\ \A j, l \in DOMAIN t : Skip(i, j) = Skip(i, l) => j = l
         /\ \A j \in DOMAIN s : j # i => \E l \in DOMAIN t : Skip(i, l) = j
<1> DEFINE a == SubSeq(s, 1, i - 1)
           b == SubSeq(s, i + 1, Len(s))
<1>1. Len(s) \in Nat /\ DOMAIN s = 1 .. Len(s) /\ i \in 1 .. Len(s) /\ \A j \in 1 .. Len(s) : s[j] \in S
  BY LenProperties, ElementOfSeq
<1>2. a \in Seq(S) /\ Len(a) = i - 1 /\ \A j \in 1 .. (i - 1) : a[j] = s[j]
  BY <1>1, SubSeqProperties
<1>3. b \in Seq(S) /\ Len(b) = Len(s) - i /\ \A j \in 1 .. (Len(s) - i) : b[j] = s[i + j]
  <2>1. \A j \in (i + 1) .. Len(s) : s[j] \in S
    BY <1>1
  <2>2. /\ b \in Seq(S) /\ Len(b) = IF i + 1 <= Len(s) THEN Len(s) - (i + 1) + 1 ELSE 0
        /\ \A j \in 1 .. (Len(s) - (i + 1) + 1) : b[j] = s[(i + 1) + j - 1]
    BY <1>1, <2>1, SubSeqProperties
  <2> HIDE DEF b
  <2>3. Len(b) = Len(s) - i
    BY <1>1, <2>2
  <2>4. ASSUME NEW j \in 1 .. (Len(s) - i) PROVE b[j] = s[i + j]
    <3>1. j \in 1 .. (Len(s) - (i + 1) + 1) /\ (i + 1) + j - 1 = i + j
      BY <1>1
    <3> QED BY <2>2, <3>1
  <2> QED BY <2>2, <2>3, <2>4
<1> HIDE DEF a, b
<1>4. t = a \o b
  BY DEF RemoveAt, a, b
<1>5. /\ t \in Seq(S) /\ Len(t) = Len(a) + Len(b)
      /\ \A j \in 1 .. (Len(a) + Len(b)) : t[j] = IF j <= Len(a) THEN a[j] ELSE b[j - Len(a)]
  <2>1. a \in Seq(S) /\ b \in Seq(S)
    BY <1>2, <1>3
  <2>2. /\ a \o b \in Seq(S) /\ Len(a \o b) = Len(a) + Len(b)
        /\ \A j \in 1 .. (Len(a) + Len(b)) : (a \o b)[j] = IF j <= Len(a) THEN a[j] ELSE b[j - Len(a)]
    BY <2>1, ConcatProperties, Zenon
  <2> QED BY <1>4, <2>2, Zenon
<1>6. Len(t) = Len(s) - 1 /\ DOMAIN t = 1 .. (Len(s) - 1)
  BY <1>1, <1>2, <1>3, <1>5, LenProperties
<1>7. ASSUME NEW j \in DOMAIN t PROVE t[j] = s[Skip(i, j)]
  <2> USE DEF Skip
  <2>1. j \in 1 .. (Len(s) - 1) /\ t[j] = IF j <= i - 1 THEN a[j] ELSE b[j - (i - 1)]
    BY <1>1, <1>2, <1>3, <1>5, <1>6
  <2>2. CASE j < i
    BY <1>1, <1>2, <2>1, <2>2
  <2>3. CASE ~(j < i)
    <3>1. j - (i - 1) \in 1 .. (Len(s) - i) /\ i + (j - (i - 1)) = j + 1
      BY <1>1, <2>1, <2>3
    <3> QED BY <1>1, <1>3, <2>1, <2>3, <3>1
  <2> QED BY <2>2, <2>3
<1>8. /\ \A j \in DOMAIN t : Skip(i, j) \in DOMAIN s /\ Skip(i, j) # i
      /\ \A j, l \in DOMAIN t : Skip(i, j) = Skip(i, l) => j = l
  BY <1>1, <1>6 DEF Skip
<1>9. ASSUME NEW j \in DOMAIN s, j # i
      PROVE  \E l \in DOMAIN t : Skip(i, l) = j
  <2> USE DEF Skip
  <2>1. CASE j < i
    <3>1. j \in DOMAIN t
      BY <1>1, <1>6, <2>1
    <3> QED BY <2>1, <3>1
  <2>2. CASE j > i
    <3>1. j - 1 \in DOMAIN t /\ ~(j - 1 < i) /\ (j - 1) + 1 = j
      BY <1>1, <1>6, <2>2
    <3> QED BY <3>1
  <2> QED BY <1>1, <1>9, <2>1, <2>2
<1> QED BY <1>5, <1>7, <1>8, <1>9

\* What ChunkDeliveryAssumption says of the scenario of a behaviour
LEMMA ScenarioFacts ==
  ASSUME ScenarioInv
  PROVE  /\ Horizon \in Nat /\ Horizon >= 1 /\ TailCapacity \in Nat /\ Chunks \subseteq Nat /\ IsFiniteSet(Chunks)
         /\ \A c \in Chunks : Span[c] \subseteq 1 .. Horizon /\ Span[c] # {}
BY ChunkDeliveryAssumption DEF ScenarioInv, Horizon, TailCapacity, Chunks, Span

\* A scenario never changes, and neither does what it fixes.
LEMMA Fixed ==
  ASSUME UNCHANGED scenario
  PROVE  /\ Span' = Span /\ Chunks' = Chunks /\ Horizon' = Horizon /\ LastWindow' = LastWindow
         /\ DropWatermark' = DropWatermark /\ TailCapacity' = TailCapacity
         /\ \A c : EventsOf(c)' = EventsOf(c)
         /\ Events' = Events /\ Deliveries' = Deliveries /\ Windows' = Windows
BY DEF Span, Chunks, Horizon, LastWindow, DropWatermark, TailCapacity, EventsOf, Events, Deliveries, Windows

-----------------------------------------------------------------------------
(* The keeper's chunks                                                     *)

\* maybeFreeChunk deletes a chunk that is confirmed and that nobody uses, or
\* leaves it as it is.
LEMMA MaybeFreeEach ==
  ASSUME NEW C, NEW track, NEW st, NEW v, NEW w, MaybeFree(C, track, st, v, w), NEW c \in Chunks
  PROVE  \/ /\ c \in C /\ Confirmed(c, st[c], v, w) /\ ~st[c].inQueue /\ ~st[c].indexed
            /\ c \notin tracked' /\ c \in freed' /\ chunk'[c] = NoState
         \/ /\ c \in tracked' <=> c \in track
            /\ c \in freed' <=> c \in freed
            /\ chunk'[c] = st[c]
BY DEF MaybeFree

\* Only confirmed chunks are added to the deleted and to the released ones.
LEMMA MaybeFreeSets ==
  ASSUME NEW C, NEW track, NEW st, NEW v, NEW w, MaybeFree(C, track, st, v, w)
  PROVE  /\ tracked' \subseteq track
         /\ \A c \in freed' : c \in freed \/ (c \in C /\ Confirmed(c, st[c], v, w))
         /\ \A c \in released' : c \in released \/ (c \in C /\ Confirmed(c, st[c], v, w))
BY DEF MaybeFree

\* The states maybeFreeChunk leaves are states of chunks.
LEMMA MaybeFreeType ==
  ASSUME NEW C, NEW track, NEW st \in [Chunks -> ChunkStates], NEW v, NEW w, MaybeFree(C, track, st, v, w)
  PROVE  chunk' \in [Chunks -> ChunkStates]
<1>1. NoState \in ChunkStates
  BY DEF NoState, ChunkStates
<1>2. PICK gone : chunk' = [c \in Chunks |-> IF c \in gone THEN NoState ELSE st[c]]
  BY DEF MaybeFree
<1> QED BY <1>1, <1>2

\* A step that moves no chunk and lets maybeFreeChunk look at retained ones
LEMMA FreeInv ==
  ASSUME ScenarioInv, KeeperType, CustodyInv, UNCHANGED <<scenario, sealed, queue, transfer>>,
         NEW C, NEW st \in [Chunks -> ChunkStates], NEW v, NEW w, MaybeFree(C, tracked, st, v, w),
         C \subseteq tracked, \A c \in Chunks : st[c].inQueue = chunk[c].inQueue
  PROVE  KeeperType' /\ CustodyInv'
<1> USE Fixed
<1>1. tracked' \subseteq tracked /\ freed' \subseteq freed \cup tracked
  BY MaybeFreeSets
<1>2. KeeperType'
  BY <1>1, MaybeFreeType DEF KeeperType, ChunkStates, Transfers
<1>3. \A c \in Chunks : Moving(c)' = Moving(c)
  BY DEF Moving, InQueue
<1>4. MovedOnce'
  BY DEF MovedOnce, CustodyInv, InQueue
<1>5. ASSUME NEW c \in Chunks PROVE Owned(c)'
  <2>1. Owned(c) /\ Moving(c)' = Moving(c)
    BY <1>3 DEF CustodyInv
  <2>2. NoState.inQueue = FALSE
    BY DEF NoState
  <2>3. CASE c \in C /\ ~st[c].inQueue /\ c \notin tracked' /\ c \in freed'
    BY <2>1, <2>3 DEF Owned, KeeperType
  <2>4. CASE (c \in tracked' <=> c \in tracked) /\ (c \in freed' <=> c \in freed) /\ chunk'[c] = st[c]
    BY <2>1, <2>4 DEF Owned
  <2> QED BY <2>3, <2>4, MaybeFreeEach
<1> QED BY <1>2, <1>4, <1>5 DEF CustodyInv

\* releaseStoryTail takes every chunk out of the tail index.
LEMMA ReleaseTailInv ==
  ASSUME ScenarioInv, KeeperType, CustodyInv, UNCHANGED scenario, ReleaseStoryTail
  PROVE  KeeperType' /\ CustodyInv'
<1> DEFINE st == [c \in Chunks |-> [chunk[c] EXCEPT !.indexed = FALSE]]
<1>1. st \in [Chunks -> ChunkStates] /\ \A c \in Chunks : st[c].inQueue = chunk[c].inQueue
  BY DEF KeeperType, ChunkStates
<1>2. MaybeFree(tracked, tracked, st, view, knownW) /\ UNCHANGED <<sealed, queue, transfer>>
  BY DEF ReleaseStoryTail
<1> QED BY <1>1, <1>2, FreeInv

\* freeDurableChunks only looks again.
LEMMA FreeDurableInv ==
  ASSUME ScenarioInv, KeeperType, CustodyInv, UNCHANGED scenario, FreeDurableChunks
  PROVE  KeeperType' /\ CustodyInv'
<1>1. MaybeFree(tracked, tracked, chunk, view, knownW) /\ UNCHANGED <<sealed, queue, transfer>>
  BY DEF FreeDurableChunks
<1>2. chunk \in [Chunks -> ChunkStates]
  BY DEF KeeperType
<1> QED BY <1>1, <1>2, FreeInv

\* A report frees what it confirms; a drop leaves the queue its chunks.
LEMMA ApplyReportInv ==
  ASSUME ScenarioInv, KeeperType, CustodyInv, UNCHANGED scenario, NEW r, ApplyReport(r)
  PROVE  KeeperType' /\ CustodyInv'
<1> USE Fixed
<1>1. UNCHANGED <<sealed, queue, transfer>>
  BY DEF ApplyReport
<1>2. CASE r.w = DropWatermark
  <2>1. /\ freed' = freed \cup {c \in tracked : ~chunk[c].inQueue}
        /\ tracked' = {} /\ chunk' = [c \in Chunks |-> NoState]
    BY <1>2 DEF ApplyReport, DropStoryHere
  <2>2. KeeperType'
    BY <1>1, <2>1 DEF KeeperType, NoState, ChunkStates, Transfers
  <2>3. MovedOnce'
    BY <1>1 DEF MovedOnce, CustodyInv, InQueue
  <2>4. ASSUME NEW c \in Chunks PROVE Owned(c)'
    <3>1. Owned(c) /\ Moving(c)' = Moving(c)
      BY <1>1 DEF CustodyInv, Moving, InQueue
    <3> QED BY <1>1, <2>1, <3>1 DEF Owned, KeeperType
  <2> QED BY <2>2, <2>3, <2>4 DEF CustodyInv
<1>3. CASE r.w # DropWatermark
  <2>1. MaybeFree(tracked, tracked, chunk, MergeReceipts(view, r), Max({knownW, r.w}))
    BY <1>3 DEF ApplyReport
  <2>2. chunk \in [Chunks -> ChunkStates]
    BY DEF KeeperType
  <2> QED BY <1>1, <2>1, <2>2, FreeInv
<1> QED BY <1>2, <1>3

\* Who moves which chunk after one transfer ended
LEMMA TransferEnds ==
  ASSUME KeeperType, CustodyInv, UNCHANGED <<scenario, queue>>, NEW c \in Chunks, transfer[c].at # "none",
         transfer' = [transfer EXCEPT ![c] = NoTransfer]
  PROVE  /\ MovedOnce' /\ ~Moving(c)' /\ Moving(c) /\ transfer' \in [Chunks -> Transfers]
         /\ \A d \in Chunks : d # c => Moving(d)' = Moving(d)
<1> USE Fixed
<1>1. NoTransfer \in Transfers /\ NoTransfer.at = "none"
  BY DEF NoTransfer, Transfers
<1>2. transfer \in [Chunks -> Transfers]
  BY DEF KeeperType
<1>3. transfer' \in [Chunks -> Transfers] /\ transfer'[c].at = "none" /\ \A d \in Chunks : d # c => transfer'[d] = transfer[d]
  BY <1>1, <1>2
<1> QED BY <1>3 DEF MovedOnce, CustodyInv, Moving, InQueue

\* markShipped and markSendFailed take the chunk out of the drain thread's
\* hands, and delete it if its story was dropped meanwhile.
LEMMA EndTransferInv ==
  ASSUME ScenarioInv, KeeperType, CustodyInv, UNCHANGED <<scenario, queue, sealed>>,
         NEW c \in Chunks, transfer[c].at # "none",
         transfer' = [transfer EXCEPT ![c] = NoTransfer],
         NEW s \in ChunkStates, ~s.inQueue,
         IF c \in tracked THEN MaybeFree({c}, tracked, [chunk EXCEPT ![c] = s], view, knownW)
                          ELSE freed' = freed \cup {c} /\ UNCHANGED <<tracked, chunk, released>>
  PROVE  KeeperType' /\ CustodyInv'
<1> USE Fixed
<1> DEFINE st == [chunk EXCEPT ![c] = s]
<1>1. st \in [Chunks -> ChunkStates] /\ st[c] = s /\ \A d \in Chunks : d # c => st[d] = chunk[d]
  BY DEF KeeperType
<1>2. /\ MovedOnce' /\ ~Moving(c)' /\ Moving(c) /\ transfer' \in [Chunks -> Transfers]
      /\ \A d \in Chunks : d # c => Moving(d)' = Moving(d)
  BY TransferEnds
<1>3. c \in sealed /\ c \notin freed
  BY <1>2 DEF CustodyInv, Owned
<1>4. CASE c \in tracked
  <2>1. MaybeFree({c}, tracked, st, view, knownW)
    BY <1>4
  <2> HIDE DEF st
  <2>2. KeeperType'
    BY <1>1, <1>2, <1>4, <2>1, MaybeFreeSets, MaybeFreeType DEF KeeperType, ChunkStates
  <2>3. ASSUME NEW d \in Chunks PROVE Owned(d)'
    <3>1. Owned(d)
      BY DEF CustodyInv
    <3>2. \/ d = c /\ d \notin tracked' /\ d \in freed'
          \/ (d \in tracked' <=> d \in tracked) /\ (d \in freed' <=> d \in freed) /\ chunk'[d] = st[d]
      BY <2>1, MaybeFreeEach
    <3>3. CASE d = c
      BY <1>1, <1>2, <1>3, <1>4, <3>2, <3>3 DEF Owned
    <3>4. CASE d # c
      BY <1>1, <1>2, <3>1, <3>2, <3>4 DEF Owned
    <3> QED BY <3>3, <3>4
  <2> QED BY <1>2, <2>2, <2>3 DEF CustodyInv
<1>5. CASE c \notin tracked
  <2>1. freed' = freed \cup {c} /\ UNCHANGED <<tracked, chunk>>
    BY <1>5
  <2>2. KeeperType'
    BY <1>2, <1>3, <2>1 DEF KeeperType, ChunkStates
  <2>3. ASSUME NEW d \in Chunks PROVE Owned(d)'
    <3>1. Owned(d)
      BY DEF CustodyInv
    <3>2. CASE d = c
      BY <1>2, <1>3, <1>5, <2>1, <3>2 DEF Owned
    <3>3. CASE d # c
      BY <1>2, <2>1, <3>1, <3>3 DEF Owned
    <3> QED BY <3>2, <3>3
  <2> QED BY <1>2, <2>2, <2>3 DEF CustodyInv
<1> QED BY <1>4, <1>5

\* markShipped
LEMMA MarkShippedInv ==
  ASSUME ScenarioInv, KeeperType, CustodyInv, UNCHANGED scenario, NEW c \in Chunks, MarkShipped(c)
  PROVE  KeeperType' /\ CustodyInv'
<1> DEFINE s == [chunk[c] EXCEPT !.shipped = TRUE, !.inQueue = FALSE,
                                 !.inst = transfer[c].inst, !.receipt = transfer[c].n]
<1>1. transfer[c] \in Transfers /\ chunk[c] \in ChunkStates
  BY DEF KeeperType
<1>2. s \in ChunkStates /\ ~s.inQueue
  BY <1>1 DEF ChunkStates, Transfers
<1>3. /\ UNCHANGED <<queue, sealed>> /\ transfer[c].at # "none"
      /\ transfer' = [transfer EXCEPT ![c] = NoTransfer]
      /\ IF c \in tracked THEN MaybeFree({c}, tracked, [chunk EXCEPT ![c] = s], view, knownW)
                          ELSE freed' = freed \cup {c} /\ UNCHANGED <<tracked, chunk, released>>
  BY DEF MarkShipped, KeeperType
<1> HIDE DEF s
<1> QED BY <1>2, <1>3, EndTransferInv

\* markSendFailed
LEMMA MarkSendFailedInv ==
  ASSUME ScenarioInv, KeeperType, CustodyInv, UNCHANGED scenario, NEW c \in Chunks, MarkSendFailed(c)
  PROVE  KeeperType' /\ CustodyInv'
<1> DEFINE s == [chunk[c] EXCEPT !.inQueue = FALSE]
<1>1. chunk[c] \in ChunkStates
  BY DEF KeeperType
<1>2. s \in ChunkStates /\ ~s.inQueue
  BY <1>1 DEF ChunkStates
<1>3. /\ UNCHANGED <<queue, sealed>> /\ transfer[c].at # "none"
      /\ transfer' = [transfer EXCEPT ![c] = NoTransfer]
      /\ IF c \in tracked THEN MaybeFree({c}, tracked, [chunk EXCEPT ![c] = s], view, knownW)
                          ELSE freed' = freed \cup {c} /\ UNCHANGED <<tracked, chunk, released>>
  BY DEF MarkSendFailed, KeeperType
<1> HIDE DEF s
<1> QED BY <1>2, <1>3, EndTransferInv

\* Who moves which chunk after one more was queued
LEMMA Queued ==
  ASSUME KeeperType, CustodyInv, UNCHANGED <<scenario, transfer>>, NEW c \in Chunks, ~Moving(c),
         queue' = Append(queue, c)
  PROVE  /\ MovedOnce' /\ Moving(c)' /\ queue' \in Seq(Chunks)
         /\ \A d \in Chunks : d # c => Moving(d)' = Moving(d)
<1> USE Fixed
<1>1. queue \in Seq(Chunks) /\ Len(queue) \in Nat /\ DOMAIN queue = 1 .. Len(queue)
  BY LenProperties DEF KeeperType
<1>2. /\ queue' \in Seq(Chunks) /\ Len(queue') = Len(queue) + 1
      /\ \A i \in 1 .. Len(queue) : queue'[i] = queue[i]
      /\ queue'[Len(queue) + 1] = c
  BY <1>1, AppendProperties
<1>3. DOMAIN queue' = 1 .. (Len(queue) + 1)
  BY <1>2, LenProperties
<1>4. \A d \in Chunks : InQueue(d)' <=> InQueue(d) \/ d = c
  <2>1. Len(queue) + 1 \in DOMAIN queue' /\ DOMAIN queue \subseteq DOMAIN queue'
        /\ \A i \in DOMAIN queue' : i \in DOMAIN queue \/ i = Len(queue) + 1
    BY <1>1, <1>3
  <2> QED BY <1>1, <1>2, <2>1 DEF InQueue
<1>5. \A i, j \in DOMAIN queue' : queue'[i] = queue'[j] => i = j
  <2>1. \A i \in DOMAIN queue : queue[i] # c
    BY DEF Moving, InQueue
  <2> QED BY <1>1, <1>2, <1>3, <2>1 DEF CustodyInv, MovedOnce
<1>6. \A d \in Chunks : InQueue(d)' => transfer'[d].at = "none"
  BY <1>4 DEF CustodyInv, MovedOnce, Moving
<1> QED BY <1>2, <1>4, <1>5, <1>6 DEF MovedOnce, Moving

\* Who moves which chunk after one was taken off the queue
LEMMA Taken ==
  ASSUME KeeperType, CustodyInv, UNCHANGED scenario, NEW i \in DOMAIN queue, Take(i), NEW t \in Transfers,
         t.at # "none", transfer' = [transfer EXCEPT ![queue[i]] = t]
  PROVE  /\ MovedOnce' /\ queue' \in Seq(Chunks) /\ transfer' \in [Chunks -> Transfers]
         /\ queue[i] \in Chunks
         /\ \A d \in Chunks : Moving(d)' = Moving(d)
<1> USE Fixed
<1> DEFINE c == queue[i]
<1>1. queue \in Seq(Chunks) /\ c \in Chunks
  BY LenProperties, ElementOfSeq DEF KeeperType
<1>2. /\ queue' \in Seq(Chunks)
      /\ \A j \in DOMAIN queue' : queue'[j] = queue[Skip(i, j)] /\ Skip(i, j) \in DOMAIN queue /\ Skip(i, j) # i
      /\ \A j, l \in DOMAIN queue' : Skip(i, j) = Skip(i, l) => j = l
      /\ \A j \in DOMAIN queue : j # i => \E l \in DOMAIN queue' : Skip(i, l) = j
  BY <1>1, Removed DEF Take
<1>3. \A j, l \in DOMAIN queue : queue[j] = queue[l] => j = l
  BY DEF CustodyInv, MovedOnce
<1>4. \A j, l \in DOMAIN queue' : queue'[j] = queue'[l] => j = l
  BY <1>2, <1>3
<1>5. \A d \in Chunks : InQueue(d)' <=> InQueue(d) /\ d # c
  <2>1. \A j \in DOMAIN queue' : queue'[j] # c /\ \E l \in DOMAIN queue : queue[l] = queue'[j]
    BY <1>2, <1>3
  <2> QED BY <1>2, <2>1 DEF InQueue
<1>6. transfer' \in [Chunks -> Transfers] /\ transfer'[c] = t /\ \A d \in Chunks : d # c => transfer'[d] = transfer[d]
  BY <1>1 DEF KeeperType
<1>7. InQueue(c)
  BY DEF InQueue
<1>8. \A d \in Chunks : InQueue(d)' => transfer'[d].at = "none"
  BY <1>5, <1>6 DEF CustodyInv, MovedOnce
<1> QED BY <1>1, <1>2, <1>4, <1>5, <1>6, <1>7, <1>8 DEF MovedOnce, Moving

\* drainExtractionQueue: a chunk stays where it is while it is sent.
LEMMA TakeInv ==
  ASSUME ScenarioInv, KeeperType, CustodyInv, UNCHANGED <<scenario, sealed, tracked, chunk, freed>>,
         NEW i \in DOMAIN queue, Take(i), NEW t \in Transfers,
         t.at # "none", transfer' = [transfer EXCEPT ![queue[i]] = t]
  PROVE  KeeperType' /\ CustodyInv'
<1> USE Fixed
<1>1. /\ MovedOnce' /\ queue' \in Seq(Chunks) /\ transfer' \in [Chunks -> Transfers]
      /\ \A d \in Chunks : Moving(d)' = Moving(d)
  BY Taken
<1>2. KeeperType'
  BY <1>1 DEF KeeperType, ChunkStates
<1>3. ASSUME NEW d \in Chunks PROVE Owned(d)'
  <2>1. Owned(d) /\ Moving(d)' = Moving(d)
    BY <1>1 DEF CustodyInv
  <2> QED BY <2>1 DEF Owned
<1> QED BY <1>1, <1>2, <1>3 DEF CustodyInv

\* The state of a transfer that failed is one of a transfer.
LEMMA FailedTransfer ==
  ASSUME KeeperType, NEW i \in DOMAIN queue
  PROVE  LET t == [transfer[queue[i]] EXCEPT !.at = "failed"] IN
         /\ t \in Transfers /\ t.at = "failed" /\ queue[i] \in Chunks
         /\ [transfer EXCEPT ![queue[i]].at = "failed"] = [transfer EXCEPT ![queue[i]] = t]
<1>1. queue[i] \in Chunks
  BY LenProperties, ElementOfSeq DEF KeeperType
<1>2. transfer[queue[i]] \in Transfers
  BY <1>1 DEF KeeperType
<1> QED BY <1>1, <1>2 DEF Transfers

\* The transfer fails before the chunk arrives.
LEMMA TransferFailsInv ==
  ASSUME ScenarioInv, KeeperType, CustodyInv, UNCHANGED scenario, NEW i \in DOMAIN queue, TransferFails(i)
  PROVE  KeeperType' /\ CustodyInv'
<1>1. /\ UNCHANGED <<sealed, tracked, chunk, freed>> /\ Take(i)
      /\ transfer' = [transfer EXCEPT ![queue[i]].at = "failed"]
  BY DEF TransferFails, keeper
<1> QED BY <1>1, FailedTransfer, TakeInv

\* receive_story_chunk: the ack arrives or does not.
LEMMA ReceiveCustody ==
  ASSUME ScenarioInv, KeeperType, CustodyInv, ReceiptInv, UNCHANGED scenario, NEW i \in DOMAIN queue,
         ReceiveStoryChunk(i)
  PROVE  KeeperType' /\ CustodyInv'
<1> DEFINE t == [at |-> "acked", inst |-> instance, n |-> lastReceipt + 1]
<1>1. UNCHANGED <<sealed, tracked, chunk, freed>> /\ Take(i)
  BY DEF ReceiveStoryChunk, keeper
<1>2. t \in Transfers /\ t.at # "none"
  BY DEF Transfers, ReceiptInv
<1>3. \/ transfer' = [transfer EXCEPT ![queue[i]] = t]
      \/ transfer' = [transfer EXCEPT ![queue[i]].at = "failed"]
  BY DEF ReceiveStoryChunk
<1> HIDE DEF t
<1> QED BY <1>1, <1>2, <1>3, FailedTransfer, TakeInv

\* requeueStalled: only a chunk that nobody moves is queued again.
LEMMA RequeueInv ==
  ASSUME ScenarioInv, KeeperType, CustodyInv, UNCHANGED scenario, NEW c \in Chunks, RequeueStalled(c)
  PROVE  KeeperType' /\ CustodyInv'
<1> USE Fixed
<1>1. /\ c \in tracked /\ ~chunk[c].inQueue /\ queue' = Append(queue, c)
      /\ chunk' = [chunk EXCEPT ![c].inQueue = TRUE]
      /\ UNCHANGED <<sealed, tracked, freed, transfer>>
  BY DEF RequeueStalled
<1>2. ~Moving(c) /\ c \notin freed
  BY <1>1 DEF CustodyInv, Owned
<1>3. /\ MovedOnce' /\ Moving(c)' /\ queue' \in Seq(Chunks)
      /\ \A d \in Chunks : d # c => Moving(d)' = Moving(d)
  BY <1>1, <1>2, Queued
<1>4. chunk' \in [Chunks -> ChunkStates] /\ chunk'[c].inQueue /\ \A d \in Chunks : d # c => chunk'[d] = chunk[d]
  BY <1>1 DEF KeeperType, ChunkStates
<1>5. KeeperType'
  BY <1>1, <1>3, <1>4 DEF KeeperType, ChunkStates, Transfers
<1>6. ASSUME NEW d \in Chunks PROVE Owned(d)'
  <2>1. Owned(d)
    BY DEF CustodyInv
  <2>2. CASE d = c
    BY <1>1, <1>2, <1>3, <1>4, <2>2 DEF Owned, KeeperType
  <2>3. CASE d # c
    BY <1>1, <1>3, <1>4, <2>1, <2>3 DEF Owned
  <2> QED BY <2>2, <2>3
<1> QED BY <1>3, <1>5, <1>6 DEF CustodyInv

\* A set with more elements than some number is not empty.
LEMMA SomeAbove ==
  ASSUME NEW S, NEW n \in Nat, Cardinality(S) > n PROVE S # {}
BY FS_EmptySet

\* The states of the chunks as ingestSealedChunk lets maybeFreeChunk see them:
\* the new chunk is queued, and at most the oldest indexed one is evicted.
NewStates(c) == [chunk EXCEPT ![c] = [NoState EXCEPT !.inQueue = TRUE, !.indexed = TRUE]]
Index(c) == {d \in tracked \cup {c} : NewStates(c)[d].indexed}
Evicted(c) == IF Cardinality(Index(c)) > TailCapacity THEN {Min(Index(c))} ELSE {}
SeenStates(c) == [d \in Chunks |-> IF d \in Evicted(c) THEN [NewStates(c)[d] EXCEPT !.indexed = FALSE] ELSE NewStates(c)[d]]

\* They are states of chunks, and nothing of the other chunks but their place
\* in the index has changed.
LEMMA IngestStates ==
  ASSUME ScenarioInv, KeeperType, NEW c \in Chunks, c \notin sealed
  PROVE  LET s == SeenStates(c) IN
         /\ Evicted(c) \subseteq tracked \cup {c} /\ s \in [Chunks -> ChunkStates]
         /\ s[c].inQueue /\ ~s[c].shipped
         /\ \A d \in Chunks : d # c => /\ s[d].inQueue = chunk[d].inQueue /\ s[d].shipped = chunk[d].shipped
                                       /\ s[d].inst = chunk[d].inst /\ s[d].receipt = chunk[d].receipt
<1> DEFINE st == NewStates(c)
           s == SeenStates(c)
           index == Index(c)
           evicted == Evicted(c)
<1>1. chunk \in [Chunks -> ChunkStates] /\ tracked \subseteq Chunks
  BY DEF KeeperType
<1>2. [NoState EXCEPT !.inQueue = TRUE, !.indexed = TRUE] \in ChunkStates
      /\ [NoState EXCEPT !.inQueue = TRUE, !.indexed = TRUE].inQueue
      /\ ~[NoState EXCEPT !.inQueue = TRUE, !.indexed = TRUE].shipped
  BY DEF NoState, ChunkStates
<1>3. st \in [Chunks -> ChunkStates] /\ st[c].inQueue /\ ~st[c].shipped /\ \A d \in Chunks : d # c => st[d] = chunk[d]
  BY <1>1, <1>2 DEF NewStates
<1> HIDE DEF st
<1>4. ASSUME NEW d \in Chunks, NEW e, e = [st[d] EXCEPT !.indexed = FALSE]
      PROVE  /\ e \in ChunkStates /\ e.inQueue = st[d].inQueue /\ e.shipped = st[d].shipped
             /\ e.inst = st[d].inst /\ e.receipt = st[d].receipt
  <2>1. st[d] \in ChunkStates
    BY <1>3
  <2> QED BY <1>4, <2>1 DEF ChunkStates
<1>5. s = [d \in Chunks |-> IF d \in evicted THEN [st[d] EXCEPT !.indexed = FALSE] ELSE st[d]]
  BY DEF SeenStates, st
<1> HIDE DEF s, evicted
<1>6. s \in [Chunks -> ChunkStates]
  BY <1>3, <1>4, <1>5
<1>7. ASSUME NEW d \in Chunks
      PROVE  /\ s[d].inQueue = st[d].inQueue /\ s[d].shipped = st[d].shipped
             /\ s[d].inst = st[d].inst /\ s[d].receipt = st[d].receipt
  <2>1. s[d] = IF d \in evicted THEN [st[d] EXCEPT !.indexed = FALSE] ELSE st[d]
    BY <1>5
  <2> QED BY <1>4, <2>1
<1>8. evicted \subseteq tracked \cup {c}
  <2> USE DEF Index, evicted, Evicted
  <2>1. CASE Cardinality(index) > TailCapacity
    <3>1. index # {}
      BY <2>1, ScenarioFacts, SomeAbove
    <3>2. index \in SUBSET Nat
      BY <1>1, ScenarioFacts
    <3>3. Min(index) \in index
      BY <3>1, <3>2, MinIn
    <3> QED BY <2>1, <3>3
  <2> QED BY <2>1
<1> QED BY <1>3, <1>7, <1>8, <1>6 DEF s, evicted

\* ingestSealedChunk
LEMMA IngestInv ==
  ASSUME ScenarioInv, KeeperType, CustodyInv, UNCHANGED scenario, NEW c \in Chunks, IngestSealedChunk(c)
  PROVE  KeeperType' /\ CustodyInv'
<1> USE Fixed
<1>1. c \notin sealed /\ sealed' = sealed \cup {c} /\ UNCHANGED transfer
  BY DEF IngestSealedChunk
<1>2. ~Moving(c) /\ c \notin freed /\ c \notin tracked
  BY <1>1 DEF CustodyInv, Owned, KeeperType
<1>3. CASE freed' = freed \cup {c} /\ UNCHANGED <<tracked, chunk, queue>>
  <2>1. KeeperType'
    BY <1>1, <1>3 DEF KeeperType, ChunkStates, Transfers
  <2>2. MovedOnce' /\ \A d \in Chunks : Moving(d)' = Moving(d)
    BY <1>1, <1>3 DEF CustodyInv, MovedOnce, Moving, InQueue
  <2>3. ASSUME NEW d \in Chunks PROVE Owned(d)'
    <3>1. Owned(d) /\ Moving(d)' = Moving(d)
      BY <2>2 DEF CustodyInv
    <3> QED BY <1>1, <1>2, <1>3, <3>1 DEF Owned
  <2> QED BY <2>1, <2>2, <2>3 DEF CustodyInv
<1>4. ASSUME NEW C, NEW s \in [Chunks -> ChunkStates], NEW v, NEW w, MaybeFree(C, tracked \cup {c}, s, v, w),
             C \subseteq tracked \cup {c}, s[c].inQueue,
             \A d \in Chunks : d # c => s[d].inQueue = chunk[d].inQueue, queue' = Append(queue, c)
      PROVE  KeeperType' /\ CustodyInv'
  <2>1. /\ MovedOnce' /\ Moving(c)' /\ queue' \in Seq(Chunks)
        /\ \A d \in Chunks : d # c => Moving(d)' = Moving(d)
    BY <1>1, <1>2, <1>4, Queued
  <2>2. tracked' \subseteq tracked \cup {c} /\ \A d \in freed' : d \in freed \/ d \in C
    BY <1>4, MaybeFreeSets
  <2>3. chunk' \in [Chunks -> ChunkStates]
    BY <1>4, MaybeFreeType
  <2>4. KeeperType'
    BY <1>1, <1>4, <2>1, <2>2, <2>3 DEF KeeperType, ChunkStates, Transfers
  <2>5. ASSUME NEW d \in Chunks PROVE Owned(d)'
    <3>1. \/ d \in C /\ ~s[d].inQueue /\ d \notin tracked' /\ d \in freed'
          \/ /\ d \in tracked' <=> d \in tracked \cup {c}
             /\ (d \in freed' <=> d \in freed) /\ chunk'[d] = s[d]
      BY <1>4, MaybeFreeEach
    <3>2. Owned(d)
      BY DEF CustodyInv
    <3>3. CASE d = c
      BY <1>1, <1>2, <1>4, <2>1, <3>1, <3>3 DEF Owned
    <3>4. CASE d # c
      <4>1. Moving(d)' = Moving(d) /\ s[d].inQueue = chunk[d].inQueue /\ (d \in sealed' <=> d \in sealed)
        BY <1>1, <1>4, <2>1, <3>4
      <4>2. d \in C => d \in tracked /\ d \in sealed
        BY <1>4, <3>4 DEF KeeperType
      <4> QED BY <3>1, <3>2, <3>4, <4>1, <4>2 DEF Owned
    <3> QED BY <3>3, <3>4
  <2> QED BY <2>1, <2>4, <2>5 DEF CustodyInv
<1>5. \/ freed' = freed \cup {c} /\ UNCHANGED <<tracked, chunk, queue>>
      \/ MaybeFree(Evicted(c), tracked \cup {c}, SeenStates(c), view, knownW) /\ queue' = Append(queue, c)
  BY DEF IngestSealedChunk, SeenStates, Evicted, Index, NewStates
<1> QED BY <1>1, <1>3, <1>4, <1>5, IngestStates

-----------------------------------------------------------------------------
(* What the keeper believes is true                                        *)

\* A chunk that is confirmed by a true view is written.
LEMMA ConfirmedWritten ==
  ASSUME ReceiptInv, NEW c, NEW s, NEW v, NEW w, Truthful(v), Confirmed(c, s, v, w),
         s.shipped => [inst |-> s.inst, n |-> s.receipt, c |-> c] \in deliveries
  PROVE  Written(c)
<1> DEFINE d == [inst |-> s.inst, n |-> s.receipt, c |-> c]
<1>1. d \in deliveries /\ Settled(s, v)
  BY DEF Confirmed
<1>2. d.inst = s.inst /\ d.n = s.receipt /\ d.c = c
  OBVIOUS
<1> HIDE DEF d
<1>3. d.n \in Nat /\ 1 <= d.n
  BY <1>1 DEF ReceiptInv, Deliveries
<1>4. s.inst = v.inst /\ s.receipt <= v.highest /\ s.receipt \notin v.pending
  BY <1>1, <1>2, <1>3 DEF Settled
<1> QED BY <1>1, <1>2, <1>4 DEF Truthful

\* What maybeFreeChunk deletes or releases is written.
LEMMA FreeTruth ==
  ASSUME ReceiptInv, TruthInv, UNCHANGED <<scenario, deliveries, archive>>,
         NEW C, NEW track, NEW st, NEW v, NEW w, MaybeFree(C, track, st, v, w), Truthful(v),
         \A c \in C : st[c].shipped => [inst |-> st[c].inst, n |-> st[c].receipt, c |-> c] \in deliveries
  PROVE  \A c \in freed' \cup released' : Written(c)'
<1> USE Fixed
<1>1. ASSUME NEW c \in C, Confirmed(c, st[c], v, w) PROVE Written(c)
  BY <1>1, ConfirmedWritten
<1>2. \A c \in freed' \cup released' : c \in freed \cup released \/ (c \in C /\ Confirmed(c, st[c], v, w))
  BY MaybeFreeSets
<1>3. \A c \in freed' \cup released' : Written(c)
  BY <1>1, <1>2 DEF TruthInv
<1>4. \A c : Written(c)' = Written(c)
  BY DEF Written
<1> QED BY <1>3, <1>4

\* A chunk keeps its receipt, or is deleted.
LEMMA FreeShip ==
  ASSUME UNCHANGED <<scenario, deliveries>>,
         NEW C, NEW track, NEW st, NEW v, NEW w, MaybeFree(C, track, st, v, w),
         \A c \in Chunks : st[c].shipped => [inst |-> st[c].inst, n |-> st[c].receipt, c |-> c] \in deliveries
  PROVE  ShipInv'
<1>1. ASSUME NEW c \in Chunks, chunk'[c].shipped
      PROVE  [inst |-> chunk'[c].inst, n |-> chunk'[c].receipt, c |-> c] \in deliveries
  <2>1. chunk'[c] = NoState \/ chunk'[c] = st[c]
    BY MaybeFreeEach
  <2>2. ~NoState.shipped
    BY DEF NoState
  <2> QED BY <1>1, <2>1, <2>2
<1> QED BY <1>1, Fixed DEF ShipInv

\* A view, and what is said of it, while the grapher gives out no receipt and
\* writes nothing.
LEMMA SameTruth ==
  ASSUME UNCHANGED <<scenario, deliveries, archive>>
  PROVE  \A v : Truthful(v)' = Truthful(v)
<1>1. \A c : Written(c)' = Written(c)
  BY Fixed DEF Written
<1> QED BY <1>1 DEF Truthful

\* The reports under way, and what is said of them, stay true.
LEMMA SameReports ==
  ASSUME UNCHANGED <<scenario, deliveries, archive, reports>>, TruthInv
  PROVE  \A r \in reports' : r.w # DropWatermark' /\ Truthful(r)'
<1>1. \A v : Truthful(v)' = Truthful(v)
  BY SameTruth
<1> QED BY <1>1, Fixed DEF TruthInv

\* What the keeper learns when nothing is said changes only with its chunks.
grapherSays == <<scenario, deliveries, archive, instance, lastReceipt, reports, view>>

\* A step that moves no chunk and lets maybeFreeChunk look at retained ones
LEMMA FreeKeeper ==
  ASSUME ReceiptInv, KeeperType, CustodyInv', KeeperInv, UNCHANGED grapherSays,
         UNCHANGED <<queue, transfer, droppedHere>>,
         NEW st \in [Chunks -> ChunkStates], NEW w, MaybeFree(tracked, tracked, st, view, w),
         \A c \in Chunks : /\ st[c].shipped = chunk[c].shipped /\ st[c].inst = chunk[c].inst
                           /\ st[c].receipt = chunk[c].receipt
  PROVE  KeeperInv' /\ (TruthInv => TruthInv')
<1> USE Fixed DEF grapherSays
<1>1. \A c \in Chunks : st[c].shipped => [inst |-> st[c].inst, n |-> st[c].receipt, c |-> c] \in deliveries
  BY DEF KeeperInv, ShipInv
<1>2. KeeperInv'
  <2>1. ShipInv'
    BY <1>1, FreeShip
  <2> QED BY <2>1 DEF KeeperInv, ViewInv, ReportInv, AckInv
<1>3. ASSUME TruthInv PROVE TruthInv'
  <2>1. Truthful(view) /\ tracked \subseteq Chunks
    BY <1>3 DEF TruthInv, KeeperType
  <2>2. \A c \in freed' \cup released' : Written(c)'
    BY <1>1, <1>3, <2>1, FreeTruth
  <2>3. Truthful(view)' /\ \A r \in reports' : r.w # DropWatermark' /\ Truthful(r)'
    <3>1. Truthful(view)'
      BY <2>1 DEF Truthful, Written
    <3> QED BY <1>3, <3>1, SameReports
  <2>4. ASSUME NEW c \in Chunks, Moving(c)' PROVE c \in tracked'
    <3>1. c \in tracked /\ c \notin freed'
      BY <1>3, <2>4 DEF TruthInv, Moving, InQueue, CustodyInv, Owned
    <3> QED BY <3>1, MaybeFreeEach
  <2> QED BY <1>3, <2>2, <2>3, <2>4 DEF TruthInv
<1> QED BY <1>2, <1>3

\* releaseStoryTail and freeDurableChunks
LEMMA LookAgainKeeper ==
  ASSUME ScenarioInv, ReceiptInv, KeeperType, CustodyInv', KeeperInv, UNCHANGED scenario,
         ReleaseStoryTail \/ FreeDurableChunks
  PROVE  KeeperInv' /\ (TruthInv => TruthInv')
<1>1. CASE ReleaseStoryTail
  <2> DEFINE st == [c \in Chunks |-> [chunk[c] EXCEPT !.indexed = FALSE]]
  <2>1. /\ st \in [Chunks -> ChunkStates]
        /\ \A c \in Chunks : /\ st[c].shipped = chunk[c].shipped /\ st[c].inst = chunk[c].inst
                             /\ st[c].receipt = chunk[c].receipt
    BY DEF KeeperType, ChunkStates
  <2>2. /\ MaybeFree(tracked, tracked, st, view, knownW)
        /\ UNCHANGED grapherSays /\ UNCHANGED <<queue, transfer, droppedHere>>
    BY <1>1 DEF ReleaseStoryTail, grapherSays, receipts, writer
  <2> HIDE DEF st
  <2> QED BY <2>1, <2>2, FreeKeeper
<1>2. CASE FreeDurableChunks
  <2>1. /\ MaybeFree(tracked, tracked, chunk, view, knownW)
        /\ UNCHANGED grapherSays /\ UNCHANGED <<queue, transfer, droppedHere>>
    BY <1>2 DEF FreeDurableChunks, grapherSays, receipts, writer
  <2>2. chunk \in [Chunks -> ChunkStates]
    BY DEF KeeperType
  <2> QED BY <2>1, <2>2, FreeKeeper
<1> QED BY <1>1, <1>2

\* markShipped and markSendFailed: the chunk keeps the receipt it was acked
LEMMA EndTransferKeeper ==
  ASSUME ReceiptInv, KeeperType, CustodyInv, CustodyInv', KeeperInv, UNCHANGED grapherSays,
         UNCHANGED <<queue, droppedHere>>,
         NEW c \in Chunks, transfer[c].at # "none", transfer' = [transfer EXCEPT ![c] = NoTransfer],
         NEW s \in ChunkStates,
         s.shipped => [inst |-> s.inst, n |-> s.receipt, c |-> c] \in deliveries,
         IF c \in tracked THEN MaybeFree({c}, tracked, [chunk EXCEPT ![c] = s], view, knownW)
                          ELSE freed' = freed \cup {c} /\ UNCHANGED <<tracked, chunk, released>>
  PROVE  KeeperInv' /\ (TruthInv => TruthInv')
<1> USE Fixed DEF grapherSays
<1> DEFINE st == [chunk EXCEPT ![c] = s]
<1>1. st \in [Chunks -> ChunkStates] /\ st[c] = s /\ \A d \in Chunks : d # c => st[d] = chunk[d]
  BY DEF KeeperType
<1>2. \A d \in Chunks : st[d].shipped => [inst |-> st[d].inst, n |-> st[d].receipt, c |-> d] \in deliveries
  BY <1>1 DEF KeeperInv, ShipInv
<1>3. c \in tracked => MaybeFree({c}, tracked, st, view, knownW)
  OBVIOUS
<1> HIDE DEF st
<1>4. /\ ~Moving(c)' /\ Moving(c) /\ transfer' \in [Chunks -> Transfers]
      /\ \A d \in Chunks : d # c => Moving(d)' = Moving(d)
  BY TransferEnds
<1>5. AckInv'
  <2>1. transfer'[c].at # "acked" /\ \A d \in Chunks : d # c => transfer'[d] = transfer[d]
    BY DEF KeeperType, NoTransfer
  <2> QED BY <2>1 DEF KeeperInv, AckInv
<1>6. ShipInv'
  <2>1. CASE c \in tracked
    BY <1>2, <1>3, <2>1, FreeShip
  <2>2. CASE c \notin tracked
    BY <2>2 DEF KeeperInv, ShipInv
  <2> QED BY <2>1, <2>2
<1>7. KeeperInv'
  BY <1>5, <1>6 DEF KeeperInv, ViewInv, ReportInv
<1>8. ASSUME TruthInv PROVE TruthInv'
  <2>1. Truthful(view) /\ c \in tracked
    BY <1>4, <1>8 DEF TruthInv
  <2>2. \A d \in freed' \cup released' : Written(d)'
    BY <1>2, <1>3, <1>8, <2>1, FreeTruth
  <2>3. Truthful(view)' /\ \A r \in reports' : r.w # DropWatermark' /\ Truthful(r)'
    <3>1. Truthful(view)'
      BY <2>1 DEF Truthful, Written
    <3> QED BY <1>8, <3>1, SameReports
  <2>4. ASSUME NEW d \in Chunks, Moving(d)' PROVE d \in tracked'
    <3>1. d # c /\ d \in tracked
      BY <1>4, <1>8, <2>4 DEF TruthInv
    <3> QED BY <1>3, <2>1, <3>1, MaybeFreeEach
  <2> QED BY <1>8, <2>2, <2>3, <2>4 DEF TruthInv
<1> QED BY <1>7, <1>8

\* markShipped
LEMMA MarkShippedKeeper ==
  ASSUME ReceiptInv, KeeperType, CustodyInv, CustodyInv', KeeperInv, UNCHANGED scenario,
         NEW c \in Chunks, MarkShipped(c)
  PROVE  KeeperInv' /\ (TruthInv => TruthInv')
<1> DEFINE s == [chunk[c] EXCEPT !.shipped = TRUE, !.inQueue = FALSE,
                                 !.inst = transfer[c].inst, !.receipt = transfer[c].n]
<1>1. transfer[c] \in Transfers /\ chunk[c] \in ChunkStates
  BY DEF KeeperType
<1>2. s \in ChunkStates /\ s.inst = transfer[c].inst /\ s.receipt = transfer[c].n
  BY <1>1 DEF ChunkStates, Transfers
<1>3. /\ UNCHANGED grapherSays /\ UNCHANGED <<queue, droppedHere>> /\ transfer[c].at = "acked"
      /\ transfer' = [transfer EXCEPT ![c] = NoTransfer]
      /\ IF c \in tracked THEN MaybeFree({c}, tracked, [chunk EXCEPT ![c] = s], view, knownW)
                          ELSE freed' = freed \cup {c} /\ UNCHANGED <<tracked, chunk, released>>
  BY DEF MarkShipped, KeeperType, grapherSays, receipts, writer
<1> HIDE DEF s
<1>4. [inst |-> s.inst, n |-> s.receipt, c |-> c] \in deliveries
  BY <1>2, <1>3 DEF KeeperInv, AckInv
<1> QED BY <1>2, <1>3, <1>4, EndTransferKeeper

\* markSendFailed
LEMMA MarkSendFailedKeeper ==
  ASSUME ReceiptInv, KeeperType, CustodyInv, CustodyInv', KeeperInv, UNCHANGED scenario,
         NEW c \in Chunks, MarkSendFailed(c)
  PROVE  KeeperInv' /\ (TruthInv => TruthInv')
<1> DEFINE s == [chunk[c] EXCEPT !.inQueue = FALSE]
<1>1. chunk[c] \in ChunkStates
  BY DEF KeeperType
<1>2. s \in ChunkStates /\ s.inst = chunk[c].inst /\ s.receipt = chunk[c].receipt /\ s.shipped = chunk[c].shipped
  BY <1>1 DEF ChunkStates
<1>3. /\ UNCHANGED grapherSays /\ UNCHANGED <<queue, droppedHere>> /\ transfer[c].at # "none"
      /\ transfer' = [transfer EXCEPT ![c] = NoTransfer]
      /\ IF c \in tracked THEN MaybeFree({c}, tracked, [chunk EXCEPT ![c] = s], view, knownW)
                          ELSE freed' = freed \cup {c} /\ UNCHANGED <<tracked, chunk, released>>
  BY DEF MarkSendFailed, KeeperType, grapherSays, receipts, writer
<1> HIDE DEF s
<1>4. s.shipped => [inst |-> s.inst, n |-> s.receipt, c |-> c] \in deliveries
  BY <1>2 DEF KeeperInv, ShipInv
<1> QED BY <1>2, <1>3, <1>4, EndTransferKeeper

\* mergeReceipts: two true views of one process make a true one, in either
\* order, and the view of another process replaces the first.
LEMMA MergeTruth ==
  ASSUME ReceiptInv, NEW v, v \in [inst : Nat, highest : Nat, pending : SUBSET Nat], Truthful(v),
         NEW r, r \in [inst : Nat, w : Nat, highest : Nat, pending : SUBSET Nat, failed : BOOLEAN], Truthful(r)
  PROVE  Truthful(MergeReceipts(v, r))
<1> DEFINE m == MergeReceipts(v, r)
<1> SUFFICES ASSUME NEW d \in deliveries, d.inst = m.inst, d.n <= m.highest, d.n \notin m.pending
             PROVE  Written(d.c)
  BY DEF Truthful
<1>1. d.n \in Nat
  BY DEF ReceiptInv, Deliveries
<1>2. CASE r.inst # v.inst
  BY <1>2 DEF MergeReceipts, Truthful
<1>3. CASE r.inst = v.inst
  <2>1. /\ m.inst = v.inst /\ m.highest = Max({v.highest, r.highest})
        /\ m.pending = {n \in v.pending : n > r.highest \/ n \in r.pending} \cup {n \in r.pending : n > v.highest}
    BY <1>3 DEF MergeReceipts
  <2> HIDE DEF m
  <2>2. v.highest \in Nat /\ r.highest \in Nat
    OBVIOUS
  <2>3. m.highest = IF v.highest >= r.highest THEN v.highest ELSE r.highest
    BY <2>1, <2>2, MaxPair
  <2>4. \/ d.n <= v.highest /\ d.n \notin v.pending
        \/ d.n <= r.highest /\ d.n \notin r.pending
    BY <1>1, <2>1, <2>2, <2>3
  <2> QED BY <1>3, <2>1, <2>4 DEF Truthful
<1> QED BY <1>2, <1>3

\* A merged view has its type, and counts no receipt that was not given out.
LEMMA MergeType ==
  ASSUME NEW v, v \in [inst : Nat, highest : Nat, pending : SUBSET Nat],
         NEW r, r \in [inst : Nat, w : Nat, highest : Nat, pending : SUBSET Nat, failed : BOOLEAN]
  PROVE  LET m == MergeReceipts(v, r) IN
         /\ m \in [inst : Nat, highest : Nat, pending : SUBSET Nat] /\ m.inst = r.inst
         /\ m.highest = r.highest \/ (m.highest = v.highest /\ v.inst = r.inst)
<1>1. v.highest \in Nat /\ r.highest \in Nat
  OBVIOUS
<1>2. Max({v.highest, r.highest}) = IF v.highest >= r.highest THEN v.highest ELSE r.highest
  BY <1>1, MaxPair
<1>3. CASE r.inst # v.inst
  BY <1>3 DEF MergeReceipts
<1>4. CASE r.inst = v.inst
  <2> DEFINE p == {n \in v.pending : n > r.highest \/ n \in r.pending} \cup {n \in r.pending : n > v.highest}
  <2>1. p \in SUBSET Nat
    OBVIOUS
  <2>2. MergeReceipts(v, r) = [inst |-> v.inst, highest |-> Max({v.highest, r.highest}), pending |-> p]
    BY <1>4 DEF MergeReceipts
  <2> HIDE DEF p
  <2> QED BY <1>1, <1>2, <1>4, <2>1, <2>2
<1> QED BY <1>3, <1>4

\* applyReport
LEMMA ApplyReportKeeper ==
  ASSUME ScenarioInv, ReceiptInv, KeeperType, CustodyInv', KeeperInv, UNCHANGED scenario, NEW r, ApplyReport(r)
  PROVE  KeeperInv' /\ (TruthInv => TruthInv')
<1> USE Fixed
<1>1. /\ r \in reports /\ reports' = reports \ {r}
      /\ UNCHANGED <<queue, transfer, deliveries, archive, instance, lastReceipt>>
  BY DEF ApplyReport, receipts, writer
<1>2. /\ r \in [inst : Nat, w : Nat, highest : Nat, pending : SUBSET Nat, failed : BOOLEAN]
      /\ r.inst <= instance /\ (r.inst = instance => r.highest <= lastReceipt)
  BY <1>1 DEF KeeperInv, ReportInv
<1>3. ReportInv' /\ AckInv'
  BY <1>1 DEF KeeperInv, ReportInv, AckInv
<1>4. CASE r.w = DropWatermark
  <2>1. view' = NoView /\ chunk' = [c \in Chunks |-> NoState]
    BY <1>4 DEF ApplyReport, DropStoryHere
  <2>2. ViewInv'
    BY <1>1, <2>1 DEF ViewInv, NoView, ReceiptInv
  <2>3. ShipInv'
    BY <2>1 DEF ShipInv, NoState
  <2>4. ~TruthInv
    BY <1>1, <1>4 DEF TruthInv
  <2> QED BY <1>3, <2>2, <2>3, <2>4 DEF KeeperInv
<1>5. CASE r.w # DropWatermark
  <2> DEFINE v == MergeReceipts(view, r)
             w == Max({knownW, r.w})
  <2>1. MaybeFree(tracked, tracked, chunk, v, w) /\ view' = v /\ UNCHANGED droppedHere
    BY <1>5 DEF ApplyReport
  <2>2. /\ v \in [inst : Nat, highest : Nat, pending : SUBSET Nat] /\ v.inst = r.inst
        /\ v.highest = r.highest \/ (v.highest = view.highest /\ view.inst = r.inst)
    BY <1>2, MergeType DEF KeeperInv, ViewInv
  <2>3. TruthInv => Truthful(v)
    BY <1>1, <1>2, MergeTruth DEF TruthInv, KeeperInv, ViewInv
  <2> HIDE DEF v, w
  <2>4. ViewInv'
    BY <1>1, <1>2, <2>1, <2>2 DEF ViewInv, KeeperInv
  <2>5. \A c \in Chunks : chunk[c].shipped => [inst |-> chunk[c].inst, n |-> chunk[c].receipt, c |-> c] \in deliveries
    BY DEF KeeperInv, ShipInv
  <2>6. ShipInv'
    BY <1>1, <2>1, <2>5, FreeShip
  <2>7. ASSUME TruthInv PROVE TruthInv'
    <3>1. tracked \subseteq Chunks
      BY DEF KeeperType
    <3>2. \A c \in freed' \cup released' : Written(c)'
      BY <1>1, <2>1, <2>3, <2>5, <2>7, <3>1, FreeTruth
    <3>3. \A u : Truthful(u)' = Truthful(u)
      BY <1>1, SameTruth
    <3>4. \A q \in reports' : q.w # DropWatermark' /\ Truthful(q)'
      BY <1>1, <2>7, <3>3 DEF TruthInv
    <3>5. Truthful(view)'
      BY <1>1, <2>1, <2>3, <2>7 DEF Truthful, Written
    <3>6. ASSUME NEW c \in Chunks, Moving(c)' PROVE c \in tracked'
      <4>1. c \in tracked /\ c \notin freed'
        BY <1>1, <2>7, <3>6 DEF TruthInv, Moving, InQueue, CustodyInv, Owned
      <4> QED BY <2>1, <4>1, MaybeFreeEach
    <3> QED BY <2>1, <2>7, <3>2, <3>4, <3>5, <3>6 DEF TruthInv
  <2> QED BY <1>3, <2>4, <2>6, <2>7 DEF KeeperInv
<1> QED BY <1>4, <1>5

\* ingestSealedChunk: a new chunk is neither shipped nor deleted.
LEMMA IngestKeeper ==
  ASSUME ScenarioInv, ReceiptInv, KeeperType, CustodyInv, CustodyInv', KeeperInv, UNCHANGED scenario,
         NEW c \in Chunks, IngestSealedChunk(c)
  PROVE  KeeperInv' /\ (TruthInv => TruthInv')
<1> USE Fixed
<1>1. c \notin sealed /\ UNCHANGED grapherSays /\ UNCHANGED transfer
  BY DEF IngestSealedChunk, grapherSays, receipts, writer
<1>2. ViewInv' /\ ReportInv' /\ AckInv'
  BY <1>1 DEF KeeperInv, ViewInv, ReportInv, AckInv, grapherSays
<1>3. \/ droppedHere /\ UNCHANGED chunk
      \/ /\ MaybeFree(Evicted(c), tracked \cup {c}, SeenStates(c), view, knownW)
         /\ queue' = Append(queue, c) /\ ~droppedHere'
  BY DEF IngestSealedChunk, SeenStates, Evicted, Index, NewStates
<1>4. CASE droppedHere /\ UNCHANGED chunk
  BY <1>1, <1>2, <1>4 DEF KeeperInv, ShipInv, TruthInv, grapherSays
<1>5. CASE /\ MaybeFree(Evicted(c), tracked \cup {c}, SeenStates(c), view, knownW)
           /\ queue' = Append(queue, c) /\ ~droppedHere'
  <2>1. /\ Evicted(c) \subseteq tracked \cup {c} /\ SeenStates(c)[c].inQueue /\ ~SeenStates(c)[c].shipped
        /\ \A d \in Chunks : d # c => /\ SeenStates(c)[d].shipped = chunk[d].shipped
                                      /\ SeenStates(c)[d].inst = chunk[d].inst
                                      /\ SeenStates(c)[d].receipt = chunk[d].receipt
    BY <1>1, IngestStates
  <2>2. \A d \in Chunks : SeenStates(c)[d].shipped =>
            [inst |-> SeenStates(c)[d].inst, n |-> SeenStates(c)[d].receipt, c |-> d] \in deliveries
    BY <2>1 DEF KeeperInv, ShipInv
  <2>3. ShipInv'
    BY <1>1, <1>5, <2>2, FreeShip DEF grapherSays
  <2>4. ASSUME TruthInv PROVE TruthInv'
    <3>1. Evicted(c) \subseteq Chunks /\ Truthful(view)
      BY <2>1, <2>4 DEF KeeperType, TruthInv
    <3>2. \A d \in freed' \cup released' : Written(d)'
      BY <1>1, <1>5, <2>2, <2>4, <3>1, FreeTruth DEF grapherSays
    <3>3. Truthful(view)' /\ \A r \in reports' : r.w # DropWatermark' /\ Truthful(r)'
      <4>1. Truthful(view)'
        BY <1>1, <3>1 DEF Truthful, Written, grapherSays
      <4> QED BY <1>1, <2>4, <4>1, SameReports DEF grapherSays
    <3>4. ~Moving(c)
      BY <1>1 DEF CustodyInv, Owned
    <3>5. \A d \in Chunks : d # c => Moving(d)' = Moving(d)
      BY <1>1, <1>5, <3>4, Queued
    <3>6. ASSUME NEW d \in Chunks, Moving(d)' PROVE d \in tracked'
      <4>1. d \in tracked \cup {c} /\ d \notin freed'
        BY <2>4, <3>5, <3>6 DEF TruthInv, CustodyInv, Owned
      <4> QED BY <1>5, <4>1, MaybeFreeEach
    <3> QED BY <1>5, <3>2, <3>3, <3>6 DEF TruthInv
  <2> QED BY <1>2, <2>3, <2>4 DEF KeeperInv
<1> QED BY <1>3, <1>4, <1>5

\* requeueStalled keeps the ack of an earlier delivery.
LEMMA RequeueKeeper ==
  ASSUME ScenarioInv, ReceiptInv, KeeperType, CustodyInv, KeeperInv, UNCHANGED scenario,
         NEW c \in Chunks, RequeueStalled(c)
  PROVE  KeeperInv' /\ (TruthInv => TruthInv')
<1> USE Fixed
<1>1. /\ c \in tracked /\ ~chunk[c].inQueue /\ queue' = Append(queue, c)
      /\ chunk' = [chunk EXCEPT ![c].inQueue = TRUE]
      /\ UNCHANGED grapherSays /\ UNCHANGED <<tracked, freed, released, transfer, droppedHere>>
  BY DEF RequeueStalled, grapherSays, receipts, writer
<1>2. \A d \in Chunks : /\ chunk'[d].shipped = chunk[d].shipped /\ chunk'[d].inst = chunk[d].inst
                        /\ chunk'[d].receipt = chunk[d].receipt
  BY <1>1 DEF KeeperType, ChunkStates
<1>3. KeeperInv'
  BY <1>1, <1>2 DEF KeeperInv, ViewInv, ReportInv, AckInv, ShipInv, grapherSays
<1>4. ASSUME TruthInv PROVE TruthInv'
  <2>1. ~Moving(c)
    BY <1>1 DEF CustodyInv, Owned
  <2>2. \A d \in Chunks : d # c => Moving(d)' = Moving(d)
    BY <1>1, <2>1, Queued
  <2>3. \A v : Truthful(v)' = Truthful(v)
    BY <1>1, SameTruth DEF grapherSays
  <2>4. Truthful(view)'
    BY <1>1, <1>4 DEF Truthful, Written, grapherSays, TruthInv
  <2>5. \A d \in freed' \cup released' : Written(d)'
    BY <1>1, <1>4 DEF TruthInv, Written, grapherSays
  <2>6. \A r \in reports' : r.w # DropWatermark' /\ Truthful(r)'
    BY <1>1, <1>4, SameReports DEF grapherSays
  <2> QED BY <1>1, <1>4, <2>2, <2>4, <2>5, <2>6 DEF TruthInv
<1> QED BY <1>3, <1>4

\* A chunk is sent, and the grapher says nothing of it.
LEMMA TransferFailsKeeper ==
  ASSUME ScenarioInv, ReceiptInv, KeeperType, CustodyInv, KeeperInv, UNCHANGED scenario,
         NEW i \in DOMAIN queue, TransferFails(i)
  PROVE  KeeperInv' /\ (TruthInv => TruthInv')
<1> USE Fixed
<1> DEFINE t == [transfer[queue[i]] EXCEPT !.at = "failed"]
<1>1. /\ Take(i) /\ UNCHANGED grapherSays /\ UNCHANGED <<tracked, chunk, freed, released, droppedHere>>
      /\ transfer' = [transfer EXCEPT ![queue[i]].at = "failed"]
  BY DEF TransferFails, grapherSays, receipts, writer, keeper
<1>2. t \in Transfers /\ t.at = "failed" /\ transfer' = [transfer EXCEPT ![queue[i]] = t] /\ queue[i] \in Chunks
  BY <1>1, FailedTransfer
<1> HIDE DEF t
<1>3. \A d \in Chunks : transfer'[d].at = "acked" => transfer'[d] = transfer[d]
  BY <1>2 DEF KeeperType
<1>4. KeeperInv'
  BY <1>1, <1>3 DEF KeeperInv, ViewInv, ReportInv, AckInv, ShipInv, grapherSays
<1>5. ASSUME TruthInv PROVE TruthInv'
  <2>1. \A d \in Chunks : Moving(d)' = Moving(d)
    BY <1>1, <1>2, Taken
  <2>2. Truthful(view)'
    BY <1>1, <1>5 DEF Truthful, Written, grapherSays, TruthInv
  <2>3. \A d \in freed' \cup released' : Written(d)'
    BY <1>1, <1>5 DEF TruthInv, Written, grapherSays
  <2>4. \A r \in reports' : r.w # DropWatermark' /\ Truthful(r)'
    BY <1>1, <1>5, SameReports DEF grapherSays
  <2> QED BY <1>1, <1>5, <2>1, <2>2, <2>3, <2>4 DEF TruthInv
<1> QED BY <1>4, <1>5

\* receive_story_chunk: no report speaks of the receipt that is given out.
LEMMA ReceiveKeeper ==
  ASSUME ScenarioInv, ReceiptInv, KeeperType, CustodyInv, KeeperInv, UNCHANGED scenario,
         NEW i \in DOMAIN queue, ReceiveStoryChunk(i)
  PROVE  KeeperInv' /\ (TruthInv => TruthInv')
<1> USE Fixed
<1> DEFINE t == [at |-> "acked", inst |-> instance, n |-> lastReceipt + 1]
           f == [transfer[queue[i]] EXCEPT !.at = "failed"]
           g == [inst |-> instance, n |-> lastReceipt + 1, c |-> queue[i]]
<1>1. /\ Take(i) /\ UNCHANGED <<view, tracked, chunk, freed, released, droppedHere, instance, reports, archive>>
      /\ lastReceipt' = lastReceipt + 1 /\ deliveries' = deliveries \cup {g}
      /\ \/ transfer' = [transfer EXCEPT ![queue[i]] = t]
         \/ transfer' = [transfer EXCEPT ![queue[i]].at = "failed"]
  BY DEF ReceiveStoryChunk, AssignReceipt, writer, keeper
<1>2. t \in Transfers /\ t.at = "acked" /\ t.inst = instance /\ t.n = lastReceipt + 1
  BY DEF Transfers, ReceiptInv
<1>3. g.inst = instance /\ g.n = lastReceipt + 1 /\ g = [inst |-> t.inst, n |-> t.n, c |-> queue[i]]
  OBVIOUS
<1>4. queue[i] \in Chunks /\ f \in Transfers /\ f.at = "failed"
      /\ [transfer EXCEPT ![queue[i]].at = "failed"] = [transfer EXCEPT ![queue[i]] = f]
  BY FailedTransfer
<1> HIDE DEF t, f, g
<1>5. PICK a \in {t, f} : transfer' = [transfer EXCEPT ![queue[i]] = a]
  BY <1>1, <1>4
<1>6. a \in Transfers /\ a.at # "none" /\ (a.at = "acked" => a = t)
  BY <1>2, <1>4, <1>5
<1>7. instance \in Nat /\ lastReceipt \in Nat
  BY DEF ReceiptInv
<1>8. AckInv'
  <2>1. transfer'[queue[i]] = a /\ \A d \in Chunks : d # queue[i] => transfer'[d] = transfer[d]
    BY <1>4, <1>5 DEF KeeperType
  <2>2. ASSUME NEW d \in Chunks, transfer'[d].at = "acked"
        PROVE  [inst |-> transfer'[d].inst, n |-> transfer'[d].n, c |-> d] \in deliveries'
    <3>1. CASE d = queue[i]
      BY <1>1, <1>3, <1>6, <2>1, <2>2, <3>1
    <3>2. CASE d # queue[i]
      BY <1>1, <2>1, <2>2, <3>2 DEF KeeperInv, AckInv
    <3> QED BY <3>1, <3>2
  <2> QED BY <2>2 DEF AckInv
<1>9. ViewInv'
  <2>1. view.highest \in Nat
    BY DEF KeeperInv, ViewInv
  <2> QED BY <1>1, <1>7, <2>1 DEF KeeperInv, ViewInv
<1>10. ReportInv'
  <2>1. \A r \in reports : r.highest \in Nat
    BY DEF KeeperInv, ReportInv
  <2> QED BY <1>1, <1>7, <2>1 DEF KeeperInv, ReportInv
<1>11. ShipInv'
  BY <1>1 DEF KeeperInv, ShipInv
<1>12. ASSUME TruthInv PROVE TruthInv'
  <2>1. \A d \in Chunks : Moving(d)' = Moving(d)
    BY <1>1, <1>5, <1>6, Taken
  <2>2. \A d : Written(d)' = Written(d)
    BY <1>1 DEF Written
  <2>3. ASSUME NEW v, v.inst = instance => v.highest <= lastReceipt, v.highest \in Nat, Truthful(v)
        PROVE  Truthful(v)'
    <3>1. ~(g.inst = v.inst /\ g.n <= v.highest)
      BY <1>3, <1>7, <2>3
    <3> QED BY <1>1, <2>2, <2>3, <3>1 DEF Truthful
  <2>4. Truthful(view)'
    <3>1. \A v : (v.inst = instance => v.highest <= lastReceipt) /\ v.highest \in Nat /\ Truthful(v) => Truthful(v)'
      BY <2>3
    <3>2. (view.inst = instance => view.highest <= lastReceipt) /\ view.highest \in Nat /\ Truthful(view)
      BY <1>12 DEF KeeperInv, ViewInv, TruthInv
    <3>3. \A d \in deliveries' : d.inst = view.inst /\ d.n <= view.highest /\ d.n \notin view.pending => Written(d.c)'
      BY <3>1, <3>2 DEF Truthful
    <3> QED BY <1>1, <3>3 DEF Truthful
  <2>5. \A r \in reports' : r.w # DropWatermark' /\ Truthful(r)'
    <3>1. \A r \in reports : (r.inst = instance => r.highest <= lastReceipt) /\ r.highest \in Nat
      BY DEF KeeperInv, ReportInv
    <3> QED BY <1>1, <1>12, <2>3, <3>1 DEF TruthInv
  <2>6. \A d \in freed' \cup released' : Written(d)'
    BY <1>1, <1>12, <2>2 DEF TruthInv
  <2> QED BY <1>1, <1>12, <2>1, <2>4, <2>5, <2>6 DEF TruthInv
<1> QED BY <1>8, <1>9, <1>10, <1>11, <1>12 DEF KeeperInv

-----------------------------------------------------------------------------
(* What the grapher holds                                                  *)

grapherHolds == <<scenario, timeline, extraction, settling, persisted, entry, failedEarly, covered, instance, lastReceipt,
                  lastAssigned, deliveries, arrived, pending, archive>>

\* The keeper's steps, and the steps of the grapher that only say something,
\* leave what the grapher holds alone.
LEMMA GrapherQuiet ==
  ASSUME UNCHANGED grapherHolds
  PROVE  /\ GrapherInv => GrapherInv'
         /\ HolderInv => HolderInv'
         /\ CountInv => CountInv'
         /\ PendingInv /\ ~tombstone' /\ ~dropped' => PendingInv'
<1> USE Fixed DEF grapherHolds
<1>1. UNCHANGED Entries
  BY DEF Entries
<1>2. GrapherInv => GrapherInv'
  <2>1. WindowType => WindowType'
    BY DEF WindowType
  <2>2. WatermarkInv => WatermarkInv'
    BY <1>1 DEF WatermarkInv
  <2>3. ReceiptInv => ReceiptInv'
    BY DEF ReceiptInv
  <2> QED BY <2>1, <2>2, <2>3 DEF GrapherInv
<1>3. HolderInv => HolderInv'
  <2>1. \A n : ChunkOf(n)' = ChunkOf(n)
    BY DEF ChunkOf
  <2>2. \A k, n : /\ Rightly(k, n)' = Rightly(k, n) /\ InExtraction(k, n)' = InExtraction(k, n)
                  /\ InSettling(k, n)' = InSettling(k, n)
    BY <2>1 DEF Rightly, InExtraction, InSettling
  <2> QED BY <2>1, <2>2 DEF HolderInv, TimelineHolders, ExtractionHolders, SettlingHolders
<1>4. CountInv => CountInv'
  <2>1. \A n : ChunkOf(n)' = ChunkOf(n)
    BY DEF ChunkOf
  <2>2. \A k, n : Holds(k, n)' = Holds(k, n)
    BY DEF Holds, InTimeline, InExtraction, InSettling
  <2>3. \A n : Unsettled(n)' = Unsettled(n)
    BY <2>1, <2>2 DEF Unsettled
  <2> QED BY <2>3 DEF CountInv, Counts
<1>5. PendingInv /\ ~tombstone' /\ ~dropped' => PendingInv'
  BY DEF PendingInv, Written
<1> QED BY <1>2, <1>3, <1>4, <1>5

keeperHolds == <<scenario, sealed, tracked, chunk, view, droppedHere, released, freed, queue, transfer, reports, deliveries>>

\* The grapher's other steps leave the keeper alone, and the archive only grows.
LEMMA KeeperQuiet ==
  ASSUME ReceiptInv, UNCHANGED keeperHolds, archive \subseteq archive',
         \/ UNCHANGED <<instance, lastReceipt>>
         \/ instance' = instance + 1
  PROVE  /\ KeeperType => KeeperType'
         /\ CustodyInv => CustodyInv'
         /\ KeeperInv => KeeperInv'
         /\ TruthInv => TruthInv'
<1> USE Fixed DEF keeperHolds
<1>1. KeeperType => KeeperType'
  BY DEF KeeperType, ChunkStates, Transfers
<1>2. CustodyInv => CustodyInv'
  BY DEF CustodyInv, MovedOnce, Owned, Moving, InQueue
<1>3. KeeperInv => KeeperInv'
  <2>1. instance \in Nat
    BY DEF ReceiptInv
  <2>2. ViewInv => ViewInv'
    <3>1. ASSUME ViewInv PROVE view.inst \in Nat /\ view.inst <= instance
      BY <3>1 DEF ViewInv
    <3> QED BY <2>1, <3>1 DEF ViewInv
  <2>3. ReportInv => ReportInv'
    <3>1. ASSUME ReportInv PROVE \A r \in reports : r.inst \in Nat /\ r.inst <= instance
      BY <3>1 DEF ReportInv
    <3> QED BY <2>1, <3>1 DEF ReportInv
  <2>4. AckInv /\ ShipInv => AckInv' /\ ShipInv'
    BY DEF AckInv, ShipInv
  <2> QED BY <2>2, <2>3, <2>4 DEF KeeperInv
<1>4. ASSUME TruthInv PROVE TruthInv'
  <2>1. \A c : Written(c) => Written(c)'
    BY DEF Written
  <2>2. \A v : Truthful(v) => Truthful(v)'
    BY <2>1 DEF Truthful
  <2>3. Truthful(view)'
    BY <1>4, <2>1 DEF Truthful, TruthInv
  <2>4. \A r \in reports' : r.w # DropWatermark' /\ Truthful(r)'
    BY <1>4, <2>2 DEF TruthInv
  <2>5. \A c \in Chunks : Moving(c)' = Moving(c)
    BY DEF Moving, InQueue
  <2> QED BY <1>4, <2>1, <2>3, <2>4, <2>5 DEF TruthInv
<1> QED BY <1>1, <1>2, <1>3, <1>4

\* A receipt of the running process has one delivery.
LEMMA ChunkOfFact ==
  ASSUME ReceiptInv, NEW n \in 1 .. lastReceipt
  PROVE  /\ [inst |-> instance, n |-> n, c |-> ChunkOf(n)] \in deliveries /\ ChunkOf(n) \in Chunks
         /\ \A d \in deliveries : d.inst = instance /\ d.n = n => d.c = ChunkOf(n)
<1> DEFINE d == CHOOSE e \in deliveries : e.inst = instance /\ e.n = n
<1>1. d \in deliveries /\ d.inst = instance /\ d.n = n
  BY DEF ReceiptInv
<1>2. ChunkOf(n) = d.c
  BY DEF ChunkOf
<1> HIDE DEF d
<1>3. d \in Deliveries
  BY <1>1 DEF ReceiptInv
<1>4. d = [inst |-> instance, n |-> n, c |-> ChunkOf(n)] /\ ChunkOf(n) \in Chunks
  BY <1>1, <1>2, <1>3 DEF Deliveries
<1> QED BY <1>1, <1>2, <1>4 DEF ReceiptInv

\* The windows a receipt waits for are finitely many.
LEMMA UnsettledFinite ==
  ASSUME ScenarioInv, ReceiptInv, NEW n \in 1 .. lastReceipt
  PROVE  /\ IsFiniteSet(Span[ChunkOf(n)]) /\ IsFiniteSet(Unsettled(n))
         /\ Cardinality(Span[ChunkOf(n)]) \in Nat /\ Cardinality(Unsettled(n)) \in Nat
         /\ Cardinality(Unsettled(n)) <= Cardinality(Span[ChunkOf(n)])
<1>1. Span[ChunkOf(n)] \subseteq 1 .. Horizon /\ Horizon \in Nat
  BY ScenarioFacts, ChunkOfFact
<1>2. IsFiniteSet(1 .. Horizon)
  BY <1>1, FS_Interval
<1>3. IsFiniteSet(Span[ChunkOf(n)])
  BY <1>1, <1>2, FS_Subset
<1>4. Unsettled(n) \subseteq Span[ChunkOf(n)]
  BY DEF Unsettled
<1> QED BY <1>3, <1>4, FS_Subset, FS_CardinalityType

\* While windows only lose receipts and the archive only grows, no receipt has
\* to wait for more windows.
LEMMA UnsettledShrinks ==
  ASSUME ScenarioInv, ReceiptInv, NEW n \in 1 .. lastReceipt,
         UNCHANGED <<scenario, deliveries, instance>>, archive \subseteq archive',
         \A k : Holds(k, n)' => Holds(k, n)
  PROVE  Unsettled(n)' \subseteq Unsettled(n) /\ Cardinality(Unsettled(n)') <= Cardinality(Unsettled(n))
<1>1. ChunkOf(n)' = ChunkOf(n) /\ Span' = Span
  BY Fixed DEF ChunkOf
<1>2. Unsettled(n)' \subseteq Unsettled(n)
  BY <1>1 DEF Unsettled
<1> QED BY <1>2, UnsettledFinite, FS_Subset

\* A step that gives no receipt, merges none and lets none go
LEMMA CountKept ==
  ASSUME ScenarioInv, ReceiptInv, CountInv,
         UNCHANGED <<scenario, deliveries, instance, pending>>, archive \subseteq archive', arrived' \subseteq arrived,
         \A n \in DOMAIN pending : \A k : Holds(k, n)' => Holds(k, n)
  PROVE  CountInv'
<1>1. ASSUME NEW n \in DOMAIN pending, pending[n].merged
      PROVE  Cardinality(Unsettled(n)') <= pending[n].holders
  <2>1. n \in 1 .. lastReceipt
    BY DEF ReceiptInv
  <2>2. Cardinality(Unsettled(n)') <= Cardinality(Unsettled(n))
    BY <2>1, UnsettledShrinks
  <2>3. Cardinality(Unsettled(n)) \in Nat /\ Cardinality(Unsettled(n)') \in Nat
    <3>1. Unsettled(n)' \subseteq Unsettled(n)
      BY <2>1, UnsettledShrinks
    <3> QED BY <2>1, <3>1, UnsettledFinite, FS_Subset, FS_CardinalityType
  <2>4. Cardinality(Unsettled(n)) <= pending[n].holders /\ pending[n].holders \in Nat
    BY <1>1 DEF CountInv, Counts
  <2> QED BY <2>2, <2>3, <2>4
<1> QED BY <1>1 DEF CountInv, Counts

-----------------------------------------------------------------------------
(* The watermark                                                           *)

\* registerStory covers a gap only when nothing has been written beyond W.
LEMMA RegisterInv ==
  ASSUME ScenarioInv, WatermarkInv, persisted \subseteq 1 .. LastWindow, UNCHANGED <<scenario, persisted>>,
         NEW start \in 1 .. Horizon, NEW fresh,
         RegisterStory(start, fresh)
  PROVE  WatermarkInv' /\ (entry.w # DropWatermark => entry'.w # DropWatermark')
<1> USE Fixed
<1>1. Horizon \in Nat /\ DropWatermark = Horizon + 10 /\ LastWindow = Horizon + 2 /\ start \in Nat /\ start <= Horizon
  BY ScenarioFacts DEF DropWatermark, LastWindow
<1>2. entry \in Entries /\ failedEarly \in BOOLEAN
  BY DEF WatermarkInv
<1>3. CASE ~entry.known
  <2>1. /\ entry' = [known |-> TRUE, anchor |-> start, w |-> start, writeFailed |-> failedEarly, parked |-> {}]
        /\ UNCHANGED covered /\ failedEarly' = FALSE
    BY <1>3 DEF RegisterStory
  <2>2. /\ entry' \in Entries /\ entry'.known /\ entry'.w = start /\ entry'.anchor = start /\ entry'.parked = {}
    BY <1>1, <1>2, <2>1 DEF Entries
  <2>3. persisted = {} /\ start .. (start - 1) = {} /\ start # DropWatermark /\ start <= LastWindow + 1
    BY <1>1, <1>3 DEF WatermarkInv
  <2>4. entry' \in Entries'
    BY <2>2 DEF Entries
  <2> QED BY <2>1, <2>2, <2>3, <2>4 DEF WatermarkInv
<1>4. CASE entry.known /\ entry' = entry /\ covered' = covered /\ UNCHANGED failedEarly
  <2>1. Entries' = Entries
    BY DEF Entries
  <2> QED BY <1>4, <2>1 DEF WatermarkInv
<1>5. CASE /\ entry.known /\ entry.parked = {} /\ start > entry.w /\ entry' = [entry EXCEPT !.w = start]
           /\ covered' = covered \cup (entry.w .. (start - 1)) /\ UNCHANGED failedEarly
  <2>1. /\ entry' \in Entries /\ entry'.known /\ entry'.w = start /\ entry'.anchor = entry.anchor
        /\ entry'.parked = {} /\ entry.w \in Nat /\ entry.anchor \in Nat
    BY <1>1, <1>2, <1>5 DEF Entries
  <2>2. entry.w # DropWatermark /\ start # DropWatermark /\ start <= LastWindow + 1
    BY <1>1, <1>5, <2>1
  <2>3. /\ \A k \in entry.anchor .. (entry.w - 1) : k \in persisted \cup covered
        /\ entry.w \notin persisted /\ \A k \in persisted : ~(k > entry.w)
    BY <1>5, <2>2 DEF WatermarkInv
  <2>4. \A k \in entry.anchor .. (start - 1) : k \in persisted \cup covered'
    <3>1. ASSUME NEW k \in entry.anchor .. (start - 1) PROVE k \in persisted \cup covered'
      <4>1. k \in entry.anchor .. (entry.w - 1) \/ k \in entry.w .. (start - 1)
        BY <1>1, <2>1
      <4> QED BY <1>5, <2>3, <4>1
    <3> QED BY <3>1
  <2>5. start \notin persisted
    BY <1>5, <2>3
  <2>6. {k \in persisted : k > start} = {}
    <3>1. ASSUME NEW k \in persisted, k > start PROVE FALSE
      <4>1. k \in Nat
        BY <1>1
      <4> QED BY <1>1, <1>5, <2>1, <2>3, <3>1, <4>1
    <3> QED BY <3>1
  <2>7. entry' \in Entries'
    BY <2>1 DEF Entries
  <2> QED BY <1>2, <1>5, <2>1, <2>2, <2>4, <2>5, <2>6, <2>7 DEF WatermarkInv
<1> QED BY <1>3, <1>4, <1>5 DEF RegisterStory

\* A story that is dropped is watermarked above every window.
LEMMA DropInv ==
  ASSUME ScenarioInv, WatermarkInv, UNCHANGED <<scenario, persisted>>, DropStory
  PROVE  WatermarkInv'
<1>1. Horizon \in Nat /\ DropWatermark = Horizon + 10
  BY ScenarioFacts DEF DropWatermark
<1>2. entry \in Entries /\ failedEarly \in BOOLEAN /\ UNCHANGED failedEarly
  BY DEF WatermarkInv, DropStory
<1>3. CASE ~entry.known /\ entry' = entry
  BY <1>2, <1>3 DEF WatermarkInv, Entries
<1>4. CASE entry.known /\ entry' = [entry EXCEPT !.w = DropWatermark]
  <2>1. entry' \in Entries' /\ entry'.known /\ entry'.w = DropWatermark
    BY <1>1, <1>2, <1>4 DEF Entries
  <2> QED BY <1>2, <2>1, Fixed DEF WatermarkInv
<1> QED BY <1>3, <1>4 DEF DropStory

\* absorbContiguous finds the end of the run, the first window not parked.
LEMMA AbsorbFact ==
  ASSUME ScenarioInv, NEW w \in 0 .. (LastWindow + 1), NEW parked \in SUBSET (1 .. LastWindow)
  PROVE  /\ Absorb(w, parked) \in w .. (LastWindow + 1) /\ Absorb(w, parked) \notin parked
         /\ \A j \in w .. (Absorb(w, parked) - 1) : j \in parked
<1>1. Horizon \in Nat /\ LastWindow = Horizon + 2
  BY ScenarioFacts DEF LastWindow
<1> DEFINE S == {m \in w .. (Horizon + 3) : m \notin parked}
<1>2. S \in SUBSET Nat /\ Horizon + 3 \in S
  BY <1>1
<1>3. PICK m \in S : \A y \in S : m <= y
  <2> HIDE DEF S
  <2> QED BY <1>2, MinIn
<1>4. \A j \in w .. (m - 1) : j \in parked
  BY <1>1, <1>3
<1>5. \E m_1 \in w .. (Horizon + 3) : m_1 \notin parked /\ \A j \in w .. (m_1 - 1) : j \in parked
  BY <1>4
<1> QED BY <1>1, <1>5 DEF Absorb

\* advancePersisted parks a window beyond W, or moves W over what is parked.
LEMMA AdvanceInv ==
  ASSUME ScenarioInv, WatermarkInv, persisted \subseteq 1 .. LastWindow, UNCHANGED <<scenario, covered, failedEarly>>,
         NEW k \in 1 .. LastWindow, AdvancePersisted(k), persisted' = persisted \cup {k}
  PROVE  WatermarkInv' /\ (entry.w # DropWatermark => entry'.w # DropWatermark')
<1> USE Fixed
<1>1. Horizon \in Nat /\ DropWatermark = Horizon + 10 /\ LastWindow = Horizon + 2
  BY ScenarioFacts DEF DropWatermark, LastWindow
<1> DEFINE e == IF entry.known THEN entry ELSE [NoEntry EXCEPT !.known = TRUE, !.anchor = k, !.w = k]
           w == Absorb(e.w, e.parked \cup {k})
<1>2. entry \in Entries /\ failedEarly \in BOOLEAN
  BY DEF WatermarkInv
<1>3. e \in Entries /\ e.known
  <2>1. CASE entry.known
    BY <1>2, <2>1
  <2>2. CASE ~entry.known
    <3>1. k \in Nat /\ e = [known |-> TRUE, anchor |-> k, w |-> k, writeFailed |-> FALSE, parked |-> {}]
      <4>1. k \in Nat
        BY <1>1
      <4>2. e = [NoEntry EXCEPT !.known = TRUE, !.anchor = k, !.w = k]
        BY <2>2
      <4> HIDE DEF e
      <4> QED BY <4>1, <4>2 DEF NoEntry
    <3> HIDE DEF e
    <3> QED BY <3>1 DEF Entries
  <2> QED BY <2>1, <2>2
<1>4. /\ e.w # DropWatermark =>
            /\ e.w <= LastWindow + 1
            /\ \A j \in e.anchor .. (e.w - 1) : j \in persisted \cup covered
            /\ e.w \notin persisted
            /\ e.parked = {j \in persisted : j > e.w}
      /\ entry.w # DropWatermark => e.w # DropWatermark
  <2>1. CASE entry.known
    BY <2>1 DEF WatermarkInv
  <2>2. CASE ~entry.known
    <3>1. e.w = k /\ e.anchor = k /\ e.parked = {}
      BY <2>2 DEF NoEntry
    <3>2. persisted = {} /\ k .. (k - 1) = {} /\ k # DropWatermark
      BY <1>1, <2>2 DEF WatermarkInv
    <3> HIDE DEF e
    <3> QED BY <3>1, <3>2, <1>1
  <2> QED BY <2>1, <2>2
<1>5. \/ k + 1 <= e.w /\ entry' = e
      \/ ~(k + 1 <= e.w) /\ entry' = [e EXCEPT !.w = w, !.parked = {j \in e.parked \cup {k} : j > w}]
  BY DEF AdvancePersisted
<1> HIDE DEF e
<1>6. e.w \in Nat /\ e.anchor \in Nat /\ e.parked \in SUBSET Nat
  BY <1>3 DEF Entries
<1>7. Entries' = Entries
  BY DEF Entries
<1>8. CASE k + 1 <= e.w /\ entry' = e
  <2>1. e.w # DropWatermark => /\ e.w \notin persisted'
                              /\ e.parked = {j \in persisted' : j > e.w}
    BY <1>1, <1>4, <1>6, <1>8
  <2> QED BY <1>2, <1>3, <1>4, <1>7, <1>8, <2>1 DEF WatermarkInv
<1>9. CASE ~(k + 1 <= e.w) /\ entry' = [e EXCEPT !.w = w, !.parked = {j \in e.parked \cup {k} : j > w}]
  <2>1. e.w <= LastWindow /\ e.w # DropWatermark
    BY <1>1, <1>6, <1>9
  <2>2. e.parked \cup {k} \in SUBSET (1 .. LastWindow) /\ e.w \in 0 .. (LastWindow + 1)
    BY <1>1, <1>4, <1>6, <2>1
  <2>3. /\ w \in e.w .. (LastWindow + 1) /\ w \notin e.parked \cup {k}
        /\ \A j \in e.w .. (w - 1) : j \in e.parked \cup {k}
    BY <2>2, AbsorbFact
  <2> HIDE DEF w
  <2>4. w \in Nat /\ w <= LastWindow + 1 /\ w # DropWatermark
    BY <1>1, <1>6, <2>3
  <2>5. /\ entry' \in Entries /\ entry'.known /\ entry'.w = w /\ entry'.anchor = e.anchor
        /\ entry'.parked = {j \in e.parked \cup {k} : j > w}
    <3> DEFINE p == {j \in e.parked \cup {k} : j > w}
    <3>1. p \in SUBSET Nat
      BY <1>1, <1>6
    <3>2. entry' = [e EXCEPT !.w = w, !.parked = p]
      BY <1>9
    <3> HIDE DEF p
    <3>3. entry' \in Entries /\ entry'.known /\ entry'.w = w /\ entry'.anchor = e.anchor /\ entry'.parked = p
      BY <1>3, <2>4, <3>1, <3>2 DEF Entries
    <3> QED BY <3>3 DEF p
  <2>6. ASSUME NEW j \in e.anchor .. (w - 1) PROVE j \in persisted' \cup covered'
    <3>1. j \in e.anchor .. (e.w - 1) \/ j \in e.w .. (w - 1)
      BY <1>6, <2>4
    <3>2. CASE j \in e.anchor .. (e.w - 1)
      BY <1>4, <2>1, <3>2
    <3>3. CASE j \in e.w .. (w - 1)
      BY <1>4, <2>1, <2>3, <3>3
    <3> QED BY <3>1, <3>2, <3>3
  <2>7. \A j \in persisted : j \in Nat
    BY <1>1
  <2>8. w \notin persisted'
    <3>1. ASSUME w \in persisted PROVE FALSE
      <4>1. w # e.w /\ ~(w > e.w)
        BY <1>4, <2>1, <2>3, <3>1
      <4> QED BY <1>6, <2>3, <2>4, <4>1
    <3> QED BY <2>3, <3>1
  <2>9. {j \in e.parked \cup {k} : j > w} = {j \in persisted' : j > w}
    <3>1. ASSUME NEW j \in persisted, j > w PROVE j \in e.parked
      <4>1. j > e.w
        BY <1>6, <2>3, <2>4, <2>7, <3>1
      <4> QED BY <1>4, <2>1, <4>1
    <3>2. e.parked \subseteq persisted
      BY <1>4, <2>1
    <3> QED BY <3>1, <3>2
  <2> QED BY <1>2, <1>7, <2>4, <2>5, <2>6, <2>8, <2>9 DEF WatermarkInv
<1> QED BY <1>5, <1>8, <1>9

-----------------------------------------------------------------------------
(* The grapher's steps                                                     *)

\* A timeline that only loses receipts
LEMMA TimelineLess ==
  ASSUME HolderInv, UNCHANGED <<scenario, deliveries, instance, lastReceipt, arrived, extraction, settling, archive>>,
         \A k \in DOMAIN timeline' : timeline'[k].rec = {} \/ (k \in DOMAIN timeline /\ timeline'[k] = timeline[k])
  PROVE  HolderInv' /\ \A k, n : Holds(k, n)' => Holds(k, n)
<1> USE Fixed
<1>1. \A n : ChunkOf(n)' = ChunkOf(n)
  BY DEF ChunkOf
<1>2. \A k, n : /\ Rightly(k, n)' = Rightly(k, n) /\ InExtraction(k, n)' = InExtraction(k, n)
                /\ InSettling(k, n)' = InSettling(k, n)
  BY <1>1 DEF Rightly, InExtraction, InSettling
<1>3. \A k, n : InTimeline(k, n)' => InTimeline(k, n)
  BY DEF InTimeline
<1>4. HolderInv'
  BY <1>1, <1>2 DEF HolderInv, TimelineHolders, ExtractionHolders, SettlingHolders
<1> QED BY <1>2, <1>3, <1>4 DEF Holds

\* The first windows of a pipeline
LEMMA FirstWindows ==
  ASSUME ScenarioInv, NEW start \in 1 .. Horizon
  PROVE  /\ \E lo, hi \in 1 .. LastWindow : DOMAIN NewTimeline(start) = lo .. hi
         /\ \A k \in DOMAIN NewTimeline(start) :
              /\ NewTimeline(start)[k] \in [evs : SUBSET Events, rec : SUBSET Nat]
              /\ NewTimeline(start)[k].rec = {}
<1>1. Horizon \in Nat /\ start \in Nat /\ LastWindow = Horizon + 2
  BY ScenarioFacts DEF LastWindow
<1>2. start \in 1 .. LastWindow /\ start + 2 \in 1 .. LastWindow
  BY <1>1
<1>3. EmptyWindow \in [evs : SUBSET Events, rec : SUBSET Nat] /\ EmptyWindow.rec = {}
  BY DEF EmptyWindow
<1> QED BY <1>2, <1>3 DEF NewTimeline

\* startStoryRecording and adoptOrphanChunks: the story is registered, with a
\* pipeline that is new or the one there was.
LEMMA RegisteredInv ==
  ASSUME ScenarioInv, GrapherInv, NEW start \in 1 .. Horizon, NEW fresh, RegisterStory(start, fresh),
         timeline' = timeline \/ (DOMAIN timeline = {} /\ timeline' = NewTimeline(start)),
         UNCHANGED <<scenario, extraction, settling, persisted, instance, lastReceipt, lastAssigned,
                     deliveries, arrived, pending, archive, tombstone>>
  PROVE  GrapherInv' /\ (HeldInv => HeldInv')
<1> USE Fixed
<1>1. WatermarkInv' /\ (entry.w # DropWatermark => entry'.w # DropWatermark')
  BY RegisterInv DEF GrapherInv, WindowType
<1>2. WindowType'
  <2>1. CASE timeline' = timeline
    BY <2>1 DEF GrapherInv, WindowType
  <2>2. CASE timeline' = NewTimeline(start)
    BY <2>2, FirstWindows DEF GrapherInv, WindowType
  <2> QED BY <2>1, <2>2
<1>3. ReceiptInv'
  BY DEF GrapherInv, ReceiptInv
<1>4. ASSUME HeldInv PROVE HeldInv'
  <2>1. \A k \in DOMAIN timeline' : timeline'[k].rec = {} \/ (k \in DOMAIN timeline /\ timeline'[k] = timeline[k])
    BY FirstWindows
  <2>2. HolderInv' /\ \A k, n : Holds(k, n)' => Holds(k, n)
    BY <1>4, <2>1, TimelineLess DEF HeldInv
  <2>3. CountInv'
    BY <1>4, <2>2, CountKept DEF HeldInv, GrapherInv
  <2>4. PendingInv'
    BY <1>1, <1>4 DEF HeldInv, PendingInv, Written, RegisterStory
  <2> QED BY <2>2, <2>3, <2>4 DEF HeldInv
<1> QED BY <1>1, <1>2, <1>3, <1>4 DEF GrapherInv

\* A chunk starts in a window of the scenario.
LEMMA StartFact ==
  ASSUME ScenarioInv, NEW c \in Chunks PROVE StartOf(c) \in 1 .. Horizon
<1>1. Span[c] \in SUBSET Nat /\ Span[c] # {} /\ Span[c] \subseteq 1 .. Horizon
  BY ScenarioFacts
<1> QED BY <1>1, MinIn DEF StartOf

\* Removing a chunk that arrived from a destroyed story
LEMMA RefusedInv ==
  ASSUME ScenarioInv, GrapherInv, DropStory, arrived' \subseteq arrived,
         UNCHANGED <<scenario, timeline, extraction, settling, persisted, instance, lastReceipt, lastAssigned,
                     deliveries, covered>>
  PROVE  GrapherInv'
<1> USE Fixed
<1>1. WatermarkInv'
  BY DropInv DEF GrapherInv
<1>2. WindowType'
  BY DEF GrapherInv, WindowType
<1>3. DOMAIN pending' \subseteq DOMAIN pending
  BY DEF DropStory
<1>4. ReceiptInv'
  BY <1>3 DEF GrapherInv, ReceiptInv
<1> QED BY <1>1, <1>2, <1>4 DEF GrapherInv

\* startStoryRecording
LEMMA StartInv ==
  ASSUME ScenarioInv, GrapherInv, UNCHANGED scenario, NEW t \in 1 .. Horizon, StartStoryRecording(t)
  PROVE  GrapherInv' /\ (HeldInv => HeldInv')
<1>1. /\ RegisterStory(t, ~HasPipeline)
      /\ timeline' = timeline \/ (DOMAIN timeline = {} /\ timeline' = NewTimeline(t))
      /\ UNCHANGED <<extraction, settling, persisted, instance, lastReceipt, lastAssigned,
                     deliveries, arrived, pending, archive, tombstone>>
  BY DEF StartStoryRecording, HasPipeline, writer, receipts
<1> QED BY <1>1, RegisteredInv

\* adoptOrphanChunks
LEMMA AdoptInv ==
  ASSUME ScenarioInv, GrapherInv, UNCHANGED scenario, NEW n \in arrived, AdoptOrphanChunk(n)
  PROVE  GrapherInv' /\ (HeldInv => HeldInv')
<1>1. UNCHANGED <<extraction, settling, persisted, instance, archive, tombstone>> /\ DOMAIN timeline = {}
  BY DEF AdoptOrphanChunk, writer, HasPipeline
<1>2. CASE tombstone
  <2>1. /\ DropStory /\ arrived' \subseteq arrived
        /\ UNCHANGED <<timeline, covered, lastReceipt, lastAssigned, deliveries>>
    BY <1>2 DEF AdoptOrphanChunk
  <2>2. ~HeldInv
    BY <1>2 DEF HeldInv, PendingInv
  <2> QED BY <1>1, <2>1, <2>2, RefusedInv
<1>3. CASE ~tombstone
  <2>1. /\ timeline' = NewTimeline(StartOf(ChunkOf(n))) /\ RegisterStory(StartOf(ChunkOf(n)), FALSE)
        /\ UNCHANGED <<arrived, lastReceipt, lastAssigned, pending, deliveries>>
    BY <1>3 DEF AdoptOrphanChunk, receipts
  <2>2. StartOf(ChunkOf(n)) \in 1 .. Horizon
    <3>1. n \in 1 .. lastReceipt
      BY DEF GrapherInv, ReceiptInv
    <3> QED BY <3>1, ChunkOfFact, StartFact DEF GrapherInv
  <2> HIDE DEF StartOf, ChunkOf
  <2> QED BY <1>1, <2>1, <2>2, RegisteredInv
<1> QED BY <1>2, <1>3

\* A receipt that was given out stays the receipt of its chunk.
LEMMA ReceiptStays ==
  ASSUME ReceiptInv, ReceiptInv', deliveries \subseteq deliveries', UNCHANGED <<scenario, instance>>,
         NEW n \in 1 .. lastReceipt, n \in 1 .. lastReceipt'
  PROVE  ChunkOf(n)' = ChunkOf(n)
<1> DEFINE d == [inst |-> instance, n |-> n, c |-> ChunkOf(n)]
           e == CHOOSE e \in deliveries' : e.inst = instance' /\ e.n = n
<1>1. d \in deliveries /\ d.inst = instance /\ d.n = n /\ d.c = ChunkOf(n)
  BY ChunkOfFact
<1>2. e \in deliveries' /\ e.inst = instance' /\ e.n = n
  BY DEF ReceiptInv
<1>3. ChunkOf(n)' = e.c
  BY DEF ChunkOf
<1> HIDE DEF d, e
<1>4. e = d
  BY <1>1, <1>2 DEF ReceiptInv
<1> QED BY <1>1, <1>3, <1>4

\* receive_story_chunk: a new receipt, that no window holds yet
LEMMA ReceiveInv ==
  ASSUME ScenarioInv, KeeperType, GrapherInv, UNCHANGED scenario, NEW i \in DOMAIN queue, ReceiveStoryChunk(i)
  PROVE  GrapherInv' /\ (HeldInv => HeldInv')
<1> USE Fixed
<1> DEFINE n == lastReceipt + 1
           g == [inst |-> instance, n |-> n, c |-> queue[i]]
<1>1. /\ lastReceipt' = n /\ lastAssigned' = n /\ deliveries' = deliveries \cup {g} /\ arrived' = arrived \cup {n}
      /\ pending' = [m \in DOMAIN pending \cup {n} |->
                       IF m = n THEN [holders |-> 0, merged |-> FALSE] ELSE pending[m]]
      /\ UNCHANGED <<instance, timeline, extraction, settling, archive, persisted, entry, failedEarly, dropped,
                     covered, tombstone>>
  BY DEF ReceiveStoryChunk, AssignReceipt, writer, registry
<1>2. queue[i] \in Chunks
  BY LenProperties, ElementOfSeq DEF KeeperType
<1>3. lastReceipt \in Nat /\ instance \in Nat
  BY DEF GrapherInv, ReceiptInv
<1>4. g.inst = instance /\ g.n = n /\ g \in Deliveries /\ n \in Nat
  BY <1>2, <1>3 DEF Deliveries
<1> HIDE DEF g
<1>5. WindowType' /\ WatermarkInv'
  <2>1. Entries' = Entries
    BY DEF Entries
  <2> QED BY <1>1, <2>1 DEF GrapherInv, WindowType, WatermarkInv
<1>6. ReceiptInv'
  <2>1. \A d \in deliveries : d.inst \in Nat /\ d.n \in Nat
    BY DEF GrapherInv, ReceiptInv, Deliveries
  <2>2. \A d \in deliveries : /\ 1 <= d.inst /\ d.inst <= instance /\ 1 <= d.n
                              /\ d.inst = instance => d.n <= lastReceipt
    BY DEF GrapherInv, ReceiptInv
  <2>3. lastReceipt' \in Nat /\ lastAssigned' \in 0 .. lastReceipt' /\ deliveries' \subseteq Deliveries' /\ instance' \in Nat
    BY <1>1, <1>3, <1>4 DEF GrapherInv, ReceiptInv
  <2>4. 1 <= instance
    BY DEF GrapherInv, ReceiptInv
  <2>5. \A d \in deliveries' : /\ 1 <= d.inst /\ d.inst <= instance' /\ 1 <= d.n
                               /\ d.inst = instance' => d.n <= lastReceipt'
    BY <1>1, <1>3, <1>4, <2>1, <2>2, <2>4
  <2>6. \A d, e \in deliveries' : d.inst = e.inst /\ d.n = e.n => d = e
    <3>1. \A d \in deliveries : ~(d.inst = g.inst /\ d.n = g.n)
      BY <1>3, <1>4, <2>1, <2>2
    <3>2. \A d, e \in deliveries : d.inst = e.inst /\ d.n = e.n => d = e
      BY DEF GrapherInv, ReceiptInv
    <3> QED BY <1>1, <3>1, <3>2
  <2>7. ASSUME NEW m \in 1 .. lastReceipt' PROVE \E d \in deliveries' : d.inst = instance' /\ d.n = m
    <3>1. m \in 1 .. lastReceipt \/ m = n
      BY <1>1, <1>3
    <3>2. \A l \in 1 .. lastReceipt : \E d \in deliveries : d.inst = instance /\ d.n = l
      BY DEF GrapherInv, ReceiptInv
    <3> QED BY <1>1, <1>4, <3>1, <3>2
  <2>8. arrived' \subseteq 1 .. lastReceipt' /\ DOMAIN pending' \subseteq 1 .. lastReceipt'
    BY <1>1, <1>3 DEF GrapherInv, ReceiptInv
  <2> QED BY <1>1, <2>3, <2>5, <2>6, <2>7, <2>8, <2>4 DEF ReceiptInv
<1>7. ASSUME HeldInv PROVE HeldInv'
  <2>1. ASSUME NEW m \in 1 .. lastReceipt PROVE ChunkOf(m)' = ChunkOf(m) /\ m # n /\ m \in 1 .. lastReceipt'
    <3>1. m \in 1 .. lastReceipt' /\ m # n
      BY <1>1, <1>3
    <3> QED BY <1>1, <1>6, <3>1, ReceiptStays DEF GrapherInv
  <2>2. \A k, m : /\ InExtraction(k, m)' = InExtraction(k, m) /\ InSettling(k, m)' = InSettling(k, m)
                  /\ Holds(k, m)' = Holds(k, m)
    BY <1>1 DEF Holds, InTimeline, InExtraction, InSettling
  <2>3. \A k, m : Rightly(k, m) => Rightly(k, m)' /\ ChunkOf(m)' = ChunkOf(m)
    BY <1>1, <2>1 DEF Rightly
  <2>4. HolderInv'
    <3>1. TimelineHolders'
      BY <1>1, <1>7, <2>2, <2>3 DEF HeldInv, HolderInv, TimelineHolders
    <3>2. ExtractionHolders'
      <4>1. ASSUME NEW j \in DOMAIN extraction, NEW m \in extraction[j].rec, NEW k, k = extraction[j].win
            PROVE  Rightly(k, m)' /\ <<ChunkOf(m)', k>> \in extraction[j].evs /\ ~InSettling(k, m)'
        BY <1>7, <2>2, <2>3, <4>1 DEF HeldInv, HolderInv, ExtractionHolders
      <4>2. \A j \in DOMAIN extraction : \A m \in extraction[j].rec :
              \A l \in DOMAIN extraction : m \in extraction[l].rec /\ extraction[l].win = extraction[j].win => j = l
        BY <1>7 DEF HeldInv, HolderInv, ExtractionHolders
      <4> QED BY <1>1, <4>1, <4>2 DEF ExtractionHolders
    <3>3. SettlingHolders'
      BY <1>1, <1>7, <2>2, <2>3 DEF HeldInv, HolderInv, SettlingHolders
    <3> QED BY <3>1, <3>2, <3>3 DEF HolderInv
  <2>5. CountInv'
    <3>1. ASSUME NEW m \in DOMAIN pending
          PROVE  /\ m # n /\ pending'[m] = pending[m] /\ (m \in arrived' <=> m \in arrived)
                 /\ Unsettled(m)' = Unsettled(m)
      <4>1. m \in 1 .. lastReceipt
        BY DEF GrapherInv, ReceiptInv
      <4> QED BY <1>1, <2>1, <2>2, <4>1 DEF Unsettled
    <3>2. pending'[n] = [holders |-> 0, merged |-> FALSE]
      BY <1>1
    <3>3. \A m \in DOMAIN pending' : m = n \/ m \in DOMAIN pending
      BY <1>1
    <3> HIDE DEF n
    <3>4. ASSUME NEW m \in DOMAIN pending'
          PROVE  /\ pending'[m] \in Counts
                 /\ m \in arrived' => pending'[m].holders = 0 /\ ~pending'[m].merged
                 /\ pending'[m].merged => Cardinality(Unsettled(m)') <= pending'[m].holders
      <4>1. CASE m = n
        <5>1. pending'[n] \in Counts
          BY <3>2 DEF Counts
        <5>2. pending'[m] \in Counts
          BY <4>1, <5>1, Zenon
        <5>3. pending'[m].holders = 0
          BY <3>2, <4>1
        <5>4. ~pending'[m].merged
          BY <3>2, <4>1
        <5> QED BY <5>3, <5>4, <5>2
      <4>2. CASE m \in DOMAIN pending
        BY <1>7, <3>1, <4>2 DEF HeldInv, CountInv
      <4> QED BY <3>3, <4>1, <4>2
    <3> QED BY <3>4 DEF CountInv, Counts
  <2>6. PendingInv'
    BY <1>1, <1>4, <1>7 DEF HeldInv, PendingInv, Written
  <2> QED BY <2>4, <2>5, <2>6 DEF HeldInv
<1> QED BY <1>5, <1>6, <1>7 DEF GrapherInv

\* The timeline reaches over the chunk's span and stays an interval.
LEMMA ExtendedFact ==
  ASSUME ScenarioInv, WindowType, HasPipeline, NEW c \in Chunks
  PROVE  /\ \E lo, hi \in 1 .. LastWindow : Extended(Span[c]) = lo .. hi
         /\ Span[c] \subseteq Extended(Span[c]) /\ DOMAIN timeline \subseteq Extended(Span[c])
<1>1. Horizon \in Nat /\ LastWindow = Horizon + 2 /\ Span[c] \subseteq 1 .. Horizon /\ Span[c] # {}
  BY ScenarioFacts DEF LastWindow
<1>2. PICK a \in 1 .. LastWindow, b \in 1 .. LastWindow : DOMAIN timeline = a .. b
  BY DEF WindowType, HasPipeline
<1>3. a \in Nat /\ b \in Nat /\ a <= b
  BY <1>1, <1>2 DEF HasPipeline
<1>4. Min(DOMAIN timeline) = a /\ Max(DOMAIN timeline) = b
  BY <1>2, <1>3, Ends
<1> DEFINE s == Min(Span[c])
           t == Max(Span[c])
<1>5. s \in Span[c] /\ \A y \in Span[c] : s <= y
  <2>1. Span[c] \in SUBSET Nat
    BY <1>1
  <2> QED BY <1>1, <2>1, MinIn
<1>6. t \in Span[c] /\ \A y \in Span[c] : t >= y
  <2>1. Span[c] \in SUBSET (0 .. Horizon)
    BY <1>1
  <2> QED BY <1>1, <2>1, MaxIn
<1> HIDE DEF s, t
<1>7. s \in 1 .. Horizon /\ t \in 1 .. Horizon /\ s \in Nat /\ t \in Nat
  BY <1>1, <1>5, <1>6
<1> DEFINE lo == IF a <= s THEN a ELSE s
           hi == IF b >= t THEN b ELSE t
<1>8. Extended(Span[c]) = lo .. hi
  <2>1. Min({a, s}) = lo
    BY <1>3, <1>7, MinPair
  <2>2. Max({b, t}) = hi
    BY <1>3, <1>7, MaxPair
  <2> QED BY <1>4, <2>1, <2>2 DEF Extended, s, t
<1>9. lo \in 1 .. LastWindow /\ hi \in 1 .. LastWindow
  BY <1>1, <1>2, <1>7
<1>10. Span[c] \subseteq lo .. hi
  <2>1. ASSUME NEW y \in Span[c] PROVE y \in lo .. hi
    <3>1. y \in Nat /\ s <= y /\ t >= y
      BY <1>1, <1>5, <1>6
    <3> QED BY <1>3, <1>7, <3>1
  <2> QED BY <2>1
<1>11. DOMAIN timeline \subseteq lo .. hi
  BY <1>2, <1>3, <1>7
<1> HIDE DEF lo, hi
<1> QED BY <1>8, <1>9, <1>10, <1>11

\* A window of the timeline after chunk c of receipt n was merged
LEMMA MergedFact ==
  ASSUME WindowType, NEW n \in Nat, NEW k, ChunkOf(n) \in Chunks, NEW w, w = MergedWindow(k, n),
         NEW old, old = IF k \in DOMAIN timeline THEN timeline[k] ELSE EmptyWindow
  PROVE  /\ w \in [evs : SUBSET Events, rec : SUBSET Nat]
         /\ k \in Span[ChunkOf(n)] => w.rec = old.rec \cup {n} /\ w.evs = old.evs \cup {<<ChunkOf(n), k>>}
         /\ k \notin Span[ChunkOf(n)] => w = old
<1>1. old \in [evs : SUBSET Events, rec : SUBSET Nat]
  BY DEF WindowType, EmptyWindow
<1>2. k \in Span[ChunkOf(n)] => <<ChunkOf(n), k>> \in Events
  BY DEF Events, EventsOf
<1>3. w = IF k \in Span[ChunkOf(n)] THEN [evs |-> old.evs \cup {<<ChunkOf(n), k>>}, rec |-> old.rec \cup {n}]
                                    ELSE old
  BY DEF MergedWindow
<1>4. CASE k \in Span[ChunkOf(n)]
  <2> DEFINE es == old.evs \cup {<<ChunkOf(n), k>>}
             rs == old.rec \cup {n}
  <2>1. es \in SUBSET Events /\ rs \in SUBSET Nat
    BY <1>1, <1>2, <1>4
  <2>2. w = [evs |-> es, rec |-> rs]
    BY <1>3, <1>4
  <2> HIDE DEF es, rs
  <2>3. w \in [evs : SUBSET Events, rec : SUBSET Nat] /\ w.evs = es /\ w.rec = rs
    BY <2>1, <2>2
  <2> QED BY <1>4, <2>3 DEF es, rs
<1>5. CASE k \notin Span[ChunkOf(n)]
  BY <1>1, <1>3, <1>5
<1> QED BY <1>4, <1>5

\* mergeEvents: the windows that hold the receipt are counted.
LEMMA MergeInv ==
  ASSUME ScenarioInv, GrapherInv, UNCHANGED scenario, NEW n \in arrived, MergeEvents(n)
  PROVE  GrapherInv' /\ (HeldInv => HeldInv')
<1> USE Fixed
<1> DEFINE c == ChunkOf(n)
<1>1. /\ HasPipeline /\ timeline' = [k \in Extended(Span[c]) |-> MergedWindow(k, n)]
      /\ pending' = Merged(n) /\ arrived' = arrived \ {n}
      /\ UNCHANGED <<instance, lastReceipt, lastAssigned, deliveries, extraction, settling, archive, persisted,
                     entry, failedEarly, dropped, covered, tombstone>>
  BY DEF MergeEvents, writer, registry
<1>2. n \in 1 .. lastReceipt /\ n \in Nat /\ WindowType /\ ReceiptInv
  BY DEF GrapherInv, ReceiptInv
<1>3. c \in Chunks
  BY <1>2, ChunkOfFact
<1>4. /\ \E lo, hi \in 1 .. LastWindow : Extended(Span[c]) = lo .. hi
      /\ Span[c] \subseteq Extended(Span[c]) /\ DOMAIN timeline \subseteq Extended(Span[c])
  BY <1>1, <1>2, <1>3, ExtendedFact
<1>5. DOMAIN timeline' = Extended(Span[c]) /\ \A k \in DOMAIN timeline' : timeline'[k] = MergedWindow(k, n)
  BY <1>1
<1>6. \A k \in DOMAIN timeline' : timeline'[k] \in [evs : SUBSET Events, rec : SUBSET Nat]
  BY <1>2, <1>3, <1>5, MergedFact
<1>7. WindowType'
  BY <1>1, <1>2, <1>4, <1>5, <1>6 DEF WindowType
<1>8. WatermarkInv'
  <2>1. Entries' = Entries
    BY DEF Entries
  <2> QED BY <1>1, <2>1 DEF GrapherInv, WatermarkInv
<1>9. DOMAIN pending' = DOMAIN pending
  BY <1>1 DEF Merged
<1>10. ReceiptInv'
  BY <1>1, <1>2, <1>9 DEF ReceiptInv
<1>11. ASSUME HeldInv PROVE HeldInv'
  <2>1. \A m : ChunkOf(m)' = ChunkOf(m)
    BY <1>1 DEF ChunkOf
  <2>2. \A k, m : InExtraction(k, m)' = InExtraction(k, m) /\ InSettling(k, m)' = InSettling(k, m)
    BY <1>1 DEF InExtraction, InSettling
  <2>3. \A k, m : Rightly(k, m) => Rightly(k, m)'
    BY <1>1, <2>1 DEF Rightly
  <2>4. \A k : ~InExtraction(k, n) /\ ~InSettling(k, n)
    BY <1>11 DEF HeldInv, HolderInv, ExtractionHolders, SettlingHolders, InExtraction, InSettling, Rightly
  <2>5. ASSUME NEW k \in DOMAIN timeline', NEW m \in timeline'[k].rec
        PROVE  \/ m = n /\ k \in Span[c] /\ <<c, k>> \in timeline'[k].evs
               \/ k \in DOMAIN timeline /\ m \in timeline[k].rec /\ timeline[k].evs \subseteq timeline'[k].evs
    <3> DEFINE old == IF k \in DOMAIN timeline THEN timeline[k] ELSE EmptyWindow
    <3>1. EmptyWindow.rec = {}
      BY DEF EmptyWindow
    <3>2. /\ k \in Span[c] => timeline'[k].rec = old.rec \cup {n} /\ timeline'[k].evs = old.evs \cup {<<c, k>>}
          /\ k \notin Span[c] => timeline'[k] = old
      BY <1>2, <1>3, <1>5, MergedFact
    <3> QED BY <2>5, <3>1, <3>2
  <2>6. TimelineHolders'
    <3>1. ASSUME NEW k \in DOMAIN timeline', NEW m \in timeline'[k].rec
          PROVE  /\ Rightly(k, m)' /\ <<ChunkOf(m)', k>> \in timeline'[k].evs
                 /\ ~InExtraction(k, m)' /\ ~InSettling(k, m)'
      <4>1. CASE m = n /\ k \in Span[c] /\ <<c, k>> \in timeline'[k].evs
        <5>1. Rightly(k, n)'
          BY <1>1, <1>2, <2>1, <4>1 DEF Rightly
        <5> QED BY <2>1, <2>2, <2>4, <4>1, <5>1
      <4>2. CASE k \in DOMAIN timeline /\ m \in timeline[k].rec /\ timeline[k].evs \subseteq timeline'[k].evs
        BY <1>11, <2>1, <2>2, <2>3, <4>2 DEF HeldInv, HolderInv, TimelineHolders
      <4> QED BY <2>5, <3>1, <4>1, <4>2
    <3> QED BY <3>1 DEF TimelineHolders
  <2>7. ExtractionHolders'
    <3>1. ASSUME NEW j \in DOMAIN extraction, NEW m \in extraction[j].rec, NEW k, k = extraction[j].win
          PROVE  Rightly(k, m)' /\ <<ChunkOf(m)', k>> \in extraction[j].evs /\ ~InSettling(k, m)'
      BY <1>11, <2>1, <2>2, <2>3, <3>1 DEF HeldInv, HolderInv, ExtractionHolders
    <3>2. \A j \in DOMAIN extraction : \A m \in extraction[j].rec :
            \A l \in DOMAIN extraction : m \in extraction[l].rec /\ extraction[l].win = extraction[j].win => j = l
      BY <1>11 DEF HeldInv, HolderInv, ExtractionHolders
    <3> QED BY <1>1, <3>1, <3>2 DEF ExtractionHolders
  <2>8. SettlingHolders'
    BY <1>1, <1>11, <2>1, <2>3 DEF HeldInv, HolderInv, SettlingHolders
  <2>9. \A m : m # n => \A k : Holds(k, m)' => Holds(k, m)
    BY <2>2, <2>5 DEF Holds, InTimeline
  <2>10. CountInv'
    <3>1. n \in DOMAIN pending /\ pending[n].holders = 0
      BY <1>11 DEF HeldInv, PendingInv, CountInv
    <3> DEFINE p == [holders |-> pending[n].holders + Cardinality(Span[c]), merged |-> TRUE]
    <3>2. pending'[n] = p /\ \A m \in DOMAIN pending : m # n => pending'[m] = pending[m]
      BY <1>1, <3>1 DEF Merged
    <3>3. Cardinality(Span[c]) \in Nat /\ IsFiniteSet(Span[c])
      BY <1>2, UnsettledFinite
    <3>4. p.holders = Cardinality(Span[c]) /\ p.merged = TRUE
      BY <3>1, <3>3
    <3>5. p \in Counts
      BY <3>1, <3>3 DEF Counts
    <3> HIDE DEF p
    <3>6. Cardinality(Unsettled(n)') <= Cardinality(Span[c])
      <4>1. Unsettled(n)' \subseteq Span[c]
        BY <2>1 DEF Unsettled
      <4> QED BY <3>3, <4>1, FS_Subset
    <3>7. ASSUME NEW m \in DOMAIN pending, m # n, pending[m].merged
          PROVE  Cardinality(Unsettled(m)') <= pending[m].holders
      <4>1. m \in 1 .. lastReceipt
        BY <1>2 DEF ReceiptInv
      <4>2. Unsettled(m)' \subseteq Unsettled(m) /\ Cardinality(Unsettled(m)') <= Cardinality(Unsettled(m))
        BY <1>1, <1>2, <2>9, <3>7, <4>1, UnsettledShrinks
      <4>3. Cardinality(Unsettled(m)) \in Nat /\ Cardinality(Unsettled(m)') \in Nat
        BY <1>2, <4>1, <4>2, UnsettledFinite, FS_Subset, FS_CardinalityType
      <4>4. Cardinality(Unsettled(m)) <= pending[m].holders /\ pending[m].holders \in Nat
        BY <1>11, <3>7 DEF HeldInv, CountInv, Counts
      <4> QED BY <4>2, <4>3, <4>4
    <3>8. ASSUME NEW m \in DOMAIN pending'
          PROVE  /\ pending'[m] \in Counts
                 /\ m \in arrived' => pending'[m].holders = 0 /\ ~pending'[m].merged
                 /\ pending'[m].merged => Cardinality(Unsettled(m)') <= pending'[m].holders
      <4>1. CASE m = n
        BY <1>1, <3>2, <3>3, <3>4, <3>5, <3>6, <4>1
      <4>2. CASE m # n
        BY <1>1, <1>9, <1>11, <3>2, <3>7, <4>2 DEF HeldInv, CountInv
      <4> QED BY <4>1, <4>2
    <3> QED BY <3>8 DEF CountInv, Counts
  <2>11. PendingInv'
    BY <1>1, <1>9, <1>11 DEF HeldInv, PendingInv, Written
  <2> QED BY <2>6, <2>7, <2>8, <2>10, <2>11 DEF HeldInv, HolderInv
<1> QED BY <1>7, <1>8, <1>10, <1>11 DEF GrapherInv

\* Where the element at j of a concatenation after s was
Back(s, j) == j - Len(s)

\* What u has is of s, or of t in its order.
Joins(u, s, t) ==
  /\ \A j \in DOMAIN u : \/ j \in DOMAIN s /\ u[j] = s[j]
                         \/ Back(s, j) \in DOMAIN t /\ u[j] = t[Back(s, j)]
  /\ \A j, l \in DOMAIN u : Back(s, j) = Back(s, l) => j = l

\* A concatenation joins its parts.
LEMMA Concatenated ==
  ASSUME NEW S, NEW s \in Seq(S), NEW t \in Seq(S)
  PROVE  s \o t \in Seq(S) /\ Joins(s \o t, s, t)
<1> DEFINE u == s \o t
<1>1. /\ Len(s) \in Nat /\ Len(t) \in Nat /\ DOMAIN s = 1 .. Len(s) /\ DOMAIN t = 1 .. Len(t)
  BY LenProperties
<1>2. /\ u \in Seq(S) /\ Len(u) = Len(s) + Len(t)
      /\ \A j \in 1 .. (Len(s) + Len(t)) : u[j] = IF j <= Len(s) THEN s[j] ELSE t[j - Len(s)]
  BY ConcatProperties
<1>3. DOMAIN u = 1 .. (Len(s) + Len(t))
  BY <1>2, LenProperties
<1> HIDE DEF u
<1>4. Joins(u, s, t)
  BY <1>1, <1>2, <1>3 DEF Back, Joins
<1> QED BY <1>2, <1>4 DEF u

\* Windows that leave the timeline for the archive take their receipts along.
LEMMA Stashed ==
  ASSUME HolderInv, NEW ws \in Seq(Windows), extraction \in Seq(Windows), extraction' = extraction \o ws,
         UNCHANGED <<scenario, deliveries, instance, lastReceipt, arrived, settling, archive>>,
         \A j \in DOMAIN ws : /\ ws[j].win \in DOMAIN timeline /\ ws[j].win \notin DOMAIN timeline'
                              /\ ws[j].rec = timeline[ws[j].win].rec /\ ws[j].evs = timeline[ws[j].win].evs,
         \A j, l \in DOMAIN ws : ws[j].win = ws[l].win => j = l,
         \A k \in DOMAIN timeline' : timeline'[k].rec = {} \/ (k \in DOMAIN timeline /\ timeline'[k] = timeline[k])
  PROVE  HolderInv' /\ \A k, n : Holds(k, n)' => Holds(k, n)
<1> USE Fixed
<1>1. \A n : ChunkOf(n)' = ChunkOf(n)
  BY DEF ChunkOf
<1>2. \A k, n : Rightly(k, n)' = Rightly(k, n) /\ InSettling(k, n)' = InSettling(k, n)
  BY <1>1 DEF Rightly, InSettling
<1>3. \A k, n : InTimeline(k, n)' => InTimeline(k, n)
  BY DEF InTimeline
<1>4. /\ \A j \in DOMAIN extraction' :
           \/ j \in DOMAIN extraction /\ extraction'[j] = extraction[j]
           \/ Back(extraction, j) \in DOMAIN ws /\ extraction'[j] = ws[Back(extraction, j)]
      /\ \A j, l \in DOMAIN extraction' : Back(extraction, j) = Back(extraction, l) => j = l
  <2>1. Joins(extraction \o ws, extraction, ws)
    BY Concatenated
  <2>2. Joins(extraction', extraction, ws)
    BY <2>1, Zenon
  <2> QED BY <2>2 DEF Joins
<1>5. ASSUME NEW k, NEW n, InExtraction(k, n)'
      PROVE  InExtraction(k, n) \/ (InTimeline(k, n) /\ k \notin DOMAIN timeline')
  <2>1. PICK j \in DOMAIN extraction' : extraction'[j].win = k /\ n \in extraction'[j].rec
    BY <1>5 DEF InExtraction
  <2>2. CASE j \in DOMAIN extraction /\ extraction'[j] = extraction[j]
    BY <2>1, <2>2 DEF InExtraction
  <2>3. CASE Back(extraction, j) \in DOMAIN ws /\ extraction'[j] = ws[Back(extraction, j)]
    BY <2>1, <2>3 DEF InTimeline
  <2> QED BY <1>4, <2>2, <2>3
<1>6. TimelineHolders'
  <2>1. ASSUME NEW k \in DOMAIN timeline', NEW n \in timeline'[k].rec
        PROVE  /\ Rightly(k, n)' /\ <<ChunkOf(n)', k>> \in timeline'[k].evs
               /\ ~InExtraction(k, n)' /\ ~InSettling(k, n)'
    <3>1. k \in DOMAIN timeline /\ timeline'[k] = timeline[k]
      BY <2>1
    <3>2. Rightly(k, n) /\ <<ChunkOf(n), k>> \in timeline[k].evs /\ ~InExtraction(k, n) /\ ~InSettling(k, n)
      BY <2>1, <3>1 DEF HolderInv, TimelineHolders
    <3> QED BY <1>1, <1>2, <1>5, <3>1, <3>2
  <2> QED BY <2>1 DEF TimelineHolders
<1>7. ExtractionHolders'
  <2>1. ASSUME NEW j \in DOMAIN extraction', NEW n \in extraction'[j].rec, NEW k, k = extraction'[j].win
        PROVE  /\ Rightly(k, n)' /\ <<ChunkOf(n)', k>> \in extraction'[j].evs /\ ~InSettling(k, n)'
               /\ \A l \in DOMAIN extraction' : n \in extraction'[l].rec /\ extraction'[l].win = k => j = l
    <3>1. CASE j \in DOMAIN extraction /\ extraction'[j] = extraction[j]
      <4>1. /\ Rightly(k, n) /\ <<ChunkOf(n), k>> \in extraction[j].evs /\ ~InSettling(k, n)
            /\ \A l \in DOMAIN extraction : n \in extraction[l].rec /\ extraction[l].win = k => j = l
        BY <2>1, <3>1 DEF HolderInv, ExtractionHolders
      <4>2. InExtraction(k, n)
        BY <2>1, <3>1 DEF InExtraction
      <4>3. ~InTimeline(k, n)
        BY <4>2 DEF HolderInv, TimelineHolders, InTimeline
      <4>4. ASSUME NEW l \in DOMAIN extraction', n \in extraction'[l].rec, extraction'[l].win = k
            PROVE  l \in DOMAIN extraction /\ extraction'[l] = extraction[l]
        <5>1. ~(Back(extraction, l) \in DOMAIN ws /\ extraction'[l] = ws[Back(extraction, l)])
          BY <4>3, <4>4 DEF InTimeline
        <5> QED BY <1>4, <5>1
      <4> QED BY <1>1, <1>2, <3>1, <4>1, <4>4
    <3>2. CASE Back(extraction, j) \in DOMAIN ws /\ extraction'[j] = ws[Back(extraction, j)]
      <4>1. k \in DOMAIN timeline /\ n \in timeline[k].rec /\ extraction'[j].evs = timeline[k].evs
        BY <2>1, <3>2
      <4>2. Rightly(k, n) /\ <<ChunkOf(n), k>> \in timeline[k].evs /\ ~InExtraction(k, n) /\ ~InSettling(k, n)
        BY <4>1 DEF HolderInv, TimelineHolders
      <4>3. ASSUME NEW l \in DOMAIN extraction', n \in extraction'[l].rec, extraction'[l].win = k
            PROVE  j = l
        <5>1. ~(l \in DOMAIN extraction /\ extraction'[l] = extraction[l])
          BY <4>2, <4>3 DEF InExtraction
        <5>2. Back(extraction, l) \in DOMAIN ws /\ extraction'[l] = ws[Back(extraction, l)]
          BY <1>4, <5>1
        <5>3. Back(extraction, l) = Back(extraction, j)
          BY <2>1, <3>2, <4>3, <5>2
        <5> QED BY <1>4, <5>3
      <4> QED BY <1>1, <1>2, <4>1, <4>2, <4>3
    <3> QED BY <1>4, <3>1, <3>2
  <2> QED BY <2>1 DEF ExtractionHolders
<1>8. SettlingHolders'
  BY <1>1, <1>2 DEF HolderInv, SettlingHolders
<1>9. \A k, n : Holds(k, n)' => Holds(k, n)
  BY <1>2, <1>3, <1>5 DEF Holds
<1> QED BY <1>6, <1>7, <1>8, <1>9 DEF HolderInv

\* The rest of what holds after windows were stashed
LEMMA StashedInv ==
  ASSUME ScenarioInv, GrapherInv, NEW ws \in Seq(Windows), Stash(ws), WindowType', dropped' = dropped,
         UNCHANGED <<scenario, deliveries, instance, lastReceipt, lastAssigned, arrived, pending, settling, archive,
                     persisted, entry, failedEarly, covered, tombstone>>,
         \A j \in DOMAIN ws : /\ ws[j].win \in DOMAIN timeline /\ ws[j].win \notin DOMAIN timeline'
                              /\ ws[j].rec = timeline[ws[j].win].rec /\ ws[j].evs = timeline[ws[j].win].evs,
         \A j, l \in DOMAIN ws : ws[j].win = ws[l].win => j = l,
         \A k \in DOMAIN timeline' : timeline'[k].rec = {} \/ (k \in DOMAIN timeline /\ timeline'[k] = timeline[k])
  PROVE  GrapherInv' /\ (HeldInv => HeldInv')
<1> USE Fixed
<1>1. extraction' = extraction \o ws /\ extraction \in Seq(Windows)
  BY DEF Stash, GrapherInv, WindowType
<1>2. WatermarkInv' /\ ReceiptInv'
  <2>1. Entries' = Entries
    BY DEF Entries
  <2> QED BY <2>1 DEF GrapherInv, WatermarkInv, ReceiptInv
<1>3. ASSUME HeldInv PROVE HeldInv'
  <2>1. HolderInv' /\ \A k, n : Holds(k, n)' => Holds(k, n)
    BY <1>1, <1>3, Stashed DEF HeldInv
  <2>2. CountInv'
    BY <1>3, <2>1, CountKept DEF HeldInv, GrapherInv
  <2>3. PendingInv'
    BY <1>3 DEF HeldInv, PendingInv, Written
  <2> QED BY <2>1, <2>2, <2>3 DEF HeldInv
<1> QED BY <1>2, <1>3 DEF GrapherInv

\* A window of the timeline, as it is stashed
LEMMA WindowFact ==
  ASSUME WindowType, NEW k \in DOMAIN timeline, k \in 1 .. LastWindow
  PROVE  /\ Window(k) \in Windows /\ Window(k).win = k
         /\ Window(k).rec = timeline[k].rec /\ Window(k).evs = timeline[k].evs
<1>1. timeline[k] \in [evs : SUBSET Events, rec : SUBSET Nat]
  BY DEF WindowType
<1> QED BY <1>1 DEF Window, Windows

\* extractDecayedStoryChunks: the oldest window leaves.
LEMMA ExtractInv ==
  ASSUME ScenarioInv, GrapherInv, UNCHANGED scenario, ExtractDecayed
  PROVE  GrapherInv' /\ (HeldInv => HeldInv')
<1> USE Fixed
<1>1. Horizon \in Nat /\ LastWindow = Horizon + 2 /\ WindowType
  BY ScenarioFacts DEF LastWindow, GrapherInv
<1>2. PICK a \in 1 .. LastWindow, b \in 1 .. LastWindow : DOMAIN timeline = a .. b
  BY <1>1 DEF WindowType, ExtractDecayed, HasPipeline
<1>3. a \in Nat /\ b \in Nat /\ a <= b
  BY <1>1, <1>2 DEF ExtractDecayed, HasPipeline
<1>4. Min(DOMAIN timeline) = a /\ Max(DOMAIN timeline) = b
  BY <1>2, <1>3, Ends
<1> DEFINE stays == IF b = a + 1 THEN b + 1 ELSE b
           ws == <<Window(a)>>
<1>5. /\ a + 1 <= Horizon /\ Stash(ws)
      /\ timeline' = [k \in (a + 1) .. stays |-> IF k \in DOMAIN timeline THEN timeline[k] ELSE EmptyWindow]
  BY <1>4 DEF ExtractDecayed, Reached
<1>6. UNCHANGED <<deliveries, instance, lastReceipt, lastAssigned, arrived, pending, settling, archive,
                  persisted, entry, failedEarly, covered, tombstone, dropped>>
  BY DEF ExtractDecayed, receipts, registry
<1>7. a \in DOMAIN timeline /\ Window(a) \in Windows /\ Window(a).win = a
      /\ Window(a).rec = timeline[a].rec /\ Window(a).evs = timeline[a].evs
  <2>1. a \in DOMAIN timeline /\ a \in 1 .. LastWindow
    BY <1>2, <1>3
  <2> QED BY <1>1, <2>1, WindowFact
<1>8. ws \in Seq(Windows) /\ DOMAIN ws = {1} /\ ws[1] = Window(a)
  BY <1>7
<1>9. DOMAIN timeline' = (a + 1) .. stays
  BY <1>5
<1>10. EmptyWindow \in [evs : SUBSET Events, rec : SUBSET Nat] /\ EmptyWindow.rec = {}
  BY DEF EmptyWindow
<1>11. ASSUME NEW k \in DOMAIN timeline'
       PROVE  /\ timeline'[k].rec = {} \/ (k \in DOMAIN timeline /\ timeline'[k] = timeline[k])
              /\ timeline'[k] \in [evs : SUBSET Events, rec : SUBSET Nat]
  <2>1. timeline'[k] = IF k \in DOMAIN timeline THEN timeline[k] ELSE EmptyWindow
    BY <1>5, <1>9
  <2> QED BY <1>1, <1>10, <2>1 DEF WindowType
<1>12. a \notin DOMAIN timeline'
  BY <1>3, <1>9
<1>13. a + 1 \in 1 .. LastWindow /\ stays \in 1 .. LastWindow
  BY <1>1, <1>2, <1>3, <1>5
<1> HIDE DEF ws, stays
<1>14. extraction' \in Seq(Windows)
  <2>1. extraction \o ws \in Seq(Windows)
    BY <1>1, <1>8, Concatenated DEF WindowType
  <2> QED BY <1>5, <2>1 DEF Stash
<1>15. WindowType'
  <2>1. \E lo, hi \in 1 .. LastWindow : DOMAIN timeline' \in {{}, lo .. hi}
    BY <1>9, <1>13
  <2> QED BY <1>1, <1>6, <1>11, <1>14, <2>1 DEF WindowType
<1>16. /\ \A j \in DOMAIN ws : /\ ws[j].win \in DOMAIN timeline /\ ws[j].win \notin DOMAIN timeline'
                               /\ ws[j].rec = timeline[ws[j].win].rec /\ ws[j].evs = timeline[ws[j].win].evs
       /\ \A j, l \in DOMAIN ws : ws[j].win = ws[l].win => j = l
  BY <1>7, <1>8, <1>12
<1> QED BY <1>5, <1>6, <1>8, <1>11, <1>15, <1>16, StashedInv

\* All windows of the timeline, as they are stashed
LEMMA AllWindowsFact ==
  ASSUME ScenarioInv, WindowType
  PROVE  /\ AllWindows \in Seq(Windows)
         /\ \A j \in DOMAIN AllWindows :
              /\ AllWindows[j].win \in DOMAIN timeline
              /\ AllWindows[j].rec = timeline[AllWindows[j].win].rec
              /\ AllWindows[j].evs = timeline[AllWindows[j].win].evs
         /\ \A j, l \in DOMAIN AllWindows : AllWindows[j].win = AllWindows[l].win => j = l
<1>1. Horizon \in Nat /\ LastWindow = Horizon + 2
  BY ScenarioFacts DEF LastWindow
<1> DEFINE m == Min(DOMAIN timeline)
           z == Cardinality(DOMAIN timeline)
<1>2. z \in Nat /\ \A j \in 1 .. z : m + j - 1 \in DOMAIN timeline /\ m + j - 1 \in 1 .. LastWindow /\ m \in Nat
  <2>1. CASE DOMAIN timeline = {}
    BY <2>1, FS_EmptySet
  <2>2. CASE DOMAIN timeline # {}
    <3>1. PICK a \in 1 .. LastWindow, b \in 1 .. LastWindow : DOMAIN timeline = a .. b
      BY <2>2 DEF WindowType
    <3>2. a \in Nat /\ b \in Nat /\ a <= b /\ a >= 1 /\ b <= LastWindow
      BY <1>1, <2>2, <3>1
    <3>3. m = a
      BY <3>1, <3>2, Ends
    <3>4. z = b - a + 1
      BY <3>1, <3>2, FS_Interval
    <3> HIDE DEF m, z
    <3> QED BY <1>1, <3>1, <3>2, <3>3, <3>4
  <2> QED BY <2>1, <2>2
<1>3. AllWindows = [j \in 1 .. z |-> Window(m + j - 1)]
  BY DEF AllWindows
<1> HIDE DEF m, z
<1>4. ASSUME NEW j \in 1 .. z
      PROVE  /\ AllWindows[j] = Window(m + j - 1) /\ AllWindows[j] \in Windows /\ AllWindows[j].win = m + j - 1
             /\ AllWindows[j].rec = timeline[m + j - 1].rec /\ AllWindows[j].evs = timeline[m + j - 1].evs
  <2>1. AllWindows[j] = Window(m + j - 1)
    BY <1>3
  <2> QED BY <1>2, <2>1, WindowFact
<1>5. DOMAIN AllWindows = 1 .. z
  BY <1>3
<1>6. AllWindows \in Seq(Windows)
  <2>1. AllWindows \in [1 .. z -> Windows]
    BY <1>3, <1>4
  <2> QED BY <1>2, <2>1, SeqDef
<1>7. \A j \in DOMAIN AllWindows : /\ AllWindows[j].win \in DOMAIN timeline
                                   /\ AllWindows[j].rec = timeline[AllWindows[j].win].rec
                                   /\ AllWindows[j].evs = timeline[AllWindows[j].win].evs
  BY <1>2, <1>4, <1>5
<1>8. ASSUME NEW j \in DOMAIN AllWindows, NEW l \in DOMAIN AllWindows, AllWindows[j].win = AllWindows[l].win
      PROVE  j = l
  <2>1. m + j - 1 = m + l - 1 /\ m \in Nat /\ j \in Nat /\ l \in Nat
    BY <1>2, <1>4, <1>5, <1>8
  <2> QED BY <2>1
<1> QED BY <1>6, <1>7, <1>8

\* The windows of a pipeline that ends
LEMMA EndedWindows ==
  ASSUME ScenarioInv, WindowType, UNCHANGED <<scenario, settling, persisted>>, Stash(AllWindows), timeline' = NoTimeline
  PROVE  WindowType' /\ DOMAIN timeline' = {}
<1> USE Fixed
<1>1. DOMAIN timeline' = {}
  BY DEF NoTimeline
<1>2. extraction' \in Seq(Windows)
  <2>1. extraction \o AllWindows \in Seq(Windows)
    BY AllWindowsFact, Concatenated DEF WindowType
  <2> QED BY <2>1 DEF Stash
<1>3. 1 \in 1 .. LastWindow
  BY ScenarioFacts DEF LastWindow
<1> QED BY <1>1, <1>2, <1>3 DEF WindowType

\* retireDecayedPipelines
LEMMA RetireInv ==
  ASSUME ScenarioInv, GrapherInv, UNCHANGED scenario, RetirePipeline
  PROVE  GrapherInv' /\ (HeldInv => HeldInv')
<1>1. /\ Stash(AllWindows) /\ timeline' = NoTimeline
      /\ UNCHANGED <<deliveries, instance, lastReceipt, lastAssigned, arrived, pending, settling, archive,
                     persisted, entry, failedEarly, covered, tombstone, dropped>>
  BY DEF RetirePipeline, receipts, registry
<1>2. WindowType' /\ DOMAIN timeline' = {}
  BY <1>1, EndedWindows DEF GrapherInv
<1>3. /\ AllWindows \in Seq(Windows)
      /\ \A j \in DOMAIN AllWindows :
              /\ AllWindows[j].win \in DOMAIN timeline
              /\ AllWindows[j].rec = timeline[AllWindows[j].win].rec
              /\ AllWindows[j].evs = timeline[AllWindows[j].win].evs
      /\ \A j, l \in DOMAIN AllWindows : AllWindows[j].win = AllWindows[l].win => j = l
  BY AllWindowsFact DEF GrapherInv
<1>4. /\ \A j \in DOMAIN AllWindows : AllWindows[j].win \notin DOMAIN timeline'
      /\ \A k \in DOMAIN timeline' : timeline'[k].rec = {} \/ (k \in DOMAIN timeline /\ timeline'[k] = timeline[k])
  BY <1>2
<1> QED BY <1>1, <1>2, <1>3, <1>4, StashedInv

\* destroyStory
LEMMA DestroyInv ==
  ASSUME ScenarioInv, GrapherInv, UNCHANGED scenario, DestroyStory
  PROVE  GrapherInv' /\ destroyed'
<1> USE Fixed
<1>1. /\ DropStory /\ Stash(AllWindows) /\ timeline' = NoTimeline /\ destroyed'
      /\ UNCHANGED <<instance, lastReceipt, lastAssigned, deliveries, arrived, settling, persisted, covered>>
  BY DEF DestroyStory
<1>2. WindowType'
  BY <1>1, EndedWindows DEF GrapherInv
<1>3. WatermarkInv'
  BY <1>1, DropInv DEF GrapherInv
<1>4. DOMAIN pending' \subseteq DOMAIN pending
  BY <1>1 DEF DropStory
<1>5. ReceiptInv'
  BY <1>1, <1>4 DEF GrapherInv, ReceiptInv
<1> QED BY <1>1, <1>2, <1>3, <1>5 DEF GrapherInv

\* Where a receipt is held when window i leaves the writers' queue, and is
\* settling or not
LEMMA Left ==
  ASSUME HolderInv, extraction \in Seq(Windows), NEW i \in DOMAIN extraction, extraction' = RemoveAt(extraction, i),
         UNCHANGED <<scenario, deliveries, instance, lastReceipt, arrived, timeline>>, archive \subseteq archive',
         \/ settling' = settling
         \/ /\ settling' = settling \cup Holding(extraction[i].win, extraction[i].rec)
            /\ extraction[i].evs \subseteq archive'
  PROVE  HolderInv' /\ \A k, n : Holds(k, n)' => Holds(k, n)
<1> USE Fixed
<1> DEFINE z == extraction[i]
           h == [win |-> z.win, rec |-> z.rec]
<1>1. \A n : ChunkOf(n)' = ChunkOf(n)
  BY DEF ChunkOf
<1>2. \A k, n : Rightly(k, n)' = Rightly(k, n) /\ InTimeline(k, n)' = InTimeline(k, n)
  BY <1>1 DEF Rightly, InTimeline
<1>3. /\ \A j \in DOMAIN extraction' : extraction'[j] = extraction[Skip(i, j)] /\ Skip(i, j) \in DOMAIN extraction /\ Skip(i, j) # i
      /\ \A j, l \in DOMAIN extraction' : Skip(i, j) = Skip(i, l) => j = l
  BY Removed
<1>4. \A k, n : InExtraction(k, n)' => InExtraction(k, n)
  BY <1>3 DEF InExtraction
<1>5. h.win = z.win /\ h.rec = z.rec
  OBVIOUS
<1>6. \A y \in settling' : y \in settling \/ (y = h /\ extraction[i].evs \subseteq archive')
  BY DEF Holding
<1>7. settling \subseteq settling'
  OBVIOUS
<1>8. \A n \in z.rec : /\ Rightly(z.win, n) /\ <<ChunkOf(n), z.win>> \in z.evs /\ ~InSettling(z.win, n)
                       /\ \A j \in DOMAIN extraction : n \in extraction[j].rec /\ extraction[j].win = z.win => i = j
                       /\ InExtraction(z.win, n) /\ ~InTimeline(z.win, n)
  <2>1. \A n \in z.rec : InExtraction(z.win, n)
    BY DEF InExtraction
  <2> QED BY <2>1 DEF HolderInv, ExtractionHolders, TimelineHolders, InTimeline
<1> HIDE DEF h
<1>9. \A k, n : InSettling(k, n)' => InSettling(k, n) \/ (k = z.win /\ n \in z.rec)
  BY <1>5, <1>6 DEF InSettling
<1> HIDE DEF z
<1>10. TimelineHolders'
  <2>1. ASSUME NEW k \in DOMAIN timeline, NEW n \in timeline[k].rec
        PROVE  /\ Rightly(k, n)' /\ <<ChunkOf(n)', k>> \in timeline[k].evs
               /\ ~InExtraction(k, n)' /\ ~InSettling(k, n)'
    <3>1. Rightly(k, n) /\ <<ChunkOf(n), k>> \in timeline[k].evs /\ ~InExtraction(k, n) /\ ~InSettling(k, n)
      BY DEF HolderInv, TimelineHolders
    <3>2. InTimeline(k, n)
      BY DEF InTimeline
    <3> QED BY <1>1, <1>2, <1>4, <1>8, <1>9, <3>1, <3>2
  <2> QED BY <2>1 DEF TimelineHolders
<1>11. ExtractionHolders'
  <2>1. ASSUME NEW j \in DOMAIN extraction', NEW n \in extraction'[j].rec, NEW k, k = extraction'[j].win
        PROVE  /\ Rightly(k, n)' /\ <<ChunkOf(n)', k>> \in extraction'[j].evs /\ ~InSettling(k, n)'
               /\ \A l \in DOMAIN extraction' : n \in extraction'[l].rec /\ extraction'[l].win = k => j = l
    <3>1. PICK p \in DOMAIN extraction : p = Skip(i, j) /\ extraction'[j] = extraction[p] /\ p # i
      BY <1>3
    <3>2. /\ Rightly(k, n) /\ <<ChunkOf(n), k>> \in extraction[p].evs /\ ~InSettling(k, n)
          /\ \A l \in DOMAIN extraction : n \in extraction[l].rec /\ extraction[l].win = k => p = l
      BY <2>1, <3>1 DEF HolderInv, ExtractionHolders
    <3>3. ~InSettling(k, n)'
      <4>1. ~(k = z.win /\ n \in z.rec)
        BY <1>8, <2>1, <3>1
      <4> QED BY <1>9, <3>2, <4>1
    <3>4. \A l \in DOMAIN extraction' : n \in extraction'[l].rec /\ extraction'[l].win = k => j = l
      BY <1>3, <3>1, <3>2
    <3> QED BY <1>1, <1>2, <3>1, <3>2, <3>3, <3>4
  <2> QED BY <2>1 DEF ExtractionHolders
<1>12. SettlingHolders'
  <2>1. ASSUME NEW y \in settling', NEW n \in y.rec
        PROVE  /\ Rightly(y.win, n)' /\ <<ChunkOf(n)', y.win>> \in archive'
               /\ \A u \in settling' : n \in u.rec /\ u.win = y.win => y = u
    <3>1. CASE y \in settling
      <4>1. /\ Rightly(y.win, n) /\ <<ChunkOf(n), y.win>> \in archive
            /\ \A u \in settling : n \in u.rec /\ u.win = y.win => y = u
        BY <2>1, <3>1 DEF HolderInv, SettlingHolders
      <4>2. InSettling(y.win, n)
        BY <2>1, <3>1 DEF InSettling
      <4>3. ~(n \in h.rec /\ h.win = y.win)
        BY <1>5, <1>8, <4>2
      <4> QED BY <1>1, <1>2, <1>6, <4>1, <4>3
    <3>2. CASE y = h /\ extraction[i].evs \subseteq archive'
      <4>1. n \in z.rec /\ y.win = z.win
        BY <1>5, <2>1, <3>2
      <4>2. Rightly(z.win, n) /\ <<ChunkOf(n), z.win>> \in archive' /\ ~InSettling(z.win, n)
        BY <1>8, <3>2, <4>1 DEF z
      <4>3. \A u \in settling : ~(n \in u.rec /\ u.win = z.win)
        BY <4>2 DEF InSettling
      <4> QED BY <1>1, <1>2, <1>6, <3>2, <4>1, <4>2, <4>3
    <3> QED BY <1>6, <3>1, <3>2
  <2> QED BY <2>1 DEF SettlingHolders
<1>13. ASSUME NEW k, NEW n, Holds(k, n)' PROVE Holds(k, n)
  <2>1. InTimeline(k, n) \/ InExtraction(k, n) \/ InSettling(k, n) \/ (k = z.win /\ n \in z.rec)
    BY <1>2, <1>4, <1>9, <1>13 DEF Holds
  <2>2. k = z.win /\ n \in z.rec => InExtraction(k, n)
    BY <1>8
  <2> QED BY <2>1, <2>2 DEF Holds
<1> QED BY <1>10, <1>11, <1>12, <1>13 DEF HolderInv

\* process_chunk: a window that is written or not leaves nothing unaccounted.
LEMMA LeftInv ==
  ASSUME ScenarioInv, GrapherInv, NEW i \in DOMAIN extraction, extraction' = RemoveAt(extraction, i),
         UNCHANGED <<scenario, deliveries, instance, lastReceipt, lastAssigned, arrived, pending, timeline,
                     tombstone, dropped>>,
         archive \subseteq archive',
         \/ settling' = settling
         \/ /\ settling' = settling \cup Holding(extraction[i].win, extraction[i].rec)
            /\ extraction[i].evs \subseteq archive',
         persisted' \subseteq persisted \cup {extraction[i].win},
         WatermarkInv', entry.w # DropWatermark => entry'.w # DropWatermark'
  PROVE  GrapherInv' /\ (HeldInv => HeldInv')
<1> USE Fixed
<1>1. extraction \in Seq(Windows)
  BY DEF GrapherInv, WindowType
<1>2. extraction[i] \in Windows /\ extraction' \in Seq(Windows)
  BY <1>1, Removed, ElementOfSeq, LenProperties
<1>3. extraction[i].win \in 1 .. LastWindow /\ extraction[i].rec \in SUBSET Nat
  BY <1>2 DEF Windows
<1>4. WindowType'
  <2>1. settling' \subseteq [win : 1 .. LastWindow, rec : SUBSET Nat]
    <3>1. [win |-> extraction[i].win, rec |-> extraction[i].rec] \in [win : 1 .. LastWindow, rec : SUBSET Nat]
      BY <1>3
    <3> QED BY <3>1 DEF Holding, GrapherInv, WindowType
  <2>2. persisted' \subseteq 1 .. LastWindow
    BY <1>3 DEF GrapherInv, WindowType
  <2> QED BY <1>2, <2>1, <2>2 DEF GrapherInv, WindowType
<1>5. ReceiptInv'
  BY DEF GrapherInv, ReceiptInv
<1>6. ASSUME HeldInv PROVE HeldInv'
  <2>1. HolderInv' /\ \A k, n : Holds(k, n)' => Holds(k, n)
    BY <1>1, <1>6, Left DEF HeldInv
  <2>2. CountInv'
    BY <1>6, <2>1, CountKept DEF HeldInv, GrapherInv
  <2>3. PendingInv'
    BY <1>6 DEF HeldInv, PendingInv, Written
  <2> QED BY <2>1, <2>2, <2>3 DEF HeldInv
<1> QED BY <1>4, <1>5, <1>6 DEF GrapherInv

\* process_chunk, the window written
LEMMA WriteInv ==
  ASSUME ScenarioInv, GrapherInv, UNCHANGED scenario, NEW i \in InProcess, WriteWindow(i)
  PROVE  GrapherInv' /\ (HeldInv => HeldInv') /\ archive \subseteq archive'
<1>1. i \in DOMAIN extraction
  BY DEF InProcess
<1>2. /\ extraction' = RemoveAt(extraction, i) /\ archive' = archive \cup extraction[i].evs
      /\ persisted' = persisted \cup {extraction[i].win} /\ AdvancePersisted(extraction[i].win)
      /\ settling' = settling \cup Holding(extraction[i].win, extraction[i].rec)
      /\ UNCHANGED <<deliveries, instance, lastReceipt, lastAssigned, arrived, pending, timeline,
                     tombstone, dropped, failedEarly, covered>>
  BY DEF WriteWindow, receipts, pipeline
<1>3. extraction[i].win \in 1 .. LastWindow
  <2>1. extraction \in Seq(Windows)
    BY DEF GrapherInv, WindowType
  <2>2. extraction[i] \in Windows
    BY <1>1, <2>1, ElementOfSeq, LenProperties
  <2> QED BY <2>2 DEF Windows
<1>4. WatermarkInv' /\ (entry.w # DropWatermark => entry'.w # DropWatermark')
  BY <1>2, <1>3, AdvanceInv DEF GrapherInv, WindowType
<1> QED BY <1>1, <1>2, <1>4, LeftInv

\* process_chunk, the write or the record failed
LEMMA WriteFailsInv ==
  ASSUME ScenarioInv, GrapherInv, UNCHANGED scenario, NEW i \in InProcess, WriteFails(i)
  PROVE  GrapherInv' /\ (HeldInv => HeldInv') /\ archive \subseteq archive'
<1> USE Fixed
<1>1. i \in DOMAIN extraction
  BY DEF InProcess
<1>2. /\ extraction' = RemoveAt(extraction, i) /\ archive \subseteq archive'
      /\ entry' = (IF entry.known THEN [entry EXCEPT !.writeFailed = TRUE] ELSE entry)
      /\ failedEarly' = (failedEarly \/ ~entry.known)
      /\ UNCHANGED <<deliveries, instance, lastReceipt, lastAssigned, arrived, pending, timeline, settling, persisted,
                     tombstone, dropped, covered>>
  BY DEF WriteFails, receipts, pipeline
<1>3. entry \in Entries /\ failedEarly' \in BOOLEAN
  BY <1>2 DEF GrapherInv, WatermarkInv
<1>4. entry' \in Entries /\ entry'.known = entry.known /\ entry'.w = entry.w
      /\ entry'.anchor = entry.anchor /\ entry'.parked = entry.parked
  BY <1>2, <1>3 DEF Entries
<1>5. WatermarkInv'
  <2>1. Entries' = Entries
    BY DEF Entries
  <2> QED BY <1>2, <1>3, <1>4, <2>1 DEF GrapherInv, WatermarkInv
<1> QED BY <1>1, <1>2, <1>4, <1>5, LeftInv

\* releaseReceipt: exactly the one window lets the receipt go.
LEMMA Released ==
  ASSUME HolderInv, NEW x \in settling, NEW n \in x.rec,
         settling' = (settling \ {x}) \cup Holding(x.win, x.rec \ {n}),
         UNCHANGED <<scenario, deliveries, instance, lastReceipt, arrived, timeline, extraction, archive>>
  PROVE  /\ HolderInv' /\ \A k, m : Holds(k, m)' => Holds(k, m)
         /\ Holds(x.win, n) /\ ~Holds(x.win, n)'
<1> USE Fixed
<1> DEFINE h == [win |-> x.win, rec |-> x.rec \ {n}]
<1>1. \A m : ChunkOf(m)' = ChunkOf(m)
  BY DEF ChunkOf
<1>2. \A k, m : Rightly(k, m)' = Rightly(k, m) /\ InTimeline(k, m)' = InTimeline(k, m) /\ InExtraction(k, m)' = InExtraction(k, m)
  BY <1>1 DEF Rightly, InTimeline, InExtraction
<1>3. h.win = x.win /\ h.rec = x.rec \ {n}
  OBVIOUS
<1>4. \A y \in settling' : (y \in settling /\ y # x) \/ y = h
  BY DEF Holding
<1> HIDE DEF h
<1>5. \A m \in x.rec : /\ Rightly(x.win, m) /\ <<ChunkOf(m), x.win>> \in archive
                       /\ \A y \in settling : m \in y.rec /\ y.win = x.win => x = y
  BY DEF HolderInv, SettlingHolders
<1>6. \A k, m : InSettling(k, m)' => InSettling(k, m)
  BY <1>3, <1>4 DEF InSettling
<1>7. InSettling(x.win, n)
  BY DEF InSettling
<1>8. ~InSettling(x.win, n)'
  BY <1>3, <1>4, <1>5 DEF InSettling
<1>9. ~InTimeline(x.win, n) /\ ~InExtraction(x.win, n)
  BY <1>7 DEF HolderInv, TimelineHolders, ExtractionHolders, InTimeline, InExtraction
<1>10. TimelineHolders'
  BY <1>1, <1>2, <1>6 DEF HolderInv, TimelineHolders
<1>11. ExtractionHolders'
  <2>1. ASSUME NEW j \in DOMAIN extraction, NEW m \in extraction[j].rec, NEW k, k = extraction[j].win
        PROVE  Rightly(k, m)' /\ <<ChunkOf(m)', k>> \in extraction[j].evs /\ ~InSettling(k, m)'
    BY <1>1, <1>2, <1>6, <2>1 DEF HolderInv, ExtractionHolders
  <2>2. \A j \in DOMAIN extraction : \A m \in extraction[j].rec :
          \A l \in DOMAIN extraction : m \in extraction[l].rec /\ extraction[l].win = extraction[j].win => j = l
    BY DEF HolderInv, ExtractionHolders
  <2> QED BY <2>1, <2>2 DEF ExtractionHolders
<1>12. SettlingHolders'
  <2>1. ASSUME NEW y \in settling', NEW m \in y.rec
        PROVE  /\ Rightly(y.win, m)' /\ <<ChunkOf(m)', y.win>> \in archive'
               /\ \A u \in settling' : m \in u.rec /\ u.win = y.win => y = u
    <3>1. CASE y \in settling /\ y # x
      <4>1. /\ Rightly(y.win, m) /\ <<ChunkOf(m), y.win>> \in archive
            /\ \A u \in settling : m \in u.rec /\ u.win = y.win => y = u
        BY <2>1, <3>1 DEF HolderInv, SettlingHolders
      <4>2. ~(m \in h.rec /\ h.win = y.win)
        BY <1>3, <3>1, <4>1
      <4> QED BY <1>1, <1>2, <1>4, <4>1, <4>2
    <3>2. CASE y = h
      <4>1. m \in x.rec /\ y.win = x.win
        BY <1>3, <2>1, <3>2
      <4> QED BY <1>1, <1>2, <1>4, <1>5, <3>2, <4>1
    <3> QED BY <1>4, <3>1, <3>2
  <2> QED BY <2>1 DEF SettlingHolders
<1> QED BY <1>2, <1>6, <1>7, <1>8, <1>9, <1>10, <1>11, <1>12 DEF HolderInv, Holds

\* releaseReceipt and settleIfWritten
LEMMA ReleaseInv ==
  ASSUME ScenarioInv, GrapherInv, UNCHANGED scenario, NEW x \in settling, NEW n \in x.rec, ReleaseReceipt(x, n)
  PROVE  GrapherInv' /\ (HeldInv => HeldInv')
<1> USE Fixed
<1>1. /\ settling' = (settling \ {x}) \cup Holding(x.win, x.rec \ {n})
      /\ UNCHANGED <<deliveries, instance, lastReceipt, lastAssigned, arrived, timeline, extraction, archive,
                     persisted, entry, failedEarly, covered, tombstone, dropped>>
  BY DEF ReleaseReceipt, pipeline
<1>2. \/ pending' = pending
      \/ /\ n \in DOMAIN pending /\ pending[n].holders > 0
         /\ \/ /\ pending[n].holders - 1 = 0 /\ pending[n].merged
               /\ pending' = [m \in DOMAIN pending \ {n} |-> pending[m]]
            \/ pending' = [pending EXCEPT ![n].holders = pending[n].holders - 1]
  BY DEF ReleaseReceipt
<1>3. DOMAIN pending' \subseteq DOMAIN pending
  BY <1>2
<1>4. WindowType'
  <2>1. x \in [win : 1 .. LastWindow, rec : SUBSET Nat]
    BY DEF GrapherInv, WindowType
  <2>2. [win |-> x.win, rec |-> x.rec \ {n}] \in [win : 1 .. LastWindow, rec : SUBSET Nat]
    BY <2>1
  <2>3. settling' \subseteq [win : 1 .. LastWindow, rec : SUBSET Nat]
    BY <1>1, <2>2 DEF Holding, GrapherInv, WindowType
  <2> QED BY <1>1, <2>3 DEF GrapherInv, WindowType
<1>5. WatermarkInv' /\ ReceiptInv'
  <2>1. Entries' = Entries
    BY DEF Entries
  <2> QED BY <1>1, <1>3, <2>1 DEF GrapherInv, WatermarkInv, ReceiptInv
<1>6. ASSUME HeldInv PROVE HeldInv'
  <2>1. /\ HolderInv' /\ \A k, m : Holds(k, m)' => Holds(k, m)
        /\ Holds(x.win, n) /\ ~Holds(x.win, n)'
    BY <1>1, <1>6, Released DEF HeldInv
  <2>2. Rightly(x.win, n) /\ <<ChunkOf(n), x.win>> \in archive
    BY <1>6 DEF HeldInv, HolderInv, SettlingHolders
  <2>3. n \in 1 .. lastReceipt /\ n \notin arrived /\ x.win \in Span[ChunkOf(n)]
    BY <2>2 DEF Rightly
  <2>4. \A m : ChunkOf(m)' = ChunkOf(m)
    BY <1>1 DEF ChunkOf
  <2>5. Unsettled(n)' \subseteq Unsettled(n) \ {x.win} /\ x.win \in Unsettled(n)
    BY <1>1, <2>1, <2>2, <2>3, <2>4 DEF Unsettled
  <2>6. IsFiniteSet(Unsettled(n)) /\ Cardinality(Unsettled(n)) \in Nat
    BY <2>3, UnsettledFinite DEF GrapherInv
  <2>7. /\ IsFiniteSet(Unsettled(n)') /\ Cardinality(Unsettled(n)') \in Nat
        /\ Cardinality(Unsettled(n)') <= Cardinality(Unsettled(n)) - 1
    <3>1. /\ IsFiniteSet(Unsettled(n) \ {x.win})
          /\ Cardinality(Unsettled(n) \ {x.win}) = Cardinality(Unsettled(n)) - 1
      BY <2>5, <2>6, FS_RemoveElement
    <3>2. IsFiniteSet(Unsettled(n)') /\ Cardinality(Unsettled(n)') <= Cardinality(Unsettled(n) \ {x.win})
      BY <2>5, <3>1, FS_Subset
    <3> QED BY <3>1, <3>2, FS_CardinalityType
  <2>8. ASSUME NEW m \in DOMAIN pending, pending[m].merged
        PROVE  Cardinality(Unsettled(m)') <= pending[m].holders
    <3>1. m \in 1 .. lastReceipt
      BY DEF GrapherInv, ReceiptInv
    <3>2. Unsettled(m)' \subseteq Unsettled(m) /\ Cardinality(Unsettled(m)') <= Cardinality(Unsettled(m))
      BY <1>1, <2>1, <3>1, UnsettledShrinks DEF GrapherInv
    <3>3. Cardinality(Unsettled(m)) \in Nat /\ Cardinality(Unsettled(m)') \in Nat
      BY <3>1, <3>2, UnsettledFinite, FS_Subset, FS_CardinalityType DEF GrapherInv
    <3>4. Cardinality(Unsettled(m)) <= pending[m].holders /\ pending[m].holders \in Nat
      BY <1>6, <2>8 DEF HeldInv, CountInv, Counts
    <3> QED BY <3>2, <3>3, <3>4
  <2>9. \A m \in DOMAIN pending : pending[m] \in Counts
    BY <1>6 DEF HeldInv, CountInv
  <2>10. \A m \in DOMAIN pending : m \in arrived => pending[m].holders = 0 /\ ~pending[m].merged
    BY <1>6 DEF HeldInv, CountInv
  <2>11. PendingInv /\ arrived \subseteq DOMAIN pending
    BY <1>6 DEF HeldInv, PendingInv
  <2>12. ASSUME NEW m \in DOMAIN pending
        PROVE  /\ pending[m] \in Counts
               /\ m \in arrived' => pending[m].holders = 0 /\ ~pending[m].merged
               /\ pending[m].merged => Cardinality(Unsettled(m)') <= pending[m].holders
    <3>1. pending[m] \in Counts
      BY <2>9, Zenon
    <3>2. m \in arrived' => pending[m].holders = 0 /\ ~pending[m].merged
      BY <1>1, <2>10
    <3> QED BY <2>8, <3>1, <3>2
  <2>13. CASE pending' = pending
    <3>1. CountInv'
      BY <1>1, <2>13, <2>12 DEF CountInv, Counts
    <3>2. PendingInv'
      BY <1>1, <2>11, <2>13 DEF PendingInv, Written
    <3> QED BY <2>1, <3>1, <3>2 DEF HeldInv
  <2>14. CASE /\ n \in DOMAIN pending /\ pending[n].holders - 1 = 0 /\ pending[n].merged
              /\ pending' = [m \in DOMAIN pending \ {n} |-> pending[m]]
    <3>1. DOMAIN pending' = DOMAIN pending \ {n} /\ \A m \in DOMAIN pending' : pending'[m] = pending[m]
      BY <2>14
    <3>2. CountInv'
      BY <1>1, <2>12, <3>1 DEF CountInv, Counts
    <3>3. Cardinality(Unsettled(n)) <= pending[n].holders
      BY <1>6, <2>14 DEF HeldInv, CountInv
    <3>4. Cardinality(Unsettled(n)') = 0
      <4>1. pending[n].holders = 1
        BY <2>9, <2>14 DEF Counts
      <4> QED BY <2>6, <2>7, <3>3, <4>1
    <3>5. Unsettled(n)' = {}
      BY <2>7, <3>4, FS_EmptySet
    <3>6. Written(ChunkOf(n))
      BY <1>1, <2>4, <3>5 DEF Unsettled, Written, EventsOf
    <3>7. ASSUME NEW d \in deliveries, d.inst = instance, d.n \notin DOMAIN pending' PROVE Written(d.c)
      <4>1. CASE d.n = n
        <5>1. d.c = ChunkOf(n)
          BY <2>3, <3>7, <4>1, ChunkOfFact DEF GrapherInv
        <5> QED BY <3>6, <5>1
      <4>2. CASE d.n # n
        BY <2>11, <3>1, <3>7, <4>2 DEF PendingInv
      <4> QED BY <4>1, <4>2
    <3>8. PendingInv'
      BY <1>1, <2>3, <2>11, <3>1, <3>7 DEF PendingInv, Written
    <3> QED BY <2>1, <3>2, <3>8 DEF HeldInv
  <2>15. CASE /\ n \in DOMAIN pending /\ pending[n].holders > 0
              /\ pending' = [pending EXCEPT ![n].holders = pending[n].holders - 1]
    <3>1. DOMAIN pending' = DOMAIN pending /\ \A m \in DOMAIN pending : m # n => pending'[m] = pending[m]
      BY <2>15
    <3>2. /\ pending[n] \in Counts /\ pending'[n] \in Counts
          /\ pending'[n].holders = pending[n].holders - 1 /\ pending'[n].merged = pending[n].merged
      <4>1. pending'[n] = [pending[n] EXCEPT !.holders = pending[n].holders - 1]
        BY <2>15
      <4>2. pending[n] \in Counts
        BY <2>9, <2>15, Zenon
      <4> QED BY <2>15, <4>1, <4>2 DEF Counts
    <3>3. CountInv'
      <4>1. ASSUME NEW m \in DOMAIN pending'
            PROVE  /\ pending'[m] \in Counts
                   /\ m \in arrived' => pending'[m].holders = 0 /\ ~pending'[m].merged
                   /\ pending'[m].merged => Cardinality(Unsettled(m)') <= pending'[m].holders
        <5>1. CASE m = n
          <6>1. pending[n].merged => Cardinality(Unsettled(n)) <= pending[n].holders
            BY <1>6, <2>15 DEF HeldInv, CountInv
          <6>2. pending'[n].holders \in Nat /\ pending[n].holders \in Nat
            BY <3>2 DEF Counts
          <6>3. pending[n].merged => Cardinality(Unsettled(n)') <= pending'[n].holders
            BY <2>6, <2>7, <3>2, <6>1, <6>2
          <6> QED BY <1>1, <2>3, <2>9, <2>15, <3>2, <5>1, <6>2, <6>3
        <5>2. CASE m # n
          <6>1. m \in DOMAIN pending /\ pending'[m] = pending[m]
            BY <3>1, <5>2
          <6> QED BY <2>12, <6>1
        <5> QED BY <5>1, <5>2
      <4> QED BY <4>1 DEF CountInv, Counts
    <3>4. PendingInv'
      BY <1>1, <2>11, <3>1 DEF PendingInv, Written
    <3> QED BY <2>1, <3>3, <3>4 DEF HeldInv
  <2> QED BY <1>2, <2>13, <2>14, <2>15
<1> QED BY <1>4, <1>5, <1>6 DEF GrapherInv

-----------------------------------------------------------------------------
(* Reports and restarts                                                    *)

ReportTypes == [inst : Nat, w : Nat, highest : Nat, pending : SUBSET Nat, failed : BOOLEAN]
keeperMoves == <<scenario, sealed, tracked, chunk, view, droppedHere, released, freed, queue, transfer,
                 deliveries, archive, instance, lastReceipt>>

\* A report that is added is one the running process may give, and is true if
\* the others are.
LEMMA Reported ==
  ASSUME UNCHANGED keeperMoves, NEW New,
         \A r \in reports' : r \in reports \/ r \in New,
         \A r \in New : /\ r \in ReportTypes
                        /\ r.inst <= instance /\ (r.inst = instance => r.highest <= lastReceipt)
  PROVE  /\ KeeperType => KeeperType'
         /\ CustodyInv => CustodyInv'
         /\ KeeperInv => KeeperInv'
         /\ TruthInv /\ (\A r \in New : r.w # DropWatermark /\ Truthful(r)) => TruthInv'
<1> USE Fixed DEF keeperMoves
<1>1. KeeperType => KeeperType'
  BY DEF KeeperType, ChunkStates, Transfers
<1>2. CustodyInv => CustodyInv'
  BY DEF CustodyInv, MovedOnce, Owned, Moving, InQueue
<1>3. KeeperInv => KeeperInv'
  <2>1. ReportInv => ReportInv'
    BY DEF ReportInv, ReportTypes
  <2>2. ViewInv /\ AckInv /\ ShipInv => ViewInv' /\ AckInv' /\ ShipInv'
    BY DEF ViewInv, AckInv, ShipInv
  <2> QED BY <2>1, <2>2 DEF KeeperInv
<1>4. ASSUME TruthInv, \A r \in New : r.w # DropWatermark /\ Truthful(r) PROVE TruthInv'
  <2>1. \A v : Truthful(v)' = Truthful(v)
    BY SameTruth
  <2>2. \A c : Written(c)' = Written(c)
    BY DEF Written
  <2>3. \A r \in reports' : r.w # DropWatermark' /\ Truthful(r)'
    BY <1>4, <2>1 DEF TruthInv
  <2>4. \A c \in Chunks : Moving(c)' = Moving(c)
    BY DEF Moving, InQueue
  <2>5. Truthful(view)'
    BY <1>4, <2>2 DEF TruthInv, Truthful
  <2> QED BY <1>4, <2>2, <2>3, <2>4, <2>5 DEF TruthInv
<1> QED BY <1>1, <1>2, <1>3, <1>4

\* What a snapshot says of the receipts is true: all but the pending ones are
\* of chunks that are written.
LEMMA SnapshotFact ==
  ASSUME ScenarioInv, GrapherInv, NEW r \in Snapshot
  PROVE  /\ r \in ReportTypes /\ r.inst = instance /\ r.highest <= lastReceipt
         /\ PendingInv => r.w # DropWatermark /\ Truthful(r)
<1>1. /\ instance \in Nat /\ lastReceipt \in Nat /\ lastAssigned \in Nat /\ lastAssigned <= lastReceipt
      /\ DOMAIN pending \in SUBSET Nat /\ entry.w \in Nat /\ DropWatermark \in Nat
  <2>1. /\ instance \in Nat /\ lastReceipt \in Nat /\ lastAssigned \in 0 .. lastReceipt
        /\ DOMAIN pending \subseteq 1 .. lastReceipt
    BY DEF GrapherInv, ReceiptInv
  <2>2. entry.w \in Nat
    BY DEF GrapherInv, WatermarkInv, Entries
  <2> QED BY <2>1, <2>2, ScenarioFacts DEF DropWatermark
<1>2. CASE entry.known
  <2>1. r = [inst |-> instance, w |-> entry.w, highest |-> lastAssigned, pending |-> DOMAIN pending, failed |-> FALSE]
    BY <1>2 DEF Snapshot
  <2>2. /\ r \in ReportTypes /\ r.inst = instance /\ r.highest <= lastReceipt /\ r.w = entry.w /\ r.pending = DOMAIN pending
    BY <1>1, <2>1 DEF ReportTypes
  <2> QED BY <2>2 DEF PendingInv, Truthful
<1>3. CASE ~entry.known
  <2>1. dropped /\ r = [inst |-> instance, w |-> DropWatermark, highest |-> 0, pending |-> {}, failed |-> FALSE]
    BY <1>3 DEF Snapshot
  <2>2. r \in ReportTypes /\ r.inst = instance /\ r.highest <= lastReceipt
    BY <1>1, <2>1 DEF ReportTypes
  <2> QED BY <2>1, <2>2 DEF PendingInv
<1> QED BY <1>2, <1>3

\* publish
LEMMA PublishInv ==
  ASSUME ScenarioInv, KeeperType, CustodyInv, GrapherInv, KeeperInv, UNCHANGED scenario, Publish
  PROVE  /\ KeeperType' /\ CustodyInv' /\ GrapherInv' /\ KeeperInv'
         /\ TruthInv /\ HeldInv => TruthInv' /\ HeldInv'
<1> USE Fixed
<1>1. /\ UNCHANGED keeperMoves /\ UNCHANGED <<timeline, extraction, settling, failedEarly, covered, arrived, tombstone>>
      /\ ~dropped' /\ \A r \in reports' : r \in reports \/ r \in Snapshot
  BY DEF Publish, keeperMoves, keeper, pipeline
<1>2. KeeperType' /\ CustodyInv' /\ KeeperInv' /\ (TruthInv /\ PendingInv => TruthInv')
  <2>1. \A r \in Snapshot : /\ r \in ReportTypes
                            /\ r.inst <= instance /\ (r.inst = instance => r.highest <= lastReceipt)
    <3>1. instance <= instance
      BY DEF GrapherInv, ReceiptInv
    <3> QED BY <3>1, SnapshotFact
  <2>2. PendingInv => \A r \in Snapshot : r.w # DropWatermark /\ Truthful(r)
    BY SnapshotFact
  <2> QED BY <1>1, <2>1, <2>2, Reported
<1>3. CASE dropped
  <2>1. entry' = NoEntry /\ DOMAIN pending' = {} /\ lastAssigned' = 0 /\ persisted' = {}
    BY <1>3 DEF Publish
  <2>2. WindowType'
    BY <1>1, <2>1 DEF GrapherInv, WindowType
  <2>3. WatermarkInv'
    <3>1. NoEntry \in Entries /\ ~NoEntry.known
      BY DEF NoEntry, Entries
    <3> QED BY <1>1, <2>1, <3>1 DEF GrapherInv, WatermarkInv, Entries
  <2>4. ReceiptInv'
    BY <1>1, <2>1 DEF GrapherInv, ReceiptInv, keeperMoves
  <2>5. ~HeldInv
    BY <1>3 DEF HeldInv, PendingInv
  <2> QED BY <1>2, <2>2, <2>3, <2>4, <2>5 DEF GrapherInv
<1>4. CASE ~dropped
  <2>1. UNCHANGED grapherHolds
    BY <1>1, <1>4 DEF Publish, grapherHolds, keeperMoves
  <2> QED BY <1>1, <1>2, <2>1, GrapherQuiet DEF HeldInv, PendingInv
<1> QED BY <1>3, <1>4

\* A report that could not be sent may arrive all the same.
LEMMA ReportFailsInv ==
  ASSUME ScenarioInv, KeeperType, CustodyInv, GrapherInv, KeeperInv, UNCHANGED scenario,
         NEW r \in reports, ReportFails(r)
  PROVE  /\ KeeperType' /\ CustodyInv' /\ GrapherInv' /\ KeeperInv'
         /\ TruthInv /\ HeldInv => TruthInv' /\ HeldInv'
<1> DEFINE late == [r EXCEPT !.failed = TRUE]
<1>1. /\ UNCHANGED keeperMoves /\ UNCHANGED grapherHolds /\ UNCHANGED tombstone
      /\ \A q \in reports' : q \in reports \/ q \in {late}
  BY DEF ReportFails, keeperMoves, grapherHolds, keeper, receipts, pipeline, writer
<1>2. dropped' => dropped \/ r.w = DropWatermark
  BY DEF ReportFails
<1>3. r \in ReportTypes /\ r.inst <= instance /\ (r.inst = instance => r.highest <= lastReceipt)
  BY DEF KeeperInv, ReportInv, ReportTypes
<1>4. /\ late \in ReportTypes /\ late.inst = r.inst /\ late.highest = r.highest /\ late.w = r.w
      /\ late.pending = r.pending
  BY <1>3 DEF ReportTypes
<1> HIDE DEF late
<1>5. TruthInv => late.w # DropWatermark /\ Truthful(late)
  BY <1>4 DEF TruthInv, Truthful
<1>6. KeeperType' /\ CustodyInv' /\ KeeperInv' /\ (TruthInv => TruthInv')
  <2>1. \A q \in {late} : /\ q \in ReportTypes
                          /\ q.inst <= instance /\ (q.inst = instance => q.highest <= lastReceipt)
    BY <1>3, <1>4
  <2>2. TruthInv => \A q \in {late} : q.w # DropWatermark /\ Truthful(q)
    BY <1>5
  <2> DEFINE New == {late}
  <2> HIDE DEF New
  <2>3. /\ \A q \in reports' : q \in reports \/ q \in New
        /\ \A q \in New : q \in ReportTypes /\ q.inst <= instance /\ (q.inst = instance => q.highest <= lastReceipt)
        /\ TruthInv => \A q \in New : q.w # DropWatermark /\ Truthful(q)
    BY <1>1, <2>1, <2>2 DEF New
  <2> QED BY <1>1, <2>3, Reported
<1>7. TruthInv /\ HeldInv => ~dropped' /\ ~tombstone'
  BY <1>2, <1>1 DEF TruthInv, HeldInv, PendingInv
<1> QED BY <1>1, <1>6, <1>7, GrapherQuiet DEF HeldInv

\* The receipts of a process that starts are none of an earlier one's.
LEMMA RestartInv ==
  ASSUME ScenarioInv, GrapherInv, UNCHANGED scenario, Restart
  PROVE  GrapherInv' /\ HeldInv'
<1> USE Fixed
<1>1. /\ instance' = instance + 1 /\ lastReceipt' = 0 /\ lastAssigned' = 0 /\ DOMAIN pending' = {}
      /\ arrived' = {} /\ DOMAIN timeline' = {} /\ extraction' = <<>> /\ settling' = {} /\ persisted' = {}
      /\ entry' = NoEntry /\ failedEarly' = FALSE /\ ~dropped' /\ ~tombstone'
      /\ UNCHANGED deliveries
  BY DEF Restart, NoTimeline
<1>2. 1 \in 1 .. LastWindow /\ DropWatermark # 0
  BY ScenarioFacts DEF LastWindow, DropWatermark
<1>3. extraction' \in Seq(Windows) /\ DOMAIN extraction' = {}
  BY <1>1
<1>4. WindowType'
  BY <1>1, <1>2, <1>3 DEF WindowType
<1>5. NoEntry \in Entries /\ ~NoEntry.known /\ NoEntry.w = 0
  BY DEF NoEntry, Entries
<1>6. WatermarkInv'
  BY <1>1, <1>5 DEF WatermarkInv, Entries
<1>7. \A d \in deliveries : d.inst \in Nat /\ 1 <= d.inst /\ d.inst <= instance /\ 1 <= d.n
  BY DEF GrapherInv, ReceiptInv, Deliveries
<1>8. instance \in Nat /\ 1 <= instance /\ \A d \in deliveries : d.inst # instance + 1 /\ d.inst <= instance + 1
  BY <1>7 DEF GrapherInv, ReceiptInv
<1>9. ReceiptInv'
  <2>1. /\ instance' \in Nat /\ 1 <= instance' /\ lastReceipt' \in Nat /\ lastAssigned' \in 0 .. lastReceipt'
        /\ 1 .. lastReceipt' = {}
    BY <1>1, <1>8
  <2> QED BY <1>1, <1>7, <1>8, <2>1 DEF GrapherInv, ReceiptInv
<1>10. HolderInv' /\ CountInv'
  BY <1>1, <1>3 DEF HolderInv, TimelineHolders, ExtractionHolders, SettlingHolders, CountInv
<1>11. PendingInv'
  BY <1>1, <1>2, <1>5, <1>8 DEF PendingInv
<1> QED BY <1>4, <1>6, <1>9, <1>10, <1>11 DEF GrapherInv, HeldInv

-----------------------------------------------------------------------------
(* The invariant holds                                                     *)

\* The first state
LEMMA InitInv == Init => Inv
<1> SUFFICES ASSUME Init PROVE Inv
  OBVIOUS
<1>1. ScenarioInv
  BY DEF Init, ScenarioInv
<1>2. Horizon \in Nat /\ Horizon >= 1 /\ LastWindow = Horizon + 2 /\ DropWatermark = Horizon + 10
  BY <1>1, ScenarioFacts DEF LastWindow, DropWatermark
<1>3. KeeperType
  <2>1. NoState \in ChunkStates /\ NoTransfer \in Transfers
    BY DEF NoState, ChunkStates, NoTransfer, Transfers
  <2> QED BY <2>1 DEF Init, KeeperType
<1>4. CustodyInv
  <2>1. NoTransfer.at = "none"
    BY DEF NoTransfer
  <2>2. \A c \in Chunks : ~Moving(c)
    BY <2>1 DEF Init, Moving, InQueue
  <2>3. MovedOnce
    BY DEF Init, MovedOnce, InQueue
  <2>4. \A c \in Chunks : Owned(c)
    BY <2>2 DEF Init, Owned
  <2> QED BY <2>3, <2>4 DEF CustodyInv
<1>5. /\ \E lo, hi \in 1 .. LastWindow : DOMAIN timeline = lo .. hi
      /\ \A k \in DOMAIN timeline : timeline[k] \in [evs : SUBSET Events, rec : SUBSET Nat] /\ timeline[k].rec = {}
  <2>1. 1 \in 1 .. Horizon
    BY <1>2
  <2> QED BY <1>1, <2>1, FirstWindows DEF Init
<1>6. WindowType
  <2>1. extraction \in Seq(Windows)
    BY DEF Init
  <2> QED BY <1>5, <2>1 DEF Init, WindowType
<1>7. entry = [known |-> TRUE, anchor |-> 1, w |-> 1, writeFailed |-> FALSE, parked |-> {}]
  BY DEF Init, NoEntry
<1>8. WatermarkInv
  <2>1. entry \in Entries /\ entry.known /\ entry.anchor = 1 /\ entry.w = 1 /\ entry.parked = {}
    BY <1>7 DEF Entries
  <2>2. persisted = {} /\ failedEarly \in BOOLEAN
    BY DEF Init
  <2>3. 1 .. (1 - 1) = {} /\ 1 <= LastWindow + 1
    BY <1>2
  <2> QED BY <2>1, <2>2, <2>3 DEF WatermarkInv
<1>9. ReceiptInv
  <2>1. 1 .. 0 = {} /\ DOMAIN pending = {} /\ 0 \in 0 .. 0
    BY DEF Init
  <2> QED BY <2>1 DEF Init, ReceiptInv
<1>10. KeeperInv
  <2>1. ~NoState.shipped /\ NoTransfer.at # "acked"
    BY DEF NoState, NoTransfer
  <2>2. ViewInv
    BY DEF Init, ViewInv, NoView
  <2>3. ReportInv /\ AckInv /\ ShipInv
    BY <2>1 DEF Init, ReportInv, AckInv, ShipInv
  <2> QED BY <2>2, <2>3 DEF KeeperInv
<1>11. TruthInv
  <2>1. \A c \in Chunks : ~Moving(c)
    <3>1. NoTransfer.at = "none"
      BY DEF NoTransfer
    <3> QED BY <3>1 DEF Init, Moving, InQueue
  <2> QED BY <2>1 DEF Init, TruthInv, Truthful
<1>12. HeldInv
  <2>1. HolderInv
    BY <1>5 DEF Init, HolderInv, TimelineHolders, ExtractionHolders, SettlingHolders
  <2>2. CountInv
    BY DEF Init, CountInv
  <2>3. PendingInv
    BY <1>2, <1>7 DEF Init, PendingInv
  <2> QED BY <2>1, <2>2, <2>3 DEF HeldInv
<1> QED BY <1>1, <1>3, <1>4, <1>6, <1>8, <1>9, <1>10, <1>11, <1>12 DEF Inv, GrapherInv, LiveInv

\* A step of the keeper
LEMMA KeeperKept ==
  ASSUME Inv, UNCHANGED grapherHolds, UNCHANGED <<tombstone, dropped, destroyed>>,
         KeeperType', CustodyInv', KeeperInv', TruthInv => TruthInv'
  PROVE  Inv'
<1>1. ScenarioInv'
  BY DEF Inv, ScenarioInv, grapherHolds
<1>2. GrapherInv'
  BY GrapherQuiet DEF Inv
<1>3. HeldInv => HeldInv'
  BY GrapherQuiet DEF HeldInv, PendingInv
<1> QED BY <1>1, <1>2, <1>3 DEF Inv, LiveInv

\* A step of the grapher
LEMMA GrapherKept ==
  ASSUME Inv, UNCHANGED keeperHolds, UNCHANGED destroyed, archive \subseteq archive',
         UNCHANGED <<instance, lastReceipt>> \/ instance' = instance + 1,
         GrapherInv', HeldInv => HeldInv'
  PROVE  Inv'
<1>1. ScenarioInv'
  BY DEF Inv, ScenarioInv, keeperHolds
<1>2. KeeperType' /\ CustodyInv' /\ KeeperInv' /\ (TruthInv => TruthInv')
  BY KeeperQuiet DEF Inv, GrapherInv
<1> QED BY <1>1, <1>2 DEF Inv, LiveInv

\* The keeper's steps keep the invariant.
LEMMA KeeperStep == Inv /\ UNCHANGED scenario /\ KeeperNext => Inv'
<1> SUFFICES ASSUME Inv, UNCHANGED scenario, KeeperNext PROVE Inv'
  OBVIOUS
<1>1. ScenarioInv /\ KeeperType /\ CustodyInv /\ KeeperInv /\ ReceiptInv
  BY DEF Inv, GrapherInv
<1> USE DEF receipts, pipeline, writer, registry, grapherHolds
<1>2. CASE \E c \in Chunks : IngestSealedChunk(c)
  <2>1. PICK c \in Chunks : IngestSealedChunk(c)
    BY <1>2
  <2>2. UNCHANGED grapherHolds /\ UNCHANGED <<tombstone, dropped, destroyed>>
    BY <2>1 DEF IngestSealedChunk
  <2> QED BY <1>1, <2>1, <2>2, IngestInv, IngestKeeper, KeeperKept
<1>3. CASE \E c \in Chunks : MarkShipped(c)
  <2>1. PICK c \in Chunks : MarkShipped(c)
    BY <1>3
  <2>2. UNCHANGED grapherHolds /\ UNCHANGED <<tombstone, dropped, destroyed>>
    BY <2>1 DEF MarkShipped
  <2> QED BY <1>1, <2>1, <2>2, MarkShippedInv, MarkShippedKeeper, KeeperKept
<1>4. CASE \E c \in Chunks : MarkSendFailed(c)
  <2>1. PICK c \in Chunks : MarkSendFailed(c)
    BY <1>4
  <2>2. UNCHANGED grapherHolds /\ UNCHANGED <<tombstone, dropped, destroyed>>
    BY <2>1 DEF MarkSendFailed
  <2> QED BY <1>1, <2>1, <2>2, MarkSendFailedInv, MarkSendFailedKeeper, KeeperKept
<1>5. CASE \E c \in Chunks : RequeueStalled(c)
  <2>1. PICK c \in Chunks : RequeueStalled(c)
    BY <1>5
  <2>2. UNCHANGED grapherHolds /\ UNCHANGED <<tombstone, dropped, destroyed>>
    BY <2>1 DEF RequeueStalled
  <2> QED BY <1>1, <2>1, <2>2, RequeueInv, RequeueKeeper, KeeperKept
<1>6. CASE \E i \in DOMAIN queue : TransferFails(i)
  <2>1. PICK i \in DOMAIN queue : TransferFails(i)
    BY <1>6
  <2>2. UNCHANGED grapherHolds /\ UNCHANGED <<tombstone, dropped, destroyed>>
    BY <2>1 DEF TransferFails
  <2> QED BY <1>1, <2>1, <2>2, TransferFailsInv, TransferFailsKeeper, KeeperKept
<1>7. CASE ReleaseStoryTail
  <2>1. UNCHANGED grapherHolds /\ UNCHANGED <<tombstone, dropped, destroyed>>
    BY <1>7 DEF ReleaseStoryTail
  <2> QED BY <1>1, <1>7, <2>1, ReleaseTailInv, LookAgainKeeper, KeeperKept
<1>8. CASE FreeDurableChunks
  <2>1. UNCHANGED grapherHolds /\ UNCHANGED <<tombstone, dropped, destroyed>>
    BY <1>8 DEF FreeDurableChunks
  <2> QED BY <1>1, <1>8, <2>1, FreeDurableInv, LookAgainKeeper, KeeperKept
<1>9. CASE \E r \in reports : ApplyReport(r)
  <2>1. PICK r \in reports : ApplyReport(r)
    BY <1>9
  <2>2. UNCHANGED grapherHolds /\ UNCHANGED <<tombstone, dropped, destroyed>>
    BY <2>1 DEF ApplyReport
  <2> QED BY <1>1, <2>1, <2>2, ApplyReportInv, ApplyReportKeeper, KeeperKept
<1> QED BY <1>2, <1>3, <1>4, <1>5, <1>6, <1>7, <1>8, <1>9 DEF KeeperNext

\* The grapher's steps keep the invariant.
LEMMA GrapherStep == Inv /\ UNCHANGED scenario /\ GrapherNext => Inv'
<1> SUFFICES ASSUME Inv, UNCHANGED scenario, GrapherNext PROVE Inv'
  OBVIOUS
<1>1. ScenarioInv /\ ScenarioInv' /\ KeeperType /\ CustodyInv /\ KeeperInv /\ GrapherInv /\ ReceiptInv
  BY DEF Inv, GrapherInv, ScenarioInv
<1> USE DEF keeper, receipts, pipeline, writer, registry, keeperHolds
<1>2. CASE \E i \in DOMAIN queue : ReceiveStoryChunk(i)
  <2>1. PICK i \in DOMAIN queue : ReceiveStoryChunk(i)
    BY <1>2
  <2>2. UNCHANGED destroyed
    BY <2>1 DEF ReceiveStoryChunk
  <2>3. KeeperType' /\ CustodyInv'
    BY <1>1, <2>1, ReceiveCustody
  <2>4. KeeperInv' /\ (TruthInv => TruthInv')
    BY <1>1, <2>1, ReceiveKeeper
  <2>5. GrapherInv' /\ (HeldInv => HeldInv')
    BY <1>1, <2>1, ReceiveInv
  <2> QED BY <1>1, <2>2, <2>3, <2>4, <2>5 DEF Inv, LiveInv
<1>3. CASE \E n \in arrived : AdoptOrphanChunk(n)
  <2>1. PICK n \in arrived : AdoptOrphanChunk(n)
    BY <1>3
  <2>2. UNCHANGED keeperHolds /\ UNCHANGED <<destroyed, archive, instance, lastReceipt>>
    BY <2>1 DEF AdoptOrphanChunk
  <2>3. GrapherInv' /\ (HeldInv => HeldInv')
    BY <1>1, <2>1, AdoptInv
  <2> QED BY <2>2, <2>3, GrapherKept
<1>4. CASE \E n \in arrived : MergeEvents(n)
  <2>1. PICK n \in arrived : MergeEvents(n)
    BY <1>4
  <2>2. UNCHANGED keeperHolds /\ UNCHANGED <<destroyed, archive, instance, lastReceipt>>
    BY <2>1 DEF MergeEvents
  <2>3. GrapherInv' /\ (HeldInv => HeldInv')
    BY <1>1, <2>1, MergeInv
  <2> QED BY <2>2, <2>3, GrapherKept
<1>5. CASE \E t \in 1 .. Horizon : StartStoryRecording(t)
  <2>1. PICK t \in 1 .. Horizon : StartStoryRecording(t)
    BY <1>5
  <2>2. UNCHANGED keeperHolds /\ UNCHANGED <<destroyed, archive, instance, lastReceipt>>
    BY <2>1 DEF StartStoryRecording
  <2>3. GrapherInv' /\ (HeldInv => HeldInv')
    BY <1>1, <2>1, StartInv
  <2> QED BY <2>2, <2>3, GrapherKept
<1>6. CASE StopStoryRecording
  <2>1. UNCHANGED keeperHolds /\ UNCHANGED <<destroyed, archive, instance, lastReceipt>>
    BY <1>6 DEF StopStoryRecording
  <2>2. UNCHANGED grapherHolds /\ UNCHANGED <<tombstone, dropped>>
    BY <1>6 DEF StopStoryRecording, grapherHolds
  <2>3. GrapherInv' /\ (HeldInv => HeldInv')
    BY <1>1, <2>2, GrapherQuiet DEF HeldInv, PendingInv
  <2> QED BY <2>1, <2>3, GrapherKept
<1>7. CASE ExtractDecayed
  <2>1. UNCHANGED keeperHolds /\ UNCHANGED <<destroyed, archive, instance, lastReceipt>>
    BY <1>7 DEF ExtractDecayed
  <2>2. GrapherInv' /\ (HeldInv => HeldInv')
    BY <1>1, <1>7, ExtractInv
  <2> QED BY <2>1, <2>2, GrapherKept
<1>8. CASE RetirePipeline
  <2>1. UNCHANGED keeperHolds /\ UNCHANGED <<destroyed, archive, instance, lastReceipt>>
    BY <1>8 DEF RetirePipeline
  <2>2. GrapherInv' /\ (HeldInv => HeldInv')
    BY <1>1, <1>8, RetireInv
  <2> QED BY <2>1, <2>2, GrapherKept
<1>9. CASE DestroyStory
  <2>1. UNCHANGED keeperHolds /\ UNCHANGED <<archive, instance, lastReceipt>>
    BY <1>9 DEF DestroyStory
  <2>2. GrapherInv' /\ destroyed'
    BY <1>1, <1>9, DestroyInv
  <2>3. KeeperType' /\ CustodyInv' /\ KeeperInv'
    BY <1>1, <2>1, KeeperQuiet
  <2> QED BY <1>1, <2>2, <2>3 DEF Inv
<1>10. CASE \E i \in InProcess : WriteWindow(i)
  <2>1. PICK i \in InProcess : WriteWindow(i)
    BY <1>10
  <2>2. UNCHANGED keeperHolds /\ UNCHANGED <<destroyed, instance, lastReceipt>>
    BY <2>1 DEF WriteWindow
  <2>3. GrapherInv' /\ (HeldInv => HeldInv') /\ archive \subseteq archive'
    BY <1>1, <2>1, WriteInv
  <2> QED BY <2>2, <2>3, GrapherKept
<1>11. CASE \E i \in InProcess : WriteFails(i)
  <2>1. PICK i \in InProcess : WriteFails(i)
    BY <1>11
  <2>2. UNCHANGED keeperHolds /\ UNCHANGED <<destroyed, instance, lastReceipt>>
    BY <2>1 DEF WriteFails
  <2>3. GrapherInv' /\ (HeldInv => HeldInv') /\ archive \subseteq archive'
    BY <1>1, <2>1, WriteFailsInv
  <2> QED BY <2>2, <2>3, GrapherKept
<1>12. CASE \E x \in settling : \E n \in x.rec : ReleaseReceipt(x, n)
  <2>1. PICK x \in settling : \E n \in x.rec : ReleaseReceipt(x, n)
    BY <1>12
  <2>2. PICK n \in x.rec : ReleaseReceipt(x, n)
    BY <2>1
  <2>3. UNCHANGED keeperHolds /\ UNCHANGED <<destroyed, archive, instance, lastReceipt>>
    BY <2>2 DEF ReleaseReceipt
  <2>4. GrapherInv' /\ (HeldInv => HeldInv')
    BY <1>1, <2>2, ReleaseInv
  <2> QED BY <2>3, <2>4, GrapherKept
<1>13. CASE Publish
  <2>1. UNCHANGED destroyed
    BY <1>13 DEF Publish
  <2> QED BY <1>1, <1>13, <2>1, PublishInv DEF Inv, LiveInv
<1>14. CASE \E r \in reports : ReportFails(r)
  <2>1. PICK r \in reports : ReportFails(r)
    BY <1>14
  <2>2. UNCHANGED destroyed
    BY <2>1 DEF ReportFails
  <2> QED BY <1>1, <2>1, <2>2, ReportFailsInv DEF Inv, LiveInv
<1>15. CASE Restart
  <2>1. UNCHANGED keeperHolds /\ UNCHANGED <<destroyed, archive>> /\ instance' = instance + 1
    BY <1>15 DEF Restart
  <2>2. GrapherInv' /\ HeldInv'
    BY <1>1, <1>15, RestartInv
  <2> QED BY <2>1, <2>2, GrapherKept
<1> QED BY <1>2, <1>3, <1>4, <1>5, <1>6, <1>7, <1>8, <1>9, <1>10, <1>11, <1>12, <1>13, <1>14, <1>15 DEF GrapherNext

\* A step in which nothing happens
LEMMA StutterInv == Inv /\ UNCHANGED vars => Inv'
<1> SUFFICES ASSUME Inv, UNCHANGED vars PROVE Inv'
  OBVIOUS
<1> USE DEF vars, moving, keeper, receipts, pipeline, writer, registry
<1>1. UNCHANGED keeperHolds /\ UNCHANGED <<destroyed, archive, instance, lastReceipt>>
  BY DEF keeperHolds
<1>2. UNCHANGED grapherHolds /\ UNCHANGED <<tombstone, dropped>>
  BY DEF grapherHolds
<1>3. GrapherInv' /\ (HeldInv => HeldInv')
  BY <1>2, GrapherQuiet DEF Inv, HeldInv, PendingInv
<1> QED BY <1>1, <1>3, GrapherKept

\* The invariant holds in every state.
LEMMA Invariant == Spec => []Inv
<1>1. Inv /\ [Next]_vars => Inv'
  BY KeeperStep, GrapherStep, StutterInv DEF Next
<1> QED BY <1>1, InitInv, PTL DEF Spec

-----------------------------------------------------------------------------
(* The theorems                                                            *)

\* A chunk is in the queue or in a drain thread's hands once, or not at all.
LEMMA OccurrencesFact ==
  ASSUME CustodyInv, NEW c \in Chunks
  PROVE  Occurrences(c) = IF Moving(c) THEN 1 ELSE 0
<1> DEFINE at == {i \in DOMAIN queue : queue[i] = c}
<1>1. CASE InQueue(c)
  <2>1. PICK i \in DOMAIN queue : queue[i] = c
    BY <1>1 DEF InQueue
  <2>2. at = {i}
    BY <2>1 DEF CustodyInv, MovedOnce
  <2>3. Cardinality(at) = 1
    BY <2>2, FS_Singleton
  <2>4. transfer[c].at = "none"
    BY <1>1 DEF CustodyInv, MovedOnce
  <2> HIDE DEF at
  <2>5. Occurrences(c) = Cardinality(at) + 0
    BY <2>4 DEF Occurrences, at
  <2> QED BY <1>1, <2>3, <2>5 DEF Moving
<1>2. CASE ~InQueue(c)
  <2>1. at = {}
    BY <1>2 DEF InQueue
  <2>2. Cardinality(at) = 0
    BY <2>1, FS_EmptySet
  <2> HIDE DEF at
  <2>3. Occurrences(c) = Cardinality(at) + (IF transfer[c].at = "none" THEN 0 ELSE 1)
    BY DEF Occurrences, at
  <2> QED BY <1>2, <2>2, <2>3 DEF Moving
<1> QED BY <1>1, <1>2

\* Whatever fails, is dropped, sent again or confirmed late, a chunk the
\* keeper sealed is owned by the retention store or by whoever moves it, and
\* deleted once, when neither has it (KeeperChunkRetentionStore's in_queue).
THEOREM ChunksOwned == Spec => []QueueOwnsItsChunks
<1>1. Inv => QueueOwnsItsChunks
  <2> SUFFICES ASSUME Inv, NEW c \in sealed
               PROVE  /\ Occurrences(c) <= 1
                      /\ Occurrences(c) = 1 => c \notin freed
                      /\ c \in tracked => (chunk[c].inQueue <=> Occurrences(c) = 1) /\ c \notin freed
                      /\ c \notin tracked => (c \in freed <=> Occurrences(c) = 0)
    BY DEF QueueOwnsItsChunks
  <2>1. c \in Chunks /\ CustodyInv
    BY DEF Inv, KeeperType
  <2>2. Owned(c)
    BY <2>1 DEF CustodyInv
  <2>3. Occurrences(c) = IF Moving(c) THEN 1 ELSE 0
    BY <2>1, OccurrencesFact
  <2>4. CASE Moving(c)
    BY <2>2, <2>3, <2>4 DEF Owned
  <2>5. CASE ~Moving(c)
    BY <2>2, <2>3, <2>5 DEF Owned
  <2> QED BY <2>4, <2>5
<1> QED BY <1>1, Invariant, PTL

\* In whatever order windows are written, W is the end of a run of windows
\* that were written or covered by a registration, and is not short of it
\* (advancePersisted, absorbContiguous, registerStory).
THEOREM WatermarkPrefix == Spec => []WatermarkIsPrefix
<1>1. Inv => WatermarkIsPrefix
  BY DEF Inv, GrapherInv, WatermarkInv, WatermarkIsPrefix
<1> QED BY <1>1, Invariant, PTL

\* Whatever order reports arrive in, whichever are lost and whichever process
\* sent them, the keeper holds a receipt for written only when every event of
\* its chunk is in the archive (mergeReceipts, settleIfWritten).
THEOREM SettledWritten == Spec => []SettledIsWritten
<1>1. Inv => SettledIsWritten
  <2> SUFFICES ASSUME Inv, ~destroyed, NEW d \in deliveries, NEW s, s = [inst |-> d.inst, receipt |-> d.n],
                      Settled(s, view)
               PROVE  Written(d.c)
    BY DEF SettledIsWritten, Written
  <2>1. d.n \in Nat /\ 1 <= d.n /\ Truthful(view)
    BY DEF Inv, GrapherInv, ReceiptInv, Deliveries, LiveInv, TruthInv
  <2>2. s.inst = d.inst /\ s.receipt = d.n
    OBVIOUS
  <2>3. d.inst = view.inst /\ d.n <= view.highest /\ d.n \notin view.pending
    BY <2>1, <2>2 DEF Settled
  <2> QED BY <2>1, <2>3 DEF Truthful
<1> QED BY <1>1, Invariant, PTL

\* The keeper deletes no chunk, and tells its WAL of none, before its events
\* are in the archive, unless the story was destroyed (maybeFreeChunk).
THEOREM FreedWritten == Spec => []FreedIsWritten
<1>1. Inv => FreedIsWritten
  BY DEF Inv, LiveInv, TruthInv, Written, FreedIsWritten
<1> QED BY <1>1, Invariant, PTL
=============================================================================
