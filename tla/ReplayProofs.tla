---------------------------- MODULE ReplayProofs ----------------------------
(***************************************************************************)
(* Proofs about a replay, for any keepers, chunks, events, ranges and      *)
(* fetch limits: an answer of CL_SUCCESS has every event that was sealed   *)
(* when the replay was called, each once and in order, and an answer is    *)
(* not written to any more.                                                *)
(***************************************************************************)
EXTENDS Replay, FiniteSetTheorems, SequenceTheorems, NaturalsInduction, TLAPS

-----------------------------------------------------------------------------
(* The invariant                                                           *)

ChunkStates == {"open", "sealed", "shipped", "settled", "visible", "freed", "lost"}
Ranges == [start : Nat, end : Nat]
QueryStates == [live : BOOLEAN, completed : BOOLEAN, complete : BOOLEAN]
Answers == [state : {"answered", "unanswered"}, known_W : 0 .. MaxTime, hot_floor : 0 .. (MaxTime + 1),
            events : SUBSET Events, unconfirmed_events : SUBSET Events, truncated : BOOLEAN]
Fetches == Answers \cup {NotAsked, [state |-> "asked"]}
ClientStates == {"idle", "waiting", "returned"}
PlayerStates == {"none", "fetching", "queued", "ready", "stuck", "gone"}
HandlerStates == {"none", "found", "written", "done"}
Responses == [events : Seq(Events), complete : BOOLEAN, archiveEnd : Nat]

KeeperType ==
  /\ chunk \in [Chunks -> ChunkStates] /\ inGrapher \subseteq Chunks
  /\ archive \in [written : SUBSET Chunks, readable : SUBSET Chunks]
  /\ watermark \in 0 .. MaxTime /\ known_w \in [Keepers -> 0 .. MaxTime] /\ storyKeepers \subseteq Keepers
  /\ scenario \in Scenarios /\ disturbed \in BOOLEAN

QueryType ==
  /\ range \in [Queries -> Ranges] /\ client \in [Queries -> ClientStates]
  /\ ret \in [Queries -> Codes] /\ query \in [Queries -> QueryStates]
  /\ series \in [Queries -> Seq(Events)] /\ fetch \in [Queries -> [Keepers -> Fetches]]
  /\ player \in [Queries -> PlayerStates]
  /\ response \in [Queries -> Responses] /\ handler \in [Queries -> HandlerStates]
  /\ due \in [Queries -> SUBSET Events]

\* The keeper has the events of the chunk, or the archive has.
Closed(c) == chunk[c] \notin {"open", "lost"}

\* What a keeper no longer holds can be read from the archive, and lies below
\* the watermark the keeper reports; a keeper that holds something is asked.
ChunkPart(c) ==
  /\ chunk[c] = "shipped" => c \in inGrapher \cup archive.written
  /\ chunk[c] \in {"settled", "visible", "freed"} => c \in archive.written
  /\ chunk[c] \in {"visible", "freed"} => c \in archive.readable
  /\ ~disturbed /\ chunk[c] = "freed" => EndOf[c] <= known_w[KeeperOf[c]]
  /\ ~disturbed /\ Closed(c) => KeeperOf[c] \in storyKeepers
ChunkInv ==
  /\ archive.readable \subseteq archive.written
  /\ \A c \in Chunks : ChunkPart(c)

Held(k, e) == \E c \in Chunks : KeeperOf[c] = k /\ Closed(c) /\ e \in EventsOf[c]
InArchive(e) == \E c \in archive.readable : e \in EventsOf[c]

\* An answer gives an event, or leaves it to the archive, or says it is cut short.
Given(r, e) ==
  \/ r.truncated \/ e \in r.unconfirmed_events
  \/ InArchive(e) /\ (e \in r.events \/ TimeOf[e] < r.known_W)
Asked(q, e) == \E k \in Keepers :
  \/ fetch[q][k].state = "asked" /\ Held(k, e)
  \/ fetch[q][k].state = "unanswered"
  \/ fetch[q][k].state = "answered" /\ Given(fetch[q][k], e)

\* Whether it has asked, queued the archive read or has its answer, a replay
\* has every event that is due, or knows where it is, or is not complete.
DueInv(q) ==
  /\ \A e \in due[q] : InRange(e, range[q].start, range[q].end)
  /\ client[q] = "waiting" /\ player[q] = "none" => \A e \in due[q] : \E k \in Keepers : Held(k, e)
  /\ player[q] = "fetching" /\ ~disturbed => \A e \in due[q] : Asked(q, e)
  /\ player[q] = "queued" /\ ~disturbed /\ response[q].complete =>
       \A e \in due[q] : e \in Range(response[q].events) \/ (InArchive(e) /\ TimeOf[e] < response[q].archiveEnd)
  /\ (player[q] = "ready" \/ handler[q] \in {"found", "written"}) /\ ~disturbed /\ response[q].complete =>
       due[q] \subseteq Range(response[q].events)
  /\ query[q].completed /\ query[q].complete /\ ~disturbed => due[q] \subseteq Range(series[q])
  /\ ret[q] = "CL_SUCCESS" /\ ~disturbed => due[q] \subseteq Range(series[q])

\* The order in which the call, the player and the handler go on
LifeInv(q) ==
  /\ client[q] = "idle" => player[q] = "none"
  /\ client[q] = "waiting" <=> query[q].live
  /\ client[q] # "returned" => ret[q] = "none"
  /\ player[q] = "none" => response[q] = NoResponse
  /\ handler[q] # "none" => player[q] = "gone"
  /\ handler[q] = "none" => series[q] = <<>>
  /\ query[q].completed => handler[q] = "done" /\ query[q].live
  /\ handler[q] = "written" /\ query[q].live => series[q] = response[q].events
  /\ Answered(q) => handler[q] = "done"

\* Events in order, all of the range
Sound(s, start, end) ==
  /\ \A i, j \in DOMAIN s : i < j => s[i] < s[j]
  /\ \A e \in Range(s) : InRange(e, start, end)
OrderInv(q) ==
  /\ \A k \in Keepers : fetch[q][k].state \in {"answered", "unanswered"} =>
       \A e \in fetch[q][k].events \cup fetch[q][k].unconfirmed_events : InRange(e, range[q].start, range[q].end)
  /\ player[q] # "fetching" => \A k \in Keepers : fetch[q][k] = NotAsked
  /\ Sound(response[q].events, range[q].start, range[q].end) /\ Sound(series[q], range[q].start, range[q].end)
  /\ response[q].archiveEnd <= range[q].end

QueryInv(q) == DueInv(q) /\ LifeInv(q) /\ OrderInv(q)
Inv == KeeperType /\ QueryType /\ ChunkInv /\ \A q \in Queries : QueryInv(q)

-----------------------------------------------------------------------------
(* Numbers and sorted sequences                                            *)

\* A set of numbers that is not empty has a least element, the one Min picks.
LEMMA MinIn ==
  ASSUME NEW S \in SUBSET Nat, S # {}
  PROVE  Min(S) \in S /\ \A y \in S : Min(S) <= y
<1>1. PICK m \in S : \A y \in S : ~(<<y, m>> \in OpToRel(<, Nat))
  BY WFMin, NatLessThanWellFounded
<1>2. ASSUME NEW y \in S PROVE m <= y
  <2>1. y \in Nat /\ m \in Nat
    OBVIOUS
  <2>2. ASSUME y < m PROVE FALSE
    <3>1. <<y, m>> \in OpToRel(<, Nat)
      BY <2>1, <2>2 DEF OpToRel
    <3> QED BY <1>1, <3>1
  <2> QED BY <2>1, <2>2
<1> QED BY <1>2 DEF Min

\* A bounded set of numbers that is not empty has a largest, the one Max picks.
LEMMA MaxIn ==
  ASSUME NEW h \in Nat, NEW S \in SUBSET (0 .. h), S # {}
  PROVE  Max(S) \in S /\ \A y \in S : Max(S) >= y
<1> DEFINE T == {h - y : y \in S}
<1>1. \A y \in S : y \in Nat /\ h - y \in Nat
  OBVIOUS
<1>2. T \in SUBSET Nat /\ T # {}
  BY <1>1
<1>3. PICK t \in T : \A u \in T : t <= u
  <2> HIDE DEF T
  <2> QED BY <1>2, MinIn
<1>4. PICK m \in S : t = h - m
  OBVIOUS
<1>5. ASSUME NEW y \in S PROVE m >= y
  <2>1. h - m <= h - y
    BY <1>3, <1>4
  <2> QED BY <1>1, <2>1
<1> QED BY <1>5 DEF Max

\* The smaller of two numbers
LEMMA MinPair ==
  ASSUME NEW a \in Nat, NEW b \in Nat
  PROVE  Min({a, b}) = IF a <= b THEN a ELSE b
BY DEF Min

\* The larger of two numbers
LEMMA MaxPair ==
  ASSUME NEW a \in Nat, NEW b \in Nat
  PROVE  Max({a, b}) = IF a >= b THEN a ELSE b
BY DEF Max

\* The elements of S up to e, and how many they are
UpTo(S, e) == {f \in S : f <= e}
Rank(S, e) == Cardinality(UpTo(S, e))

\* Ranks run from 1 to the size of the set, in order.
LEMMA RankFact ==
  ASSUME NEW S \in SUBSET Nat, IsFiniteSet(S)
  PROVE  /\ Cardinality(S) \in Nat
         /\ \A e \in S : Rank(S, e) \in 1 .. Cardinality(S)
         /\ \A e, g \in S : e < g => Rank(S, e) < Rank(S, g)
<1>1. Cardinality(S) \in Nat
  BY FS_CardinalityType
<1>2. ASSUME NEW e \in S
      PROVE  IsFiniteSet(UpTo(S, e)) /\ Rank(S, e) \in 1 .. Cardinality(S)
  <2>1. UpTo(S, e) \in SUBSET S /\ UpTo(S, e) # {}
    BY DEF UpTo
  <2>2. IsFiniteSet(UpTo(S, e)) /\ Rank(S, e) <= Cardinality(S)
    BY <2>1, FS_Subset DEF Rank
  <2>3. Rank(S, e) \in Nat /\ Rank(S, e) # 0
    BY <2>1, <2>2, FS_CardinalityType, FS_EmptySet DEF Rank
  <2> QED BY <1>1, <2>2, <2>3
<1>3. ASSUME NEW e \in S, NEW g \in S, e < g
      PROVE  Rank(S, e) < Rank(S, g)
  <2>1. UpTo(S, e) \in SUBSET UpTo(S, g) /\ g \in UpTo(S, g) /\ g \notin UpTo(S, e)
    <3>1. e \in Nat /\ g \in Nat /\ \A f \in S : f \in Nat
      OBVIOUS
    <3>2. \A f \in S : f <= e => f <= g
      BY <1>3, <3>1
    <3>3. g <= g /\ ~(g <= e)
      BY <1>3, <3>1
    <3> QED BY <3>2, <3>3 DEF UpTo
  <2>2. Rank(S, e) <= Rank(S, g) /\ (Rank(S, g) = Rank(S, e) => UpTo(S, g) = UpTo(S, e))
    BY <1>2, <2>1, FS_Subset DEF Rank
  <2>3. Rank(S, e) \in Nat /\ Rank(S, g) \in Nat
    BY <1>1, <1>2
  <2> QED BY <2>1, <2>2, <2>3
<1> QED BY <1>1, <1>2, <1>3

\* Every place has an element.
LEMMA RankOnto ==
  ASSUME NEW S \in SUBSET Nat, IsFiniteSet(S), NEW i \in 1 .. Cardinality(S)
  PROVE  \E e \in S : Rank(S, e) = i
<1> DEFINE n == Cardinality(S)
           f == [e \in S |-> Rank(S, e)]
<1>1. n \in Nat
  BY RankFact
<1>2. IsFiniteSet(1 .. n) /\ Cardinality(1 .. n) = n
  BY <1>1, FS_Interval
<1>3. f \in [S -> 1 .. n]
  BY RankFact
<1>4. ASSUME NEW e \in S, NEW g \in S, f[e] = f[g]
      PROVE  e = g
  <2>1. Rank(S, e) = Rank(S, g) /\ Rank(S, e) \in 1 .. n
    BY <1>4, RankFact
  <2>2. ~(e < g) /\ ~(g < e)
    BY <1>1, <2>1, RankFact
  <2> QED BY <2>2
<1>5. f \in Injection(S, 1 .. n)
  BY <1>3, <1>4 DEF Injection, IsInjective
<1>6. f \in Surjection(S, 1 .. n)
  <2> HIDE DEF f
  <2> QED BY <1>2, <1>5, FS_Injection
<1>7. \E e \in S : f[e] = i
  BY <1>6 DEF Surjection
<1> QED BY <1>7

\* Ascending lists a set, each element once and in order.
LEMMA AscendingFact ==
  ASSUME NEW S \in SUBSET Nat, IsFiniteSet(S), NEW a, a = Ascending(S)
  PROVE  /\ a \in Seq(S) /\ Len(a) = Cardinality(S) /\ Range(a) = S
         /\ \A i, j \in DOMAIN a : i < j => a[i] < a[j]
<1> DEFINE n == Cardinality(S)
<1>1. n \in Nat
  BY RankFact
<1>2. a = [i \in 1 .. n |-> CHOOSE e \in S : Rank(S, e) = i]
  BY DEF Ascending, Rank, UpTo
<1>3. \A i \in 1 .. n : a[i] \in S /\ Rank(S, a[i]) = i
  BY <1>2, RankOnto
<1>4. DOMAIN a = 1 .. n
  BY <1>2
<1>5. a \in [1 .. n -> S]
  BY <1>2, <1>3
<1> HIDE DEF n
<1>6. a \in Seq(S) /\ Len(a) = n
  BY <1>1, <1>4, <1>5, LenProperties
<1>7. ASSUME NEW i \in 1 .. n, NEW j \in 1 .. n, i < j
      PROVE  a[i] < a[j]
  <2>1. a[i] \in S /\ a[j] \in S /\ Rank(S, a[i]) = i /\ Rank(S, a[j]) = j
    BY <1>3
  <2>2. ~(a[j] < a[i]) /\ a[i] # a[j]
    <3>1. ~(j < i) /\ i # j
      BY <1>1, <1>7
    <3> QED BY <2>1, <3>1, RankFact
  <2>3. a[i] \in Nat /\ a[j] \in Nat
    BY <2>1
  <2> QED BY <2>2, <2>3
<1>8. ASSUME NEW e \in S
      PROVE  \E i \in 1 .. n : a[i] = e
  <2>1. Rank(S, e) \in 1 .. n
    BY RankFact DEF n
  <2> DEFINE i == Rank(S, e)
  <2>2. a[i] \in S /\ Rank(S, a[i]) = Rank(S, e)
    BY <1>3, <2>1
  <2>3. ~(a[i] < e) /\ ~(e < a[i])
    <3>1. ~(Rank(S, e) < Rank(S, e))
      BY <1>1, <2>1
    <3> QED BY <2>2, <3>1, RankFact
  <2>4. a[i] = e
    <3>1. a[i] \in Nat /\ e \in Nat
      BY <2>2
    <3> HIDE DEF i
    <3> QED BY <2>3, <3>1
  <2> QED BY <2>1, <2>4
<1>9. Range(a) = S
  BY <1>3, <1>4, <1>8 DEF Range
<1> QED BY <1>4, <1>6, <1>7, <1>9 DEF n

-----------------------------------------------------------------------------
(* What the operators of a replay return                                   *)

\* Events are numbers, and have a time.
LEMMA EventFact ==
  /\ Events \in SUBSET Nat /\ MaxTime \in Nat
  /\ \A e \in Events : e \in Nat /\ TimeOf[e] \in Nat /\ TimeOf[e] >= 1 /\ TimeOf[e] <= MaxTime
  /\ \A c \in Chunks : EventsOf[c] \in SUBSET Events /\ EndOf[c] \in Nat /\ KeeperOf[c] \in Keepers
<1>1. Events \in SUBSET Nat /\ MaxTime \in Nat /\ TimeOf \in [Events -> 1 .. MaxTime]
  BY ReplayAssumption
<1>2. \A c \in Chunks : EndOf[c] \in Nat /\ KeeperOf[c] \in Keepers
  BY ReplayAssumption
<1>3. \A c \in Chunks : EventsOf[c] \in SUBSET Events
  BY DEF Events
<1>4. \A e \in Events : TimeOf[e] \in 1 .. MaxTime
  BY <1>1
<1> QED BY <1>1, <1>2, <1>3, <1>4

\* A set of events in order
LEMMA Listed ==
  ASSUME NEW S \in SUBSET Events, NEW a, a = Ascending(S)
  PROVE  /\ a \in Seq(Events) /\ Len(a) = Cardinality(S) /\ Cardinality(S) \in Nat /\ Range(a) = S
         /\ \A i, j \in DOMAIN a : i < j => a[i] < a[j]
<1>1. S \in SUBSET Nat /\ IsFiniteSet(S)
  <2>1. IsFiniteSet(Events) /\ Events \in SUBSET Nat
    BY ReplayAssumption
  <2> QED BY <2>1, FS_Subset
<1>2. /\ a \in Seq(S) /\ Len(a) = Cardinality(S) /\ Range(a) = S
      /\ \A i, j \in DOMAIN a : i < j => a[i] < a[j]
  BY <1>1, AscendingFact
<1>3. a \in Seq(Events)
  <2>1. Len(a) \in Nat /\ DOMAIN a = 1 .. Len(a) /\ \A i \in 1 .. Len(a) : a[i] \in S
    BY <1>2, LenProperties, ElementOfSeq
  <2>2. a = [i \in 1 .. Len(a) |-> a[i]]
    BY <1>2
  <2>3. \A i \in 1 .. Len(a) : a[i] \in Events
    BY <2>1
  <2> QED BY <2>1, <2>2, <2>3
<1> QED BY <1>1, <1>2, <1>3, FS_CardinalityType

\* The first events of a list, up to a limit
LEMMA Prefix ==
  ASSUME NEW S \in SUBSET Events, NEW limit \in Nat, NEW a, a = Ascending(S),
         NEW p, p = Range(SubSeq(a, 1, Min({limit, Len(a)})))
  PROVE  p \in SUBSET S /\ (~(Cardinality(S) > limit) => p = S)
<1> DEFINE m == Min({limit, Len(a)})
           b == SubSeq(a, 1, m)
<1>1. a \in Seq(Events) /\ Len(a) \in Nat /\ Len(a) = Cardinality(S) /\ Range(a) = S
  BY Listed
<1>2. DOMAIN a = 1 .. Len(a)
  BY <1>1, LenProperties
<1>3. m = IF limit <= Len(a) THEN limit ELSE Len(a)
  BY <1>1, MinPair
<1>4. m \in Nat /\ m <= Len(a) /\ (~(Len(a) > limit) => m = Len(a))
  <2> HIDE DEF m
  <2> QED BY <1>1, <1>3
<1> HIDE DEF m
<1>5. \A i \in 1 .. m : a[i] \in Events /\ i \in DOMAIN a
  <2>1. \A i \in 1 .. m : i \in 1 .. Len(a)
    BY <1>1, <1>4
  <2> QED BY <1>1, <1>2, <2>1, ElementOfSeq
<1>6. b \in Seq(Events) /\ Len(b) = m /\ \A i \in 1 .. m : b[i] = a[i]
  <2>1. 1 \in 1 .. (Len(a) + 1) /\ m \in 0 .. Len(a)
    BY <1>1, <1>4
  <2> QED BY <1>1, <1>4, <1>5, <2>1, SubSeqProperties
<1> HIDE DEF b
<1>7. DOMAIN b = 1 .. m
  BY <1>6, LenProperties
<1>8. p = {a[i] : i \in 1 .. m}
  BY <1>6, <1>7 DEF Range, b, m
<1>9. S = {a[i] : i \in 1 .. Len(a)}
  BY <1>1, <1>2 DEF Range
<1>10. \A i \in 1 .. m : i \in 1 .. Len(a)
  BY <1>1, <1>4
<1>11. p \in SUBSET S
  BY <1>8, <1>9, <1>10
<1>12. ASSUME ~(Cardinality(S) > limit) PROVE p = S
  <2>1. m = Len(a)
    BY <1>1, <1>4, <1>12
  <2> QED BY <1>8, <1>9, <2>1
<1> QED BY <1>11, <1>12

\* The parts of a keeper's answer
Retaining(k) == UNION {EventsOf[c] : c \in {d \in Chunks : KeeperOf[d] = k /\ Retained(d)}}
Wanted(k, start, end) ==
  {e \in Retaining(k) : InRange(e, start, end) /\ ~(Acknowledged(k, e) /\ TimeOf[e] < known_w[k])}
Served(k, start, end) ==
  Range(SubSeq(Ascending(Wanted(k, start, end)), 1,
               Min({scenario.kHotFetchMaxEvents, Len(Ascending(Wanted(k, start, end)))})))
Floor(k) == Min({TimeOf[e] : e \in Retaining(k)} \cup {Infinite})

\* fetchRange, by its parts
LEMMA FetchShape ==
  ASSUME NEW k, NEW start, NEW end
  PROVE  fetchRange(k, start, end) =
           [state |-> "answered", known_W |-> known_w[k], hot_floor |-> Floor(k),
            events |-> {e \in Served(k, start, end) : Acknowledged(k, e)},
            unconfirmed_events |-> {e \in Served(k, start, end) : ~Acknowledged(k, e)},
            truncated |-> Cardinality(Wanted(k, start, end)) > scenario.kHotFetchMaxEvents]
BY DEF fetchRange, Floor, Served, Wanted, Retaining

\* What fetchRange serves, and what it serves when it is not cut short
LEMMA ServedFact ==
  ASSUME KeeperType, NEW k \in Keepers, NEW start \in Nat, NEW end \in Nat
  PROVE  /\ Retaining(k) \in SUBSET Events
         /\ Served(k, start, end) \in SUBSET Wanted(k, start, end)
         /\ ~(Cardinality(Wanted(k, start, end)) > scenario.kHotFetchMaxEvents) =>
              Served(k, start, end) = Wanted(k, start, end)
         /\ Cardinality(Wanted(k, start, end)) \in Nat /\ scenario.kHotFetchMaxEvents \in Nat
         /\ Floor(k) \in 0 .. (MaxTime + 1)
<1>1. Retaining(k) \in SUBSET Events
  BY DEF Retaining, Events
<1>2. Wanted(k, start, end) \in SUBSET Events
  BY <1>1 DEF Wanted
<1>3. scenario.kHotFetchMaxEvents \in Nat
  BY ReplayAssumption DEF KeeperType
<1>4. Cardinality(Wanted(k, start, end)) \in Nat
  BY <1>2, Listed
<1>5. /\ Served(k, start, end) \in SUBSET Wanted(k, start, end)
      /\ ~(Cardinality(Wanted(k, start, end)) > scenario.kHotFetchMaxEvents) =>
           Served(k, start, end) = Wanted(k, start, end)
  BY <1>2, <1>3, Prefix DEF Served
<1>6. Floor(k) \in 0 .. (MaxTime + 1)
  <2> DEFINE S == {TimeOf[e] : e \in Retaining(k)} \cup {Infinite}
  <2>1. MaxTime \in Nat /\ Infinite = MaxTime + 1
    BY EventFact DEF Infinite
  <2>2. \A e \in Retaining(k) : TimeOf[e] \in Nat /\ TimeOf[e] <= MaxTime
    BY <1>1, EventFact
  <2>3. \A x \in S : x \in 0 .. (MaxTime + 1)
    BY <2>1, <2>2
  <2>4. S # {} /\ S \in SUBSET Nat
    BY <2>1, <2>3
  <2>5. Min(S) \in S
    <3> HIDE DEF S
    <3> QED BY <2>4, MinIn
  <2>6. Floor(k) = Min(S)
    BY DEF Floor
  <2> HIDE DEF S
  <2> QED BY <2>3, <2>5, <2>6
<1> QED BY <1>1, <1>3, <1>4, <1>5, <1>6

\* fetchRange answers, with events of the range.
LEMMA FetchFact ==
  ASSUME KeeperType, NEW k \in Keepers, NEW start \in Nat, NEW end \in Nat,
         NEW r, r = fetchRange(k, start, end)
  PROVE  /\ r \in Answers /\ r.state = "answered"
         /\ \A e \in r.events \cup r.unconfirmed_events : InRange(e, start, end)
<1> DEFINE W == Wanted(k, start, end)
           S == Served(k, start, end)
           limit == scenario.kHotFetchMaxEvents
<1>1. /\ Retaining(k) \in SUBSET Events /\ S \in SUBSET W /\ Floor(k) \in 0 .. (MaxTime + 1)
      /\ Cardinality(W) \in Nat /\ limit \in Nat
  BY ServedFact
<1>2. W \in SUBSET Events /\ \A e \in W : InRange(e, start, end)
  BY <1>1 DEF Wanted
<1>3. known_w[k] \in 0 .. MaxTime
  BY DEF KeeperType
<1>4. r = [state |-> "answered", known_W |-> known_w[k], hot_floor |-> Floor(k),
           events |-> {e \in S : Acknowledged(k, e)}, unconfirmed_events |-> {e \in S : ~Acknowledged(k, e)},
           truncated |-> Cardinality(W) > limit]
  BY FetchShape
<1> HIDE DEF W, S, limit
<1>5. {e \in S : Acknowledged(k, e)} \in SUBSET Events /\ {e \in S : ~Acknowledged(k, e)} \in SUBSET Events
  BY <1>1, <1>2
<1>6. (Cardinality(W) > limit) \in BOOLEAN
  OBVIOUS
<1>7. r \in Answers
  BY <1>1, <1>3, <1>4, <1>5, <1>6 DEF Answers
<1>8. r.state = "answered" /\ r.events \in SUBSET S /\ r.unconfirmed_events \in SUBSET S
  BY <1>4
<1> QED BY <1>1, <1>2, <1>7, <1>8

\* A keeper's answer gives every event the keeper has sealed, unless it is cut
\* short or leaves the event to the archive.
LEMMA FetchGives ==
  ASSUME KeeperType, ChunkInv, ~disturbed, NEW k \in Keepers, NEW start \in Nat, NEW end \in Nat,
         NEW e \in Events, Held(k, e), InRange(e, start, end), NEW r, r = fetchRange(k, start, end)
  PROVE  Given(r, e)
<1> DEFINE W == Wanted(k, start, end)
           S == Served(k, start, end)
           limit == scenario.kHotFetchMaxEvents
<1>1. /\ ~(Cardinality(W) > limit) => S = W
  BY ServedFact
<1>2. PICK c \in Chunks : KeeperOf[c] = k /\ Closed(c) /\ e \in EventsOf[c]
  BY DEF Held
<1>3. r = [state |-> "answered", known_W |-> known_w[k], hot_floor |-> Floor(k),
           events |-> {d \in S : Acknowledged(k, d)}, unconfirmed_events |-> {d \in S : ~Acknowledged(k, d)},
           truncated |-> Cardinality(W) > limit]
  BY FetchShape
<1>4. /\ r.truncated = (Cardinality(W) > limit) /\ r.known_W = known_w[k]
      /\ r.events = {d \in S : Acknowledged(k, d)} /\ r.unconfirmed_events = {d \in S : ~Acknowledged(k, d)}
  <2> HIDE DEF W, S, limit
  <2> QED BY <1>3
<1>5. Acknowledged(k, e) => InArchive(e)
  BY DEF Acknowledged, InArchive, ChunkInv, ChunkPart, Closed
<1>6. CASE chunk[c] = "freed"
  <2>1. InArchive(e)
    BY <1>2, <1>6 DEF InArchive, ChunkInv, ChunkPart, Closed
  <2>2. EndOf[c] <= known_w[k]
    BY <1>2, <1>6 DEF ChunkInv, ChunkPart, Closed
  <2>3. TimeOf[e] < EndOf[c]
    BY <1>2, ReplayAssumption
  <2>4. TimeOf[e] \in Nat /\ EndOf[c] \in Nat /\ known_w[k] \in Nat
    <3>1. known_w[k] \in 0 .. MaxTime
      BY DEF KeeperType
    <3> QED BY <3>1, EventFact
  <2>5. TimeOf[e] < known_w[k]
    BY <2>2, <2>3, <2>4
  <2> QED BY <1>4, <2>1, <2>5 DEF Given
<1>7. CASE chunk[c] # "freed"
  <2>1. Retained(c)
    BY <1>2, <1>7 DEF Retained, KeeperType, ChunkStates, Closed
  <2>2. e \in Retaining(k)
    BY <1>2, <2>1 DEF Retaining
  <2>3. CASE Acknowledged(k, e) /\ TimeOf[e] < known_w[k]
    BY <1>4, <1>5, <2>3 DEF Given
  <2>4. CASE ~(Acknowledged(k, e) /\ TimeOf[e] < known_w[k])
    <3>1. e \in W
      BY <2>2, <2>4 DEF Wanted
    <3> HIDE DEF W, S, limit
    <3>2. CASE Cardinality(W) > limit
      BY <1>4, <3>2 DEF Given
    <3>3. CASE ~(Cardinality(W) > limit)
      <4>1. e \in S
        BY <1>1, <3>1, <3>3
      <4> QED BY <1>4, <1>5, <4>1 DEF Given
    <3> QED BY <3>2, <3>3
  <2> QED BY <2>3, <2>4
<1> QED BY <1>6, <1>7

\* Where splitHotRange cuts, and what it takes from the keepers' answers
SplitOf(R, start, end, s) ==
  /\ s.boundary \in Nat /\ s.boundary <= end /\ s.complete = (s.boundary <= start)
  /\ s.hotEvents \in SUBSET Events
  /\ \A e \in s.hotEvents : \E r \in R : e \in r.events \cup r.unconfirmed_events
  /\ \A r \in R : r.unconfirmed_events \in SUBSET s.hotEvents
  /\ \A r \in R : \A e \in r.events : TimeOf[e] >= s.boundary => e \in s.hotEvents
  /\ \A r \in R : \A t \in Nat : t < r.known_W /\ t < end => t < s.boundary
LEMMA SplitFact ==
  ASSUME NEW R \in SUBSET Answers, NEW start \in Nat, NEW end \in Nat
  PROVE  SplitOf(R, start, end, splitHotRange(R, start, end))
<1> DEFINE s == splitHotRange(R, start, end)
<1> DEFINE T == {r.known_W : r \in R} \cup {0}
           F == {r.hot_floor : r \in R} \cup {Infinite}
           high == Max(T)
           low == Min(F)
           b == Min({end, IF high > 0 THEN high ELSE low})
           H == UNION {r.unconfirmed_events \cup {e \in r.events : TimeOf[e] >= b} : r \in R}
<1>1. s = [boundary |-> b, hotEvents |-> H, complete |-> b <= start]
  BY DEF splitHotRange
<1>2. \A r \in R : /\ r.known_W \in 0 .. MaxTime /\ r.hot_floor \in 0 .. (MaxTime + 1)
                   /\ r.events \in SUBSET Events /\ r.unconfirmed_events \in SUBSET Events
  BY DEF Answers
<1>3. MaxTime \in Nat /\ Infinite \in Nat
  BY EventFact DEF Infinite
<1>4. high \in Nat /\ \A r \in R : high >= r.known_W
  <2>1. T \in SUBSET (0 .. MaxTime) /\ T # {}
    BY <1>2, <1>3
  <2>2. \A r \in R : r.known_W \in T
    OBVIOUS
  <2>3. high \in T /\ \A y \in T : high >= y
    <3> HIDE DEF T
    <3> QED BY <1>3, <2>1, MaxIn
  <2> HIDE DEF T, high
  <2>4. high \in Nat
    BY <1>3, <2>1, <2>3
  <2> QED BY <2>2, <2>3, <2>4
<1>5. low \in Nat
  <2>1. F \in SUBSET Nat /\ F # {}
    BY <1>2, <1>3
  <2>2. low \in F
    <3> HIDE DEF F
    <3> QED BY <2>1, MinIn
  <2> HIDE DEF F, low
  <2> QED BY <2>1, <2>2
<1> DEFINE x == IF high > 0 THEN high ELSE low
<1> HIDE DEF high, low
<1>6. x \in Nat /\ \A r \in R : \A t \in Nat : t < r.known_W => t < x
  <2>1. ASSUME NEW r \in R, NEW t \in Nat, t < r.known_W PROVE t < x
    <3>1. r.known_W \in Nat
      BY <1>2, <1>3
    <3>2. high >= r.known_W
      BY <1>4
    <3>3. high > 0 /\ t < high
      BY <1>4, <2>1, <3>1, <3>2
    <3> QED BY <3>3
  <2> QED BY <1>4, <1>5, <2>1
<1>7. b = IF end <= x THEN end ELSE x
  <2> HIDE DEF x
  <2>1. b = Min({end, x})
    BY DEF x
  <2> QED BY <1>6, <2>1, MinPair
<1> HIDE DEF x, b
<1>8. b \in Nat /\ b <= end /\ \A t \in Nat : t < x /\ t < end => t < b
  BY <1>6, <1>7
<1>9. H \in SUBSET Events /\ \A e \in H : \E r \in R : e \in r.events \cup r.unconfirmed_events
  BY <1>2
<1>10. \A r \in R : r.unconfirmed_events \in SUBSET H /\ \A e \in r.events : TimeOf[e] >= b => e \in H
  OBVIOUS
<1> HIDE DEF H
<1>11. s.boundary = b /\ s.hotEvents = H /\ s.complete = (b <= start)
  BY <1>1
<1>12. \A r \in R : \A t \in Nat : t < r.known_W /\ t < end => t < b
  BY <1>6, <1>8
<1> HIDE DEF s
<1>13. SplitOf(R, start, end, s)
  BY <1>8, <1>9, <1>10, <1>11, <1>12 DEF SplitOf
<1> QED BY <1>13 DEF s

\* The rows of the archive's files, and the merge of them with what the
\* keepers gave
LEMMA ReadFact ==
  ASSUME NEW q, NEW found \in SUBSET Chunks, NEW a, a = readArchivedStory(found, q)
  PROVE  /\ DOMAIN a = found
         /\ \A c \in found : /\ a[c] \in Seq(Events)
                             /\ Range(a[c]) = {e \in EventsOf[c] : InRange(e, range[q].start, response[q].archiveEnd)}
<1>1. a = [c \in found |-> Ascending({e \in EventsOf[c] : InRange(e, range[q].start, response[q].archiveEnd)})]
  BY DEF readArchivedStory
<1>2. ASSUME NEW c \in found
      PROVE  /\ a[c] \in Seq(Events)
             /\ Range(a[c]) = {e \in EventsOf[c] : InRange(e, range[q].start, response[q].archiveEnd)}
  <2> DEFINE S == {e \in EventsOf[c] : InRange(e, range[q].start, response[q].archiveEnd)}
  <2>1. S \in SUBSET Events /\ a[c] = Ascending(S)
    BY <1>1, EventFact
  <2> HIDE DEF S
  <2>2. a[c] \in Seq(Events) /\ Range(a[c]) = S
    BY <2>1, Listed
  <2> QED BY <2>2 DEF S
<1> QED BY <1>1, <1>2

-----------------------------------------------------------------------------
(* The keepers, the grapher and the archive                                *)

\* What is sealed stays sealed, what is in the archive stays there.
Grown ==
  /\ \A c \in Chunks : Closed(c) => Closed(c)'
  /\ archive.readable \in SUBSET archive'.readable
  /\ disturbed => disturbed'
KeeperPart == KeeperType' /\ ChunkInv' /\ Grown
CallsUnchanged == UNCHANGED <<clientVars, playerVars, handler, due>>

\* A keeper seals a chunk.
LEMMA IngestKeeps ==
  ASSUME KeeperType, ChunkInv, NEW c \in Chunks, ingestSealedChunk(c)
  PROVE  KeeperPart
<1> USE DEF ingestSealedChunk, Others, history
<1>1. KeeperType'
  BY DEF KeeperType, ChunkStates
<1>2. ASSUME NEW d \in Chunks PROVE ChunkPart(d)' /\ (Closed(d) => Closed(d)')
  BY DEF ChunkInv, ChunkPart, Closed, KeeperType
<1> QED BY <1>1, <1>2 DEF KeeperPart, Grown, ChunkInv

\* The grapher has taken a chunk in.
LEMMA ShipKeeps ==
  ASSUME KeeperType, ChunkInv, NEW c \in Chunks, markShipped(c)
  PROVE  KeeperPart
<1> USE DEF markShipped, Others, history
<1>1. KeeperType'
  BY DEF KeeperType, ChunkStates
<1>2. ASSUME NEW d \in Chunks PROVE ChunkPart(d)' /\ (Closed(d) => Closed(d)')
  BY DEF ChunkInv, ChunkPart, Closed, KeeperType
<1> QED BY <1>1, <1>2 DEF KeeperPart, Grown, ChunkInv

\* The grapher writes a chunk.
LEMMA WriteKeeps ==
  ASSUME KeeperType, ChunkInv, NEW c \in Chunks, WriteChunk(c)
  PROVE  KeeperPart
<1> USE DEF WriteChunk, Others, history
<1>1. archive'.written = archive.written \cup {c} /\ archive'.readable = archive.readable
  BY DEF KeeperType
<1>2. archive' \in [written : SUBSET Chunks, readable : SUBSET Chunks]
  BY DEF KeeperType
<1>3. KeeperType'
  BY <1>2 DEF KeeperType
<1>4. ASSUME NEW d \in Chunks PROVE ChunkPart(d)'
  BY <1>1 DEF ChunkInv, ChunkPart, Closed
<1> QED BY <1>1, <1>3, <1>4 DEF KeeperPart, Grown, ChunkInv, Closed

\* W moves on.
LEMMA AdvanceKeeps ==
  ASSUME KeeperType, ChunkInv, NEW w \in WindowEnds, advancePersisted(w)
  PROVE  KeeperPart
<1> USE DEF advancePersisted, Others, history
<1>1. w \in 0 .. MaxTime
  BY ReplayAssumption
<1>2. KeeperType'
  BY <1>1 DEF KeeperType
<1>3. ChunkInv'
  BY DEF ChunkInv, ChunkPart, Closed
<1> QED BY <1>2, <1>3 DEF KeeperPart, Grown, Closed

\* A report reaches a keeper: what it settles is written, and W does not go back.
LEMMA ReportKeeps ==
  ASSUME KeeperType, ChunkInv, NEW k \in Keepers, applyReport(k)
  PROVE  KeeperPart
<1> USE DEF applyReport, Others, history
<1>1. known_w[k] \in 0 .. MaxTime /\ watermark \in 0 .. MaxTime /\ MaxTime \in Nat
  BY EventFact DEF KeeperType
<1> DEFINE m == Max({known_w[k], watermark})
<1>2. m = IF known_w[k] >= watermark THEN known_w[k] ELSE watermark
  BY <1>1, MaxPair
<1> HIDE DEF m
<1>3. m \in 0 .. MaxTime /\ known_w[k] <= m
  BY <1>1, <1>2
<1>4. known_w' = [known_w EXCEPT ![k] = m]
  BY DEF m
<1>5. known_w' \in [Keepers -> 0 .. MaxTime] /\ \A j \in Keepers : known_w[j] <= known_w'[j]
  <2>1. \A j \in Keepers : known_w[j] \in 0 .. MaxTime
    BY DEF KeeperType
  <2>2. \A j \in Keepers : known_w[j] <= known_w[j]
    BY <1>1, <2>1
  <2>3. known_w' \in [Keepers -> 0 .. MaxTime]
    BY <1>3, <1>4 DEF KeeperType
  <2>4. \A j \in Keepers : known_w'[j] = IF j = k THEN m ELSE known_w[j]
    BY <1>4 DEF KeeperType
  <2> QED BY <1>3, <2>2, <2>3, <2>4
<1>6. \A d \in Chunks : \/ chunk'[d] = chunk[d]
                        \/ chunk[d] = "shipped" /\ d \notin inGrapher /\ chunk'[d] = "settled"
  OBVIOUS
<1>7. chunk' \in [Chunks -> ChunkStates]
  <2>1. \A d \in Chunks : chunk'[d] \in ChunkStates
    BY <1>6 DEF KeeperType, ChunkStates
  <2> QED BY <2>1
<1>8. KeeperType'
  BY <1>5, <1>7 DEF KeeperType
<1>9. ASSUME NEW d \in Chunks PROVE ChunkPart(d)' /\ (Closed(d) => Closed(d)')
  <2>1. /\ EndOf[d] \in Nat /\ known_w[KeeperOf[d]] \in Nat /\ known_w'[KeeperOf[d]] \in Nat
        /\ known_w[KeeperOf[d]] <= known_w'[KeeperOf[d]]
    <3>1. KeeperOf[d] \in Keepers /\ EndOf[d] \in Nat
      BY EventFact
    <3>2. known_w[KeeperOf[d]] \in 0 .. MaxTime /\ known_w'[KeeperOf[d]] \in 0 .. MaxTime
      BY <1>5, <3>1 DEF KeeperType
    <3> QED BY <1>1, <1>5, <3>1, <3>2
  <2>2. EndOf[d] <= known_w[KeeperOf[d]] => EndOf[d] <= known_w'[KeeperOf[d]]
    BY <2>1
  <2> QED BY <1>6, <2>2 DEF ChunkInv, ChunkPart, Closed
<1> QED BY <1>8, <1>9 DEF KeeperPart, Grown, ChunkInv

\* A settled chunk becomes readable.
LEMMA VisibleKeeps ==
  ASSUME KeeperType, ChunkInv, NEW c \in Chunks, visibleInArchive(c)
  PROVE  KeeperPart
<1> USE DEF visibleInArchive, Others, history
<1>1. archive'.written = archive.written /\ archive'.readable = archive.readable \cup {c}
  BY DEF KeeperType
<1>2. archive' \in [written : SUBSET Chunks, readable : SUBSET Chunks]
  BY DEF KeeperType
<1>3. KeeperType'
  BY <1>2 DEF KeeperType, ChunkStates
<1>4. ASSUME NEW d \in Chunks PROVE ChunkPart(d)' /\ (Closed(d) => Closed(d)')
  BY <1>1 DEF ChunkInv, ChunkPart, Closed, KeeperType
<1>5. c \in archive.written
  BY DEF ChunkInv, ChunkPart, Closed
<1> QED BY <1>1, <1>3, <1>4, <1>5 DEF KeeperPart, Grown, ChunkInv

\* A keeper frees what is readable and below its W.
LEMMA FreeKeeps ==
  ASSUME KeeperType, ChunkInv, NEW c \in Chunks, maybeFreeChunk(c)
  PROVE  KeeperPart
<1> USE DEF maybeFreeChunk, Others, history
<1>1. KeeperType'
  BY DEF KeeperType, ChunkStates
<1>2. ASSUME NEW d \in Chunks PROVE ChunkPart(d)' /\ (Closed(d) => Closed(d)')
  BY DEF ChunkInv, ChunkPart, Closed, KeeperType
<1> QED BY <1>1, <1>2 DEF KeeperPart, Grown, ChunkInv

\* A keeper ends: each of its chunks comes back, or is in the archive, or is lost.
LEMMA WithoutChunks ==
  ASSUME KeeperType, ChunkInv, NEW k \in Keepers, NEW back \in SUBSET Chunks, Without(k, back)
  PROVE  /\ chunk' \in [Chunks -> ChunkStates] /\ disturbed' \in BOOLEAN /\ (disturbed => disturbed')
         /\ archive' = archive /\ inGrapher' = inGrapher
         /\ \A d \in Chunks : \/ chunk'[d] = chunk[d] /\ (KeeperOf[d] = k => ~Closed(d))
                              \/ /\ KeeperOf[d] = k /\ Closed(d)
                                 /\ \/ chunk'[d] = "sealed" /\ d \in back
                                    \/ chunk'[d] = "freed" /\ d \in archive.readable /\ disturbed'
                                    \/ chunk'[d] = "lost"
<1> USE DEF Without
<1>1. disturbed' \in BOOLEAN /\ (disturbed => disturbed') /\ archive' = archive /\ inGrapher' = inGrapher
  BY DEF KeeperType
<1>2. ASSUME NEW d \in Chunks
      PROVE  /\ chunk'[d] \in ChunkStates
             /\ \/ chunk'[d] = chunk[d] /\ (KeeperOf[d] = k => ~Closed(d))
                \/ /\ KeeperOf[d] = k /\ Closed(d)
                   /\ \/ chunk'[d] = "sealed" /\ d \in back
                      \/ chunk'[d] = "freed" /\ d \in archive.readable /\ disturbed'
                      \/ chunk'[d] = "lost"
  <2>1. chunk[d] \in ChunkStates
    BY DEF KeeperType
  <2>2. chunk'[d] = IF KeeperOf[d] # k \/ chunk[d] \in {"open", "lost"} THEN chunk[d]
                    ELSE IF d \in back THEN "sealed" ELSE IF d \in archive.readable THEN "freed" ELSE "lost"
    OBVIOUS
  <2>3. KeeperOf[d] = k /\ chunk'[d] = "freed" => disturbed'
    OBVIOUS
  <2> QED BY <2>1, <2>2, <2>3 DEF Closed, ChunkStates
<1>3. chunk' \in [Chunks -> ChunkStates]
  BY <1>2
<1> QED BY <1>1, <1>2, <1>3

\* What the keepers, the grapher and the archive have when a keeper has ended,
\* with a W and a roster that leave the other keepers alone
LEMMA WithoutKeeps ==
  ASSUME KeeperType, ChunkInv, NEW k \in Keepers, NEW back \in SUBSET Chunks, Without(k, back),
         known_w' \in [Keepers -> 0 .. MaxTime], storyKeepers' \subseteq Keepers,
         \A j \in Keepers : j # k => known_w'[j] = known_w[j] /\ (j \in storyKeepers => j \in storyKeepers'),
         back = {} \/ k \in storyKeepers'
  PROVE  KeeperType' /\ ChunkInv'
<1>1. /\ chunk' \in [Chunks -> ChunkStates] /\ disturbed' \in BOOLEAN /\ (disturbed => disturbed')
      /\ archive' = archive /\ inGrapher' = inGrapher
      /\ \A d \in Chunks : \/ chunk'[d] = chunk[d] /\ (KeeperOf[d] = k => ~Closed(d))
                           \/ /\ KeeperOf[d] = k /\ Closed(d)
                              /\ \/ chunk'[d] = "sealed" /\ d \in back
                                 \/ chunk'[d] = "freed" /\ d \in archive.readable /\ disturbed'
                                 \/ chunk'[d] = "lost"
  BY WithoutChunks
<1>2. KeeperType'
  BY <1>1 DEF Without, KeeperType
<1>3. ASSUME NEW d \in Chunks PROVE ChunkPart(d)'
  <2>1. CASE chunk'[d] = chunk[d] /\ (KeeperOf[d] = k => ~Closed(d))
    <3>1. chunk[d] \in {"shipped", "settled", "visible", "freed"} => Closed(d)
      BY DEF Closed
    <3>2. KeeperOf[d] \in Keepers /\ Closed(d)' = Closed(d)
      BY <2>1, EventFact DEF Closed
    <3> QED BY <1>1, <2>1, <3>1, <3>2 DEF ChunkInv, ChunkPart
  <2>2. CASE KeeperOf[d] = k /\ chunk'[d] = "sealed" /\ d \in back
    BY <2>2 DEF ChunkPart
  <2>3. CASE chunk'[d] = "freed" /\ d \in archive.readable /\ disturbed'
    BY <1>1, <2>3 DEF ChunkInv, ChunkPart
  <2>4. CASE chunk'[d] = "lost"
    BY <2>4 DEF ChunkPart, Closed
  <2> QED BY <1>1, <2>1, <2>2, <2>3, <2>4
<1> QED BY <1>1, <1>2, <1>3 DEF ChunkInv

KeeperGone == \E k \in Keepers, back \in SUBSET Chunks : Without(k, back)

\* A keeper restarts: it knows nothing of W.
LEMMA RestartKeeps ==
  ASSUME KeeperType, ChunkInv, NEW k \in Keepers, RestartKeeper(k)
  PROVE  KeeperType' /\ ChunkInv' /\ KeeperGone
<1> DEFINE logged == {c \in DurableChunks : KeeperOf[c] = k /\ chunk[c] \notin {"open", "lost"}}
           confirmed(c) == confirmedWritten(c) \/ chunk[c] = "freed"
<1>1. PICK again \in SUBSET {c \in logged : confirmed(c)} : Without(k, again \cup {c \in logged : ~confirmed(c)})
  BY DEF RestartKeeper
<1> DEFINE back == again \cup {c \in logged : ~confirmed(c)}
<1>2. back \in SUBSET Chunks /\ Without(k, back)
  BY <1>1, ReplayAssumption
<1>3. k \in storyKeepers /\ known_w' = [known_w EXCEPT ![k] = 0] /\ storyKeepers' = storyKeepers
  BY DEF RestartKeeper
<1>4. known_w' \in [Keepers -> 0 .. MaxTime] /\ \A j \in Keepers : j # k => known_w'[j] = known_w[j]
  BY <1>3, EventFact DEF KeeperType
<1> HIDE DEF back
<1>5. storyKeepers' \subseteq Keepers
  BY <1>3 DEF KeeperType
<1> QED BY <1>2, <1>3, <1>4, <1>5, WithoutKeeps DEF KeeperGone

\* A keeper leaves the roster: none of its chunks is left with it.
LEMMA LeaveKeeps ==
  ASSUME KeeperType, ChunkInv, NEW k \in Keepers, setStoryKeepers(k)
  PROVE  KeeperType' /\ ChunkInv' /\ KeeperGone
<1>1. Without(k, {}) /\ known_w' = known_w /\ storyKeepers' = storyKeepers \ {k}
  BY DEF setStoryKeepers
<1>2. {} \in SUBSET Chunks
  OBVIOUS
<1>3. known_w' \in [Keepers -> 0 .. MaxTime] /\ storyKeepers' \subseteq Keepers
  BY <1>1 DEF KeeperType
<1> QED BY <1>1, <1>2, <1>3, WithoutKeeps DEF KeeperGone

\* A step of the keepers, the grapher or the archive: no replay changes, or a
\* keeper ends.
LEMMA KeepersKeep ==
  ASSUME KeeperType, ChunkInv, KeeperStep
  PROVE  \/ KeeperPart /\ CallsUnchanged
         \/ KeeperType' /\ ChunkInv' /\ KeeperGone
<1> USE DEF CallsUnchanged, Others
<1>1. ASSUME NEW c \in Chunks, ingestSealedChunk(c) PROVE KeeperPart /\ CallsUnchanged
  BY <1>1, IngestKeeps DEF ingestSealedChunk
<1>2. ASSUME NEW c \in Chunks, markShipped(c) PROVE KeeperPart /\ CallsUnchanged
  BY <1>2, ShipKeeps DEF markShipped
<1>3. ASSUME NEW c \in Chunks, WriteChunk(c) PROVE KeeperPart /\ CallsUnchanged
  BY <1>3, WriteKeeps DEF WriteChunk
<1>4. ASSUME NEW c \in Chunks, visibleInArchive(c) PROVE KeeperPart /\ CallsUnchanged
  BY <1>4, VisibleKeeps DEF visibleInArchive
<1>5. ASSUME NEW c \in Chunks, maybeFreeChunk(c) PROVE KeeperPart /\ CallsUnchanged
  BY <1>5, FreeKeeps DEF maybeFreeChunk
<1>6. ASSUME NEW w \in WindowEnds, advancePersisted(w) PROVE KeeperPart /\ CallsUnchanged
  BY <1>6, AdvanceKeeps DEF advancePersisted
<1>7. ASSUME NEW k \in Keepers, applyReport(k) PROVE KeeperPart /\ CallsUnchanged
  BY <1>7, ReportKeeps DEF applyReport
<1>8. ASSUME NEW k \in Keepers, RestartKeeper(k) \/ setStoryKeepers(k)
      PROVE  KeeperType' /\ ChunkInv' /\ KeeperGone
  BY <1>8, RestartKeeps, LeaveKeeps
<1> QED BY <1>1, <1>2, <1>3, <1>4, <1>5, <1>6, <1>7, <1>8 DEF KeeperStep

-----------------------------------------------------------------------------
(* One replay                                                              *)

SameQuery(p) ==
  /\ range'[p] = range[p] /\ client'[p] = client[p] /\ ret'[p] = ret[p] /\ query'[p] = query[p]
  /\ series'[p] = series[p] /\ fetch'[p] = fetch[p] /\ player'[p] = player[p]
  /\ response'[p] = response[p] /\ handler'[p] = handler[p] /\ due'[p] = due[p]

\* What was held, in the archive or given stays so.
LEMMA GrownFact ==
  ASSUME Grown
  PROVE  /\ \A k \in Keepers : \A e : Held(k, e) => Held(k, e)'
         /\ \A e : InArchive(e) => InArchive(e)'
<1>1. ASSUME NEW k \in Keepers, NEW e, Held(k, e) PROVE Held(k, e)'
  BY <1>1 DEF Grown, Held
<1>2. ASSUME NEW e, InArchive(e) PROVE InArchive(e)'
  BY <1>2 DEF Grown, InArchive
<1> QED BY <1>1, <1>2

\* A replay that takes no step keeps its part of the invariant.
LEMMA SameKeeps ==
  ASSUME Grown, NEW p \in Queries, QueryInv(p), SameQuery(p)
  PROVE  QueryInv(p)'
<1> USE DEF SameQuery
<1>1. LifeInv(p)'
  BY DEF QueryInv, LifeInv, Answered
<1>2. OrderInv(p)'
  BY DEF QueryInv, OrderInv, Sound, InRange
<1>3. \A e : Asked(p, e) => Asked(p, e)'
  <2>1. ASSUME NEW e, Asked(p, e) PROVE Asked(p, e)'
    <3>1. PICK k \in Keepers :
            \/ fetch[p][k].state = "asked" /\ Held(k, e)
            \/ fetch[p][k].state = "unanswered"
            \/ fetch[p][k].state = "answered" /\ Given(fetch[p][k], e)
      BY <2>1 DEF Asked
    <3>2. Given(fetch[p][k], e) => Given(fetch[p][k], e)'
      BY GrownFact DEF Given
    <3>3. \/ fetch'[p][k].state = "asked" /\ Held(k, e)'
          \/ fetch'[p][k].state = "unanswered"
          \/ fetch'[p][k].state = "answered" /\ Given(fetch[p][k], e)'
      BY <3>1, <3>2, GrownFact
    <3> QED BY <3>3 DEF Asked
  <2> QED BY <2>1
<1>4. DueInv(p)'
  <2>1. disturbed => disturbed'
    BY DEF Grown
  <2> QED BY <1>3, <2>1, GrownFact DEF QueryInv, DueInv, InRange
<1> QED BY <1>1, <1>2, <1>4 DEF QueryInv

\* A replay in whose time a keeper ends keeps its part: what it has still to
\* get from that keeper and is lost is no longer due.
LEMMA GoneKeeps ==
  ASSUME Inv, KeeperGone
  PROVE  QueryType' /\ \A p \in Queries : QueryInv(p)'
<1>1. PICK k \in Keepers, back \in SUBSET Chunks : Without(k, back)
  BY DEF KeeperGone
<1>2. /\ (disturbed => disturbed') /\ archive' = archive
      /\ \A d \in Chunks : \/ chunk'[d] = chunk[d] /\ (KeeperOf[d] = k => ~Closed(d))
                           \/ /\ KeeperOf[d] = k /\ Closed(d)
                              /\ \/ chunk'[d] = "sealed" /\ d \in back
                                 \/ chunk'[d] = "freed" /\ d \in archive.readable /\ disturbed'
                                 \/ chunk'[d] = "lost"
  BY <1>1, WithoutChunks DEF Inv
<1>3. /\ range' = range /\ client' = client /\ ret' = ret /\ query' = query /\ series' = series
      /\ fetch' = fetch /\ player' = player /\ response' = response /\ handler' = handler
  BY <1>1 DEF Without, clientVars, playerVars
<1> DEFINE lost == UNION {EventsOf[c] : c \in {d \in Chunks : chunk'[d] = "lost" /\ chunk[d] # "lost"}}
           pending(p) == player[p] = "none" \/ fetch[p][k].state = "asked"
<1>4. due' = [q \in Queries |-> IF pending(q) THEN due[q] \ lost ELSE due[q]]
  BY <1>1 DEF Without
<1>5. \A d \in Chunks : \A e \in EventsOf[d] : Closed(d) /\ e \notin lost => Closed(d)'
  <2>1. ASSUME NEW d \in Chunks, NEW e \in EventsOf[d], Closed(d), e \notin lost PROVE Closed(d)'
    <3>1. ~(chunk'[d] = "lost" /\ chunk[d] # "lost")
      BY <2>1
    <3> QED BY <1>2, <2>1, <3>1 DEF Closed
  <2> QED BY <2>1
<1> HIDE DEF lost
<1>6. QueryType'
  <2>1. due' \in [Queries -> SUBSET Events]
    BY <1>4 DEF Inv, QueryType
  <2> QED BY <1>3, <2>1 DEF Inv, QueryType
<1>7. ASSUME NEW p \in Queries PROVE QueryInv(p)'
  <2>1. QueryInv(p) /\ QueryType
    BY DEF Inv
  <2>2. due'[p] \in SUBSET due[p] /\ (pending(p) => \A e \in due'[p] : e \notin lost)
    BY <1>4
  <2>3. LifeInv(p)'
    BY <1>3, <2>1 DEF QueryInv, LifeInv, Answered
  <2>4. OrderInv(p)'
    BY <1>3, <2>1 DEF QueryInv, OrderInv, Sound, InRange
  <2>5. \A e : InArchive(e)' = InArchive(e)
    BY <1>2 DEF InArchive
  <2>6. ASSUME NEW j \in Keepers, NEW e, Held(j, e), j # k \/ e \notin lost PROVE Held(j, e)'
    <3>1. PICK d \in Chunks : KeeperOf[d] = j /\ Closed(d) /\ e \in EventsOf[d]
      BY <2>6 DEF Held
    <3>2. Closed(d)'
      <4>1. CASE j # k
        BY <1>2, <3>1, <4>1 DEF Closed
      <4>2. CASE e \notin lost
        BY <1>5, <3>1, <4>2
      <4> QED BY <2>6, <4>1, <4>2
    <3> QED BY <3>1, <3>2 DEF Held
  <2>7. ASSUME player[p] = "none", NEW e \in due'[p], \E j \in Keepers : Held(j, e)
        PROVE  \E j \in Keepers : Held(j, e)'
    BY <2>2, <2>6, <2>7
  <2>8. ASSUME NEW e \in due'[p], Asked(p, e) PROVE Asked(p, e)'
    <3>1. PICK j \in Keepers :
            \/ fetch[p][j].state = "asked" /\ Held(j, e)
            \/ fetch[p][j].state = "unanswered"
            \/ fetch[p][j].state = "answered" /\ Given(fetch[p][j], e)
      BY <2>8 DEF Asked
    <3>2. Given(fetch[p][j], e) => Given(fetch[p][j], e)'
      BY <1>3, <2>5 DEF Given
    <3>3. fetch[p][j].state = "asked" /\ Held(j, e) => Held(j, e)'
      BY <2>2, <2>6
    <3> QED BY <1>3, <3>1, <3>2, <3>3 DEF Asked
  <2> HIDE DEF pending
  <2>9. DueInv(p)'
    BY <1>2, <1>3, <2>1, <2>2, <2>5, <2>7, <2>8 DEF QueryInv, DueInv, InRange
  <2> QED BY <2>3, <2>4, <2>9 DEF QueryInv
<1> QED BY <1>6, <1>7

\* The keepers do not change while a replay takes its step.
LEMMA StillFact ==
  ASSUME KeepersUnchanged
  PROVE  /\ Grown /\ disturbed' = disturbed
         /\ KeeperType => KeeperType'
         /\ ChunkInv => ChunkInv'
         /\ \A k \in Keepers : \A e : Held(k, e)' = Held(k, e)
         /\ \A e : InArchive(e)' = InArchive(e)
<1> USE DEF KeepersUnchanged, keeperVars, history
<1>1. Grown /\ disturbed' = disturbed
  BY DEF Grown, Closed
<1>2. KeeperType => KeeperType'
  BY DEF KeeperType
<1>3. ChunkInv => ChunkInv'
  BY DEF ChunkInv, ChunkPart, Closed
<1>4. \A k \in Keepers : \A e : Held(k, e)' = Held(k, e)
  BY DEF Held, Closed
<1>5. \A e : InArchive(e)' = InArchive(e)
  BY DEF InArchive
<1> QED BY <1>1, <1>2, <1>3, <1>4, <1>5

\* A step of one replay keeps the invariant when it keeps that replay's part.
LEMMA OneQuery ==
  ASSUME Inv, KeepersUnchanged, NEW q \in Queries, QueryType', QueryInv(q)',
         \A p \in Queries : p # q => SameQuery(p)
  PROVE  Inv'
<1>1. KeeperType' /\ ChunkInv' /\ Grown
  BY StillFact DEF Inv
<1>2. ASSUME NEW p \in Queries PROVE QueryInv(p)'
  <2>1. CASE p = q
    BY <2>1
  <2>2. CASE p # q
    BY <1>1, <2>2, SameKeeps DEF Inv
  <2> QED BY <2>1, <2>2
<1> QED BY <1>1, <1>2 DEF Inv

\* A replay is called.
LEMMA CallKeeps ==
  ASSUME Inv, NEW q \in Queries, NEW r \in scenario.ranges, replay_story(q, r)
  PROVE  Inv'
<1> USE DEF replay_story, playerVars
<1>1. r \in Ranges
  BY ReplayAssumption DEF Inv, KeeperType, Ranges
<1>2. KeepersUnchanged
  OBVIOUS
<1>3. Visible \in SUBSET Events
  BY DEF Visible, Events
<1> DEFINE D == {e \in Visible : InRange(e, r.start, r.end)}
           n == [NoQuery EXCEPT !.live = TRUE]
<1>4. D \in SUBSET Events
  BY <1>3
<1>5. n \in QueryStates /\ n.live /\ ~n.completed
  BY DEF NoQuery, QueryStates
<1>6. "waiting" \in ClientStates
  BY DEF ClientStates
<1>7. QueryType /\ QueryInv(q)
  BY DEF Inv
<1> HIDE DEF D, n
<1>8. /\ client' = [client EXCEPT ![q] = "waiting"] /\ range' = [range EXCEPT ![q] = r]
      /\ query' = [query EXCEPT ![q] = n] /\ due' = [due EXCEPT ![q] = D]
      /\ ret' = ret /\ series' = series /\ fetch' = fetch /\ player' = player /\ response' = response
      /\ handler' = handler
  BY DEF D, n
<1>9. QueryType'
  <2>1. range' \in [Queries -> Ranges]
    BY <1>1, <1>7, <1>8 DEF QueryType
  <2>2. client' \in [Queries -> ClientStates]
    BY <1>6, <1>7, <1>8 DEF QueryType
  <2>3. query' \in [Queries -> QueryStates]
    BY <1>5, <1>7, <1>8 DEF QueryType
  <2>4. due' \in [Queries -> SUBSET Events]
    BY <1>4, <1>7, <1>8 DEF QueryType
  <2> QED BY <1>7, <1>8, <2>1, <2>2, <2>3, <2>4 DEF QueryType
<1>10. /\ client'[q] = "waiting" /\ range'[q] = r /\ query'[q] = n /\ due'[q] = D
       /\ \A p \in Queries : p # q => SameQuery(p)
  BY <1>7, <1>8 DEF QueryType, SameQuery
<1>11. /\ player[q] = "none" /\ handler[q] = "none" /\ ret[q] = "none" /\ response[q] = NoResponse
       /\ series[q] = <<>> /\ \A k \in Keepers : fetch[q][k] = NotAsked
  BY <1>7 DEF QueryInv, LifeInv, OrderInv
<1>12. LifeInv(q)'
  BY <1>5, <1>8, <1>10, <1>11 DEF LifeInv, Answered
<1>13. ASSUME NEW e \in D PROVE InRange(e, r.start, r.end) /\ \E k \in Keepers : Held(k, e)'
  <2>1. PICK c \in Chunks : Closed(c) /\ e \in EventsOf[c]
    BY DEF D, Visible, Closed
  <2>2. KeeperOf[c] \in Keepers /\ Held(KeeperOf[c], e)
    BY <2>1, EventFact DEF Held
  <2>3. Held(KeeperOf[c], e)'
    BY <1>2, <2>2, StillFact
  <2> QED BY <2>2, <2>3 DEF D
<1>14. DueInv(q)'
  BY <1>5, <1>8, <1>10, <1>11, <1>13 DEF DueInv, InRange
<1>15. NoResponse.events = <<>> /\ NoResponse.archiveEnd = 0 /\ NotAsked.state = "none"
  BY DEF NoResponse, NotAsked
<1>16. DOMAIN <<>> = {} /\ Range(<<>>) = {}
  BY DEF Range
<1>17. r.end \in Nat /\ 0 <= r.end
  BY <1>1 DEF Ranges
<1>18. response'[q].events = <<>> /\ series'[q] = <<>> /\ response'[q].archiveEnd = 0
  BY <1>8, <1>11, <1>15
<1>19. OrderInv(q)'
  BY <1>8, <1>10, <1>11, <1>15, <1>16, <1>17, <1>18 DEF OrderInv, Sound
<1>20. QueryInv(q)'
  BY <1>12, <1>14, <1>19 DEF QueryInv
<1> QED BY <1>2, <1>9, <1>10, <1>20, OneQuery

\* The states that steps move to
LEMMA Words ==
  /\ "returned" \in ClientStates
  /\ \A w \in {"fetching", "queued", "ready", "stuck", "gone"} : w \in PlayerStates
  /\ \A w \in {"found", "written", "done"} : w \in HandlerStates
BY DEF ClientStates, PlayerStates, HandlerStates

\* The player begins: every keeper that holds something is asked.
LEMMA BeginKeeps ==
  ASSUME Inv, NEW q \in Queries, BeginPlayback(q)
  PROVE  Inv'
<1>1. /\ KeepersUnchanged /\ client[q] = "waiting" /\ player[q] = "none"
      /\ range' = range /\ client' = client /\ ret' = ret /\ query' = query /\ series' = series
      /\ response' = response /\ handler' = handler /\ due' = due
  BY DEF BeginPlayback, clientVars
<1>2. QueryType /\ QueryInv(q)
  BY DEF Inv
<1> DEFINE f == [k \in Keepers |-> IF k \in storyKeepers THEN [state |-> "asked"] ELSE NotAsked]
<1>3. f \in [Keepers -> Fetches]
  BY DEF Fetches
<1>4. \A k \in Keepers : (k \in storyKeepers => f[k].state = "asked") /\ f[k].state \notin {"answered", "unanswered"}
  BY DEF NotAsked
<1> HIDE DEF f
<1>5. \/ player' = [player EXCEPT ![q] = "fetching"] /\ fetch' = [fetch EXCEPT ![q] = f]
      \/ player' = [player EXCEPT ![q] = "gone"] /\ fetch' = fetch
  BY DEF BeginPlayback, f
<1>6. QueryType'
  <2>1. player' \in [Queries -> PlayerStates]
    BY <1>2, <1>5, Words DEF QueryType
  <2>2. fetch' \in [Queries -> [Keepers -> Fetches]]
    BY <1>2, <1>3, <1>5 DEF QueryType
  <2> QED BY <1>1, <1>2, <2>1, <2>2 DEF QueryType
<1>7. \A p \in Queries : p # q => SameQuery(p)
  BY <1>1, <1>2, <1>5 DEF QueryType, SameQuery
<1>8. \/ player'[q] = "fetching" /\ fetch'[q] = f
      \/ player'[q] = "gone" /\ fetch'[q] = fetch[q]
  BY <1>2, <1>5 DEF QueryType
<1>9. handler[q] = "none" /\ response[q] = NoResponse /\ ~query[q].completed /\ ret[q] = "none"
  BY <1>1, <1>2 DEF QueryInv, LifeInv
<1>10. LifeInv(q)'
  BY <1>1, <1>2, <1>8, <1>9 DEF QueryInv, LifeInv, Answered
<1>11. OrderInv(q)'
  BY <1>1, <1>2, <1>4, <1>8 DEF QueryInv, OrderInv, Sound, InRange
<1>12. ASSUME player'[q] = "fetching", fetch'[q] = f, ~disturbed', NEW e \in due[q]
       PROVE  Asked(q, e)'
  <2>1. PICK k \in Keepers : Held(k, e)
    BY <1>1, <1>2 DEF QueryInv, DueInv
  <2>2. k \in storyKeepers
    BY <1>1, <1>12, <2>1, StillFact DEF Inv, ChunkInv, ChunkPart, Closed, Held
  <2>3. Held(k, e)' /\ fetch'[q][k].state = "asked"
    BY <1>1, <1>4, <1>12, <2>1, <2>2, StillFact
  <2> QED BY <2>3 DEF Asked
<1>13. DueInv(q)'
  BY <1>1, <1>2, <1>8, <1>9, <1>12 DEF QueryInv, DueInv, InRange
<1>14. QueryInv(q)'
  BY <1>10, <1>11, <1>13 DEF QueryInv
<1> QED BY <1>1, <1>6, <1>7, <1>14, OneQuery

\* What the answer of one keeper, or its absence, leaves as it was
LEMMA FetchKeeps ==
  ASSUME Inv, NEW q \in Queries, NEW k \in Keepers, NEW r \in Answers,
         KeepersUnchanged, player[q] = "fetching", fetch[q][k].state = "asked",
         fetch' = [fetch EXCEPT ![q][k] = r], UNCHANGED <<clientVars, player, response, handler, due>>,
         \A e \in r.events \cup r.unconfirmed_events : InRange(e, range[q].start, range[q].end),
         \/ r.state = "unanswered"
         \/ /\ r.state = "answered"
            /\ ~disturbed => \A e \in due[q] : Held(k, e) => Given(r, e)
  PROVE  Inv'
<1>1. /\ range' = range /\ client' = client /\ ret' = ret /\ query' = query /\ series' = series
      /\ player' = player /\ response' = response /\ handler' = handler /\ due' = due
  BY DEF clientVars
<1>2. QueryType /\ QueryInv(q)
  BY DEF Inv
<1>3. QueryType'
  <2>1. r \in Fetches
    BY DEF Fetches
  <2>2. fetch' \in [Queries -> [Keepers -> Fetches]]
    BY <1>2, <2>1 DEF QueryType
  <2> QED BY <1>1, <1>2, <2>2 DEF QueryType
<1>4. /\ \A p \in Queries : p # q => SameQuery(p)
      /\ fetch'[q][k] = r /\ \A j \in Keepers : j # k => fetch'[q][j] = fetch[q][j]
  BY <1>1, <1>2 DEF QueryType, SameQuery
<1>5. LifeInv(q)'
  BY <1>1, <1>2 DEF QueryInv, LifeInv, Answered
<1>6. OrderInv(q)'
  BY <1>1, <1>2, <1>4 DEF QueryInv, OrderInv, Sound, InRange
<1>7. ASSUME ~disturbed', NEW e \in due[q]
      PROVE  Asked(q, e)'
  <2>1. ~disturbed /\ Asked(q, e)
    BY <1>2, <1>7, StillFact DEF QueryInv, DueInv
  <2>2. PICK j \in Keepers :
          \/ fetch[q][j].state = "asked" /\ Held(j, e)
          \/ fetch[q][j].state = "unanswered"
          \/ fetch[q][j].state = "answered" /\ Given(fetch[q][j], e)
    BY <2>1 DEF Asked
  <2>3. CASE r.state = "unanswered"
    BY <1>4, <2>3 DEF Asked
  <2>4. CASE r.state = "answered" /\ j # k
    <3>1. Given(fetch[q][j], e) => Given(fetch[q][j], e)'
      BY <1>4, <2>4, GrownFact, StillFact DEF Given
    <3> QED BY <1>4, <2>2, <2>4, <3>1, StillFact DEF Asked
  <2>5. CASE r.state = "answered" /\ j = k
    <3>1. Given(r, e)
      BY <2>1, <2>2, <2>5
    <3>2. Given(fetch[q][k], e)'
      BY <1>4, <3>1, StillFact DEF Given
    <3>3. fetch'[q][k].state = "answered"
      BY <1>4, <2>5
    <3> QED BY <3>2, <3>3 DEF Asked
  <2> QED BY <2>3, <2>4, <2>5
<1>8. handler[q] = "none" /\ ~query[q].completed
  BY <1>2 DEF QueryInv, LifeInv
<1>9. DueInv(q)'
  BY <1>1, <1>2, <1>7, <1>8, StillFact DEF QueryInv, DueInv, InRange
<1>10. QueryInv(q)'
  BY <1>5, <1>6, <1>9 DEF QueryInv
<1> QED BY <1>3, <1>4, <1>10, OneQuery

\* A keeper answers.
LEMMA AnswerKeeps ==
  ASSUME Inv, NEW q \in Queries, NEW k \in Keepers, AnswerFetch(q, k)
  PROVE  Inv'
<1> DEFINE r == fetchRange(k, range[q].start, range[q].end)
<1>1. range[q].start \in Nat /\ range[q].end \in Nat
  BY DEF Inv, QueryType, Ranges
<1>2. /\ r \in Answers /\ r.state = "answered"
      /\ \A e \in r.events \cup r.unconfirmed_events : InRange(e, range[q].start, range[q].end)
  BY <1>1, FetchFact DEF Inv
<1>3. ASSUME ~disturbed, NEW e \in due[q], Held(k, e) PROVE Given(r, e)
  <2>1. e \in Events /\ InRange(e, range[q].start, range[q].end)
    BY DEF Inv, QueryType, QueryInv, DueInv
  <2> QED BY <1>1, <1>3, <2>1, FetchGives DEF Inv
<1> HIDE DEF r
<1>4. /\ KeepersUnchanged /\ player[q] = "fetching" /\ fetch[q][k].state = "asked"
      /\ fetch' = [fetch EXCEPT ![q][k] = r] /\ UNCHANGED <<clientVars, player, response, handler, due>>
  BY DEF AnswerFetch, r
<1> QED BY <1>2, <1>3, <1>4, FetchKeeps

\* A keeper does not answer.
LEMMA MissKeeps ==
  ASSUME Inv, NEW q \in Queries, NEW k \in Keepers, MissFetch(q, k)
  PROVE  Inv'
<1> DEFINE r == unansweredResponse
<1>1. r \in Answers /\ r.state = "unanswered" /\ r.events \cup r.unconfirmed_events = {}
  BY EventFact DEF unansweredResponse, Answers, Infinite
<1> HIDE DEF r
<1>2. /\ KeepersUnchanged /\ player[q] = "fetching" /\ fetch[q][k].state = "asked"
      /\ fetch' = [fetch EXCEPT ![q][k] = r] /\ UNCHANGED <<clientVars, player, response, handler, due>>
  BY DEF MissFetch, r
<1> QED BY <1>1, <1>2, FetchKeeps

\* The answers a replay has when the last one is in
Answering(q) == {fetch[q][k] : k \in {j \in Keepers : fetch[q][j].state # "none"}}
Split(q) == splitHotRange(Answering(q), range[q].start, range[q].end)
AllAnswered(q) == \A r \in Answering(q) : r.state = "answered"
Plan(q) == planReplay(Split(q), range[q].end, AllAnswered(q), \E r \in Answering(q) : r.truncated)
Stashed(q) == [events |-> Ascending(Split(q).hotEvents), complete |-> Plan(q).complete,
               archiveEnd |-> Plan(q).archiveEnd]

\* The record of a query has what the keepers gave, and the rest is for the
\* archive read.
LEMMA StashFact ==
  ASSUME QueryType, NEW q \in Queries, QueryInv(q), player[q] = "fetching",
         \A r \in Answering(q) : r.state # "asked"
  PROVE  /\ Stashed(q) \in Responses /\ Stashed(q).archiveEnd <= range[q].end
         /\ Sound(Stashed(q).events, range[q].start, range[q].end)
         /\ ~disturbed /\ Stashed(q).complete =>
              \A e \in due[q] : \/ e \in Range(Stashed(q).events)
                                \/ InArchive(e) /\ TimeOf[e] < Stashed(q).archiveEnd /\ Plan(q).archiveNeeded
<1> DEFINE R == Answering(q)
           s == Split(q)
           start == range[q].start
           end == range[q].end
<1>1. start \in Nat /\ end \in Nat
  BY DEF QueryType, Ranges
<1>2. R \in SUBSET Answers
  <2>1. ASSUME NEW r \in R PROVE r \in Answers
    <3>1. PICK k \in Keepers : r = fetch[q][k] /\ r.state # "none"
      BY DEF Answering
    <3>2. r \in Fetches /\ r.state # "asked"
      BY <3>1 DEF QueryType
    <3> QED BY <3>1, <3>2 DEF Fetches, NotAsked
  <2> QED BY <2>1
<1>3. \A k \in Keepers : fetch[q][k].state # "none" => fetch[q][k] \in R
  BY DEF Answering
<1>4. \A r \in R : \A e \in r.events \cup r.unconfirmed_events : InRange(e, start, end)
  <2>1. ASSUME NEW r \in R PROVE \A e \in r.events \cup r.unconfirmed_events : InRange(e, start, end)
    <3>1. PICK k \in Keepers : r = fetch[q][k]
      BY DEF Answering
    <3>2. r.state \in {"answered", "unanswered"}
      BY <1>2 DEF Answers
    <3> QED BY <3>1, <3>2 DEF QueryInv, OrderInv
  <2> QED BY <2>1
<1>5. s = splitHotRange(R, start, end)
  BY DEF Split
<1> HIDE DEF R, s, start, end
<1>6. /\ s.boundary \in Nat /\ s.boundary <= end /\ s.complete = (s.boundary <= start)
      /\ s.hotEvents \in SUBSET Events
      /\ \A e \in s.hotEvents : \E r \in R : e \in r.events \cup r.unconfirmed_events
      /\ \A r \in R : r.unconfirmed_events \in SUBSET s.hotEvents
      /\ \A r \in R : \A e \in r.events : TimeOf[e] >= s.boundary => e \in s.hotEvents
      /\ \A r \in R : \A t \in Nat : t < r.known_W /\ t < end => t < s.boundary
  <2>1. SplitOf(R, start, end, splitHotRange(R, start, end))
    BY <1>1, <1>2, SplitFact
  <2>2. SplitOf(R, start, end, s)
    BY <1>5, <2>1, Zenon
  <2> QED BY <2>2, Zenon DEF SplitOf
<1> DEFINE all == \A r \in R : r.state = "answered"
           cut == \E r \in R : r.truncated
           plan == [complete |-> all /\ ~cut, archiveNeeded |-> ~all \/ ~s.complete,
                    archiveEnd |-> IF all THEN s.boundary ELSE end]
           hot == Ascending(s.hotEvents)
<1>7. Plan(q) = plan
  BY DEF Plan, AllAnswered, planReplay, R, s, end
<1>8. /\ hot \in Seq(Events) /\ Range(hot) = s.hotEvents
      /\ \A i, j \in DOMAIN hot : i < j => hot[i] < hot[j]
  BY <1>6, Listed
<1>9. all \in BOOLEAN /\ cut \in BOOLEAN
  OBVIOUS
<1> HIDE DEF all, cut, hot
<1>10. /\ plan.complete = (all /\ ~cut) /\ plan.archiveNeeded = (~all \/ ~s.complete)
       /\ plan.archiveEnd = IF all THEN s.boundary ELSE end
  OBVIOUS
<1> HIDE DEF plan
<1>11. plan.complete \in BOOLEAN /\ plan.archiveEnd \in Nat /\ plan.archiveEnd <= end
  BY <1>1, <1>6, <1>9, <1>10
<1>12. Stashed(q) = [events |-> hot, complete |-> plan.complete, archiveEnd |-> plan.archiveEnd]
  BY <1>7 DEF Stashed, hot, s
<1>13. /\ Stashed(q) \in Responses /\ Stashed(q).archiveEnd = plan.archiveEnd /\ Stashed(q).events = hot
       /\ Stashed(q).complete = plan.complete
  BY <1>8, <1>11, <1>12 DEF Responses
<1>14. Sound(hot, start, end)
  BY <1>4, <1>6, <1>8 DEF Sound
<1>15. ASSUME ~disturbed, plan.complete, NEW e \in due[q]
       PROVE  \/ e \in s.hotEvents
              \/ InArchive(e) /\ TimeOf[e] < plan.archiveEnd /\ plan.archiveNeeded
  <2>1. all /\ ~cut /\ plan.archiveEnd = s.boundary /\ plan.archiveNeeded = ~s.complete
    BY <1>9, <1>10, <1>15
  <2>2. Asked(q, e) /\ TimeOf[e] >= start /\ TimeOf[e] < end
    BY <1>15 DEF QueryInv, DueInv, InRange, start, end
  <2>3. PICK k \in Keepers : \/ fetch[q][k].state = "asked" /\ Held(k, e)
                             \/ fetch[q][k].state = "unanswered"
                             \/ fetch[q][k].state = "answered" /\ Given(fetch[q][k], e)
    BY <2>2 DEF Asked
  <2>4. fetch[q][k] \in R
    BY <1>3, <2>3
  <2> DEFINE r == fetch[q][k]
  <2> HIDE DEF r
  <2>5. r \in R /\ Given(r, e) /\ ~r.truncated
    <3>1. r \in R /\ r.state = "answered" /\ ~r.truncated
      BY <2>1, <2>4 DEF all, cut, r
    <3> QED BY <2>3, <3>1 DEF r
  <2>6. TimeOf[e] \in Nat
    BY EventFact DEF QueryType
  <2>7. CASE e \in r.unconfirmed_events
    BY <1>6, <2>5, <2>7
  <2>8. CASE InArchive(e) /\ (e \in r.events \/ TimeOf[e] < r.known_W)
    <3>1. e \in s.hotEvents \/ TimeOf[e] < s.boundary
      <4>1. CASE e \in r.events
        <5>1. TimeOf[e] >= s.boundary \/ TimeOf[e] < s.boundary
          BY <1>6, <2>6
        <5> QED BY <1>6, <2>5, <4>1, <5>1
      <4>2. CASE TimeOf[e] < r.known_W
        BY <1>6, <2>2, <2>5, <2>6, <4>2
      <4> QED BY <2>8, <4>1, <4>2
    <3>2. TimeOf[e] < s.boundary => plan.archiveNeeded
      <4>1. TimeOf[e] < s.boundary => ~(s.boundary <= start)
        BY <1>1, <1>6, <2>2, <2>6
      <4> QED BY <1>6, <2>1, <4>1
    <3> QED BY <2>1, <2>8, <3>1, <3>2
  <2> QED BY <2>5, <2>7, <2>8 DEF Given
<1>16. Plan(q).archiveNeeded = plan.archiveNeeded
  BY <1>7
<1> QED BY <1>8, <1>11, <1>13, <1>14, <1>15, <1>16 DEF start, end

\* The record of the query is stashed.
LEMMA StashKeeps ==
  ASSUME Inv, NEW q \in Queries, stashQueryResponseRecord(q)
  PROVE  Inv'
<1> DEFINE w == IF ~Plan(q).archiveNeeded THEN "ready" ELSE "queued"
           f == [k \in Keepers |-> NotAsked]
<1>1. /\ player[q] = "fetching" /\ \A r \in Answering(q) : r.state # "asked"
      /\ response' = [response EXCEPT ![q] = Stashed(q)]
      /\ player' = [player EXCEPT ![q] = w] /\ fetch' = [fetch EXCEPT ![q] = f]
  BY DEF stashQueryResponseRecord, Answering, Split, AllAnswered, Plan, Stashed
<1>2. /\ KeepersUnchanged /\ range' = range /\ client' = client /\ ret' = ret /\ query' = query /\ series' = series
      /\ handler' = handler /\ due' = due
  BY DEF stashQueryResponseRecord, clientVars
<1>3. QueryType /\ QueryInv(q)
  BY DEF Inv
<1> DEFINE s == Stashed(q)
<1>4. /\ s \in Responses /\ s.archiveEnd <= range[q].end /\ Sound(s.events, range[q].start, range[q].end)
      /\ ~disturbed /\ s.complete =>
           \A e \in due[q] : \/ e \in Range(s.events)
                             \/ InArchive(e) /\ TimeOf[e] < s.archiveEnd /\ Plan(q).archiveNeeded
  BY <1>1, <1>3, StashFact
<1>5. f \in [Keepers -> Fetches] /\ \A k \in Keepers : f[k] = NotAsked
  BY DEF Fetches
<1>6. w \in PlayerStates /\ w \in {"ready", "queued"} /\ (w = "ready" => ~Plan(q).archiveNeeded)
  BY Words
<1> HIDE DEF w, f, s
<1>7. QueryType'
  <2>1. response' \in [Queries -> Responses]
    BY <1>1, <1>3, <1>4 DEF QueryType, s
  <2>2. player' \in [Queries -> PlayerStates]
    BY <1>1, <1>3, <1>6 DEF QueryType
  <2>3. fetch' \in [Queries -> [Keepers -> Fetches]]
    BY <1>1, <1>3, <1>5 DEF QueryType
  <2> QED BY <1>2, <1>3, <2>1, <2>2, <2>3 DEF QueryType
<1>8. /\ \A p \in Queries : p # q => SameQuery(p)
      /\ response'[q] = s /\ player'[q] = w /\ fetch'[q] = f
  BY <1>1, <1>2, <1>3 DEF QueryType, SameQuery, s
<1>9. handler[q] = "none" /\ ~query[q].completed /\ series[q] = <<>> /\ ~Answered(q)
  BY <1>1, <1>3 DEF QueryInv, LifeInv
<1>10. LifeInv(q)'
  BY <1>1, <1>2, <1>3, <1>6, <1>8, <1>9 DEF QueryInv, LifeInv, Answered
<1>11. OrderInv(q)'
  <2>1. NotAsked.state = "none"
    BY DEF NotAsked
  <2> QED BY <1>2, <1>3, <1>4, <1>5, <1>8, <2>1 DEF QueryInv, OrderInv, Sound, InRange
<1>12. DueInv(q)'
  BY <1>2, <1>3, <1>4, <1>6, <1>8, <1>9, StillFact DEF QueryInv, DueInv, InRange, Answered
<1>13. QueryInv(q)'
  BY <1>10, <1>11, <1>12 DEF QueryInv
<1> QED BY <1>2, <1>7, <1>8, <1>13, OneQuery

\* An invalid reading request is dropped.
LEMMA DropKeeps ==
  ASSUME Inv, NEW q \in Queries, DropReadingRequest(q)
  PROVE  Inv'
<1>1. /\ KeepersUnchanged /\ range' = range /\ client' = client /\ ret' = ret /\ query' = query /\ series' = series
      /\ fetch' = fetch /\ response' = response /\ handler' = handler /\ due' = due
      /\ player[q] = "queued" /\ player' = [player EXCEPT ![q] = "stuck"]
  BY DEF DropReadingRequest, clientVars
<1>2. QueryType /\ QueryInv(q)
  BY DEF Inv
<1>3. QueryType'
  BY <1>1, <1>2, Words DEF QueryType
<1>4. player'[q] = "stuck" /\ \A p \in Queries : p # q => SameQuery(p)
  BY <1>1, <1>2 DEF QueryType, SameQuery
<1>5. LifeInv(q)'
  BY <1>1, <1>2, <1>4 DEF QueryInv, LifeInv, Answered
<1>6. OrderInv(q)'
  BY <1>1, <1>2, <1>4 DEF QueryInv, OrderInv, Sound, InRange
<1>7. DueInv(q)'
  BY <1>1, <1>2, <1>4, StillFact DEF QueryInv, LifeInv, DueInv, InRange
<1>8. QueryInv(q)'
  BY <1>5, <1>6, <1>7 DEF QueryInv
<1> QED BY <1>1, <1>3, <1>4, <1>8, OneQuery

\* The events of a record after the archive has been read
Joined(found, q) ==
  IF \A c \in found : readArchivedStory(found, q)[c] = <<>>
    THEN response[q].events ELSE mergeReplayEvents(readArchivedStory(found, q), response[q].events)

\* They are what the record had, and what of the range the files have.
LEMMA JoinFact ==
  ASSUME QueryType, NEW q \in Queries, NEW found \in SUBSET Chunks,
         Sound(response[q].events, range[q].start, range[q].end), response[q].archiveEnd <= range[q].end,
         NEW j, j = Joined(found, q)
  PROVE  /\ j \in Seq(Events) /\ Sound(j, range[q].start, range[q].end)
         /\ Range(response[q].events) \in SUBSET Range(j)
         /\ \A c \in found : \A e \in EventsOf[c] :
              InRange(e, range[q].start, response[q].archiveEnd) => e \in Range(j)
<1> DEFINE a == readArchivedStory(found, q)
           hot == response[q].events
           start == range[q].start
           end == range[q].end
           stop == response[q].archiveEnd
<1>1. hot \in Seq(Events) /\ stop \in Nat /\ start \in Nat /\ end \in Nat
  BY DEF QueryType, Responses, Ranges
<1>2. DOMAIN a = found /\ \A c \in found : Range(a[c]) = {e \in EventsOf[c] : InRange(e, start, stop)}
  BY ReadFact
<1>3. Range(hot) \in SUBSET Events
  BY <1>1, RangeOfSeq
<1> DEFINE S == Range(hot) \cup UNION {Range(a[c]) : c \in DOMAIN a}
<1>4. j = IF \A c \in found : a[c] = <<>> THEN hot ELSE Ascending(S)
  BY DEF Joined, mergeReplayEvents
<1>5. Sound(hot, start, end) /\ stop <= end
  OBVIOUS
<1> HIDE DEF a, hot, start, end, stop
<1>6. S \in SUBSET Events
  BY <1>2, <1>3, EventFact
<1>7. \A e \in S : InRange(e, start, end)
  <2>1. ASSUME NEW e \in Events, InRange(e, start, stop) PROVE InRange(e, start, end)
    <3>1. TimeOf[e] \in Nat
      BY EventFact
    <3> QED BY <1>1, <1>5, <2>1, <3>1 DEF InRange
  <2> QED BY <1>2, <1>5, <2>1, EventFact DEF Sound
<1>8. \A c \in found : \A e \in EventsOf[c] : InRange(e, start, stop) => e \in Range(a[c]) /\ e \in S
  BY <1>2
<1>9. Range(hot) \in SUBSET S
  OBVIOUS
<1> HIDE DEF S
<1>10. CASE \A c \in found : a[c] = <<>>
  <2>1. Range(<<>>) = {}
    BY DEF Range
  <2>2. \A c \in found : \A e \in EventsOf[c] : ~InRange(e, start, stop)
    BY <1>8, <1>10, <2>1
  <2>3. j = hot
    BY <1>4, <1>10
  <2> QED BY <1>1, <1>5, <2>2, <2>3 DEF hot, start, end, stop
<1>11. CASE ~(\A c \in found : a[c] = <<>>)
  <2>1. j = Ascending(S)
    BY <1>4, <1>11
  <2>2. j \in Seq(Events) /\ Range(j) = S /\ \A i, k \in DOMAIN j : i < k => j[i] < j[k]
    BY <1>6, <2>1, Listed
  <2>3. Sound(j, start, end)
    BY <1>7, <2>2 DEF Sound
  <2> QED BY <1>8, <1>9, <2>2, <2>3 DEF hot, start, end, stop
<1> QED BY <1>10, <1>11

\* The archive has been read.
LEMMA ReadKeeps ==
  ASSUME Inv, NEW q \in Queries, addArchivedEventsToQueryResponse(q)
  PROVE  Inv'
<1>1. /\ KeepersUnchanged /\ range' = range /\ client' = client /\ ret' = ret /\ query' = query /\ series' = series
      /\ fetch' = fetch /\ handler' = handler /\ due' = due
      /\ player[q] = "queued" /\ player' = [player EXCEPT ![q] = "ready"]
  BY DEF addArchivedEventsToQueryResponse, clientVars
<1>2. QueryType /\ QueryInv(q) /\ KeeperType /\ ChunkInv
  BY DEF Inv
<1>3. PICK found \in SUBSET archive.written, read_status \in {"success", "error"} :
        /\ read_status = "success" => archive.readable \subseteq found
        /\ response' = [response EXCEPT ![q].complete = @ /\ read_status = "success",
                                        ![q].events = Joined(found, q)]
  BY DEF addArchivedEventsToQueryResponse, Joined
<1> DEFINE j == Joined(found, q)
           ok == response[q].complete /\ read_status = "success"
<1>4. found \in SUBSET Chunks
  BY <1>2 DEF KeeperType
<1>5. /\ j \in Seq(Events) /\ Sound(j, range[q].start, range[q].end)
      /\ Range(response[q].events) \in SUBSET Range(j)
      /\ \A c \in found : \A e \in EventsOf[c] :
           InRange(e, range[q].start, response[q].archiveEnd) => e \in Range(j)
  BY <1>2, <1>4, JoinFact DEF QueryInv, OrderInv
<1>6. response' = [response EXCEPT ![q].complete = ok, ![q].events = j]
  BY <1>3
<1>7. ok \in BOOLEAN /\ (ok => response[q].complete /\ archive.readable \subseteq found)
  BY <1>2, <1>3 DEF QueryType, Responses
<1> HIDE DEF j, ok
<1>8. response[q] \in Responses
  BY <1>2 DEF QueryType
<1> DEFINE s == [response[q] EXCEPT !.complete = ok, !.events = j]
<1>9. s \in Responses /\ s.complete = ok /\ s.events = j /\ s.archiveEnd = response[q].archiveEnd
  BY <1>5, <1>7, <1>8 DEF Responses
<1>10. response' = [response EXCEPT ![q] = s]
  BY <1>2, <1>6 DEF QueryType
<1> HIDE DEF s
<1>11. QueryType'
  <2>1. response' \in [Queries -> Responses]
    BY <1>2, <1>9, <1>10 DEF QueryType
  <2>2. player' \in [Queries -> PlayerStates]
    BY <1>1, <1>2, Words DEF QueryType
  <2> QED BY <1>1, <1>2, <2>1, <2>2 DEF QueryType
<1>12. player'[q] = "ready" /\ response'[q] = s /\ \A p \in Queries : p # q => SameQuery(p)
  BY <1>1, <1>2, <1>10 DEF QueryType, SameQuery
<1>13. handler[q] = "none" /\ ~query[q].completed /\ ~Answered(q)
  BY <1>1, <1>2 DEF QueryInv, LifeInv
<1>14. LifeInv(q)'
  BY <1>1, <1>2, <1>12, <1>13 DEF QueryInv, LifeInv, Answered
<1>15. OrderInv(q)'
  BY <1>1, <1>2, <1>5, <1>9, <1>12 DEF QueryInv, OrderInv, Sound, InRange
<1>16. ASSUME ~disturbed, ok, NEW e \in due[q] PROVE e \in Range(j)
  <2>1. response[q].complete /\ archive.readable \subseteq found
    BY <1>7, <1>16
  <2>2. /\ e \in Range(response[q].events) \/ (InArchive(e) /\ TimeOf[e] < response[q].archiveEnd)
        /\ InRange(e, range[q].start, range[q].end)
    BY <1>1, <1>2, <1>16, <2>1 DEF QueryInv, DueInv
  <2>3. CASE e \in Range(response[q].events)
    BY <1>5, <2>3
  <2>4. CASE InArchive(e) /\ TimeOf[e] < response[q].archiveEnd
    <3>1. PICK c \in found : e \in EventsOf[c]
      BY <2>1, <2>4 DEF InArchive
    <3>2. InRange(e, range[q].start, response[q].archiveEnd)
      BY <2>2, <2>4 DEF InRange
    <3> QED BY <1>5, <3>1, <3>2
  <2> QED BY <2>2, <2>3, <2>4
<1>17. DueInv(q)'
  BY <1>1, <1>2, <1>9, <1>12, <1>13, <1>16, StillFact DEF QueryInv, DueInv, InRange, Answered
<1>18. QueryInv(q)'
  BY <1>14, <1>15, <1>17 DEF QueryInv
<1> QED BY <1>1, <1>11, <1>12, <1>18, OneQuery

\* The empty record
LEMMA NoResponseFact ==
  /\ NoResponse \in Responses /\ NoResponse.events = <<>> /\ ~NoResponse.complete /\ NoResponse.archiveEnd = 0
  /\ DOMAIN <<>> = {} /\ Range(<<>>) = {}
<1>1. NoResponse.events = <<>> /\ ~NoResponse.complete /\ NoResponse.archiveEnd = 0 /\ NoResponse \in Responses
  BY DEF NoResponse, Responses
<1>2. DOMAIN <<>> = {} /\ Range(<<>>) = {}
  BY DEF Range
<1> QED BY <1>1, <1>2

\* The response is sent, and found or lost.
LEMMA TransferKeeps ==
  ASSUME Inv, NEW q \in Queries, transferQueryResponseToClient(q)
  PROVE  Inv'
<1>1. /\ KeepersUnchanged /\ range' = range /\ client' = client /\ ret' = ret /\ query' = query /\ series' = series
      /\ fetch' = fetch /\ due' = due
      /\ player[q] = "ready" /\ player' = [player EXCEPT ![q] = "gone"]
      /\ \/ handler' = [handler EXCEPT ![q] = "found"] /\ response' = response
         \/ handler' = handler /\ response' = [response EXCEPT ![q] = NoResponse]
  BY DEF transferQueryResponseToClient, clientVars
<1>2. QueryType /\ QueryInv(q)
  BY DEF Inv
<1>3. QueryType'
  <2>1. player' \in [Queries -> PlayerStates]
    BY <1>1, <1>2, Words DEF QueryType
  <2>2. handler' \in [Queries -> HandlerStates]
    BY <1>1, <1>2, Words DEF QueryType
  <2>3. response' \in [Queries -> Responses]
    BY <1>1, <1>2, NoResponseFact DEF QueryType
  <2> QED BY <1>1, <1>2, <2>1, <2>2, <2>3 DEF QueryType
<1>4. /\ player'[q] = "gone" /\ \A p \in Queries : p # q => SameQuery(p)
      /\ \/ handler'[q] = "found" /\ response'[q] = response[q]
         \/ handler'[q] = handler[q] /\ response'[q] = NoResponse
  BY <1>1, <1>2 DEF QueryType, SameQuery
<1>5. handler[q] = "none" /\ ~query[q].completed /\ ~Answered(q) /\ client[q] # "idle" /\ series[q] = <<>>
  BY <1>1, <1>2 DEF QueryInv, LifeInv
<1>6. LifeInv(q)'
  BY <1>1, <1>2, <1>4, <1>5 DEF QueryInv, LifeInv, Answered
<1>7. range[q].end \in Nat /\ 0 <= range[q].end
  BY <1>2 DEF QueryType, Ranges
<1>8. OrderInv(q)'
  BY <1>1, <1>2, <1>4, <1>7, NoResponseFact DEF QueryInv, OrderInv, Sound, InRange
<1>9. DueInv(q)'
  BY <1>1, <1>2, <1>4, <1>5, StillFact, NoResponseFact DEF QueryInv, DueInv, InRange, Answered
<1>10. QueryInv(q)'
  BY <1>6, <1>8, <1>9 DEF QueryInv
<1> QED BY <1>1, <1>3, <1>4, <1>10, OneQuery

\* A replay returns: its query object goes, and it has its code.
LEMMA ReturnKeeps ==
  ASSUME Inv, NEW q \in Queries, NEW code \in Codes, client[q] = "waiting", KeepersUnchanged,
         stop_query(q), Return(q, code), UNCHANGED <<range, series, playerVars, handler>>,
         code \in {"CL_SUCCESS", "CL_ERR_PARTIAL_RESULT"} => query[q].completed,
         code = "CL_SUCCESS" => query[q].complete
  PROVE  Inv'
<1> DEFINE D == IF code = "CL_SUCCESS" THEN due[q] ELSE {}
<1>1. /\ range' = range /\ series' = series /\ fetch' = fetch /\ player' = player /\ response' = response
      /\ handler' = handler /\ client' = [client EXCEPT ![q] = "returned"] /\ ret' = [ret EXCEPT ![q] = code]
      /\ query' = [query EXCEPT ![q] = NoQuery]
  BY DEF stop_query, Return, playerVars
<1>2. QueryType /\ QueryInv(q)
  BY DEF Inv
<1>3. due' = [due EXCEPT ![q] = D]
  BY <1>2 DEF Return, QueryType
<1>4. D \in SUBSET Events /\ D \in SUBSET due[q] /\ (code = "CL_SUCCESS" => D = due[q])
  BY <1>2 DEF QueryType
<1>5. NoQuery \in QueryStates /\ ~NoQuery.live /\ ~NoQuery.completed
  BY DEF NoQuery, QueryStates
<1> HIDE DEF D
<1>6. QueryType'
  <2>1. client' \in [Queries -> ClientStates]
    BY <1>1, <1>2, Words DEF QueryType
  <2>2. query' \in [Queries -> QueryStates] /\ ret' \in [Queries -> Codes]
    BY <1>1, <1>2, <1>5 DEF QueryType
  <2>3. due' \in [Queries -> SUBSET Events]
    BY <1>2, <1>3, <1>4 DEF QueryType
  <2> QED BY <1>1, <1>2, <2>1, <2>2, <2>3 DEF QueryType
<1>7. /\ client'[q] = "returned" /\ ret'[q] = code /\ query'[q] = NoQuery /\ due'[q] = D
      /\ \A p \in Queries : p # q => SameQuery(p)
  BY <1>1, <1>2, <1>3 DEF QueryType, SameQuery
<1>8. LifeInv(q)'
  BY <1>1, <1>2, <1>5, <1>7 DEF QueryInv, LifeInv, Answered
<1>9. OrderInv(q)'
  BY <1>1, <1>2, <1>7 DEF QueryInv, OrderInv, Sound, InRange
<1>10. \A e \in D : Asked(q, e) => Asked(q, e)'
  <2>1. ASSUME NEW e \in D, Asked(q, e) PROVE Asked(q, e)'
    <3>1. PICK k \in Keepers :
            \/ fetch[q][k].state = "asked" /\ Held(k, e)
            \/ fetch[q][k].state = "unanswered"
            \/ fetch[q][k].state = "answered" /\ Given(fetch[q][k], e)
      BY <2>1 DEF Asked
    <3>2. Given(fetch[q][k], e) => Given(fetch[q][k], e)'
      BY <1>1, StillFact DEF Given
    <3> QED BY <1>1, <3>1, <3>2, StillFact DEF Asked
  <2> QED BY <2>1
<1>11. DueInv(q)'
  <2>1. code = "CL_SUCCESS" /\ ~disturbed => D \in SUBSET Range(series[q])
    BY <1>2, <1>4 DEF QueryInv, DueInv
  <2> QED BY <1>1, <1>2, <1>4, <1>5, <1>7, <1>10, <2>1, StillFact DEF QueryInv, DueInv, InRange
<1>12. QueryInv(q)'
  BY <1>8, <1>9, <1>11 DEF QueryInv
<1> QED BY <1>6, <1>7, <1>12, OneQuery

\* The request fails.
LEMMA SendKeeps ==
  ASSUME Inv, NEW q \in Queries, send_story_playback_request(q)
  PROVE  Inv'
<1>1. "CL_ERR_NO_PLAYERS" \in Codes
  BY DEF Codes
<1> QED BY <1>1, ReturnKeeps DEF send_story_playback_request

\* The call ends, with the code its query gives.
LEMMA DispatchKeeps ==
  ASSUME Inv, NEW q \in Queries, dispatch_query(q)
  PROVE  Inv'
<1> DEFINE code == IF ~query[q].completed THEN "CL_ERR_QUERY_TIMED_OUT"
                   ELSE IF query[q].complete THEN "CL_SUCCESS" ELSE "CL_ERR_PARTIAL_RESULT"
<1>1. /\ code \in Codes /\ (code \in {"CL_SUCCESS", "CL_ERR_PARTIAL_RESULT"} => query[q].completed)
      /\ (code = "CL_SUCCESS" => query[q].complete)
  BY DEF Codes
<1>2. /\ client[q] = "waiting" /\ KeepersUnchanged /\ stop_query(q) /\ Return(q, code)
      /\ UNCHANGED <<range, series, playerVars, handler>>
  BY DEF dispatch_query
<1> HIDE DEF code
<1> QED BY <1>1, <1>2, ReturnKeeps

\* The handler writes the events.
LEMMA SeriesKeeps ==
  ASSUME Inv, NEW q \in Queries, WriteSeries(q)
  PROVE  Inv'
<1>1. /\ KeepersUnchanged /\ range' = range /\ client' = client /\ ret' = ret /\ query' = query
      /\ fetch' = fetch /\ player' = player /\ response' = response /\ due' = due
      /\ handler[q] = "found" /\ handler' = [handler EXCEPT ![q] = "written"]
      /\ \/ series' = [series EXCEPT ![q] = response[q].events]
         \/ ~query[q].live /\ series' = series
  BY DEF WriteSeries, playerVars
<1>2. QueryType /\ QueryInv(q)
  BY DEF Inv
<1>3. QueryType'
  <2>1. handler' \in [Queries -> HandlerStates]
    BY <1>1, <1>2, Words DEF QueryType
  <2>2. response[q].events \in Seq(Events)
    BY <1>2 DEF QueryType, Responses
  <2>3. series' \in [Queries -> Seq(Events)]
    BY <1>1, <1>2, <2>2 DEF QueryType
  <2> QED BY <1>1, <1>2, <2>1, <2>3 DEF QueryType
<1>4. /\ handler'[q] = "written" /\ \A p \in Queries : p # q => SameQuery(p)
      /\ \/ series'[q] = response[q].events
         \/ ~query[q].live /\ series'[q] = series[q]
  BY <1>1, <1>2 DEF QueryType, SameQuery
<1>5. player[q] = "gone" /\ ~query[q].completed /\ ~Answered(q)
  BY <1>1, <1>2 DEF QueryInv, LifeInv
<1>6. LifeInv(q)'
  BY <1>1, <1>2, <1>4, <1>5 DEF QueryInv, LifeInv, Answered
<1>7. OrderInv(q)'
  BY <1>1, <1>2, <1>4 DEF QueryInv, OrderInv, Sound, InRange
<1>8. DueInv(q)'
  BY <1>1, <1>2, <1>4, <1>5, StillFact DEF QueryInv, DueInv, InRange, Answered
<1>9. QueryInv(q)'
  BY <1>6, <1>7, <1>8 DEF QueryInv
<1> QED BY <1>1, <1>3, <1>4, <1>9, OneQuery

\* The handler completes the query.
LEMMA ReceiveKeeps ==
  ASSUME Inv, NEW q \in Queries, receive_query_response(q)
  PROVE  Inv'
<1> DEFINE n == IF query[q].live THEN [query[q] EXCEPT !.complete = response[q].complete, !.completed = TRUE]
                ELSE query[q]
<1>1. /\ KeepersUnchanged /\ range' = range /\ client' = client /\ ret' = ret /\ series' = series
      /\ fetch' = fetch /\ player' = player /\ due' = due
      /\ handler[q] = "written" /\ handler' = [handler EXCEPT ![q] = "done"]
      /\ response' = [response EXCEPT ![q] = NoResponse]
  BY DEF receive_query_response
<1>2. QueryType /\ QueryInv(q)
  BY DEF Inv
<1>3. query' = [query EXCEPT ![q] = n]
  BY <1>2 DEF receive_query_response, QueryType
<1>4. query[q] \in QueryStates /\ response[q].complete \in BOOLEAN
  BY <1>2 DEF QueryType, Responses
<1>5. /\ n \in QueryStates /\ n.live = query[q].live
      /\ query[q].live => n.completed /\ n.complete = response[q].complete
      /\ ~query[q].live => n = query[q]
  BY <1>4 DEF QueryStates
<1> HIDE DEF n
<1>6. QueryType'
  <2>1. handler' \in [Queries -> HandlerStates]
    BY <1>1, <1>2, Words DEF QueryType
  <2>2. response' \in [Queries -> Responses]
    BY <1>1, <1>2, NoResponseFact DEF QueryType
  <2>3. query' \in [Queries -> QueryStates]
    BY <1>2, <1>3, <1>5 DEF QueryType
  <2> QED BY <1>1, <1>2, <2>1, <2>2, <2>3 DEF QueryType
<1>7. /\ handler'[q] = "done" /\ response'[q] = NoResponse /\ query'[q] = n
      /\ \A p \in Queries : p # q => SameQuery(p)
  BY <1>1, <1>2, <1>3 DEF QueryType, SameQuery
<1>8. player[q] = "gone" /\ ~query[q].completed /\ ~Answered(q)
  BY <1>1, <1>2 DEF QueryInv, LifeInv
<1>9. LifeInv(q)'
  BY <1>1, <1>2, <1>5, <1>7, <1>8 DEF QueryInv, LifeInv, Answered
<1>10. range[q].end \in Nat /\ 0 <= range[q].end
  BY <1>2 DEF QueryType, Ranges
<1>11. OrderInv(q)'
  BY <1>1, <1>2, <1>7, <1>10, NoResponseFact DEF QueryInv, OrderInv, Sound, InRange
<1>12. query[q].live /\ response[q].complete /\ ~disturbed => due[q] \subseteq Range(series[q])
  BY <1>1, <1>2 DEF QueryInv, DueInv, LifeInv
<1>13. DueInv(q)'
  BY <1>1, <1>2, <1>5, <1>7, <1>8, <1>12, StillFact, NoResponseFact DEF QueryInv, DueInv, InRange, Answered
<1>14. QueryInv(q)'
  BY <1>9, <1>11, <1>13 DEF QueryInv
<1> QED BY <1>1, <1>6, <1>7, <1>14, OneQuery

-----------------------------------------------------------------------------
(* The theorems                                                            *)

\* The invariant holds at the beginning.
LEMMA InitInv ==
  ASSUME Init
  PROVE  Inv
<1> USE DEF Init
<1>1. KeeperType
  <2>1. 0 \in 0 .. MaxTime
    BY EventFact
  <2>2. chunk \in [Chunks -> ChunkStates] /\ known_w \in [Keepers -> 0 .. MaxTime]
    BY <2>1 DEF ChunkStates
  <2>3. archive \in [written : SUBSET Chunks, readable : SUBSET Chunks]
    OBVIOUS
  <2>4. inGrapher \subseteq Chunks /\ storyKeepers \subseteq Keepers /\ disturbed \in BOOLEAN
    OBVIOUS
  <2> QED BY <2>1, <2>2, <2>3, <2>4 DEF KeeperType
<1>2. ChunkInv
  BY DEF ChunkInv, ChunkPart, Closed
<1>3. QueryType
  <2>1. NoRange \in Ranges /\ NoQuery \in QueryStates /\ NotAsked \in Fetches
    BY DEF NoRange, Ranges, NoQuery, QueryStates, Fetches
  <2>2. "idle" \in ClientStates /\ "none" \in PlayerStates /\ "none" \in HandlerStates /\ "none" \in Codes
    BY DEF ClientStates, PlayerStates, HandlerStates, Codes
  <2>3. <<>> \in Seq(Events)
    BY EmptySeq
  <2> QED BY <2>1, <2>2, <2>3, NoResponseFact DEF QueryType
<1>4. ASSUME NEW q \in Queries PROVE QueryInv(q)
  <2>1. ~NoQuery.live /\ ~NoQuery.completed /\ NotAsked.state = "none" /\ NoRange.end = 0
    BY DEF NoQuery, NotAsked, NoRange
  <2>2. DueInv(q)
    BY <2>1 DEF DueInv
  <2>3. LifeInv(q)
    BY <2>1 DEF LifeInv, Answered
  <2>4. OrderInv(q)
    BY <2>1, NoResponseFact DEF OrderInv, Sound
  <2> QED BY <2>2, <2>3, <2>4 DEF QueryInv
<1> QED BY <1>1, <1>2, <1>3, <1>4 DEF Inv

\* Every step keeps it.
LEMMA StepInv ==
  ASSUME Inv, [Next]_vars
  PROVE  Inv'
<1>1. CASE KeeperStep
  <2>1. \/ KeeperPart /\ CallsUnchanged
        \/ KeeperType' /\ ChunkInv' /\ KeeperGone
    BY <1>1, KeepersKeep DEF Inv
  <2>2. CASE KeeperPart /\ CallsUnchanged
    <3>1. \A p \in Queries : SameQuery(p)
      BY <2>2 DEF CallsUnchanged, clientVars, playerVars, SameQuery
    <3>2. ASSUME NEW p \in Queries PROVE QueryInv(p)'
      BY <2>2, <3>1, SameKeeps DEF KeeperPart, Inv
    <3>3. QueryType'
      BY <2>2 DEF Inv, QueryType, CallsUnchanged, clientVars, playerVars
    <3> QED BY <2>2, <3>2, <3>3 DEF Inv, KeeperPart
  <2>3. CASE KeeperType' /\ ChunkInv' /\ KeeperGone
    BY <2>3, GoneKeeps DEF Inv
  <2> QED BY <2>1, <2>2, <2>3
<1>2. ASSUME NEW q \in Queries, NEW r \in scenario.ranges, replay_story(q, r) PROVE Inv'
  BY <1>2, CallKeeps
<1>3. ASSUME NEW q \in Queries, send_story_playback_request(q) \/ dispatch_query(q) PROVE Inv'
  BY <1>3, SendKeeps, DispatchKeeps
<1>4. ASSUME NEW q \in Queries, PlayerStep(q) PROVE Inv'
  BY <1>4, BeginKeeps, AnswerKeeps, MissKeeps, StashKeeps, DropKeeps, ReadKeeps, TransferKeeps DEF PlayerStep
<1>5. ASSUME NEW q \in Queries, HandlerStep(q) PROVE Inv'
  BY <1>5, SeriesKeeps, ReceiveKeeps DEF HandlerStep
<1>6. CASE UNCHANGED vars
  <2>1. KeepersUnchanged /\ \A p \in Queries : SameQuery(p)
    BY <1>6 DEF vars, clientVars, playerVars, KeepersUnchanged, SameQuery
  <2>2. QueryType'
    BY <1>6 DEF Inv, QueryType, vars, clientVars, playerVars
  <2>3. ASSUME NEW p \in Queries PROVE QueryInv(p)'
    BY <2>1, SameKeeps, StillFact DEF Inv
  <2> QED BY <2>1, <2>2, <2>3, StillFact DEF Inv
<1> QED BY <1>1, <1>2, <1>3, <1>4, <1>5, <1>6 DEF Next

\* The invariant holds always.
LEMMA InvAlways == Spec => []Inv
<1>1. Init => Inv
  BY InitInv
<1>2. Inv /\ [Next]_vars => Inv'
  BY StepInv
<1> QED BY <1>1, <1>2, PTL DEF Spec

\* A replay that returns CL_SUCCESS has every event of its range that was
\* sealed when it was called and not lost with its keeper before the keeper
\* answered, unless a keeper that had freed a chunk restarted without it or
\* left, for any keepers, chunks, watermarks and any set of chunks in the logs
\* (fetchRange, splitHotRange, planReplay, readArchivedStory).
THEOREM ReplayWhole == Spec => []ReplayHoldsAll
<1>1. Inv => ReplayHoldsAll
  BY DEF Inv, QueryInv, DueInv, ReplayHoldsAll
<1> QED BY <1>1, InvAlways, PTL

\* A replay that returns an answer has each event once, in order, and of its
\* range (mergeReplayEvents).
THEOREM EventsOnce == Spec => []EachEventOnce
<1>1. Inv => EachEventOnce
  BY DEF Inv, QueryInv, OrderInv, Sound, EachEventOnce
<1> QED BY <1>1, InvAlways, PTL

\* The events of a replay that has returned an answer do not change: the
\* handler of its response was done (receive_query_response, dispatch_query).
THEOREM AnswerStays == Spec => AnswerIsFinal
<1>1. ASSUME Inv, [Next]_vars, NEW q \in Queries, Answered(q)
      PROVE  series'[q] = series[q]
  <2>1. handler[q] = "done" /\ series \in [Queries -> Seq(Events)]
    BY <1>1 DEF Inv, QueryInv, LifeInv, QueryType
  <2>2. CASE KeeperStep
    BY <1>1, <2>2, KeepersKeep DEF Inv, CallsUnchanged, clientVars, KeeperGone, Without
  <2>3. ASSUME NEW p \in Queries, NEW r \in scenario.ranges, replay_story(p, r) PROVE series' = series
    BY <2>3 DEF replay_story
  <2>4. ASSUME NEW p \in Queries, send_story_playback_request(p) \/ dispatch_query(p) PROVE series' = series
    BY <2>4 DEF send_story_playback_request, dispatch_query
  <2>5. ASSUME NEW p \in Queries, PlayerStep(p) PROVE series' = series
    BY <2>5 DEF PlayerStep, BeginPlayback, AnswerFetch, MissFetch, stashQueryResponseRecord, DropReadingRequest,
                addArchivedEventsToQueryResponse, transferQueryResponseToClient, clientVars
  <2>6. ASSUME NEW p \in Queries, WriteSeries(p) PROVE series'[q] = series[q]
    <3>1. p # q
      BY <2>1, <2>6 DEF WriteSeries
    <3> QED BY <2>1, <2>6, <3>1 DEF WriteSeries
  <2>7. ASSUME NEW p \in Queries, receive_query_response(p) PROVE series' = series
    BY <2>7 DEF receive_query_response
  <2>8. CASE UNCHANGED vars
    BY <2>8 DEF vars, clientVars
  <2> QED BY <1>1, <2>2, <2>3, <2>4, <2>5, <2>6, <2>7, <2>8 DEF Next, HandlerStep
<1>2. Inv /\ [Next]_vars => [\A q \in Queries : Answered(q) => series'[q] = series[q]]_vars
  BY <1>1
<1> QED BY <1>2, InvAlways, PTL DEF Spec, AnswerIsFinal
=============================================================================
