------------------------- MODULE KeeperIngestProofs -------------------------
(***************************************************************************)
(* Proofs about the ingestion path of a keeper, for any stories, events,   *)
(* clocks and number of collection threads: an event taken in is in one    *)
(* place until it is sealed once, a started story is recorded, the threads *)
(* leave nothing behind, and the path implements EventCustody.             *)
(*                                                                         *)
(* Nothing here depends on times.  What mergeEvents and                    *)
(* extractDecayedStoryChunks do to the bounds of a timeline decides when   *)
(* an event is sealed, never whether, so the proofs leave the bounds open. *)
(***************************************************************************)
EXTENDS KeeperIngest, FiniteSetTheorems, SequenceTheorems, TLAPS

-----------------------------------------------------------------------------
(* The invariant                                                           *)

WriteStates == {"new", "astray", "ensuring", "logging", "taken", "refused", "logged"}
ThreadStates == {"none", "check", "collect", "extract", "spinning", "retire", "list", "seal", "done"}
Fields == {"live", "start", "end", "events", "deque", "window", "lastArrival"}
EventsOf(s) == {e \in Events : StoryOf[e] = s}
Distinct(q) == \A i, j \in DOMAIN q : q[i] = q[j] => i = j

\* A pipeline of s holds events of s, and one that is gone holds none.
Shape(p) == DOMAIN p = Fields
PipelineOf(p, s) ==
  /\ Shape(p)
  /\ p.events \in SUBSET EventsOf(s) /\ p.deque \in Seq(EventsOf(s)) /\ Distinct(p.deque)
  /\ ~p.live => p.events = {} /\ p.deque = <<>>
OrphansOf(q, s) == q \in Seq(EventsOf(s)) /\ Distinct(q)

StoreInv ==
  /\ pipelines = [s \in Stories |-> pipelines[s]] /\ orphans = [s \in Stories |-> orphans[s]]
  /\ \A s \in Stories : PipelineOf(pipelines[s], s) /\ OrphansOf(orphans[s], s)

TypeInv ==
  /\ write \in [Events -> WriteStates] /\ pc \in [Threads -> ThreadStates]
  /\ waitingForExit = [s \in Stories |-> waitingForExit[s]]
  /\ listed \in [Threads -> SUBSET Stories]

\* The places of an event
InDeque(e) == e \in Range(pipelines[StoryOf[e]].deque)
InOrphans(e) == e \in Range(orphans[StoryOf[e]])
InTimeline(e) == e \in pipelines[StoryOf[e]].events
Placeless(e) == ~InDeque(e) /\ ~InOrphans(e) /\ ~InTimeline(e) /\ e \notin sealed /\ e \notin discarded

\* An event that was taken in is in one place, another in none.
Alone(e) ==
  /\ write[e] # "taken" => Placeless(e)
  /\ write[e] = "taken" => InDeque(e) \/ InOrphans(e) \/ InTimeline(e) \/ e \in sealed \/ e \in discarded
  /\ InDeque(e) => ~InOrphans(e) /\ ~InTimeline(e) /\ e \notin sealed /\ e \notin discarded
  /\ InOrphans(e) => ~InTimeline(e) /\ e \notin sealed /\ e \notin discarded
  /\ InTimeline(e) => e \notin sealed /\ e \notin discarded /\ e \notin Empty
  /\ e \in sealed => e \notin discarded /\ e \notin Empty
  /\ e \in discarded => e \in Empty
PlaceInv == sealed \subseteq Events /\ discarded \subseteq Events /\ \A e \in Events : Alone(e)

\* The log's events are sealed by the replay, before anything else happens,
\* and only a durable write looks for a pipeline before it ingests.
LogInv ==
  /\ \A e \in Events : write[e] \in {"ensuring", "logging"} => e \in Durable
  /\ \A e \in Events : write[e] = "logged" => keeper = "recovering" /\ e \in Recovered
  /\ \A e \in Recovered : IF keeper = "recovering" THEN write[e] = "logged" ELSE e \in sealed

\* A started story is recorded, and only what is recorded waits for exit.
StartInv ==
  /\ WaitingForExit \subseteq Recording
  /\ state # "shutting down" => held \subseteq Recording \ WaitingForExit
  /\ held \subseteq Stories

\* The order of the shutdown: the state changes once no accepted write is
\* under way, and a thread ends only in the changed state, with nothing left.
Late == {"labelling", "joining", "ended"}
InMemory(e) == InDeque(e) \/ InOrphans(e) \/ InTimeline(e)
EndInv ==
  /\ state = "shutting down" <=> keeper \in Late
  /\ keeper \in Late \cup {"changing"} => \A e \in Events \ Durable : write[e] # "astray"
  /\ \A t \in Threads : pc[t] = "done" =>
       state = "shutting down" /\ \A e \in Events \ Durable : ~InMemory(e)

Inv == StoreInv /\ TypeInv /\ PlaceInv /\ LogInv /\ StartInv /\ EndInv

-----------------------------------------------------------------------------
(* Queues and pipelines                                                    *)

\* What an event appended to a queue changes
LEMMA Appended ==
  ASSUME NEW S, NEW q \in Seq(S), NEW e \in S
  PROVE  /\ Append(q, e) \in Seq(S)
         /\ Range(Append(q, e)) = Range(q) \cup {e}
         /\ Distinct(q) /\ e \notin Range(q) => Distinct(Append(q, e))
<1>1. Len(q) \in Nat /\ DOMAIN q = 1 .. Len(q)
  BY LenProperties
<1>2. /\ Append(q, e) \in Seq(S) /\ Len(Append(q, e)) = Len(q) + 1
      /\ \A i \in 1 .. Len(q) : Append(q, e)[i] = q[i]
      /\ Append(q, e)[Len(q) + 1] = e
  BY AppendProperties
<1> DEFINE r == Append(q, e)
<1>3. DOMAIN r = 1 .. (Len(q) + 1)
  BY <1>2, LenProperties
<1> HIDE DEF r
<1>4. Range(r) = Range(q) \cup {e}
  BY <1>1, <1>2, <1>3 DEF Range, r
<1>5. ASSUME Distinct(q), e \notin Range(q) PROVE Distinct(r)
  BY <1>1, <1>2, <1>3, <1>5 DEF Range, Distinct, r
<1> QED BY <1>2, <1>4, <1>5 DEF r

\* What a queue put behind another one changes
LEMMA Chained ==
  ASSUME NEW S, NEW q \in Seq(S), NEW r \in Seq(S)
  PROVE  /\ q \o r \in Seq(S)
         /\ Range(q \o r) = Range(q) \cup Range(r)
         /\ Distinct(q) /\ Distinct(r) /\ Range(q) \cap Range(r) = {} => Distinct(q \o r)
<1> DEFINE w == q \o r
<1>1. Len(q) \in Nat /\ DOMAIN q = 1 .. Len(q) /\ Len(r) \in Nat /\ DOMAIN r = 1 .. Len(r)
  BY LenProperties
<1>2. /\ w \in Seq(S) /\ Len(w) = Len(q) + Len(r)
      /\ \A i \in 1 .. (Len(q) + Len(r)) : w[i] = IF i <= Len(q) THEN q[i] ELSE r[i - Len(q)]
  BY ConcatProperties, Zenon
<1>3. DOMAIN w = 1 .. (Len(q) + Len(r))
  BY <1>2, LenProperties
<1> HIDE DEF w
<1>4. \A i \in DOMAIN q : i \in DOMAIN w /\ w[i] = q[i]
  BY <1>1, <1>2, <1>3
<1>5. ASSUME NEW i \in DOMAIN r PROVE Len(q) + i \in DOMAIN w /\ w[Len(q) + i] = r[i]
  <2>1. Len(q) + i \in 1 .. (Len(q) + Len(r)) /\ ~(Len(q) + i <= Len(q)) /\ (Len(q) + i) - Len(q) = i
    BY <1>1
  <2> QED BY <1>2, <1>3, <2>1
<1>6. ASSUME NEW i \in DOMAIN w
      PROVE  \/ i \in DOMAIN q /\ w[i] = q[i]
             \/ i - Len(q) \in DOMAIN r /\ w[i] = r[i - Len(q)] /\ i \notin DOMAIN q
  BY <1>1, <1>2, <1>3
<1>7. Range(w) = Range(q) \cup Range(r)
  <2>1. Range(w) \subseteq Range(q) \cup Range(r)
    BY <1>6 DEF Range
  <2>2. Range(q) \subseteq Range(w)
    BY <1>4 DEF Range
  <2>3. Range(r) \subseteq Range(w)
    BY <1>5 DEF Range
  <2> QED BY <2>1, <2>2, <2>3
<1>8. ASSUME Distinct(q), Distinct(r), Range(q) \cap Range(r) = {} PROVE Distinct(w)
  <2> SUFFICES ASSUME NEW i \in DOMAIN w, NEW j \in DOMAIN w, w[i] = w[j] PROVE i = j
    BY DEF Distinct
  <2>1. \A k \in DOMAIN q, l \in DOMAIN r : q[k] # r[l]
    BY <1>8 DEF Range
  <2>2. CASE i \in DOMAIN q /\ j \in DOMAIN q
    BY <1>4, <1>8, <2>2 DEF Distinct
  <2>3. CASE i \notin DOMAIN q /\ j \notin DOMAIN q
    <3>1. i - Len(q) = j - Len(q)
      BY <1>6, <1>8, <2>3 DEF Distinct
    <3> QED BY <1>1, <1>3, <3>1
  <2>4. CASE i \in DOMAIN q /\ j \notin DOMAIN q
    BY <1>4, <1>6, <2>1, <2>4
  <2>5. CASE i \notin DOMAIN q /\ j \in DOMAIN q
    BY <1>4, <1>6, <2>1, <2>5
  <2> QED BY <2>2, <2>3, <2>4, <2>5
<1> QED BY <1>2, <1>7, <1>8 DEF w

\* An empty queue
LEMMA Nothing == Range(<<>>) = {} /\ Distinct(<<>>) /\ \A S : <<>> \in Seq(S)
<1>1. DOMAIN <<>> = {}
  OBVIOUS
<1> QED BY <1>1 DEF Range, Distinct

\* What mergeEvents leaves of a pipeline, whatever it makes of the timeline
LEMMA Merged ==
  ASSUME NEW p, NEW s, PipelineOf(p, s), NEW q, q = mergeEvents(p)
  PROVE  /\ PipelineOf(q, s) /\ q.live = p.live /\ q.deque = <<>>
         /\ q.events = p.events \cup Placed(p.deque)
<1> DEFINE grown == FoldLeft(MergeEvent, p, p.deque)
<1>1. Shape(p) /\ p.events \in SUBSET EventsOf(s) /\ p.deque \in Seq(EventsOf(s))
      /\ (~p.live => p.events = {} /\ p.deque = <<>>)
  BY DEF PipelineOf
<1>2. q = IF p.deque = <<>> THEN p
          ELSE [p EXCEPT !.start = grown.start, !.end = grown.end, !.window = grown.window,
                         !.events = @ \cup Placed(p.deque), !.deque = <<>>, !.lastArrival = now]
  BY DEF mergeEvents
<1> HIDE DEF grown
<1>3. p.deque = <<>> => Placed(p.deque) = {}
  BY Nothing DEF Placed
<1>4. Placed(p.deque) \subseteq EventsOf(s)
  <2>1. Range(p.deque) \subseteq EventsOf(s)
    BY <1>1, LenProperties, ElementOfSeq DEF Range
  <2> QED BY <2>1 DEF Placed
<1>5. /\ Shape(q) /\ q.live = p.live /\ q.deque = <<>>
      /\ q.events = p.events \cup Placed(p.deque)
  BY <1>1, <1>2, <1>3 DEF Shape, Fields
<1>6. q.events \in SUBSET EventsOf(s) /\ (~q.live => q.events = {})
  BY <1>1, <1>3, <1>4, <1>5
<1> QED BY <1>5, <1>6, Nothing DEF PipelineOf

\* What extractDecayedStoryChunks leaves of a pipeline, however many chunks go
LEMMA Beheaded ==
  ASSUME NEW p, NEW s, PipelineOf(p, s), NEW n, NEW q, q = Behead(p, n)
  PROVE  PipelineOf(q, s) /\ q.live = p.live /\ q.deque = p.deque /\ q.events \subseteq p.events
<1>1. Shape(q) /\ q.live = p.live /\ q.deque = p.deque /\ q.events \subseteq p.events
  BY DEF PipelineOf, Behead, Shape, Fields
<1> QED BY <1>1 DEF PipelineOf

\* A pipeline that is not there, and one that has just been added
LEMMA Fresh ==
  ASSUME NEW s, NEW start
  PROVE  LET p == [NoPipeline EXCEPT !.live = TRUE, !.start = start, !.end = start + 3 * Granularity,
                                     !.window = AcceptanceWindow] IN
         /\ PipelineOf(NoPipeline, s) /\ ~NoPipeline.live /\ NoPipeline.events = {} /\ NoPipeline.deque = <<>>
         /\ PipelineOf(p, s) /\ p.live /\ p.events = {} /\ p.deque = <<>>
BY Nothing DEF PipelineOf, NoPipeline, Shape, Fields

-----------------------------------------------------------------------------
(* What steps have in common                                               *)

\* An event that stays where it is
Stays(e) ==
  /\ InDeque(e)' <=> InDeque(e)
  /\ InOrphans(e)' <=> InOrphans(e)
  /\ InTimeline(e)' <=> InTimeline(e)

\* A step that moves no event and takes none in
LEMMA NothingMoves ==
  ASSUME PlaceInv, UNCHANGED <<sealed, discarded>>, \A e \in Events : Stays(e),
         \A e \in Events : write'[e] = "taken" <=> write[e] = "taken"
  PROVE  PlaceInv'
BY DEF PlaceInv, Alone, Placeless, Stays

\* A step that leaves the queues and the pipelines alone
LEMMA SameStore ==
  ASSUME StoreInv, UNCHANGED <<pipelines, orphans>>
  PROVE  StoreInv' /\ Recording' = Recording /\ \A e \in Events : Stays(e) /\ (InMemory(e)' <=> InMemory(e))
BY DEF StoreInv, Recording, Stays, InMemory, InDeque, InOrphans, InTimeline, PipelineOf, OrphansOf

\* The writes of a step that changes where one event's write stands
LEMMA OneWrite ==
  ASSUME TypeInv, NEW e \in Events, NEW w \in WriteStates, write' = [write EXCEPT ![e] = w]
  PROVE  /\ write' \in [Events -> WriteStates] /\ write'[e] = w
         /\ \A f \in Events : f # e => write'[f] = write[f]
BY DEF TypeInv

\* A write that is neither the log's nor one's own changes nothing for LogInv.
LEMMA LogStep ==
  ASSUME LogInv, NEW e \in Events, UNCHANGED keeper, sealed \subseteq sealed',
         \A f \in Events : f # e => write'[f] = write[f],
         write[e] # "logged", write'[e] # "logged",
         write'[e] \in {"ensuring", "logging"} => e \in Durable
  PROVE  LogInv'
<1>1. Recovered \subseteq Events
  BY IngestAssumption
<1>2. \A f \in Events : write'[f] \in {"ensuring", "logging"} => f \in Durable
  BY DEF LogInv
<1>3. \A f \in Events : write'[f] = "logged" => keeper' = "recovering" /\ f \in Recovered
  BY DEF LogInv
<1>4. ASSUME NEW f \in Recovered
      PROVE  IF keeper' = "recovering" THEN write'[f] = "logged" ELSE f \in sealed'
  BY <1>1 DEF LogInv
<1> QED BY <1>2, <1>3, <1>4 DEF LogInv

\* A step of a thread, or of the visor, that changes no write
LEMMA LogSame ==
  ASSUME LogInv, UNCHANGED <<write, keeper>>, sealed \subseteq sealed'
  PROVE  LogInv'
BY IngestAssumption DEF LogInv

\* What a step must not do once the state has changed
LEMMA EndStep ==
  ASSUME EndInv, UNCHANGED <<state, keeper>>,
         \A t \in Threads : pc'[t] = "done" => pc[t] = "done",
         \A e \in Events \ Durable :
           /\ keeper \in Late \cup {"changing"} /\ write[e] # "astray" => write'[e] # "astray"
           /\ state = "shutting down" /\ write[e] # "astray" => (InMemory(e)' => InMemory(e))
  PROVE  EndInv'
<1>1. state = "shutting down" => \A e \in Events \ Durable : write[e] # "astray"
  BY DEF EndInv
<1>2. state' = "shutting down" <=> keeper' \in Late
  BY DEF EndInv
<1>3. keeper' \in Late \cup {"changing"} => \A e \in Events \ Durable : write'[e] # "astray"
  BY DEF EndInv
<1>4. ASSUME NEW t \in Threads, pc'[t] = "done"
      PROVE  state' = "shutting down" /\ \A e \in Events \ Durable : ~InMemory(e)'
  <2>1. pc[t] = "done"
    BY <1>4
  <2> QED BY <1>1, <2>1 DEF EndInv
<1> QED BY <1>2, <1>3, <1>4 DEF EndInv

\* Every thread but t stays where it is.
LEMMA Going ==
  ASSUME TypeInv, NEW t \in Threads, NEW where \in ThreadStates, GoOn(t, where)
  PROVE  /\ pc' \in [Threads -> ThreadStates]
         /\ \A u \in Threads : pc'[u] = "done" => pc[u] = "done" \/ where = "done"
BY DEF TypeInv, GoOn

\* A story that is not recorded has no events in its pipeline.
LEMMA Unrecorded ==
  ASSUME StoreInv, NEW s \in Stories, s \notin Recording
  PROVE  pipelines[s].events = {} /\ pipelines[s].deque = <<>>
BY DEF StoreInv, PipelineOf, Recording

\* The facts of the events and stories that the steps need
LEMMA StoryFacts == \A e \in Events : StoryOf[e] \in Stories /\ e \in EventsOf(StoryOf[e])
BY IngestAssumption DEF EventsOf

\* A pipeline is added for a story that has none.
LEMMA Adding ==
  ASSUME StoreInv, NEW s \in Stories, s \notin Recording, addStoryPipeline(s), UNCHANGED orphans
  PROVE  /\ StoreInv' /\ Recording' = Recording \cup {s}
         /\ \A e \in Events : Stays(e) /\ (InMemory(e)' <=> InMemory(e))
<1> DEFINE start == now - (now % Granularity)
           p == [NoPipeline EXCEPT !.live = TRUE, !.start = start, !.end = start + 3 * Granularity,
                                   !.window = AcceptanceWindow]
<1>1. PipelineOf(p, s) /\ p.live /\ p.events = {} /\ p.deque = <<>>
  BY Fresh
<1>2. pipelines' = [pipelines EXCEPT ![s] = p]
  BY DEF addStoryPipeline
<1> HIDE DEF p, start
<1>3. /\ pipelines' = [r \in Stories |-> pipelines'[r]] /\ pipelines'[s] = p
      /\ \A r \in Stories : r # s => pipelines'[r] = pipelines[r]
  BY <1>2 DEF StoreInv
<1>4. \A r \in Stories : PipelineOf(pipelines'[r], r)
  BY <1>1, <1>3 DEF StoreInv
<1>5. StoreInv'
  BY <1>3, <1>4 DEF StoreInv, PipelineOf, OrphansOf
<1>6. Recording' = Recording \cup {s}
  BY <1>1, <1>3 DEF Recording
<1>7. ASSUME NEW e \in Events PROVE Stays(e)
  <2>1. StoryOf[e] \in Stories
    BY StoryFacts
  <2>2. /\ pipelines'[StoryOf[e]].events = pipelines[StoryOf[e]].events
        /\ pipelines'[StoryOf[e]].deque = pipelines[StoryOf[e]].deque
    BY <1>1, <1>3, <2>1, Unrecorded
  <2> QED BY <2>2 DEF Stays, InDeque, InOrphans, InTimeline
<1> QED BY <1>5, <1>6, <1>7 DEF Stays, InMemory

\* The queues of a story hold events of it.
LEMMA QueuesHold ==
  ASSUME StoreInv, NEW s \in Stories
  PROVE  Range(pipelines[s].deque) \subseteq EventsOf(s) /\ Range(orphans[s]) \subseteq EventsOf(s)
<1>1. pipelines[s].deque \in Seq(EventsOf(s)) /\ orphans[s] \in Seq(EventsOf(s))
  BY DEF StoreInv, PipelineOf, OrphansOf
<1>2. \A q \in Seq(EventsOf(s)) : Range(q) \subseteq EventsOf(s)
  BY LenProperties, ElementOfSeq DEF Range
<1> QED BY <1>1, <1>2

-----------------------------------------------------------------------------
(* Start-up, the visor's requests and the writes                           *)

\* The recovered events are sealed; none of them was anywhere before.
LEMMA ReplayInv ==
  ASSUME Inv, replayRecoveredEvents
  PROVE  Inv'
<1> USE DEF Inv
<1>1. /\ keeper = "recovering" /\ keeper' = "serving" /\ sealed' = sealed \cup Recovered
      /\ write' = [e \in Events |-> IF e \in Recovered THEN "taken" ELSE write[e]]
      /\ UNCHANGED <<pipelines, orphans, waitingForExit, pc, listed, state, held, discarded>>
  BY DEF replayRecoveredEvents, ingestSealedChunk, store, threads, history
<1>2. Recovered \subseteq Events /\ Recovered \cap Empty = {} /\ Recovered \subseteq Durable
  BY IngestAssumption
<1>3. StoreInv' /\ Recording' = Recording /\ \A e \in Events : Stays(e) /\ (InMemory(e)' <=> InMemory(e))
  BY <1>1, SameStore
<1>4. TypeInv'
  BY <1>1 DEF TypeInv, WriteStates
<1>5. PlaceInv'
  <2>1. ASSUME NEW e \in Events PROVE Alone(e)'
    <3>1. CASE e \in Recovered
      <4>1. write[e] = "logged" /\ write'[e] = "taken" /\ e \in sealed' /\ e \notin Empty
        BY <1>1, <1>2, <3>1 DEF LogInv
      <4>2. Placeless(e)
        BY <4>1 DEF PlaceInv, Alone
      <4> QED BY <1>1, <1>3, <4>1, <4>2 DEF Alone, Placeless, Stays
    <3>2. CASE e \notin Recovered
      <4>1. write'[e] = write[e] /\ (e \in sealed' <=> e \in sealed)
        BY <1>1, <3>2
      <4> QED BY <1>1, <1>3, <4>1 DEF PlaceInv, Alone, Placeless, Stays
    <3> QED BY <3>1, <3>2
  <2> QED BY <1>1, <1>2, <2>1 DEF PlaceInv
<1>6. LogInv'
  <2>1. \A e \in Events : write'[e] # "logged" /\ (write'[e] \in {"ensuring", "logging"} => e \in Durable)
    <3>1. \A e \in Events : e \notin Recovered /\ write[e] = "logged" => FALSE
      BY <1>1 DEF LogInv
    <3> QED BY <1>1, <1>2, <3>1 DEF LogInv
  <2> QED BY <1>1, <2>1 DEF LogInv
<1>7. StartInv'
  BY <1>1, <1>3 DEF StartInv, WaitingForExit
<1>8. EndInv'
  BY <1>1, <1>2, <1>3 DEF EndInv, Late
<1> QED BY <1>3, <1>4, <1>5, <1>6, <1>7, <1>8

\* The threads start: none has ended.
LEMMA StartDataCollectionInv ==
  ASSUME Inv, startDataCollection
  PROVE  Inv'
<1> USE DEF Inv
<1>1. /\ keeper = "serving" /\ state = "initialized" /\ state' = "running"
      /\ pc' = [t \in Threads |-> "check"]
      /\ UNCHANGED <<pipelines, orphans, waitingForExit, write, listed, keeper, sealed, discarded, held>>
  BY DEF startDataCollection, store, ended, history
<1>2. StoreInv' /\ Recording' = Recording /\ \A e \in Events : Stays(e) /\ (InMemory(e)' <=> InMemory(e))
  BY <1>1, SameStore
<1>3. TypeInv'
  BY <1>1 DEF TypeInv, ThreadStates
<1>4. PlaceInv'
  BY <1>1, <1>2, NothingMoves
<1>5. LogInv'
  BY <1>1, LogSame
<1>6. StartInv'
  BY <1>1, <1>2 DEF StartInv, WaitingForExit
<1>7. EndInv'
  BY <1>1 DEF EndInv, Late
<1> QED BY <1>2, <1>3, <1>4, <1>5, <1>6, <1>7

\* A started story is recorded and no longer waits for exit.
LEMMA StartStoryInv ==
  ASSUME Inv, NEW s \in Stories, startStoryRecording(s)
  PROVE  Inv'
<1> USE DEF Inv
<1>1. /\ UNCHANGED <<orphans, write, pc, listed, state, keeper, sealed, discarded>>
      /\ held' = held \cup {s}
  BY DEF startStoryRecording, threads, control, ended
<1>2. IF s \in Recording
      THEN waitingForExit' = [waitingForExit EXCEPT ![s] = NoExit] /\ UNCHANGED pipelines
      ELSE addStoryPipeline(s) /\ UNCHANGED waitingForExit
  BY DEF startStoryRecording
<1>3. /\ StoreInv' /\ Recording' = Recording \cup {s}
      /\ \A e \in Events : Stays(e) /\ (InMemory(e)' <=> InMemory(e))
  <2>1. CASE s \in Recording
    BY <1>1, <1>2, <2>1, SameStore
  <2>2. CASE s \notin Recording
    BY <1>1, <1>2, <2>2, Adding
  <2> QED BY <2>1, <2>2
<1>4. /\ waitingForExit' = [r \in Stories |-> waitingForExit'[r]]
      /\ \A r \in Stories : r # s => waitingForExit'[r] = waitingForExit[r]
      /\ waitingForExit'[s] = NoExit
  <2>1. s \notin Recording => waitingForExit[s] = NoExit
    BY DEF StartInv, WaitingForExit
  <2> QED BY <1>2, <2>1 DEF TypeInv
<1>5. TypeInv'
  BY <1>1, <1>4 DEF TypeInv
<1>6. PlaceInv'
  BY <1>1, <1>3, NothingMoves
<1>7. LogInv'
  BY <1>1, LogSame
<1>8. StartInv'
  <2>1. WaitingForExit' = WaitingForExit \ {s}
    BY <1>4 DEF WaitingForExit, NoExit
  <2> QED BY <1>1, <1>3, <2>1 DEF StartInv
<1>9. EndInv'
  BY <1>1, <1>3, EndStep
<1> QED BY <1>3, <1>5, <1>6, <1>7, <1>8, <1>9

\* A stopped story waits for exit and is not held any more.
LEMMA StopStoryInv ==
  ASSUME Inv, NEW s \in Stories, stopStoryRecording(s)
  PROVE  Inv'
<1> USE DEF Inv
<1>1. /\ UNCHANGED <<pipelines, orphans, write, pc, listed, state, keeper, sealed, discarded>>
      /\ held' = held \ {s}
  BY DEF stopStoryRecording, threads, control, ended
<1>2. /\ waitingForExit' = [r \in Stories |-> waitingForExit'[r]]
      /\ \A r \in Stories : r # s => waitingForExit'[r] = waitingForExit[r]
      /\ s \notin Recording => waitingForExit'[s] = waitingForExit[s]
  BY DEF stopStoryRecording, TypeInv
<1>3. StoreInv' /\ Recording' = Recording /\ \A e \in Events : Stays(e) /\ (InMemory(e)' <=> InMemory(e))
  BY <1>1, SameStore
<1>4. TypeInv'
  BY <1>1, <1>2 DEF TypeInv
<1>5. PlaceInv'
  BY <1>1, <1>3, NothingMoves
<1>6. LogInv'
  BY <1>1, LogSame
<1>7. StartInv'
  <2>1. \A r \in Stories : r # s => (r \in WaitingForExit' <=> r \in WaitingForExit)
    BY <1>2 DEF WaitingForExit, NoExit
  <2>2. s \notin Recording => s \notin WaitingForExit'
    <3>1. s \notin Recording => waitingForExit[s] = NoExit
      BY DEF StartInv, WaitingForExit
    <3> QED BY <1>2, <3>1 DEF WaitingForExit, NoExit
  <2>3. WaitingForExit' \subseteq Stories
    BY DEF WaitingForExit
  <2> QED BY <1>1, <1>3, <2>1, <2>2, <2>3 DEF StartInv
<1>8. EndInv'
  BY <1>1, <1>3, EndStep
<1> QED BY <1>3, <1>4, <1>5, <1>6, <1>7, <1>8

\* An event goes into the handle of its story, or astray when there is none.
LEMMA IngestStep ==
  ASSUME Inv, NEW e \in Events, write[e] \in {"new", "logging"}, Ingest(e),
         UNCHANGED <<orphans, waitingForExit, pc, listed, state, keeper, sealed, discarded, held>>,
         e \notin Durable => keeper = "serving"
  PROVE  Inv'
<1> USE DEF Inv
<1> DEFINE s == StoryOf[e]
<1>1. s \in Stories /\ e \in EventsOf(s)
  BY StoryFacts
<1> HIDE DEF s
<1>2. Placeless(e)
  BY DEF PlaceInv, Alone
<1>3. CASE s \in Recording
  <2>1. pipelines' = [pipelines EXCEPT ![s].deque = Append(@, e)] /\ write' = [write EXCEPT ![e] = "taken"]
    BY <1>3 DEF Ingest, s
  <2> DEFINE p == pipelines[s]
             q == [p EXCEPT !.deque = Append(p.deque, e)]
  <2>2. PipelineOf(p, s) /\ p.live
    BY <1>1, <1>3 DEF StoreInv, Recording
  <2>3. /\ pipelines' = [r \in Stories |-> pipelines'[r]] /\ pipelines'[s] = q
        /\ \A r \in Stories : r # s => pipelines'[r] = pipelines[r]
    BY <1>1, <2>1 DEF StoreInv
  <2>4. e \notin Range(p.deque)
    BY <1>2 DEF Placeless, InDeque, s
  <2> HIDE DEF p
  <2>5. /\ Append(p.deque, e) \in Seq(EventsOf(s)) /\ Range(Append(p.deque, e)) = Range(p.deque) \cup {e}
        /\ Distinct(Append(p.deque, e))
    BY <1>1, <2>2, <2>4, Appended DEF PipelineOf
  <2>6. Shape(q) /\ q.live = p.live /\ q.events = p.events /\ q.deque = Append(p.deque, e)
    BY <2>2 DEF PipelineOf, Shape, Fields
  <2> HIDE DEF q
  <2>7. PipelineOf(q, s)
    BY <2>2, <2>5, <2>6 DEF PipelineOf
  <2>8. StoreInv'
    BY <2>3, <2>7 DEF StoreInv, PipelineOf, OrphansOf
  <2>9. Recording' = Recording
    BY <2>2, <2>3, <2>6 DEF Recording, p
  <2>10. /\ InDeque(e)' /\ (InOrphans(e)' <=> InOrphans(e)) /\ (InTimeline(e)' <=> InTimeline(e))
    BY <2>3, <2>5, <2>6 DEF InDeque, InOrphans, InTimeline, s, p
  <2>11. ASSUME NEW f \in Events, f # e PROVE Stays(f) /\ (InMemory(f)' <=> InMemory(f))
    <3>1. StoryOf[f] \in Stories
      BY StoryFacts
    <3>2. /\ f \in Range(pipelines'[StoryOf[f]].deque) <=> f \in Range(pipelines[StoryOf[f]].deque)
          /\ pipelines'[StoryOf[f]].events = pipelines[StoryOf[f]].events
      BY <2>3, <2>5, <2>6, <2>11, <3>1 DEF p
    <3> QED BY <3>2 DEF Stays, InMemory, InDeque, InOrphans, InTimeline
  <2>12. /\ write' \in [Events -> WriteStates] /\ write'[e] = "taken"
         /\ \A f \in Events : f # e => write'[f] = write[f]
    BY <2>1, OneWrite DEF WriteStates
  <2>13. TypeInv'
    BY <2>12 DEF TypeInv
  <2>14. PlaceInv'
    <3>1. Alone(e)'
      BY <1>2, <2>10, <2>12 DEF Alone, Placeless
    <3>2. ASSUME NEW f \in Events, f # e PROVE Alone(f)'
      BY <2>11, <2>12, <3>2 DEF PlaceInv, Alone, Placeless, Stays
    <3> QED BY <3>1, <3>2 DEF PlaceInv
  <2>15. LogInv'
    BY <2>12, LogStep
  <2>16. StartInv'
    BY <2>9 DEF StartInv, WaitingForExit
  <2>17. EndInv'
    <3>1. e \notin Durable => state # "shutting down"
      BY DEF EndInv, Late
    <3>2. ASSUME NEW f \in Events \ Durable
          PROVE  /\ write[f] # "astray" => write'[f] # "astray"
                 /\ state = "shutting down" => (InMemory(f)' => InMemory(f))
      BY <2>11, <2>12, <3>1
    <3> QED BY <3>2, EndStep
  <2> QED BY <2>8, <2>13, <2>14, <2>15, <2>16, <2>17
<1>4. CASE s \notin Recording
  <2>1. write' = [write EXCEPT ![e] = "astray"] /\ UNCHANGED pipelines
    BY <1>4 DEF Ingest, s
  <2>2. StoreInv' /\ Recording' = Recording /\ \A f \in Events : Stays(f) /\ (InMemory(f)' <=> InMemory(f))
    BY <2>1, SameStore
  <2>3. /\ write' \in [Events -> WriteStates] /\ write'[e] = "astray"
        /\ \A f \in Events : f # e => write'[f] = write[f]
    BY <2>1, OneWrite DEF WriteStates
  <2>4. TypeInv'
    BY <2>3 DEF TypeInv
  <2>5. PlaceInv'
    <3>1. \A f \in Events : write'[f] = "taken" <=> write[f] = "taken"
      BY <2>3
    <3> QED BY <2>2, <3>1, NothingMoves
  <2>6. LogInv'
    BY <2>3, LogStep
  <2>7. StartInv'
    BY <2>2 DEF StartInv, WaitingForExit
  <2>8. EndInv'
    <3>1. e \notin Durable => keeper \notin Late \cup {"changing"}
      BY DEF Late
    <3>2. ASSUME NEW f \in Events \ Durable, keeper \in Late \cup {"changing"}, write[f] # "astray"
          PROVE  write'[f] # "astray"
      BY <2>3, <3>1, <3>2
    <3> QED BY <2>2, <3>2, EndStep
  <2> QED BY <2>2, <2>4, <2>5, <2>6, <2>7, <2>8
<1> QED BY <1>3, <1>4

\* Both kinds of write ingest that way.
LEMMA WriteInv ==
  ASSUME Inv, NEW e \in Events, record_event(e) \/ IngestDurable(e)
  PROVE  Inv'
<1>1. CASE record_event(e)
  BY <1>1, IngestStep DEF record_event, threads, control, ended, history
<1>2. CASE IngestDurable(e)
  <2>1. e \in Durable
    BY <1>2 DEF IngestDurable, Inv, LogInv
  <2> QED BY <1>2, <2>1, IngestStep DEF IngestDurable, threads, control, ended, history
<1> QED BY <1>1, <1>2

\* An event that went astray is put with the orphans of its story.
LEMMA StoreOrphanInv ==
  ASSUME Inv, NEW e \in Events, StoreOrphan(e)
  PROVE  Inv'
<1> USE DEF Inv
<1> DEFINE s == StoryOf[e]
<1>1. s \in Stories /\ e \in EventsOf(s)
  BY StoryFacts
<1>2. /\ write[e] = "astray" /\ orphans' = [orphans EXCEPT ![s] = Append(@, e)]
      /\ write' = [write EXCEPT ![e] = "taken"]
      /\ UNCHANGED <<pipelines, waitingForExit, pc, listed, state, keeper, sealed, discarded, held>>
  BY DEF StoreOrphan, store, threads, control, ended, history
<1>3. Placeless(e)
  BY <1>2 DEF PlaceInv, Alone
<1> DEFINE q == Append(orphans[s], e)
<1>4. /\ orphans' = [r \in Stories |-> orphans'[r]] /\ orphans'[s] = q
      /\ \A r \in Stories : r # s => orphans'[r] = orphans[r]
  BY <1>1, <1>2 DEF StoreInv
<1>5. OrphansOf(orphans[s], s) /\ e \notin Range(orphans[s])
  BY <1>1, <1>3 DEF StoreInv, Placeless, InOrphans
<1>6. q \in Seq(EventsOf(s)) /\ Range(q) = Range(orphans[s]) \cup {e} /\ Distinct(q)
  BY <1>1, <1>5, Appended DEF OrphansOf
<1> HIDE DEF q, s
<1>7. StoreInv'
  BY <1>2, <1>4, <1>6 DEF StoreInv, PipelineOf, OrphansOf
<1>8. Recording' = Recording
  BY <1>2 DEF Recording
<1>9. InOrphans(e)' /\ (InDeque(e)' <=> InDeque(e)) /\ (InTimeline(e)' <=> InTimeline(e))
  BY <1>2, <1>4, <1>6 DEF InDeque, InOrphans, InTimeline, s
<1>10. ASSUME NEW f \in Events, f # e PROVE Stays(f) /\ (InMemory(f)' <=> InMemory(f))
  <2>1. StoryOf[f] \in Stories
    BY StoryFacts
  <2>2. f \in Range(orphans'[StoryOf[f]]) <=> f \in Range(orphans[StoryOf[f]])
    BY <1>4, <1>6, <1>10, <2>1
  <2> QED BY <1>2, <2>2 DEF Stays, InMemory, InDeque, InOrphans, InTimeline
<1>11. /\ write' \in [Events -> WriteStates] /\ write'[e] = "taken"
       /\ \A f \in Events : f # e => write'[f] = write[f]
  BY <1>2, OneWrite DEF WriteStates
<1>12. TypeInv'
  BY <1>2, <1>11 DEF TypeInv
<1>13. PlaceInv'
  <2>1. Alone(e)'
    BY <1>2, <1>3, <1>9, <1>11 DEF Alone, Placeless
  <2>2. ASSUME NEW f \in Events, f # e PROVE Alone(f)'
    BY <1>2, <1>10, <1>11, <2>2 DEF PlaceInv, Alone, Placeless, Stays
  <2> QED BY <1>2, <2>1, <2>2 DEF PlaceInv
<1>14. LogInv'
  BY <1>2, <1>11, LogStep
<1>15. StartInv'
  BY <1>2, <1>8 DEF StartInv, WaitingForExit
<1>16. EndInv'
  <2>1. ASSUME NEW f \in Events \ Durable
        PROVE  /\ write[f] # "astray" => write'[f] # "astray"
               /\ write[f] # "astray" => (InMemory(f)' => InMemory(f))
    BY <1>2, <1>10, <1>11
  <2> QED BY <1>2, <2>1, EndStep
<1> QED BY <1>7, <1>12, <1>13, <1>14, <1>15, <1>16

\* A durable write looks for a pipeline.
LEMMA LookupInv ==
  ASSUME Inv, NEW e \in Events, hasStoryIngestionHandle(e)
  PROVE  Inv'
<1> USE DEF Inv
<1>1. /\ write[e] = "new" /\ e \in Durable
      /\ UNCHANGED <<pipelines, orphans, waitingForExit, pc, listed, state, keeper, sealed, discarded, held>>
      /\ \E w \in {"logging", "ensuring"} : write' = [write EXCEPT ![e] = w]
  BY DEF hasStoryIngestionHandle, store, threads, control, ended, history
<1>2. /\ write' \in [Events -> WriteStates] /\ write'[e] \in {"logging", "ensuring"}
      /\ \A f \in Events : f # e => write'[f] = write[f]
  BY <1>1, OneWrite DEF WriteStates
<1>3. StoreInv' /\ Recording' = Recording /\ \A f \in Events : Stays(f) /\ (InMemory(f)' <=> InMemory(f))
  BY <1>1, SameStore
<1>4. TypeInv'
  BY <1>1, <1>2 DEF TypeInv
<1>5. PlaceInv'
  <2>1. \A f \in Events : write'[f] = "taken" <=> write[f] = "taken"
    BY <1>1, <1>2
  <2> QED BY <1>1, <1>3, <2>1, NothingMoves
<1>6. LogInv'
  BY <1>1, <1>2, LogStep
<1>7. StartInv'
  BY <1>1, <1>3 DEF StartInv, WaitingForExit
<1>8. EndInv'
  <2>1. \A f \in Events \ Durable : write[f] # "astray" => write'[f] # "astray"
    BY <1>1, <1>2
  <2> QED BY <1>1, <1>3, <2>1, EndStep
<1> QED BY <1>3, <1>4, <1>5, <1>6, <1>7, <1>8

\* A durable write makes sure there is one; it is not held by the visor.
LEMMA EnsureInv ==
  ASSUME Inv, NEW e \in Events, ensureStoryPipeline(e)
  PROVE  Inv'
<1> USE DEF Inv
<1> DEFINE s == StoryOf[e]
<1>1. s \in Stories
  BY StoryFacts
<1>2. /\ write[e] = "ensuring"
      /\ UNCHANGED <<orphans, pc, listed, state, keeper, sealed, discarded, held>>
      /\ \E w \in {"logging", "refused"} : write' = [write EXCEPT ![e] = w]
  BY DEF ensureStoryPipeline, threads, control, ended, history
<1>3. \/ UNCHANGED <<pipelines, waitingForExit>>
      \/ /\ s \notin Recording /\ addStoryPipeline(s)
         /\ waitingForExit' = [waitingForExit EXCEPT ![s] = now + AcceptanceWindow]
  BY DEF ensureStoryPipeline, store
<1> HIDE DEF s
<1>4. e \in Durable
  BY <1>2 DEF LogInv
<1>5. /\ write' \in [Events -> WriteStates] /\ write'[e] \in {"logging", "refused"}
      /\ \A f \in Events : f # e => write'[f] = write[f]
  BY <1>2, OneWrite DEF WriteStates
<1>6. /\ StoreInv' /\ \A f \in Events : Stays(f) /\ (InMemory(f)' <=> InMemory(f))
      /\ waitingForExit' = [r \in Stories |-> waitingForExit'[r]]
      /\ StartInv'
  <2>1. CASE UNCHANGED <<pipelines, waitingForExit>>
    <3>1. StoreInv' /\ Recording' = Recording /\ \A f \in Events : Stays(f) /\ (InMemory(f)' <=> InMemory(f))
      BY <1>2, <2>1, SameStore
    <3> QED BY <1>2, <2>1, <3>1 DEF StartInv, WaitingForExit, TypeInv
  <2>2. CASE /\ s \notin Recording /\ addStoryPipeline(s)
             /\ waitingForExit' = [waitingForExit EXCEPT ![s] = now + AcceptanceWindow]
    <3>1. /\ StoreInv' /\ Recording' = Recording \cup {s}
          /\ \A f \in Events : Stays(f) /\ (InMemory(f)' <=> InMemory(f))
      BY <1>1, <1>2, <2>2, Adding
    <3>2. /\ waitingForExit' = [r \in Stories |-> waitingForExit'[r]]
          /\ \A r \in Stories : r # s => waitingForExit'[r] = waitingForExit[r]
      BY <2>2 DEF TypeInv
    <3>3. WaitingForExit' \subseteq WaitingForExit \cup {s}
      BY <3>2 DEF WaitingForExit, NoExit
    <3> QED BY <1>2, <2>2, <3>1, <3>2, <3>3 DEF StartInv
  <2> QED BY <1>3, <2>1, <2>2
<1>7. TypeInv'
  BY <1>2, <1>5, <1>6 DEF TypeInv
<1>8. PlaceInv'
  <2>1. \A f \in Events : write'[f] = "taken" <=> write[f] = "taken"
    BY <1>2, <1>5
  <2> QED BY <1>2, <1>6, <2>1, NothingMoves
<1>9. LogInv'
  BY <1>2, <1>4, <1>5, LogStep
<1>10. EndInv'
  <2>1. \A f \in Events \ Durable : write[f] # "astray" => write'[f] # "astray"
    BY <1>4, <1>5
  <2> QED BY <1>2, <1>6, <2>1, EndStep
<1> QED BY <1>6, <1>7, <1>8, <1>9, <1>10

-----------------------------------------------------------------------------
(* The collection threads                                                  *)

\* A thread ends: the queues and the pipelines are empty.
LEMMA EndTaskInv ==
  ASSUME Inv, NEW t \in Threads, EndTask(t)
  PROVE  Inv'
<1> USE DEF Inv
<1>1. /\ ~KeepCollecting /\ GoOn(t, "done")
      /\ UNCHANGED <<pipelines, orphans, waitingForExit, write, listed, state, keeper, sealed, discarded, held>>
  BY DEF EndTask, store, control, ended, history
<1>2. StoreInv' /\ Recording' = Recording /\ \A e \in Events : Stays(e) /\ (InMemory(e)' <=> InMemory(e))
  BY <1>1, SameStore
<1>3. TypeInv'
  BY <1>1, Going DEF TypeInv, ThreadStates
<1>4. PlaceInv'
  BY <1>1, <1>2, NothingMoves
<1>5. LogInv'
  BY <1>1, LogSame
<1>6. StartInv'
  BY <1>1, <1>2 DEF StartInv, WaitingForExit
<1>7. EndInv'
  <2>1. state = "shutting down" /\ Orphans = {} /\ Recording = {}
    BY <1>1 DEF KeepCollecting, is_empty
  <2>2. ASSUME NEW e \in Events PROVE ~InMemory(e)
    <3>1. StoryOf[e] \in Stories
      BY StoryFacts
    <3>2. pipelines[StoryOf[e]].events = {} /\ pipelines[StoryOf[e]].deque = <<>>
      BY <2>1, <3>1, Unrecorded
    <3>3. e \notin Range(orphans[StoryOf[e]])
      BY <2>1, <3>1 DEF Orphans
    <3> QED BY <3>2, <3>3, Nothing DEF InMemory, InDeque, InOrphans, InTimeline
  <2> QED BY <1>1, <1>2, <2>1, <2>2 DEF EndInv
<1> QED BY <1>2, <1>3, <1>4, <1>5, <1>6, <1>7

\* The orphans of the recorded stories go into their handles.
LEMMA DrainInv ==
  ASSUME Inv, NEW t \in Threads, drainOrphanEvents(t)
  PROVE  Inv'
<1> USE DEF Inv
<1>1. /\ GoOn(t, "collect")
      /\ pipelines' = [s \in Stories |->
           IF s \in Recording THEN [pipelines[s] EXCEPT !.deque = @ \o orphans[s]] ELSE pipelines[s]]
      /\ orphans' = [s \in Stories |-> IF s \in Recording THEN <<>> ELSE orphans[s]]
      /\ UNCHANGED <<waitingForExit, write, listed, state, keeper, sealed, discarded, held>>
  BY DEF drainOrphanEvents, control, ended, history
<1>2. ASSUME NEW s \in Stories, s \in Recording
      PROVE  /\ PipelineOf(pipelines'[s], s) /\ pipelines'[s].live /\ orphans'[s] = <<>>
             /\ pipelines'[s].events = pipelines[s].events
             /\ Range(pipelines'[s].deque) = Range(pipelines[s].deque) \cup Range(orphans[s])
  <2> DEFINE p == pipelines[s]
             q == [p EXCEPT !.deque = p.deque \o orphans[s]]
  <2>1. pipelines'[s] = q /\ orphans'[s] = <<>>
    BY <1>1, <1>2
  <2>2. PipelineOf(p, s) /\ p.live /\ OrphansOf(orphans[s], s)
    BY <1>2 DEF StoreInv, Recording
  <2>3. Range(p.deque) \cap Range(orphans[s]) = {}
    <3>1. SUFFICES ASSUME NEW e, e \in Range(p.deque), e \in Range(orphans[s]) PROVE FALSE
      OBVIOUS
    <3>2. e \in EventsOf(s)
      BY <3>1, QueuesHold
    <3>3. e \in Events /\ InDeque(e) /\ InOrphans(e)
      BY <3>1, <3>2 DEF InDeque, InOrphans, EventsOf
    <3> QED BY <3>3 DEF PlaceInv, Alone
  <2> HIDE DEF p
  <2>4. /\ p.deque \o orphans[s] \in Seq(EventsOf(s)) /\ Distinct(p.deque \o orphans[s])
        /\ Range(p.deque \o orphans[s]) = Range(p.deque) \cup Range(orphans[s])
    BY <2>2, <2>3, Chained DEF PipelineOf, OrphansOf
  <2>5. Shape(q) /\ q.live = p.live /\ q.events = p.events /\ q.deque = p.deque \o orphans[s]
    BY <2>2 DEF PipelineOf, Shape, Fields
  <2> HIDE DEF q
  <2>6. PipelineOf(q, s)
    BY <2>2, <2>4, <2>5 DEF PipelineOf
  <2> QED BY <2>1, <2>2, <2>4, <2>5, <2>6 DEF p
<1>3. ASSUME NEW s \in Stories, s \notin Recording
      PROVE  pipelines'[s] = pipelines[s] /\ orphans'[s] = orphans[s]
  BY <1>1, <1>3
<1>4. \A s \in Stories : PipelineOf(pipelines'[s], s) /\ OrphansOf(orphans'[s], s)
  BY <1>2, <1>3, Nothing DEF StoreInv, OrphansOf
<1>5. StoreInv'
  BY <1>1, <1>4 DEF StoreInv, PipelineOf, OrphansOf
<1>6. Recording' = Recording
  BY <1>2, <1>3 DEF Recording
<1>7. ASSUME NEW e \in Events
      PROVE  /\ InTimeline(e)' <=> InTimeline(e)
             /\ IF StoryOf[e] \in Recording
                THEN ~InOrphans(e)' /\ (InDeque(e)' <=> InDeque(e) \/ InOrphans(e))
                ELSE (InOrphans(e)' <=> InOrphans(e)) /\ (InDeque(e)' <=> InDeque(e))
             /\ InMemory(e)' <=> InMemory(e)
  <2>1. StoryOf[e] \in Stories
    BY StoryFacts
  <2> QED BY <1>2, <1>3, <2>1, Nothing DEF InMemory, InDeque, InOrphans, InTimeline
<1>8. TypeInv'
  BY <1>1, Going DEF TypeInv, ThreadStates
<1>9. PlaceInv'
  <2>1. ASSUME NEW e \in Events PROVE Alone(e)'
    BY <1>1, <1>7 DEF PlaceInv, Alone, Placeless
  <2> QED BY <1>1, <2>1 DEF PlaceInv
<1>10. LogInv'
  BY <1>1, LogSame
<1>11. StartInv'
  BY <1>1, <1>6 DEF StartInv, WaitingForExit
<1>12. EndInv'
  <2>1. \A u \in Threads : pc'[u] = "done" => pc[u] = "done"
    BY <1>1, Going DEF ThreadStates
  <2> QED BY <1>1, <1>7, <2>1, EndStep
<1> QED BY <1>5, <1>8, <1>9, <1>10, <1>11, <1>12

\* Every handle is merged: its events are in the timeline, or cannot be placed.
LEMMA CollectInv ==
  ASSUME Inv, NEW t \in Threads, collectIngestedEvents(t)
  PROVE  Inv'
<1> USE DEF Inv
<1>1. /\ GoOn(t, "extract") /\ pipelines' = [s \in Stories |-> mergeEvents(pipelines[s])]
      /\ discarded' = discarded \cup UNION {Unplaced(pipelines[s].deque) : s \in Stories}
      /\ UNCHANGED <<orphans, waitingForExit, write, listed, state, keeper, sealed, held>>
  BY DEF collectIngestedEvents, control, history
<1>2. ASSUME NEW s \in Stories
      PROVE  /\ PipelineOf(pipelines'[s], s) /\ pipelines'[s].live = pipelines[s].live
             /\ pipelines'[s].deque = <<>>
             /\ pipelines'[s].events = pipelines[s].events \cup Placed(pipelines[s].deque)
  <2>1. PipelineOf(pipelines[s], s) /\ pipelines'[s] = mergeEvents(pipelines[s])
    BY <1>1 DEF StoreInv
  <2> QED BY <2>1, Merged
<1>3. StoreInv'
  BY <1>1, <1>2 DEF StoreInv, PipelineOf, OrphansOf
<1>4. Recording' = Recording
  BY <1>2 DEF Recording
<1>5. ASSUME NEW e \in Events
      PROVE  /\ ~InDeque(e)' /\ (InOrphans(e)' <=> InOrphans(e))
             /\ InTimeline(e)' <=> InTimeline(e) \/ (InDeque(e) /\ e \notin Empty)
  <2>1. StoryOf[e] \in Stories
    BY StoryFacts
  <2> QED BY <1>1, <1>2, <2>1, Nothing DEF InDeque, InOrphans, InTimeline, Placed
<1>6. ASSUME NEW e \in Events
      PROVE  e \in discarded' <=> e \in discarded \/ (InDeque(e) /\ e \in Empty)
  <2>1. \A s \in Stories : e \in Range(pipelines[s].deque) => s = StoryOf[e]
    BY QueuesHold DEF EventsOf
  <2>2. StoryOf[e] \in Stories
    BY StoryFacts
  <2> QED BY <1>1, <2>1, <2>2 DEF Unplaced, InDeque
<1>7. discarded' \subseteq Events
  <2>1. \A s \in Stories : Range(pipelines[s].deque) \subseteq Events
    BY QueuesHold DEF EventsOf
  <2> QED BY <1>1, <2>1 DEF Unplaced, PlaceInv
<1>8. TypeInv'
  BY <1>1, Going DEF TypeInv, ThreadStates
<1>9. PlaceInv'
  <2>1. ASSUME NEW e \in Events PROVE Alone(e)'
    BY <1>1, <1>5, <1>6 DEF PlaceInv, Alone, Placeless
  <2> QED BY <1>1, <1>7, <2>1 DEF PlaceInv
<1>10. LogInv'
  BY <1>1, LogSame
<1>11. StartInv'
  BY <1>1, <1>4 DEF StartInv, WaitingForExit
<1>12. EndInv'
  <2>1. \A u \in Threads : pc'[u] = "done" => pc[u] = "done"
    BY <1>1, Going DEF ThreadStates
  <2>2. \A e \in Events : InMemory(e)' => InMemory(e)
    BY <1>5 DEF InMemory
  <2> QED BY <1>1, <2>1, <2>2, EndStep
<1> QED BY <1>3, <1>8, <1>9, <1>10, <1>11, <1>12

\* What leaves a timeline is sealed, whichever chunks were due.
LEMMA ExtractInv ==
  ASSUME Inv, NEW t \in Threads, extractDecayedStoryChunks(t)
  PROVE  Inv'
<1> USE DEF Inv
<1>1. PICK reading \in Readings, S \in SUBSET Stories, where \in {"retire", "spinning"} :
        Extract(t, S, reading) /\ GoOn(t, where)
  BY DEF extractDecayedStoryChunks, Recording
<1>2. UNCHANGED <<orphans, waitingForExit, write, listed, state, keeper, discarded, held>>
  BY DEF extractDecayedStoryChunks, control, history
<1> DEFINE Kept(s) == Behead(pipelines[s], Decayed(pipelines[s], reading))
<1>3. /\ pipelines' = [s \in Stories |-> IF s \in S THEN Kept(s) ELSE pipelines[s]]
      /\ sealed' = sealed \cup UNION {pipelines[s].events \ Kept(s).events : s \in S}
  BY <1>1 DEF Extract, ingestSealedChunk
<1>4. ASSUME NEW s \in Stories
      PROVE  PipelineOf(Kept(s), s) /\ Kept(s).live = pipelines[s].live /\ Kept(s).deque = pipelines[s].deque
             /\ Kept(s).events \subseteq pipelines[s].events
  <2>1. PipelineOf(pipelines[s], s)
    BY DEF StoreInv
  <2> QED BY <2>1, Beheaded
<1> HIDE DEF Kept
<1>5. ASSUME NEW s \in Stories
      PROVE  /\ PipelineOf(pipelines'[s], s) /\ pipelines'[s].live = pipelines[s].live
             /\ pipelines'[s].deque = pipelines[s].deque /\ pipelines'[s].events \subseteq pipelines[s].events
             /\ s \in S => pipelines'[s].events = Kept(s).events
             /\ s \notin S => pipelines'[s].events = pipelines[s].events
  <2>1. PipelineOf(pipelines[s], s)
    BY DEF StoreInv
  <2> QED BY <1>3, <1>4, <2>1
<1>6. StoreInv'
  BY <1>2, <1>3, <1>5 DEF StoreInv, PipelineOf, OrphansOf
<1>7. Recording' = Recording
  BY <1>5 DEF Recording
<1>8. ASSUME NEW e \in Events
      PROVE  /\ (InDeque(e)' <=> InDeque(e)) /\ (InOrphans(e)' <=> InOrphans(e))
             /\ InTimeline(e)' => InTimeline(e)
             /\ e \in sealed' <=> e \in sealed \/ (InTimeline(e) /\ ~InTimeline(e)')
  <2>1. StoryOf[e] \in Stories
    BY StoryFacts
  <2>2. \A s \in Stories : e \in pipelines[s].events => s = StoryOf[e]
    BY DEF StoreInv, PipelineOf, EventsOf
  <2>3. e \in sealed' <=> e \in sealed \/ \E s \in S : e \in pipelines[s].events /\ e \notin Kept(s).events
    BY <1>3
  <2> QED BY <1>2, <1>5, <2>1, <2>2, <2>3 DEF InDeque, InOrphans, InTimeline
<1>9. sealed' \subseteq Events
  <2>1. \A s \in Stories : pipelines[s].events \subseteq Events
    BY DEF StoreInv, PipelineOf, EventsOf
  <2> QED BY <1>3, <2>1 DEF PlaceInv
<1>10. TypeInv'
  BY <1>1, <1>2, Going DEF TypeInv, ThreadStates
<1>11. PlaceInv'
  <2>1. ASSUME NEW e \in Events PROVE Alone(e)'
    BY <1>2, <1>8 DEF PlaceInv, Alone, Placeless
  <2> QED BY <1>2, <1>9, <2>1 DEF PlaceInv
<1>12. LogInv'
  BY <1>2, <1>3, LogSame
<1>13. StartInv'
  BY <1>2, <1>7 DEF StartInv, WaitingForExit
<1>14. EndInv'
  <2>1. \A u \in Threads : pc'[u] = "done" => pc[u] = "done"
    BY <1>1, Going DEF ThreadStates
  <2>2. \A e \in Events : InMemory(e)' => InMemory(e)
    BY <1>8 DEF InMemory
  <2> QED BY <1>2, <2>1, <2>2, EndStep
<1> QED BY <1>6, <1>10, <1>11, <1>12, <1>13, <1>14

\* A pipeline that retires gives up what its handle and its timeline hold.
LEMMA RetireInv ==
  ASSUME Inv, NEW t \in Threads, retireDecayedPipelines(t)
  PROVE  Inv'
<1> USE DEF Inv
<1> DEFINE due == {s \in WaitingForExit : now >= waitingForExit[s]}
           retired == {s \in due : ~StillFed(s)}
<1>1. /\ GoOn(t, "list")
      /\ pipelines' = [s \in Stories |-> IF s \in retired THEN NoPipeline ELSE pipelines[s]]
      /\ waitingForExit' = [s \in Stories |-> IF s \in retired THEN NoExit
                              ELSE IF s \in due THEN pipelines[s].lastArrival + pipelines[s].window
                              ELSE waitingForExit[s]]
      /\ sealed' = sealed \cup UNION {mergeEvents(pipelines[s]).events : s \in retired}
      /\ discarded' = discarded \cup UNION {Unplaced(pipelines[s].deque) : s \in retired}
      /\ UNCHANGED <<orphans, write, listed, state, keeper, held>>
  BY DEF retireDecayedPipelines, ingestSealedChunk, control, history
<1>2. retired \subseteq due /\ due \subseteq WaitingForExit /\ due \subseteq Stories
  BY DEF WaitingForExit
<1> HIDE DEF retired, due
<1>3. ASSUME NEW s \in Stories
      PROVE  /\ PipelineOf(pipelines[s], s)
             /\ mergeEvents(pipelines[s]).events = pipelines[s].events \cup Placed(pipelines[s].deque)
  <2>1. PipelineOf(pipelines[s], s)
    BY DEF StoreInv
  <2> QED BY <2>1, Merged
<1>4. ASSUME NEW s \in Stories
      PROVE  /\ PipelineOf(pipelines'[s], s)
             /\ s \in retired => ~pipelines'[s].live /\ pipelines'[s].events = {} /\ pipelines'[s].deque = <<>>
             /\ s \notin retired => pipelines'[s] = pipelines[s]
  BY <1>1, <1>3, Fresh
<1>5. StoreInv'
  BY <1>1, <1>4 DEF StoreInv, PipelineOf, OrphansOf
<1>6. Recording' = Recording \ retired
  BY <1>4 DEF Recording
<1>7. \A s \in Stories : /\ Range(pipelines[s].deque) \subseteq EventsOf(s)
                         /\ pipelines[s].events \subseteq EventsOf(s)
  BY <1>3, QueuesHold DEF PipelineOf
<1>8. ASSUME NEW e \in Events
      PROVE  /\ InOrphans(e)' <=> InOrphans(e)
             /\ IF StoryOf[e] \in retired
                THEN /\ ~InDeque(e)' /\ ~InTimeline(e)'
                     /\ e \in sealed' <=> e \in sealed \/ InTimeline(e) \/ (InDeque(e) /\ e \notin Empty)
                     /\ e \in discarded' <=> e \in discarded \/ (InDeque(e) /\ e \in Empty)
                ELSE /\ Stays(e) /\ (e \in sealed' <=> e \in sealed) /\ (e \in discarded' <=> e \in discarded)
  <2>1. StoryOf[e] \in Stories /\ \A s \in Stories : e \in EventsOf(s) => s = StoryOf[e]
    BY StoryFacts DEF EventsOf
  <2>2. e \in sealed' <=> e \in sealed \/ \E s \in retired : e \in pipelines[s].events \cup Placed(pipelines[s].deque)
    BY <1>1, <1>2, <1>3
  <2>3. e \in discarded' <=> e \in discarded \/ \E s \in retired : e \in Unplaced(pipelines[s].deque)
    BY <1>1
  <2>4. \A s \in retired : s # StoryOf[e] =>
          e \notin pipelines[s].events \cup Placed(pipelines[s].deque) /\ e \notin Unplaced(pipelines[s].deque)
    BY <1>2, <1>7, <2>1 DEF Placed, Unplaced
  <2>5. InOrphans(e)' <=> InOrphans(e)
    BY <1>1 DEF InOrphans
  <2>6. CASE StoryOf[e] \in retired
    <3>1. ~InDeque(e)' /\ ~InTimeline(e)'
      BY <1>4, <2>1, <2>6, Nothing DEF InDeque, InTimeline
    <3>2. e \in sealed' <=> e \in sealed \/ InTimeline(e) \/ (InDeque(e) /\ e \notin Empty)
      BY <2>2, <2>4, <2>6 DEF InDeque, InTimeline, Placed
    <3>3. e \in discarded' <=> e \in discarded \/ (InDeque(e) /\ e \in Empty)
      BY <2>3, <2>4, <2>6 DEF InDeque, Unplaced
    <3> QED BY <2>5, <2>6, <3>1, <3>2, <3>3
  <2>7. CASE StoryOf[e] \notin retired
    <3>1. Stays(e)
      BY <1>4, <2>1, <2>5, <2>7 DEF Stays, InDeque, InTimeline
    <3>2. (e \in sealed' <=> e \in sealed) /\ (e \in discarded' <=> e \in discarded)
      BY <2>2, <2>3, <2>4, <2>7
    <3> QED BY <2>5, <2>7, <3>1, <3>2
  <2> QED BY <2>6, <2>7
<1>9. sealed' \subseteq Events /\ discarded' \subseteq Events
  <2>1. \A s \in retired : /\ mergeEvents(pipelines[s]).events \subseteq Events
                           /\ Unplaced(pipelines[s].deque) \subseteq Events
    BY <1>2, <1>3, <1>7 DEF EventsOf, Placed, Unplaced
  <2> QED BY <1>1, <2>1 DEF PlaceInv
<1>10. TypeInv'
  BY <1>1, Going DEF TypeInv, ThreadStates
<1>11. PlaceInv'
  <2>1. ASSUME NEW e \in Events PROVE Alone(e)'
    BY <1>1, <1>8 DEF PlaceInv, Alone, Placeless, Stays
  <2> QED BY <1>9, <2>1 DEF PlaceInv
<1>12. LogInv'
  BY <1>1, LogSame
<1>13. StartInv'
  <2>1. WaitingForExit' \subseteq WaitingForExit \ retired
    BY <1>1, <1>2 DEF WaitingForExit, NoExit
  <2> QED BY <1>1, <1>2, <1>6, <2>1 DEF StartInv
<1>14. EndInv'
  <2>1. \A u \in Threads : pc'[u] = "done" => pc[u] = "done"
    BY <1>1, Going DEF ThreadStates
  <2>2. \A e \in Events : InMemory(e)' => InMemory(e)
    BY <1>8 DEF InMemory, Stays
  <2> QED BY <1>1, <2>1, <2>2, EndStep
<1> QED BY <1>5, <1>10, <1>11, <1>12, <1>13, <1>14

\* The stories with orphans are listed.
LEMMA ListInv ==
  ASSUME Inv, NEW t \in Threads, orphanStoryIds(t)
  PROVE  Inv'
<1> USE DEF Inv
<1>1. /\ \E where \in {"check", "seal"} : GoOn(t, where)
      /\ listed' = [listed EXCEPT ![t] = {s \in Stories : orphans[s] # <<>>}]
      /\ UNCHANGED <<pipelines, orphans, waitingForExit, write, state, keeper, sealed, discarded, held>>
  BY DEF orphanStoryIds, store, control, ended, history
<1>2. StoreInv' /\ Recording' = Recording /\ \A e \in Events : Stays(e) /\ (InMemory(e)' <=> InMemory(e))
  BY <1>1, SameStore
<1>3. /\ pc' \in [Threads -> ThreadStates] /\ \A u \in Threads : pc'[u] = "done" => pc[u] = "done"
  BY <1>1, Going DEF ThreadStates
<1>4. TypeInv'
  BY <1>1, <1>3 DEF TypeInv
<1>5. PlaceInv'
  BY <1>1, <1>2, NothingMoves
<1>6. LogInv'
  BY <1>1, LogSame
<1>7. StartInv'
  BY <1>1, <1>2 DEF StartInv, WaitingForExit
<1>8. EndInv'
  BY <1>1, <1>2, <1>3, EndStep
<1> QED BY <1>2, <1>4, <1>5, <1>6, <1>7, <1>8

\* The orphans of a retired story are sealed and leave the queue at once.
LEMMA SealInv ==
  ASSUME Inv, NEW t \in Threads, sealOrphanedEvents(t)
  PROVE  Inv'
<1> USE DEF Inv
<1> DEFINE late_ids == (listed[t] \cap retiredStoryNames) \ Recording
<1>1. /\ GoOn(t, "check")
      /\ sealed' = sealed \cup UNION {Placed(orphans[s]) : s \in late_ids}
      /\ discarded' = discarded \cup UNION {Unplaced(orphans[s]) : s \in late_ids}
      /\ orphans' = [s \in Stories |-> IF s \in late_ids THEN <<>> ELSE orphans[s]]
      /\ listed' = [listed EXCEPT ![t] = {}]
      /\ UNCHANGED <<pipelines, waitingForExit, write, state, keeper, held>>
  BY DEF sealOrphanedEvents, ingestSealedChunk, store, control, history
<1>2. late_ids \subseteq Stories
  BY DEF TypeInv
<1> HIDE DEF late_ids
<1>3. StoreInv'
  <2>1. \A s \in Stories : OrphansOf(orphans'[s], s)
    BY <1>1, Nothing DEF StoreInv, OrphansOf
  <2> QED BY <1>1, <2>1 DEF StoreInv, PipelineOf, OrphansOf
<1>4. Recording' = Recording
  BY <1>1 DEF Recording
<1>5. ASSUME NEW e \in Events
      PROVE  /\ (InDeque(e)' <=> InDeque(e)) /\ (InTimeline(e)' <=> InTimeline(e))
             /\ IF StoryOf[e] \in late_ids
                THEN /\ ~InOrphans(e)'
                     /\ e \in sealed' <=> e \in sealed \/ (InOrphans(e) /\ e \notin Empty)
                     /\ e \in discarded' <=> e \in discarded \/ (InOrphans(e) /\ e \in Empty)
                ELSE /\ InOrphans(e)' <=> InOrphans(e)
                     /\ (e \in sealed' <=> e \in sealed) /\ (e \in discarded' <=> e \in discarded)
  <2>1. StoryOf[e] \in Stories /\ \A s \in Stories : e \in EventsOf(s) => s = StoryOf[e]
    BY StoryFacts DEF EventsOf
  <2>2. \A s \in late_ids : s # StoryOf[e] => e \notin Placed(orphans[s]) /\ e \notin Unplaced(orphans[s])
    BY <1>2, <2>1, QueuesHold DEF Placed, Unplaced
  <2>3. e \in sealed' <=> e \in sealed \/ \E s \in late_ids : e \in Placed(orphans[s])
    BY <1>1
  <2>4. e \in discarded' <=> e \in discarded \/ \E s \in late_ids : e \in Unplaced(orphans[s])
    BY <1>1
  <2>5. (InDeque(e)' <=> InDeque(e)) /\ (InTimeline(e)' <=> InTimeline(e))
    BY <1>1 DEF InDeque, InTimeline
  <2>6. CASE StoryOf[e] \in late_ids
    <3>1. ~InOrphans(e)'
      BY <1>1, <2>1, <2>6, Nothing DEF InOrphans
    <3> QED BY <2>2, <2>3, <2>4, <2>5, <2>6, <3>1 DEF InOrphans, Placed, Unplaced
  <2>7. CASE StoryOf[e] \notin late_ids
    <3>1. InOrphans(e)' <=> InOrphans(e)
      BY <1>1, <2>1, <2>7 DEF InOrphans
    <3> QED BY <2>2, <2>3, <2>4, <2>5, <2>7, <3>1
  <2> QED BY <2>6, <2>7
<1>6. sealed' \subseteq Events /\ discarded' \subseteq Events
  <2>1. \A s \in late_ids : Placed(orphans[s]) \subseteq Events /\ Unplaced(orphans[s]) \subseteq Events
    BY <1>2, QueuesHold DEF EventsOf, Placed, Unplaced
  <2> QED BY <1>1, <2>1 DEF PlaceInv
<1>7. /\ pc' \in [Threads -> ThreadStates] /\ \A u \in Threads : pc'[u] = "done" => pc[u] = "done"
  BY <1>1, Going DEF ThreadStates
<1>8. TypeInv'
  BY <1>1, <1>7 DEF TypeInv
<1>9. PlaceInv'
  <2>1. ASSUME NEW e \in Events PROVE Alone(e)'
    BY <1>1, <1>5 DEF PlaceInv, Alone, Placeless
  <2> QED BY <1>6, <2>1 DEF PlaceInv
<1>10. LogInv'
  BY <1>1, LogSame
<1>11. StartInv'
  BY <1>1, <1>4 DEF StartInv, WaitingForExit
<1>12. EndInv'
  <2>1. \A e \in Events : InMemory(e)' => InMemory(e)
    BY <1>5 DEF InMemory
  <2> QED BY <1>1, <1>7, <2>1, EndStep
<1> QED BY <1>3, <1>8, <1>9, <1>10, <1>11, <1>12

-----------------------------------------------------------------------------
(* The end of data collection                                              *)

\* A phase of the shutdown changes where the shutdown stands.
LEMMA ShutdownInv ==
  ASSUME Inv, Shutdown
  PROVE  Inv'
<1> USE DEF Inv
<1>1. /\ UNCHANGED <<pipelines, orphans, write, pc, listed, sealed, discarded, held>>
      /\ keeper # "recovering" /\ keeper' # "recovering"
  BY DEF Shutdown, CloseGate, StopAccepting, ChangeState, LabelPipelines, Joined, Phase, Rest, threads, store,
         ended, history
<1>2. StoreInv' /\ Recording' = Recording /\ \A e \in Events : Stays(e) /\ (InMemory(e)' <=> InMemory(e))
  BY <1>1, SameStore
<1>3. PlaceInv'
  BY <1>1, <1>2, NothingMoves
<1>4. LogInv'
  BY <1>1 DEF LogInv
<1>5. CASE LabelPipelines
  <2>1. /\ keeper = "labelling" /\ keeper' = "joining" /\ UNCHANGED state
        /\ waitingForExit' = [s \in Stories |-> IF s \in Recording \ WaitingForExit THEN now + pipelines[s].window
                                ELSE waitingForExit[s]]
    BY <1>5 DEF LabelPipelines, Phase
  <2>2. state = "shutting down"
    BY <2>1 DEF EndInv, Late
  <2>3. TypeInv'
    BY <1>1, <2>1 DEF TypeInv
  <2>4. WaitingForExit' \subseteq WaitingForExit \cup Recording
    BY <2>1 DEF WaitingForExit, NoExit
  <2>5. StartInv'
    BY <1>1, <1>2, <2>1, <2>2, <2>4 DEF StartInv
  <2>6. EndInv'
    BY <1>1, <1>2, <2>1, <2>2 DEF EndInv, Late
  <2> QED BY <1>2, <1>3, <1>4, <2>3, <2>5, <2>6
<1>6. CASE CloseGate \/ StopAccepting \/ ChangeState \/ Joined
  <2>1. UNCHANGED waitingForExit
    BY <1>6 DEF CloseGate, StopAccepting, ChangeState, Joined, Rest, store
  <2>2. TypeInv'
    BY <1>1, <2>1 DEF TypeInv
  <2>3. StartInv'
    <3>1. state' = state \/ state' = "shutting down"
      BY <1>6 DEF CloseGate, StopAccepting, ChangeState, Joined
    <3>2. WaitingForExit' = WaitingForExit
      BY <2>1 DEF WaitingForExit
    <3>3. state' # "shutting down" => state # "shutting down"
      BY <1>6 DEF CloseGate, StopAccepting, ChangeState, Joined
    <3> QED BY <1>1, <1>2, <3>2, <3>3 DEF StartInv
  <2>4. EndInv'
    <3>1. (state' = "shutting down" <=> keeper' \in Late) /\ (state = "shutting down" => state' = "shutting down")
      BY <1>6 DEF CloseGate, StopAccepting, ChangeState, Joined, Phase, EndInv, Late
    <3>2. keeper' \in Late \cup {"changing"} => \A e \in Events \ Durable : write[e] # "astray"
      BY <1>6 DEF CloseGate, StopAccepting, ChangeState, Joined, Phase, EndInv, Late
    <3> QED BY <1>1, <1>2, <3>1, <3>2 DEF EndInv
  <2> QED BY <1>2, <1>3, <1>4, <2>2, <2>3, <2>4
<1> QED BY <1>5, <1>6 DEF Shutdown

\* Time passes, or nothing happens.
LEMMA IdleInv ==
  ASSUME Inv, Tick \/ UNCHANGED vars
  PROVE  Inv'
<1> USE DEF Inv
<1>1. UNCHANGED <<pipelines, orphans, waitingForExit, write, pc, listed, state, keeper, sealed, discarded, held>>
  BY DEF Tick, vars, store, threads, control, ended, history
<1>2. StoreInv' /\ Recording' = Recording /\ \A e \in Events : Stays(e) /\ (InMemory(e)' <=> InMemory(e))
  BY <1>1, SameStore
<1>3. TypeInv'
  BY <1>1 DEF TypeInv
<1>4. PlaceInv'
  BY <1>1, <1>2, NothingMoves
<1>5. LogInv'
  BY <1>1, LogSame
<1>6. StartInv'
  BY <1>1, <1>2 DEF StartInv, WaitingForExit
<1>7. EndInv'
  BY <1>1, <1>2, EndStep
<1> QED BY <1>2, <1>3, <1>4, <1>5, <1>6, <1>7

-----------------------------------------------------------------------------
(* The invariant holds in every state                                      *)

\* It holds before the log is replayed.
LEMMA InitInv == Init => Inv
<1> SUFFICES ASSUME Init PROVE Inv
  OBVIOUS
<1> USE DEF Init
<1>1. Recovered \subseteq Events
  BY IngestAssumption
<1>2. StoreInv
  <2>1. \A s \in Stories : PipelineOf(NoPipeline, s) /\ OrphansOf(<<>>, s)
    BY Fresh, Nothing DEF OrphansOf
  <2> QED BY <2>1 DEF StoreInv
<1>3. TypeInv
  BY DEF TypeInv, WriteStates, ThreadStates
<1>4. ASSUME NEW e \in Events PROVE ~InMemory(e) /\ Placeless(e)
  <2>1. StoryOf[e] \in Stories
    BY StoryFacts
  <2>2. pipelines[StoryOf[e]].events = {} /\ pipelines[StoryOf[e]].deque = <<>> /\ orphans[StoryOf[e]] = <<>>
    BY <2>1, Fresh
  <2> QED BY <2>2, Nothing DEF InMemory, Placeless, InDeque, InOrphans, InTimeline
<1>5. PlaceInv
  BY <1>4 DEF PlaceInv, Alone, Placeless
<1>6. LogInv
  BY <1>1 DEF LogInv
<1>7. StartInv
  BY DEF StartInv, WaitingForExit
<1>8. EndInv
  BY DEF EndInv, Late
<1> QED BY <1>2, <1>3, <1>5, <1>6, <1>7, <1>8 DEF Inv

\* Every step keeps it.
LEMMA NextInv == Inv /\ [Next]_vars => Inv'
<1> SUFFICES ASSUME Inv, [Next]_vars PROVE Inv'
  OBVIOUS
<1>1. ASSUME NEW t \in Threads, ThreadStep(t) PROVE Inv'
  BY <1>1, EndTaskInv, DrainInv, CollectInv, ExtractInv, RetireInv, ListInv, SealInv DEF ThreadStep
<1>2. ASSUME NEW e \in Events, Handler(e) PROVE Inv'
  BY <1>2, StoreOrphanInv, EnsureInv, WriteInv DEF Handler
<1>3. ASSUME Request PROVE Inv'
  BY <1>3, StartStoryInv, StopStoryInv, WriteInv, LookupInv DEF Request
<1> QED BY <1>1, <1>2, <1>3, ReplayInv, StartDataCollectionInv, ShutdownInv, IdleInv DEF Next

\* So it always holds.
LEMMA Invariant == Spec => []Inv
BY InitInv, NextInv, PTL DEF Spec

-----------------------------------------------------------------------------
(* The theorems                                                            *)

\* The copies of an event in a queue of distinct events
LEMMA CopiesFact ==
  ASSUME NEW name, NEW q, NEW s, NEW e, Distinct(q)
  PROVE  /\ e \notin Range(q) => Copies(name, q, s, e) = {}
         /\ e \in Range(q) => \E x : Copies(name, q, s, e) = {x}
<1>1. ASSUME e \notin Range(q) PROVE Copies(name, q, s, e) = {}
  BY <1>1 DEF Copies, Range
<1>2. ASSUME e \in Range(q) PROVE \E x : Copies(name, q, s, e) = {x}
  <2>1. PICK i \in DOMAIN q : q[i] = e
    BY <1>2 DEF Range
  <2>2. {j \in DOMAIN q : q[j] = e} = {i}
    BY <2>1 DEF Distinct
  <2>3. Copies(name, q, s, e) = {<<name, s, i>>}
    BY <2>2 DEF Copies
  <2> QED BY <2>3
<1> QED BY <1>1, <1>2

\* The places of an event are those of its own story.
LEMMA PlacesFact ==
  ASSUME Inv, NEW e \in Events, NEW s, s = StoryOf[e]
  PROVE  Places(e) = Copies("orphan", orphans[s], s, e) \cup Copies("deque", pipelines[s].deque, s, e)
                       \cup (IF InTimeline(e) THEN {<<"timeline", s>>} ELSE {})
                       \cup (IF e \in sealed THEN {<<"sealed">>} ELSE {})
                       \cup (IF e \in discarded THEN {<<"discarded">>} ELSE {})
                       \cup (IF write[e] = "astray" THEN {<<"astray">>} ELSE {})
<1> USE DEF Inv
<1>1. s \in Stories /\ \A r \in Stories : e \in EventsOf(r) => r = s
  BY StoryFacts DEF EventsOf
<1>2. ASSUME NEW r \in Stories, r # s
      PROVE  Copies("orphan", orphans[r], r, e) = {} /\ Copies("deque", pipelines[r].deque, r, e) = {}
  <2>1. e \notin Range(orphans[r]) /\ e \notin Range(pipelines[r].deque)
    BY <1>1, <1>2, QueuesHold
  <2> QED BY <2>1 DEF Copies, Range
<1>3. UNION {Copies("orphan", orphans[r], r, e) \cup Copies("deque", pipelines[r].deque, r, e) : r \in Stories}
        = Copies("orphan", orphans[s], s, e) \cup Copies("deque", pipelines[s].deque, s, e)
  BY <1>1, <1>2
<1>4. {<<"timeline", r>> : r \in {r \in Stories : e \in pipelines[r].events}}
        = IF InTimeline(e) THEN {<<"timeline", s>>} ELSE {}
  <2>1. {r \in Stories : e \in pipelines[r].events} = IF InTimeline(e) THEN {s} ELSE {}
    BY <1>1 DEF InTimeline, StoreInv, PipelineOf
  <2> QED BY <2>1
<1>5. {<<"sealed">> : x \in {e} \cap sealed} = IF e \in sealed THEN {<<"sealed">>} ELSE {}
  OBVIOUS
<1>6. {<<"discarded">> : x \in {e} \cap discarded} = IF e \in discarded THEN {<<"discarded">>} ELSE {}
  OBVIOUS
<1>7. {<<w>> : w \in {write[e]} \cap {"astray"}} = IF write[e] = "astray" THEN {<<"astray">>} ELSE {}
  OBVIOUS
<1> DEFINE T == {<<"timeline", r>> : r \in {r \in Stories : e \in pipelines[r].events}}
           X == {<<"sealed">> : x \in {e} \cap sealed}
           Y == {<<"discarded">> : x \in {e} \cap discarded}
           W == {<<w>> : w \in {write[e]} \cap {"astray"}}
<1>8. Places(e) = Queued(e) \cup T \cup X \cup Y \cup W
  BY DEF Places
<1> HIDE DEF T, X, Y, W
<1>9. Queued(e) = Copies("orphan", orphans[s], s, e) \cup Copies("deque", pipelines[s].deque, s, e)
  BY <1>3 DEF Queued
<1>10. T = IF InTimeline(e) THEN {<<"timeline", s>>} ELSE {}
  BY <1>4 DEF T
<1>11. X = (IF e \in sealed THEN {<<"sealed">>} ELSE {}) /\ Y = IF e \in discarded THEN {<<"discarded">>} ELSE {}
  BY <1>5, <1>6 DEF X, Y
<1>12. W = IF write[e] = "astray" THEN {<<"astray">>} ELSE {}
  BY <1>7 DEF W
<1> QED BY <1>8, <1>9, <1>10, <1>11, <1>12

\* An event taken in has one place, another none.
LEMMA OneOrNone ==
  ASSUME Inv, NEW e \in Events
  PROVE  IF write[e] \in {"taken", "astray"} THEN \E x : Places(e) = {x} ELSE Places(e) = {}
<1> DEFINE s == StoryOf[e]
           A == Copies("orphan", orphans[s], s, e)
           B == Copies("deque", pipelines[s].deque, s, e)
           C == IF InTimeline(e) THEN {<<"timeline", s>>} ELSE {}
           D == IF e \in sealed THEN {<<"sealed">>} ELSE {}
           E == IF e \in discarded THEN {<<"discarded">>} ELSE {}
           F == IF write[e] = "astray" THEN {<<"astray">>} ELSE {}
<1>1. Places(e) = A \cup B \cup C \cup D \cup E \cup F
  BY PlacesFact
<1>2. Alone(e)
  BY DEF Inv, PlaceInv
<1>3. /\ InOrphans(e) => \E x : A = {x}
      /\ ~InOrphans(e) => A = {}
      /\ InDeque(e) => \E x : B = {x}
      /\ ~InDeque(e) => B = {}
  <2>1. s \in Stories
    BY StoryFacts
  <2>2. Distinct(orphans[s]) /\ Distinct(pipelines[s].deque)
    BY <2>1 DEF Inv, StoreInv, PipelineOf, OrphansOf
  <2> QED BY <2>2, CopiesFact DEF InOrphans, InDeque
<1>4. /\ InTimeline(e) => \E x : C = {x}
      /\ e \in sealed => \E x : D = {x}
      /\ e \in discarded => \E x : E = {x}
      /\ write[e] = "astray" => \E x : F = {x}
  OBVIOUS
<1>5. /\ ~InTimeline(e) => C = {}
      /\ e \notin sealed => D = {}
      /\ e \notin discarded => E = {}
      /\ write[e] # "astray" => F = {}
  OBVIOUS
<1> HIDE DEF A, B, C, D, E, F
<1>6. CASE write[e] = "taken"
  <2>1. CASE InDeque(e)
    BY <1>1, <1>2, <1>3, <1>5, <1>6, <2>1 DEF Alone
  <2>2. CASE InOrphans(e)
    BY <1>1, <1>2, <1>3, <1>5, <1>6, <2>2 DEF Alone
  <2>3. CASE InTimeline(e)
    BY <1>1, <1>2, <1>3, <1>4, <1>5, <1>6, <2>3 DEF Alone
  <2>4. CASE e \in sealed
    BY <1>1, <1>2, <1>3, <1>4, <1>5, <1>6, <2>4 DEF Alone
  <2>5. CASE e \in discarded
    BY <1>1, <1>2, <1>3, <1>4, <1>5, <1>6, <2>5 DEF Alone
  <2> QED BY <1>2, <1>6, <2>1, <2>2, <2>3, <2>4, <2>5 DEF Alone
<1>7. CASE write[e] = "astray"
  BY <1>1, <1>2, <1>3, <1>4, <1>5, <1>7 DEF Alone, Placeless
<1>8. CASE write[e] \notin {"taken", "astray"}
  BY <1>1, <1>2, <1>3, <1>5, <1>8 DEF Alone, Placeless
<1> QED BY <1>6, <1>7, <1>8

\* Whatever the handlers, the collection threads and the visor's requests do
\* between one another's steps, an event taken in is in one place: not lost
\* between the ingestion queue and a sealed chunk, and never in two chunks.
THEOREM OnePlace == Spec => []InOnePlace
<1>1. Inv => InOnePlace
  <2> SUFFICES ASSUME Inv, NEW e \in Events
               PROVE  Cardinality(Places(e)) = IF write[e] \in {"taken", "astray"} THEN 1 ELSE 0
    BY DEF InOnePlace
  <2>1. IF write[e] \in {"taken", "astray"} THEN \E x : Places(e) = {x} ELSE Places(e) = {}
    BY OneOrNone
  <2> QED BY <2>1, FS_EmptySet, FS_Singleton
<1> QED BY <1>1, Invariant, PTL

\* While the keeper runs, a story the visor has started and not stopped is
\* recorded and does not wait for exit, whatever stops, durable writes and
\* retirements came before (startStoryRecording, retireDecayedPipelines).
THEOREM StartedRecorded == Spec => []StartedStaysRecorded
<1>1. Inv => StartedStaysRecorded
  BY DEF Inv, StartInv, StartedStaysRecorded
<1> QED BY <1>1, Invariant, PTL

\* When the last collection thread has ended, every accepted event and every
\* event recovered from the log has been sealed, or could not be placed
\* (shutdownDataCollection: the gate, the state, then the threads).
THEOREM NothingLeft == Spec => []NothingLeftBehind
<1>1. Inv => NothingLeftBehind
  <2> SUFFICES ASSUME Inv, \A t \in Threads : pc[t] = "done",
                      NEW e \in (Events \ Durable) \cup Recovered, write[e] = "taken"
               PROVE  e \in sealed \cup discarded
    BY DEF NothingLeftBehind
  <2>1. e \in Events
    BY IngestAssumption
  <2>2. CASE e \in Recovered
    BY <2>2 DEF Inv, LogInv
  <2>3. CASE e \in Events \ Durable
    <3>1. PICK t \in Threads : pc[t] = "done"
      BY IngestAssumption
    <3>2. ~InMemory(e)
      BY <2>3, <3>1 DEF Inv, EndInv
    <3> QED BY <2>1, <3>2 DEF Inv, PlaceInv, Alone, InMemory
  <2> QED BY <2>2, <2>3
<1> QED BY <1>1, Invariant, PTL

\* Where an event stands for EventCustody: in no two places, and where the
\* progress of its write says
Standing(e) ==
  IF e \in sealed THEN "sealed" ELSE IF e \in discarded THEN "given up"
  ELSE IF write[e] \in {"taken", "astray", "logged"} THEN "held" ELSE "none"
Stands == Custody = [e \in Events |-> Standing(e)]
LEMMA CustodyFact == Inv => Stands
<1> SUFFICES ASSUME Inv, NEW e \in Events PROVE Custody[e] = Standing(e)
  BY DEF Stands, Custody
<1>1. Alone(e)
  BY DEF Inv, PlaceInv
<1>2. IF write[e] \in {"taken", "astray"} THEN \E x : Places(e) = {x} ELSE Places(e) = {}
  BY OneOrNone
<1>3. Custody[e] = IF \E x, y \in Places(e) : x # y THEN "twice"
                   ELSE IF Places(e) = {} /\ write[e] # "logged" THEN "none"
                   ELSE IF e \in sealed THEN "sealed" ELSE IF e \in discarded THEN "given up" ELSE "held"
  BY DEF Custody
<1>4. CASE write[e] \in {"taken", "astray"}
  BY <1>2, <1>3, <1>4 DEF Standing
<1>5. CASE write[e] \notin {"taken", "astray"}
  BY <1>1, <1>2, <1>3, <1>5 DEF Standing, Alone, Placeless
<1> QED BY <1>4, <1>5

\* What a step does with one event: a write never goes back, and an event that
\* is sealed or given up was taken in before.
Onward(e) ==
  /\ e \in sealed => e \in sealed'
  /\ e \in discarded => e \in discarded'
  /\ write[e] \in {"taken", "astray", "logged"} => write'[e] \in {"taken", "astray", "logged"}
  /\ e \in sealed' \cup discarded' => write[e] \in {"taken", "astray", "logged"}

\* Every step takes every event onward.
LEMMA OnwardStep ==
  ASSUME Inv, Inv', [Next]_vars, NEW e \in Events
  PROVE  Onward(e)
<1>1. ASSUME UNCHANGED <<write, sealed, discarded>> PROVE Onward(e)
  BY <1>1 DEF Inv, PlaceInv, Alone, Placeless, Onward
<1>2. ASSUME sealed \subseteq sealed', discarded \subseteq discarded', UNCHANGED write PROVE Onward(e)
  <2>1. e \in sealed' \cup discarded' => write'[e] = "taken"
    BY DEF Inv, PlaceInv, Alone, Placeless
  <2> QED BY <1>2, <2>1 DEF Onward
<1>3. ASSUME NEW f \in Events, NEW w, write' = [write EXCEPT ![f] = w], UNCHANGED <<sealed, discarded>>,
             write[f] \in {"taken", "astray", "logged"} => w \in {"taken", "astray", "logged"}
      PROVE  Onward(e)
  <2>1. e \in sealed \cup discarded => write[e] = "taken"
    BY DEF Inv, PlaceInv, Alone, Placeless
  <2>2. write'[e] = IF e = f THEN w ELSE write[e]
    BY <1>3 DEF Inv, TypeInv
  <2> QED BY <1>3, <2>1, <2>2 DEF Onward
<1>4. CASE replayRecoveredEvents
  <2>1. /\ keeper = "recovering" /\ sealed' = sealed \cup Recovered /\ UNCHANGED discarded
        /\ write' = [x \in Events |-> IF x \in Recovered THEN "taken" ELSE write[x]]
    BY <1>4 DEF replayRecoveredEvents, ingestSealedChunk
  <2>2. e \in sealed \cup discarded => write[e] = "taken"
    BY DEF Inv, PlaceInv, Alone, Placeless
  <2>3. e \in Recovered => write[e] = "logged"
    BY <2>1 DEF Inv, LogInv
  <2> QED BY <2>1, <2>2, <2>3 DEF Onward
<1>5. CASE startDataCollection \/ Shutdown \/ Tick \/ UNCHANGED vars
  <2>1. UNCHANGED <<write, sealed, discarded>>
    BY <1>5 DEF startDataCollection, Shutdown, CloseGate, StopAccepting, ChangeState, LabelPipelines, Joined, Rest,
                Tick, vars, ended
  <2> QED BY <1>1, <2>1
<1>6. ASSUME NEW s \in Stories, startStoryRecording(s) \/ stopStoryRecording(s) PROVE Onward(e)
  <2>1. UNCHANGED <<write, sealed, discarded>>
    BY <1>6 DEF startStoryRecording, stopStoryRecording, ended
  <2> QED BY <1>1, <2>1
<1>7. ASSUME NEW f \in Events, record_event(f) \/ hasStoryIngestionHandle(f) \/ Handler(f) PROVE Onward(e)
  <2>1. UNCHANGED <<sealed, discarded>>
    BY <1>7 DEF record_event, hasStoryIngestionHandle, Handler, StoreOrphan, ensureStoryPipeline, IngestDurable, ended
  <2>2. CASE record_event(f) \/ IngestDurable(f)
    <3>1. write[f] \in {"new", "logging"} /\ \E w : write' = [write EXCEPT ![f] = w]
      BY <2>2 DEF record_event, IngestDurable, Ingest
    <3> QED BY <1>3, <2>1, <3>1
  <2>3. CASE hasStoryIngestionHandle(f)
    <3>1. write[f] = "new" /\ \E w : write' = [write EXCEPT ![f] = w]
      BY <2>3 DEF hasStoryIngestionHandle
    <3> QED BY <1>3, <2>1, <3>1
  <2>4. CASE ensureStoryPipeline(f)
    <3>1. write[f] = "ensuring" /\ \E w : write' = [write EXCEPT ![f] = w]
      BY <2>4 DEF ensureStoryPipeline
    <3> QED BY <1>3, <2>1, <3>1
  <2>5. CASE StoreOrphan(f)
    <3>1. write' = [write EXCEPT ![f] = "taken"]
      BY <2>5 DEF StoreOrphan
    <3> QED BY <1>3, <2>1, <3>1
  <2> QED BY <1>7, <2>2, <2>3, <2>4, <2>5 DEF Handler
<1>8. ASSUME NEW t \in Threads, ThreadStep(t) PROVE Onward(e)
  <2>1. UNCHANGED write
    BY <1>8 DEF ThreadStep, EndTask, drainOrphanEvents, collectIngestedEvents, extractDecayedStoryChunks,
                retireDecayedPipelines, orphanStoryIds, sealOrphanedEvents
  <2>2. sealed \subseteq sealed'
    <3>1. CASE extractDecayedStoryChunks(t)
      BY <3>1 DEF extractDecayedStoryChunks, Extract, ingestSealedChunk
    <3>2. CASE retireDecayedPipelines(t) \/ sealOrphanedEvents(t)
      BY <3>2 DEF retireDecayedPipelines, sealOrphanedEvents, ingestSealedChunk
    <3>3. CASE EndTask(t) \/ drainOrphanEvents(t) \/ collectIngestedEvents(t) \/ orphanStoryIds(t)
      BY <3>3 DEF EndTask, drainOrphanEvents, collectIngestedEvents, orphanStoryIds, ended
    <3> QED BY <1>8, <3>1, <3>2, <3>3 DEF ThreadStep
  <2>3. discarded \subseteq discarded'
    <3>1. CASE collectIngestedEvents(t) \/ retireDecayedPipelines(t) \/ sealOrphanedEvents(t)
      BY <3>1 DEF collectIngestedEvents, retireDecayedPipelines, sealOrphanedEvents
    <3>2. CASE EndTask(t) \/ drainOrphanEvents(t) \/ extractDecayedStoryChunks(t) \/ orphanStoryIds(t)
      BY <3>2 DEF EndTask, drainOrphanEvents, extractDecayedStoryChunks, orphanStoryIds, ended
    <3> QED BY <1>8, <3>1, <3>2 DEF ThreadStep
  <2> QED BY <1>2, <2>1, <2>2, <2>3
<1> QED BY <1>4, <1>5, <1>6, <1>7, <1>8 DEF Next, Request

\* Every step of the keeper is a step of the promise, or leaves it as it is.
LEMMA CustodyStep == Inv /\ Inv' /\ Stands /\ Stands' /\ [Next]_vars => [Promise!Next]_Custody
<1> SUFFICES ASSUME Inv, Inv', Stands, Stands', [Next]_vars PROVE Promise!Next
  OBVIOUS
<1>1. Custody' = [e \in Events |-> Custody'[e]]
  BY DEF Stands
<1>2. ASSUME NEW e \in Events
      PROVE  /\ Custody'[e] \in {"none", "held", "sealed", "given up"}
             /\ Custody[e] \in {"sealed", "given up"} => Custody'[e] = Custody[e]
             /\ Custody[e] = "held" => Custody'[e] # "none"
             /\ Custody[e] = "none" => Custody'[e] \in {"none", "held"}
             /\ Custody[e] = "held" /\ Custody'[e] = "given up" => e \in Empty
  <2>1. Onward(e)
    BY OnwardStep
  <2>2. Custody[e] = IF e \in sealed THEN "sealed" ELSE IF e \in discarded THEN "given up"
                     ELSE IF write[e] \in {"taken", "astray", "logged"} THEN "held" ELSE "none"
    BY DEF Stands, Standing
  <2>3. Custody'[e] = IF e \in sealed' THEN "sealed" ELSE IF e \in discarded' THEN "given up"
                      ELSE IF write'[e] \in {"taken", "astray", "logged"} THEN "held" ELSE "none"
    BY DEF Stands, Standing
  <2>4. Alone(e)'
    BY DEF Inv, PlaceInv
  <2> QED BY <2>1, <2>2, <2>3, <2>4 DEF Onward, Alone
<1> QED BY <1>1, <1>2 DEF Promise!Next

\* The ingestion path implements EventCustody: an event taken in, by a write
\* or from the log, is in one place of the keeper's until it is sealed, or given
\* up because no chunk can take its record; no step of a handler, a collection
\* thread or the shutdown loses it, doubles it or brings a sealed one back.
THEOREM CustodyKept == Spec => KeepsCustody
<1>1. Init => Promise!Init
  <2> SUFFICES ASSUME Init PROVE Custody \in [Events -> {"none", "held"}]
    BY DEF Promise!Init
  <2>1. Stands
    BY InitInv, CustodyFact
  <2> QED BY <2>1 DEF Init, Stands, Standing
<1> QED BY <1>1, CustodyFact, CustodyStep, Invariant, PTL DEF Spec, KeepsCustody, Promise!Spec
=============================================================================
