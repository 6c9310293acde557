---------------------------- MODULE KeeperIngest ----------------------------
(***************************************************************************)
(* How a keeper takes events in and turns them into sealed chunks: the     *)
(* ingestion queue, the story pipelines of KeeperDataStore, its collection *)
(* threads, the replay of the write-ahead log and the shutdown of data     *)
(* collection.                                                             *)
(*                                                                         *)
(* The collection threads hold dataStoreMutex from one step below to the   *)
(* next only where the code does; a handler that takes an event in never   *)
(* takes that mutex, so it can run between any two of their steps.  A      *)
(* pipeline and its ingestion handle come and go together for a handler:   *)
(* an event put in the handle before it is removed is merged by finalize.  *)
(*                                                                         *)
(* Times are whole numbers; a clock reading lies after the number it is    *)
(* taken at ("between"), or exactly on it ("on").  A pipeline's timeline   *)
(* is contiguous, so its bounds and its events are all there is to it.     *)
(* What becomes of a sealed chunk, and which chunks a destroyed story's    *)
(* tombstone drops, is ChunkDelivery's; what the log holds is KeeperWal's. *)
(***************************************************************************)
EXTENDS Naturals, Sequences, FiniteSets, SequencesExt

CONSTANTS
  Stories, Events, StoryOf, TimeOf,
  Durable,            \* the events written with record_event_durable
  Empty,              \* the events with an empty record
  Recovered,          \* the events the log holds when the keeper starts
  Started,            \* the stories the visor may start on this keeper
  Threads,            \* collection threads
  Granularity,        \* story_chunk_duration
  AcceptanceWindow,
  LateBuffer,         \* the 3 microseconds added to a late event's delay
  Readings,           \* which clock readings happen, of {"between", "on"}
  Starts,             \* bound: starts by the visor
  LateStarts,         \* whether a start may arrive once collection is shutting down
  LastRequest,        \* bound: the last time a request arrives or the shutdown begins
  MaxTime             \* bound: the last time there is

ASSUME IngestAssumption ==
  /\ StoryOf \in [Events -> Stories] /\ TimeOf \in [Events -> Nat]
  /\ Durable \subseteq Events \ Empty   \* KeeperDurableWriter refuses an empty record
  /\ Recovered \subseteq Durable /\ Empty \subseteq Events /\ Started \subseteq Stories
  /\ Granularity \in Nat \ {0} /\ {AcceptanceWindow, LateBuffer, LastRequest, MaxTime} \subseteq Nat
  /\ Readings \subseteq {"between", "on"} /\ LateStarts \in BOOLEAN /\ Threads # {}

VARIABLES
  now,
  pipelines,            \* theMapOfStoryPipelines, and the handles of the ingestion queue
  waitingForExit,       \* the time each pipeline waiting for exit retires at
  startedByDurableWrite, retiredStoryNames,
  acceptingPipelines, state,
  orphans,              \* orphanEventQueue, as the events of each story in their order
  write,                \* how far each event's write has come
  pc, listed,           \* the collection threads, and the orphan stories each has listed
  keeper,               \* the life of the process
  sealed, discarded,    \* events handed over to the retention store, and unplaceable ones
  held, starts, late    \* history: stories the visor started and did not stop; how many starts;
                        \* stories started while the threads are joined

store == <<pipelines, waitingForExit, startedByDurableWrite, retiredStoryNames>>
ended == <<sealed, discarded>>
threads == <<pc, listed>>
control == <<acceptingPipelines, state, keeper>>
history == <<held, starts, late>>
vars == <<now, store, orphans, write, threads, control, ended, history>>

NoPipeline == [live |-> FALSE, start |-> 0, end |-> 0, events |-> {}, deque |-> <<>>, window |-> 0, lastArrival |-> 0]
NoExit == MaxTime + 1000
Recording == {s \in Stories : pipelines[s].live}
WaitingForExit == {s \in Stories : waitingForExit[s] # NoExit}
Orphans == UNION {Range(orphans[s]) : s \in Stories}
Larger(a, b) == IF a > b THEN a ELSE b

Init ==
  /\ now = 0
  /\ pipelines = [s \in Stories |-> NoPipeline] /\ waitingForExit = [s \in Stories |-> NoExit]
  /\ startedByDurableWrite = {} /\ retiredStoryNames = {}
  /\ acceptingPipelines = TRUE /\ state = "initialized"
  /\ orphans = [s \in Stories |-> <<>>]
  /\ write = [e \in Events |-> IF e \in Recovered THEN "logged" ELSE "new"]
  /\ pc = [t \in Threads |-> "none"] /\ listed = [t \in Threads |-> {}]
  /\ keeper = "recovering"
  /\ sealed = {} /\ discarded = {}
  /\ held = {} /\ starts = 0 /\ late = {}

-----------------------------------------------------------------------------
(* Chunks and timelines                                                     *)

\* Hand over the events of sealed chunks.  An event handed over while it is
\* still in another place would be shipped twice: see InOnePlace.
ingestSealedChunk(events) == sealed' = sealed \cup events

\* StoryChunk::insertEvent refuses an empty record
Placed(deque) == Range(deque) \ Empty
Unplaced(deque) == Range(deque) \cap Empty
\* the timeline grown by whole chunks, forward or into the past
appendStoryChunks(p, time) ==
  [p EXCEPT !.end = p.start + Granularity * Larger((p.end - p.start) \div Granularity,
                                                   (time - p.start) \div Granularity + 1)]
prependStoryChunks(p, time) ==
  [p EXCEPT !.start = p.start - Granularity * ((p.start - time + Granularity - 1) \div Granularity)]

\* What one event of mergeEvents does to the timeline.  An event from before
\* it prepends chunks and sets the acceptance window to its delay.
MergeEvent(p, e) ==
  IF TimeOf[e] >= p.end THEN appendStoryChunks(p, TimeOf[e])
  ELSE IF TimeOf[e] >= p.start THEN p
  ELSE [prependStoryChunks(p, TimeOf[e]) EXCEPT !.window = p.start - TimeOf[e] + LateBuffer]

\* mergeEvents of a whole deque: the timeline its events leave behind, one
\* after the other, the chunks' contents, and the moment
mergeEvents(p) ==
  LET grown == FoldLeft(MergeEvent, p, p.deque) IN
  IF p.deque = <<>> THEN p
  ELSE [p EXCEPT !.start = grown.start, !.end = grown.end, !.window = grown.window,
                 !.events = @ \cup Placed(p.deque), !.deque = <<>>, !.lastArrival = now]

\* The chunks at the head of the timeline whose time is over, as the number of
\* them; a reading exactly on the boundary does not take the chunk
Decayed(p, reading) ==
  Cardinality({i \in 1 .. MaxTime : LET due == p.start + Granularity * i + p.window IN
                 due < now \/ (due = now /\ reading = "between")})
\* ... but the loop goes round for it, and goes round again
Spins(p, reading) ==
  reading = "on" /\ \E i \in 1 .. MaxTime : p.start + Granularity * i + p.window = now
\* the timeline without its first n chunks; two chunks are always kept
Behead(p, n) ==
  LET start == p.start + Granularity * n IN
  [p EXCEPT !.start = start, !.end = Larger(@, start + 2 * Granularity),
            !.events = {e \in @ : TimeOf[e] >= start}]

-----------------------------------------------------------------------------
(* Start-up and the requests of the visor                                   *)

\* dataStoreMutex is free unless a thread goes round in extractDecayedStoryChunks
Unlocked == \A t \in Threads : pc[t] # "spinning"

\* The recovered events become sealed chunks before a service takes a request
replayRecoveredEvents ==
  /\ keeper = "recovering"
  /\ ingestSealedChunk(Recovered) /\ UNCHANGED discarded
  /\ write' = [e \in Events |-> IF e \in Recovered THEN "taken" ELSE write[e]]
  /\ keeper' = "serving"
  /\ UNCHANGED <<now, store, orphans, threads, acceptingPipelines, state, history>>

\* The keeper has registered: the services are there before the threads are
startDataCollection ==
  /\ keeper = "serving" /\ state = "initialized"
  /\ state' = "running" /\ pc' = [t \in Threads |-> "check"]
  /\ UNCHANGED <<now, store, orphans, write, listed, acceptingPipelines, keeper, ended, history>>

\* A new pipeline: its timeline has three chunks from the one `now` is in
addStoryPipeline(s) ==
  LET start == now - (now % Granularity) IN
  pipelines' = [pipelines EXCEPT ![s] = [NoPipeline EXCEPT !.live = TRUE, !.start = start,
                  !.end = start + 3 * Granularity, !.window = AcceptanceWindow]]

Served == keeper \notin {"recovering", "ended"} /\ now <= LastRequest

\* Mutant of startStoryRecording: the pipeline stays on the waiting list.
MutStartStoryRecording(s) ==
  /\ Served /\ Unlocked /\ s \in Started /\ starts < Starts
  /\ LateStarts \/ keeper # "joining"
  /\ IF s \in Recording THEN UNCHANGED <<pipelines, waitingForExit>>
     ELSE addStoryPipeline(s) /\ UNCHANGED waitingForExit
  /\ startedByDurableWrite' = startedByDurableWrite \ {s}
  /\ held' = held \cup {s} /\ starts' = starts + 1
  /\ late' = IF keeper = "joining" THEN late \cup {s} ELSE late
  /\ UNCHANGED <<now, retiredStoryNames, orphans, write, threads, control, ended>>

\* The visor starts a story.  A pipeline that waits for exit is kept; so is one
\* a durable write started.  acceptingPipelines is not looked at.
startStoryRecording(s) ==
  /\ Served /\ Unlocked /\ s \in Started /\ starts < Starts
  /\ LateStarts \/ keeper # "joining"
  /\ IF s \in Recording
     THEN waitingForExit' = [waitingForExit EXCEPT ![s] = NoExit] /\ UNCHANGED pipelines
     ELSE addStoryPipeline(s) /\ UNCHANGED waitingForExit
  /\ startedByDurableWrite' = startedByDurableWrite \ {s}
  /\ held' = held \cup {s} /\ starts' = starts + 1
  /\ late' = IF keeper = "joining" THEN late \cup {s} ELSE late
  /\ UNCHANGED <<now, retiredStoryNames, orphans, write, threads, control, ended>>

stopStoryRecording(s) ==
  /\ Served /\ Unlocked /\ s \in held
  /\ IF s \in Recording
     THEN /\ waitingForExit' = [waitingForExit EXCEPT ![s] = now + pipelines[s].window]
          /\ startedByDurableWrite' = startedByDurableWrite \ {s}
     ELSE UNCHANGED <<waitingForExit, startedByDurableWrite>>
  /\ held' = held \ {s} /\ late' = late \ {s}
  /\ UNCHANGED <<now, pipelines, retiredStoryNames, orphans, write, threads, control,
                 ended, starts>>

-----------------------------------------------------------------------------
(* Writes.  A handler looks the story up under the shared lock and ingests   *)
(* under it; without a handle it lets go and then takes the orphan lock.     *)

Ingest(e) ==
  LET s == StoryOf[e] IN
  IF s \in Recording
  THEN /\ pipelines' = [pipelines EXCEPT ![s].deque = Append(@, e)]
       /\ write' = [write EXCEPT ![e] = "taken"]
  ELSE /\ write' = [write EXCEPT ![e] = "astray"] /\ UNCHANGED pipelines

\* record_event: the gate is open, and this handler has entered it
record_event(e) ==
  /\ write[e] = "new" /\ e \notin Durable
  /\ keeper = "serving" /\ now <= LastRequest
  /\ Ingest(e)
  /\ UNCHANGED <<now, waitingForExit, startedByDurableWrite, retiredStoryNames, orphans, threads, control, ended, history>>

StoreOrphan(e) ==
  /\ write[e] = "astray"
  /\ orphans' = [orphans EXCEPT ![StoryOf[e]] = Append(@, e)]
  /\ write' = [write EXCEPT ![e] = "taken"]
  /\ UNCHANGED <<now, store, threads, control, ended, history>>

\* record_event_durable, up to hasStoryIngestionHandle: the gate is looked at,
\* not entered, and the answer may be stale when the event is ingested
hasStoryIngestionHandle(e) ==
  /\ write[e] = "new" /\ e \in Durable
  /\ keeper = "serving" /\ now <= LastRequest
  /\ write' = [write EXCEPT ![e] = IF StoryOf[e] \in Recording THEN "logging" ELSE "ensuring"]
  /\ UNCHANGED <<now, store, orphans, threads, control, ended, history>>

\* A pipeline a durable write starts waits for exit from the beginning
ensureStoryPipeline(e) ==
  LET s == StoryOf[e] IN
  /\ write[e] = "ensuring" /\ Unlocked
  /\ \/ /\ s \in Recording \/ ~acceptingPipelines
        /\ write' = [write EXCEPT ![e] = IF s \in Recording THEN "logging" ELSE "refused"]
        /\ UNCHANGED store
     \/ /\ s \notin Recording /\ acceptingPipelines /\ now <= LastRequest
        /\ addStoryPipeline(s)
        /\ waitingForExit' = [waitingForExit EXCEPT ![s] = now + AcceptanceWindow]
        /\ startedByDurableWrite' = startedByDurableWrite \cup {s}
        /\ write' = [write EXCEPT ![e] = "logging"]
        /\ UNCHANGED retiredStoryNames
  /\ UNCHANGED <<now, orphans, threads, control, ended, history>>

\* The log has the event and its group has synced: the handler ingests it
IngestDurable(e) ==
  /\ write[e] = "logging"
  /\ Ingest(e)
  /\ UNCHANGED <<now, waitingForExit, startedByDurableWrite, retiredStoryNames, orphans, threads, control, ended, history>>

-----------------------------------------------------------------------------
(* The collection threads: dataCollectionTask                               *)

GoOn(t, where) == pc' = [pc EXCEPT ![t] = where]

is_empty == Orphans = {} /\ Recording = {}
KeepCollecting == state # "shutting down" \/ ~is_empty
\* The loop's condition fails: the thread ends
EndTask(t) ==
  /\ pc[t] = "check" /\ ~KeepCollecting /\ GoOn(t, "done")
  /\ UNCHANGED <<now, store, orphans, write, listed, control, ended, history>>

\* Mutant of drainOrphanEvents: the queue is swapped out and only the orphans
\* whose story has a handle find a place again.
MutDrainOrphanEvents(t) ==
  /\ pc[t] = "check" /\ KeepCollecting /\ GoOn(t, "collect")
  /\ pipelines' = [s \in Stories |->
       IF s \in Recording THEN [pipelines[s] EXCEPT !.deque = @ \o orphans[s]] ELSE pipelines[s]]
  /\ orphans' = [s \in Stories |-> <<>>]
  /\ UNCHANGED <<now, waitingForExit, startedByDurableWrite, retiredStoryNames, write, listed, control,
                 ended, history>>

\* The loop goes round, and begins with the orphans: those whose story has a
\* handle by now are put in it
drainOrphanEvents(t) ==
  /\ pc[t] = "check" /\ KeepCollecting /\ GoOn(t, "collect")
  /\ pipelines' = [s \in Stories |->
       IF s \in Recording THEN [pipelines[s] EXCEPT !.deque = @ \o orphans[s]] ELSE pipelines[s]]
  /\ orphans' = [s \in Stories |-> IF s \in Recording THEN <<>> ELSE orphans[s]]
  /\ UNCHANGED <<now, waitingForExit, startedByDurableWrite, retiredStoryNames, write, listed, control,
                 ended, history>>

collectIngestedEvents(t) ==
  /\ pc[t] = "collect" /\ Unlocked /\ GoOn(t, "extract")
  /\ pipelines' = [s \in Stories |-> mergeEvents(pipelines[s])]
  /\ discarded' = discarded \cup UNION {Unplaced(pipelines[s].deque) : s \in Stories}
  /\ UNCHANGED <<now, waitingForExit, startedByDurableWrite, retiredStoryNames, orphans, write, listed,
                 control, sealed, history>>

\* extractDecayedStoryChunks of the pipelines of S
Extract(t, S, reading) ==
  LET Kept(s) == Behead(pipelines[s], Decayed(pipelines[s], reading)) IN
  /\ pipelines' = [s \in Stories |-> IF s \in S THEN Kept(s) ELSE pipelines[s]]
  /\ ingestSealedChunk(UNION {pipelines[s].events \ Kept(s).events : s \in S})

\* The thread asks for the time and takes the mutex for all the pipelines.  It
\* never leaves the loop of one whose head chunk is due exactly now.
extractDecayedStoryChunks(t) == \E reading \in Readings :
  /\ pc[t] = "extract" /\ Unlocked
  /\ LET stuck == {s \in Recording : Spins(pipelines[s], reading)} IN
     IF stuck = {}
     THEN Extract(t, Recording, reading) /\ GoOn(t, "retire")
     ELSE \E s \in stuck, before \in SUBSET (Recording \ stuck) :
            Extract(t, before \cup {s}, reading) /\ GoOn(t, "spinning")
  /\ UNCHANGED <<now, waitingForExit, startedByDurableWrite, retiredStoryNames, orphans, write, listed,
                 control, discarded, history>>

\* A pipeline a durable write started stays a window past its last event,
\* unless collection is shutting down
StillFed(s) ==
  /\ acceptingPipelines /\ s \in startedByDurableWrite
  /\ pipelines[s].lastArrival + pipelines[s].window > now

\* Mutant of retireDecayedPipelines: the pipeline goes without merging its handle.
MutRetireDecayedPipelines(t) ==
  LET due == {s \in WaitingForExit : now >= waitingForExit[s]}
      retired == {s \in due : ~StillFed(s)} IN
  /\ pc[t] = "retire" /\ Unlocked /\ GoOn(t, "list")
  /\ pipelines' = [s \in Stories |-> IF s \in retired THEN NoPipeline ELSE pipelines[s]]
  /\ waitingForExit' = [s \in Stories |-> IF s \in retired THEN NoExit
                          ELSE IF s \in due THEN pipelines[s].lastArrival + pipelines[s].window
                          ELSE waitingForExit[s]]
  /\ startedByDurableWrite' = startedByDurableWrite \ retired
  /\ retiredStoryNames' = retiredStoryNames \cup retired
  /\ ingestSealedChunk(UNION {pipelines[s].events : s \in retired})
  /\ UNCHANGED <<now, orphans, write, listed, control, discarded, history>>

\* Pipelines whose time has come leave the map and the ingestion queue, and
\* finalize merges what their handle still has and seals every chunk.
retireDecayedPipelines(t) ==
  LET due == {s \in WaitingForExit : now >= waitingForExit[s]}
      retired == {s \in due : ~StillFed(s)} IN
  /\ pc[t] = "retire" /\ Unlocked /\ GoOn(t, "list")
  /\ pipelines' = [s \in Stories |-> IF s \in retired THEN NoPipeline ELSE pipelines[s]]
  /\ waitingForExit' = [s \in Stories |-> IF s \in retired THEN NoExit
                          ELSE IF s \in due THEN pipelines[s].lastArrival + pipelines[s].window
                          ELSE waitingForExit[s]]
  /\ startedByDurableWrite' = startedByDurableWrite \ retired
  /\ retiredStoryNames' = retiredStoryNames \cup retired
  /\ ingestSealedChunk(UNION {mergeEvents(pipelines[s]).events : s \in retired})
  /\ discarded' = discarded \cup UNION {Unplaced(pipelines[s].deque) : s \in retired}
  /\ UNCHANGED <<now, orphans, write, listed, control, history>>

\* Mutant of orphanStoryIds: only stories with a pipeline are looked at.
MutOrphanStoryIds(t) ==
  /\ pc[t] = "list"
  /\ listed' = [listed EXCEPT ![t] = {s \in Recording : orphans[s] # <<>>}]
  /\ GoOn(t, IF Orphans = {} THEN "check" ELSE "seal")
  /\ UNCHANGED <<now, store, orphans, write, control, ended, history>>

orphanStoryIds(t) ==
  /\ pc[t] = "list"
  /\ listed' = [listed EXCEPT ![t] = {s \in Stories : orphans[s] # <<>>}]
  /\ GoOn(t, IF Orphans = {} THEN "check" ELSE "seal")
  /\ UNCHANGED <<now, store, orphans, write, control, ended, history>>

\* Mutant of sealOrphanedEvents: the orphans of a story that has come back are sealed too.
MutSealOrphanedEvents(t) ==
  LET late_ids == listed[t] \cap retiredStoryNames IN
  /\ pc[t] = "seal" /\ Unlocked /\ GoOn(t, "check")
  /\ ingestSealedChunk(UNION {Placed(orphans[s]) : s \in late_ids})
  /\ discarded' = discarded \cup UNION {Unplaced(orphans[s]) : s \in late_ids}
  /\ listed' = [listed EXCEPT ![t] = {}]
  /\ UNCHANGED <<now, store, orphans, write, control, history>>

\* Orphans of a story that has retired here and is not recorded again are
\* sealed under the names kept of it
sealOrphanedEvents(t) ==
  LET late_ids == (listed[t] \cap retiredStoryNames) \ Recording IN
  /\ pc[t] = "seal" /\ Unlocked /\ GoOn(t, "check")
  /\ ingestSealedChunk(UNION {Placed(orphans[s]) : s \in late_ids})
  /\ discarded' = discarded \cup UNION {Unplaced(orphans[s]) : s \in late_ids}
  /\ orphans' = [s \in Stories |-> IF s \in late_ids THEN <<>> ELSE orphans[s]]
  /\ listed' = [listed EXCEPT ![t] = {}]
  /\ UNCHANGED <<now, store, write, control, history>>

-----------------------------------------------------------------------------
(* The end of data collection                                               *)

Phase(from, to) == keeper = from /\ keeper' = to
Rest == <<now, store, orphans, write, ended, history>>

\* stopAcceptingWrites closes the gate and returns when the accepted writes
\* inside have ingested; that it may give up after 5 s is DurableWrite's
CloseGate ==
  /\ Phase("serving", "closing") /\ state = "running" /\ now <= LastRequest
  /\ UNCHANGED <<threads, acceptingPipelines, state, Rest>>

\* shutdownDataCollection: pipelines are refused, then the state changes, then
\* every pipeline is put on the waiting list, then the threads are joined
StopAccepting ==
  /\ Phase("closing", "changing") /\ Unlocked
  /\ \A e \in Events \ Durable : write[e] # "astray"
  /\ acceptingPipelines' = FALSE /\ UNCHANGED <<threads, state, Rest>>
ChangeState ==
  /\ Phase("changing", "labelling") /\ state' = "shutting down"
  /\ UNCHANGED <<threads, acceptingPipelines, Rest>>

\* Mutant of LabelPipelines: a pipeline that waits already is given up on.
MutLabelPipelines ==
  /\ Phase("labelling", "joining") /\ Unlocked
  /\ waitingForExit' = [s \in Stories |-> IF s \in Recording \ WaitingForExit THEN NoExit
                          ELSE waitingForExit[s]]
  /\ UNCHANGED <<now, pipelines, startedByDurableWrite, retiredStoryNames, orphans, write,
                 ended, history, threads, acceptingPipelines, state>>

LabelPipelines ==
  /\ Phase("labelling", "joining") /\ Unlocked
  /\ waitingForExit' = [s \in Stories |-> IF s \in Recording \ WaitingForExit THEN now + pipelines[s].window
                          ELSE waitingForExit[s]]
  /\ UNCHANGED <<now, pipelines, startedByDurableWrite, retiredStoryNames, orphans, write,
                 ended, history, threads, acceptingPipelines, state>>

Joined ==
  /\ Phase("joining", "ended") /\ \A t \in Threads : pc[t] = "done"
  /\ UNCHANGED <<threads, acceptingPipelines, state, Rest>>

\* Time passes.  What a request or the shutdown starts, it starts by LastRequest.
Tick ==
  /\ now < MaxTime /\ now' = now + 1
  /\ now < LastRequest \/ keeper \notin {"closing", "changing", "labelling"}
  /\ UNCHANGED <<store, orphans, write, threads, control, ended, history>>

Shutdown == CloseGate \/ StopAccepting \/ ChangeState \/ LabelPipelines \/ Joined
ThreadStep(t) ==
  \/ EndTask(t) \/ drainOrphanEvents(t) \/ collectIngestedEvents(t) \/ extractDecayedStoryChunks(t)
  \/ retireDecayedPipelines(t) \/ orphanStoryIds(t) \/ sealOrphanedEvents(t)
Handler(e) == StoreOrphan(e) \/ ensureStoryPipeline(e) \/ IngestDurable(e)
Request ==
  \/ \E s \in Stories : startStoryRecording(s) \/ stopStoryRecording(s)
  \/ \E e \in Events : record_event(e) \/ hasStoryIngestionHandle(e)
Next ==
  \/ replayRecoveredEvents \/ startDataCollection \/ Request \/ Shutdown \/ Tick
  \/ \E e \in Events : Handler(e)
  \/ \E t \in Threads : ThreadStep(t)

Spec == Init /\ [][Next]_vars

\* The clock goes on, and so does a shutdown that has begun; some thread takes
\* its next step as long as one can, and so does some handler under way.  No
\* request has to come.
FairSpec ==
  /\ Spec
  /\ WF_vars(Tick)
  /\ WF_vars(startDataCollection \/ (keeper # "serving" /\ Shutdown))
  /\ WF_vars(\E t \in Threads : ThreadStep(t))
  /\ WF_vars(\E e \in Events : Handler(e))

-----------------------------------------------------------------------------
(* Properties                                                               *)

TypeOK ==
  /\ now \in 0 .. MaxTime
  /\ \A s \in Stories : /\ pipelines[s].events \subseteq Events /\ Range(pipelines[s].deque) \subseteq Events
                        /\ {pipelines[s].start, pipelines[s].end, pipelines[s].window, waitingForExit[s]} \subseteq Nat
  /\ startedByDurableWrite \subseteq Stories /\ retiredStoryNames \subseteq Stories
  /\ acceptingPipelines \in BOOLEAN /\ state \in {"initialized", "running", "shutting down"}
  /\ Orphans \subseteq Events
  /\ write \in [Events -> {"new", "astray", "ensuring", "logging", "taken", "refused", "logged"}]
  /\ pc \in [Threads -> {"none", "check", "collect", "extract", "spinning", "retire", "list", "seal", "done"}]
  /\ listed \in [Threads -> SUBSET Stories]
  /\ keeper \in {"recovering", "serving", "closing", "changing", "labelling", "joining", "ended"}

\* the places an event is in, each copy in a queue counted
Copies(name, queue, s, e) == {<<name, s, i>> : i \in {i \in DOMAIN queue : queue[i] = e}}
Queued(e) ==
  UNION {Copies("orphan", orphans[s], s, e) \cup Copies("deque", pipelines[s].deque, s, e) : s \in Stories}
Places(e) ==
  Queued(e) \cup {<<"timeline", s>> : s \in {s \in Stories : e \in pipelines[s].events}}
            \cup {<<"sealed">> : x \in {e} \cap sealed} \cup {<<"discarded">> : x \in {e} \cap discarded}
            \cup {<<w>> : w \in {write[e]} \cap {"astray"}}

\* Whatever the handlers, the collection threads and the visor's requests do
\* between one another's steps, an event taken in is in one place: never lost
\* on the way from the queue to a sealed chunk, and never in two chunks.
InOnePlace == \A e \in Events :
  Cardinality(Places(e)) = IF write[e] \in {"taken", "astray"} THEN 1 ELSE 0

\* While the keeper runs, a story the visor has started and not stopped is
\* recorded and not about to retire, even if a durable write or an earlier stop
\* had put its pipeline on the waiting list.
StartedStaysRecorded ==
  state = "running" /\ acceptingPipelines => held \subseteq Recording \ WaitingForExit

\* Once the collection threads have ended, every event of an accepted write,
\* and every event recovered from the log, has been handed over (or could not
\* be placed).
NothingLeftBehind ==
  (\A t \in Threads : pc[t] = "done") =>
    \A e \in (Events \ Durable) \cup Recovered : write[e] = "taken" => e \in sealed \cup discarded

\* The event of an accepted write, which nothing but the keeper's memory has,
\* does not stay an orphan once its story has retired here: it is sealed, or
\* goes back into a pipeline, unless the threads have ended or hang.
LateEventRescued == \A e \in Events \ Durable :
  (e \in Orphans /\ StoryOf[e] \in retiredStoryNames)
    ~> (e \notin Orphans \/ \E t \in Threads : pc[t] \in {"done", "spinning"})

\* The shutdown of data collection ends, unless an event came for a story that
\* was never recorded here, a story was started after the pipelines were put
\* on the waiting list, or a thread hangs.
ShutdownEnds ==
  (keeper = "joining") ~>
    (keeper = "ended" \/ late # {} \/ (\E e \in Orphans : StoryOf[e] \notin retiredStoryNames)
     \/ \E t \in Threads : pc[t] = "spinning")

\* A late event does not make the acceptance window of its story smaller
\* (mergeEvents, on the window it sets for a late event).
WindowNeverShrinks ==
  [][\A s \in Stories : s \in Recording /\ pipelines'[s].live
       => pipelines'[s].window >= pipelines[s].window]_vars

\* Where each event really is, as EventCustody sees it: from the places that
\* have a copy of it, or the log before its replay
Custody == [e \in Events |->
  IF \E x, y \in Places(e) : x # y THEN "twice"
  ELSE IF Places(e) = {} /\ write[e] # "logged" THEN "none"
  ELSE IF e \in sealed THEN "sealed" ELSE IF e \in discarded THEN "given up" ELSE "held"]
Promise == INSTANCE EventCustody WITH custody <- Custody
\* The ingestion path implements the promise: an event once taken in, by a
\* write or from the log, stays in one place of the keeper's until it is
\* sealed, or given up because no chunk takes it; no step loses it, doubles it,
\* or brings a sealed one back.
KeepsCustody == Promise!Spec
=============================================================================
