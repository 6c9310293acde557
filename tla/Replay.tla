------------------------------- MODULE Replay -------------------------------
(***************************************************************************)
(* A replay of a story, from the client's call to its return: the client   *)
(* query service, the player's playback service, hot fetches from the      *)
(* keepers, the split between keepers and archive, the archive read, the   *)
(* response agent and the response handler at the client.                  *)
(*                                                                         *)
(* The keepers' chunks move on while a replay is under way.  What a chunk  *)
(* goes through is kept to what a replay can tell apart (ChunkDelivery has *)
(* the rest): held by the keeper alone, with the grapher, on disk, known   *)
(* by the keeper to be on disk, on disk for longer than the archive        *)
(* visibility delay, freed, and lost with its keeper.  A report reaches a  *)
(* keeper late or never; since a keeper only adds a report to what it      *)
(* knows, a late report is an early one that was the last to arrive.       *)
(*                                                                         *)
(* A keeper's log brings back what was written durable and nothing else:   *)
(* the durable and the accepted events of one chunk are two chunks here.   *)
(*                                                                         *)
(* Events are numbers in EventSequence order (time, client id, index).     *)
(***************************************************************************)
EXTENDS Naturals, Sequences, FiniteSets, SequencesExt, FiniteSetsExt

CONSTANTS
  Keepers, Chunks, KeeperOf,
  EventsOf, TimeOf,
  EndOf,              \* getEndTime of a chunk
  DurableChunks,      \* those whose events are in the keeper's WAL; none with the WAL off
  Queries,            \* the replays one client calls, each once
  Scenarios,          \* sets of ranges [start, end] to ask for, kHotFetchMaxEvents and a bound on how many
                      \* keepers restart or leave the story, chosen at the beginning
  WindowEnds,         \* where the grapher's windows end, and W may be
  MaxTime             \* bound: the last time of an event or a watermark

Events == UNION {EventsOf[c] : c \in Chunks}
Infinite == MaxTime + 1   \* UINT64_MAX, as a hot floor

ASSUME ReplayAssumption ==
  /\ KeeperOf \in [Chunks -> Keepers] /\ EndOf \in [Chunks -> Nat] /\ DurableChunks \subseteq Chunks
  /\ MaxTime \in Nat /\ Events \subseteq Nat /\ IsFiniteSet(Events) /\ TimeOf \in [Events -> 1 .. MaxTime]
  /\ \A e, f \in Events : e < f => TimeOf[e] <= TimeOf[f]
  /\ \A c \in Chunks : \A e \in EventsOf[c] : TimeOf[e] < EndOf[c]
  /\ \A s \in Scenarios : s.ranges \subseteq [start : Nat, end : Nat] /\ {s.kHotFetchMaxEvents, s.departures} \subseteq Nat
  /\ WindowEnds \subseteq 1 .. MaxTime

VARIABLES
  chunk,        \* how far the keeper knows each chunk to be
  inGrapher,    \* chunks in the grapher's memory
  archive,      \* chunks that are in a file of the archive, and those there for the visibility delay
  watermark,    \* the grapher's W for the story
  known_w,      \* the W each keeper last heard of
  storyKeepers, \* the player's roster of the story
  scenario,     \* never changes
  range, client, ret, query, series, \* the call: what it asks, how far it is, its query object and vector
  fetch,        \* the answers of the keepers a replay has asked
  player,       \* how far the player is with a query
  response,     \* the PlaybackQueryResponse, and the end of the archive read it waits for
  handler,      \* the client's receive_query_response
  due, disturbed, departures  \* history: what a replay has to return; whether a keeper that has freed a chunk
                              \* has restarted or left the story; how many did either

keeperVars == <<chunk, inGrapher, archive, watermark, known_w, storyKeepers, scenario>>
clientVars == <<range, client, ret, query, series>>
playerVars == <<fetch, player, response>>
history == <<disturbed, departures>>
vars == <<keeperVars, clientVars, playerVars, handler, due, history>>

NoRange == [start |-> 0, end |-> 0]
NoQuery == [live |-> FALSE, completed |-> FALSE, complete |-> TRUE]
NoResponse == [events |-> <<>>, complete |-> FALSE, archiveEnd |-> 0]
NotAsked == [state |-> "none"]

Retained(c) == chunk[c] \in {"sealed", "shipped", "settled", "visible"}
\* the events of S in EventSequence order: the i-th is the one with i of them up to it
Ascending(S) == [i \in 1 .. Cardinality(S) |-> CHOOSE e \in S : Cardinality({f \in S : f <= e}) = i]
InRange(e, start, end) == TimeOf[e] >= start /\ TimeOf[e] < end

Init ==
  /\ chunk = [c \in Chunks |-> "open"] /\ inGrapher = {} /\ archive = [written |-> {}, readable |-> {}]
  /\ watermark = 0 /\ known_w = [k \in Keepers |-> 0] /\ storyKeepers = Keepers
  /\ scenario \in Scenarios
  /\ range = [q \in Queries |-> NoRange] /\ client = [q \in Queries |-> "idle"]
  /\ ret = [q \in Queries |-> "none"] /\ query = [q \in Queries |-> NoQuery]
  /\ series = [q \in Queries |-> <<>>]
  /\ fetch = [q \in Queries |-> [k \in Keepers |-> NotAsked]]
  /\ player = [q \in Queries |-> "none"] /\ response = [q \in Queries |-> NoResponse]
  /\ handler = [q \in Queries |-> "none"]
  /\ due = [q \in Queries |-> {}] /\ disturbed = FALSE /\ departures = 0

-----------------------------------------------------------------------------
(* The keepers, the grapher and the archive while replays run               *)

Others == <<scenario, clientVars, playerVars, handler, due, history>>

ingestSealedChunk(c) ==
  /\ chunk[c] = "open" /\ KeeperOf[c] \in storyKeepers
  /\ chunk' = [chunk EXCEPT ![c] = "sealed"]
  /\ UNCHANGED <<inGrapher, archive, watermark, known_w, storyKeepers, Others>>

\* The grapher has acknowledged the chunk.
markShipped(c) ==
  /\ chunk[c] = "sealed"
  /\ chunk' = [chunk EXCEPT ![c] = "shipped"] /\ inGrapher' = inGrapher \cup {c}
  /\ UNCHANGED <<archive, watermark, known_w, storyKeepers, Others>>

WriteChunk(c) ==
  /\ c \in inGrapher
  /\ inGrapher' = inGrapher \ {c} /\ archive' = [archive EXCEPT !.written = @ \cup {c}]
  /\ UNCHANGED <<chunk, watermark, known_w, storyKeepers, Others>>

\* W passes what the grapher has taken in only once it is written; a chunk
\* that has not reached the grapher yet does not hold it back.
advancePersisted(w) ==
  /\ w > watermark /\ \A c \in inGrapher : EndOf[c] > w
  /\ watermark' = w
  /\ UNCHANGED <<chunk, inGrapher, archive, known_w, storyKeepers, Others>>

\* A report settles the receipts of the chunks the grapher has written.
applyReport(k) ==
  /\ watermark > 0 /\ k \in storyKeepers
  /\ known_w' = [known_w EXCEPT ![k] = Max({@, watermark})]
  /\ chunk' = [c \in Chunks |-> IF KeeperOf[c] = k /\ chunk[c] = "shipped" /\ c \notin inGrapher
                                  THEN "settled" ELSE chunk[c]]
  /\ <<known_w', chunk'>> # <<known_w, chunk>>
  /\ UNCHANGED <<inGrapher, archive, watermark, storyKeepers, Others>>

\* archiveVisibilityDelay has passed since the keeper first saw the chunk settled
visibleInArchive(c) ==
  /\ chunk[c] = "settled"
  /\ chunk' = [chunk EXCEPT ![c] = "visible"] /\ archive' = [archive EXCEPT !.readable = @ \cup {c}]
  /\ UNCHANGED <<inGrapher, watermark, known_w, storyKeepers, Others>>

\* The tail index may hold a chunk for longer: the step need not come.
maybeFreeChunk(c) ==
  /\ chunk[c] = "visible" /\ EndOf[c] <= known_w[KeeperOf[c]]
  /\ chunk' = [chunk EXCEPT ![c] = "freed"]
  /\ UNCHANGED <<inGrapher, archive, watermark, known_w, storyKeepers, Others>>

\* A keeper process ends.  What it held and does not get back is in the archive
\* or, where it may not be read there yet, lost to a replay, and a replay that
\* has not got the keeper's answer need not return it.
confirmedWritten(c) == chunk[c] \in {"settled", "visible"} /\ EndOf[c] <= known_w[KeeperOf[c]]
Without(k, back) ==
  /\ chunk' = [c \in Chunks |-> IF KeeperOf[c] # k \/ chunk[c] \in {"open", "lost"} THEN chunk[c]
                                ELSE IF c \in back THEN "sealed"
                                ELSE IF c \in archive.readable THEN "freed" ELSE "lost"]
  /\ disturbed' = (disturbed \/ \E c \in Chunks : KeeperOf[c] = k /\ chunk'[c] = "freed")
  /\ due' = [q \in Queries |->
               IF player[q] = "none" \/ fetch[q][k].state = "asked"
               THEN due[q] \ UNION {EventsOf[c] : c \in {d \in Chunks : chunk'[d] = "lost" /\ chunk[d] # "lost"}}
               ELSE due[q]]
  /\ departures < scenario.departures /\ departures' = departures + 1
  /\ UNCHANGED <<inGrapher, archive, watermark, scenario, clientVars, playerVars, handler>>

\* A keeper comes back from a crash.  Recovery reads back the durable events in
\* the segments that are left: what was not confirmed written, and of the rest
\* what shares a segment with such events or was not deleted yet.  It knows
\* nothing of W.
RestartKeeper(k) ==
  LET confirmed(c) == confirmedWritten(c) \/ chunk[c] = "freed"
      logged == {c \in DurableChunks : KeeperOf[c] = k /\ chunk[c] \notin {"open", "lost"}}
  IN  /\ k \in storyKeepers
      /\ \E again \in SUBSET {c \in logged : confirmed(c)} : Without(k, again \cup {c \in logged : ~confirmed(c)})
      /\ known_w' = [known_w EXCEPT ![k] = 0] /\ UNCHANGED storyKeepers

\* A keeper stops, when the grapher has confirmed every chunk it held or the
\* time for that is over, and the next start of the story brings the player a
\* roster without it.
setStoryKeepers(k) ==
  /\ k \in storyKeepers /\ storyKeepers' = storyKeepers \ {k}
  /\ Without(k, {}) /\ UNCHANGED known_w

-----------------------------------------------------------------------------
(* The player: playback service, archive reading, response agent            *)

KeepersUnchanged == UNCHANGED <<keeperVars, history>>

\* story_playback_request arrives; the agent of the receiver may fail to be
\* created.  Every keeper of the roster is asked before any answer is awaited.
BeginPlayback(q) ==
  /\ client[q] = "waiting" /\ player[q] = "none"
  /\ \/ /\ player' = [player EXCEPT ![q] = "fetching"]
        /\ fetch' = [fetch EXCEPT ![q] = [k \in Keepers |-> IF k \in storyKeepers THEN [state |-> "asked"]
                                                             ELSE NotAsked]]
     \/ player' = [player EXCEPT ![q] = "gone"] /\ UNCHANGED fetch
  /\ KeepersUnchanged /\ UNCHANGED <<clientVars, response, handler, due>>

\* KeeperChunkRetentionStore::fetchRange, under tailMutex
Acknowledged(k, e) == \E c \in Chunks : KeeperOf[c] = k /\ chunk[c] = "visible" /\ e \in EventsOf[c]
fetchRange(k, start, end) ==
  LET retained == UNION {EventsOf[c] : c \in {d \in Chunks : KeeperOf[d] = k /\ Retained(d)}}
      wanted == {e \in retained : InRange(e, start, end) /\ ~(Acknowledged(k, e) /\ TimeOf[e] < known_w[k])}
      ordered == Ascending(wanted)
      served == Range(SubSeq(ordered, 1, Min({scenario.kHotFetchMaxEvents, Len(ordered)})))
  IN  [state |-> "answered", known_W |-> known_w[k],
       hot_floor |-> Min({TimeOf[e] : e \in retained} \cup {Infinite}),
       events |-> {e \in served : Acknowledged(k, e)},
       unconfirmed_events |-> {e \in served : ~Acknowledged(k, e)},
       truncated |-> Cardinality(wanted) > scenario.kHotFetchMaxEvents]

AnswerFetch(q, k) ==
  /\ player[q] = "fetching" /\ fetch[q][k].state = "asked"
  /\ fetch' = [fetch EXCEPT ![q][k] = fetchRange(k, range[q].start, range[q].end)]
  /\ KeepersUnchanged /\ UNCHANGED <<clientVars, player, response, handler, due>>

\* no client for the keeper, an RPC error, or the fetch deadline
unansweredResponse == [state |-> "unanswered", known_W |-> 0, hot_floor |-> Infinite, events |-> {},
                       unconfirmed_events |-> {}, truncated |-> FALSE]
MissFetch(q, k) ==
  /\ player[q] = "fetching" /\ fetch[q][k].state = "asked"
  /\ fetch' = [fetch EXCEPT ![q][k] = unansweredResponse]
  /\ KeepersUnchanged /\ UNCHANGED <<clientVars, player, response, handler, due>>

\* Mutant of splitHotRange: the split at the lowest watermark.
MutSplitHotRange(responses, start, end) ==
  LET boundary == Min({end} \cup {r.known_W : r \in responses})
  IN  [boundary |-> boundary,
       hotEvents |-> UNION {r.unconfirmed_events \cup {e \in r.events : TimeOf[e] >= boundary} : r \in responses},
       complete |-> boundary <= start]

splitHotRange(responses, start, end) ==
  LET highest_watermark == Max({r.known_W : r \in responses} \cup {0})
      lowest_floor == Min({r.hot_floor : r \in responses} \cup {Infinite})
      boundary == Min({end, IF highest_watermark > 0 THEN highest_watermark ELSE lowest_floor})
  IN  [boundary |-> boundary,
       hotEvents |-> UNION {r.unconfirmed_events \cup {e \in r.events : TimeOf[e] >= boundary} : r \in responses},
       complete |-> boundary <= start]

planReplay(split, end, all_keepers_answered, any_truncated) ==
  [complete |-> all_keepers_answered /\ ~any_truncated,
   archiveNeeded |-> ~all_keepers_answered \/ ~split.complete,
   archiveEnd |-> IF all_keepers_answered THEN split.boundary ELSE end]

\* The last keeper's answer is in: the record of the query is stashed, ready
\* unless an archive read is queued for it, and the request is answered.
stashQueryResponseRecord(q) ==
  LET responses == {fetch[q][k] : k \in {j \in Keepers : fetch[q][j].state # "none"}}
      split == splitHotRange(responses, range[q].start, range[q].end)
      plan == planReplay(split, range[q].end, \A r \in responses : r.state = "answered",
                         \E r \in responses : r.truncated)
  IN  /\ player[q] = "fetching" /\ \A r \in responses : r.state # "asked"
      /\ response' = [response EXCEPT ![q] =
           [events |-> Ascending(split.hotEvents), complete |-> plan.complete, archiveEnd |-> plan.archiveEnd]]
      /\ player' = [player EXCEPT ![q] = IF ~plan.archiveNeeded THEN "ready" ELSE "queued"]
      /\ fetch' = [fetch EXCEPT ![q] = [k \in Keepers |-> NotAsked]]
      /\ KeepersUnchanged /\ UNCHANGED <<clientVars, handler, due>>

\* What a read may find: every chunk that has been in the archive for the
\* visibility delay, and others that are written; a failed read misses some.
\* The rows of each file; an event of two chunks is in two.
readArchivedStory(found, q) ==
  [c \in found |-> Ascending({e \in EventsOf[c] : InRange(e, range[q].start, response[q].archiveEnd)})]

\* Mutant of mergeReplayEvents: appended rather than merged.
MutMergeReplayEvents(archived, hot) ==
  FlattenSeq([i \in 1 .. Cardinality(DOMAIN archived) |-> archived[SetToSeq(DOMAIN archived)[i]]]) \o hot
mergeReplayEvents(archived, hot) ==
  Ascending(Range(hot) \cup UNION {Range(archived[c]) : c \in DOMAIN archived})

\* ArchiveReadingRequest
is_valid(q) == range[q].start > 0 /\ range[q].start < response[q].archiveEnd
\* An invalid request is dropped, and its query stays stashed.
DropReadingRequest(q) ==
  /\ player[q] = "queued" /\ ~is_valid(q)
  /\ player' = [player EXCEPT ![q] = "stuck"]
  /\ KeepersUnchanged /\ UNCHANGED <<clientVars, fetch, response, handler, due>>

\* A reading thread takes the request, reads, and completes the record.
addArchivedEventsToQueryResponse(q) ==
  /\ player[q] = "queued" /\ is_valid(q)
  /\ \E found \in SUBSET archive.written, read_status \in {"success", "error"} :
       LET archived == readArchivedStory(found, q) IN
       /\ read_status = "success" => archive.readable \subseteq found
       /\ response' = [response EXCEPT
            ![q].complete = @ /\ read_status = "success",
            ![q].events = IF \A c \in found : archived[c] = <<>> THEN @ ELSE mergeReplayEvents(archived, @)]
  /\ player' = [player EXCEPT ![q] = "ready"]
  /\ KeepersUnchanged /\ UNCHANGED <<clientVars, fetch, handler, due>>

\* drainQueryResponses takes the record off active_queries and sends it, once.
\* The response is lost on the way, or the client's handler looks its query up,
\* without the mutex; a query that is over is not found.
transferQueryResponseToClient(q) ==
  /\ player[q] = "ready"
  /\ player' = [player EXCEPT ![q] = "gone"]
  /\ \/ query[q].live /\ handler' = [handler EXCEPT ![q] = "found"] /\ UNCHANGED response
     \/ UNCHANGED handler /\ response' = [response EXCEPT ![q] = NoResponse]
  /\ KeepersUnchanged /\ UNCHANGED <<clientVars, fetch, due>>

-----------------------------------------------------------------------------
(* The client                                                               *)

\* The events a replay called now has to return: those in sealed chunks.
Visible == UNION {EventsOf[c] : c \in {d \in Chunks : chunk[d] \notin {"open", "lost"}}}

\* start_query and the request, in one replay_story
replay_story(q, r) ==
  /\ client[q] = "idle"
  /\ client' = [client EXCEPT ![q] = "waiting"] /\ range' = [range EXCEPT ![q] = r]
  /\ query' = [query EXCEPT ![q] = [NoQuery EXCEPT !.live = TRUE]]
  /\ due' = [due EXCEPT ![q] = {e \in Visible : InRange(e, r.start, r.end)}]
  /\ KeepersUnchanged /\ UNCHANGED <<ret, series, playerVars, handler>>

\* stop_query erases the query object whoever refers to it
stop_query(q) == query' = [query EXCEPT ![q] = NoQuery]
Return(q, code) ==
  /\ client' = [client EXCEPT ![q] = "returned"] /\ ret' = [ret EXCEPT ![q] = code]
  /\ due' = [due EXCEPT ![q] = IF code = "CL_SUCCESS" THEN @ ELSE {}]

\* The request fails: it does not reach the player, or the player's answer to
\* it is lost.
send_story_playback_request(q) ==
  /\ client[q] = "waiting" /\ player[q] # "fetching"
  /\ stop_query(q) /\ Return(q, "CL_ERR_NO_PLAYERS")
  /\ KeepersUnchanged /\ UNCHANGED <<range, series, playerVars, handler>>

\* The player has answered the request, with the query's id or with 0, which
\* the client does not look at, and the polling loop ends: on completion or at
\* timeout_time.  Completion is looked at once more before the query goes.
dispatch_query(q) ==
  /\ client[q] = "waiting" /\ player[q] \notin {"none", "fetching"}
  /\ Return(q, IF ~query[q].completed THEN "CL_ERR_QUERY_TIMED_OUT"
               ELSE IF query[q].complete THEN "CL_SUCCESS" ELSE "CL_ERR_PARTIAL_RESULT")
  /\ stop_query(q)
  /\ KeepersUnchanged /\ UNCHANGED <<range, series, playerVars, handler>>
\* Mutant of WriteSeries: the query is completed before its events are written.
MutWriteSeries(q) ==
  /\ handler[q] = "found"
  /\ \/ /\ query[q].live /\ ~query[q].completed
        /\ query' = [query EXCEPT ![q].complete = response[q].complete, ![q].completed = TRUE]
        /\ UNCHANGED <<series, handler>>
     \/ /\ ~query[q].live \/ query[q].completed
        /\ series' = [series EXCEPT ![q] = response[q].events]
        /\ handler' = [handler EXCEPT ![q] = "written"] /\ UNCHANGED query
  /\ KeepersUnchanged /\ UNCHANGED <<range, client, ret, playerVars, due>>

\* receive_query_response hands over the events, in one assignment or one
\* callback each.  A query erased in the meantime is read all the same: its
\* memory may still hold the vector's address, or no longer.
WriteSeries(q) ==
  /\ handler[q] = "found"
  /\ handler' = [handler EXCEPT ![q] = "written"]
  /\ \/ series' = [series EXCEPT ![q] = response[q].events]
     \/ ~query[q].live /\ UNCHANGED series
  /\ KeepersUnchanged /\ UNCHANGED <<range, client, ret, query, playerVars, due>>

\* complete and completed, of a query that may have been erased
receive_query_response(q) ==
  /\ handler[q] = "written"
  /\ handler' = [handler EXCEPT ![q] = "done"]
  /\ query' = [query EXCEPT ![q] = IF @.live THEN [@ EXCEPT !.complete = response[q].complete, !.completed = TRUE]
                                   ELSE @]
  /\ response' = [response EXCEPT ![q] = NoResponse]
  /\ KeepersUnchanged /\ UNCHANGED <<range, client, ret, series, fetch, player, due>>

\* What the keepers do once every archive read is over, no replay can tell.
Undecided ==
  \E q \in Queries : \/ client[q] = "idle"
                     \/ client[q] = "waiting" /\ player[q] = "none"
                     \/ player[q] \in {"fetching", "queued"}
Done == \A q \in Queries : client[q] = "returned" /\ handler[q] \in {"none", "done"} /\ player[q] \in {"none", "gone", "stuck"}

KeeperStep ==
  \/ \E c \in Chunks : \/ ingestSealedChunk(c) \/ markShipped(c) \/ WriteChunk(c)
                       \/ visibleInArchive(c) \/ maybeFreeChunk(c)
  \/ \E w \in WindowEnds : advancePersisted(w)
  \/ \E k \in Keepers : applyReport(k) \/ RestartKeeper(k) \/ setStoryKeepers(k)
PlayerStep(q) ==
  \/ BeginPlayback(q)
  \/ \E k \in Keepers : AnswerFetch(q, k) \/ MissFetch(q, k)
  \/ stashQueryResponseRecord(q) \/ DropReadingRequest(q)
  \/ addArchivedEventsToQueryResponse(q) \/ transferQueryResponseToClient(q)
HandlerStep(q) == WriteSeries(q) \/ receive_query_response(q)

Next ==
  \/ Undecided /\ KeeperStep
  \/ \E q \in Queries : \/ \E r \in scenario.ranges : replay_story(q, r)
                        \/ send_story_playback_request(q) \/ dispatch_query(q)
                        \/ PlayerStep(q) \/ HandlerStep(q)
  \/ Done /\ UNCHANGED vars

Spec == Init /\ [][Next]_vars

-----------------------------------------------------------------------------
Codes == {"none", "CL_SUCCESS", "CL_ERR_PARTIAL_RESULT", "CL_ERR_QUERY_TIMED_OUT", "CL_ERR_NO_PLAYERS"}
\* Type correctness of the state of a replay (PlaybackQuery, PlaybackQueryResponse).
TypeOK ==
  /\ chunk \in [Chunks -> {"open", "sealed", "shipped", "settled", "visible", "freed", "lost"}]
  /\ inGrapher \subseteq Chunks /\ storyKeepers \subseteq Keepers
  /\ watermark \in 0 .. MaxTime /\ known_w \in [Keepers -> 0 .. MaxTime]
  /\ ret \in [Queries -> Codes] /\ \A q \in Queries : Range(series[q]) \subseteq Events

\* The replays whose answer is the caller's: the code says so.
Answered(q) == ret[q] \in {"CL_SUCCESS", "CL_ERR_PARTIAL_RESULT"}

\* A replay that returns CL_SUCCESS has every event of its range whose chunk
\* was sealed when it was called, wherever the event was while keepers were
\* asked one after the other, their chunks written and freed, and keepers
\* crashed and read their logs back (fetchRange, splitHotRange, planReplay).
\* Two exceptions.  Events lost with their keeper before it answered: accepted
\* ones, and durable ones of a keeper that stopped, which the archive did not
\* have for its visibility delay.  And any event, once a keeper that had freed
\* a chunk has restarted without it or left the roster (disturbed).
ReplayHoldsAll ==
  \A q \in Queries : ret[q] = "CL_SUCCESS" /\ ~disturbed => due[q] \subseteq Range(series[q])

\* The same without the second exception: what a keeper has freed is found in
\* the archive whatever becomes of the keeper.  HotRangeSplit.h: "When no keeper
\* reports a watermark, no keeper has freed anything", and "every event at or
\* above B is still held by its keeper".
ReplayHoldsAllAlways ==
  \A q \in Queries : ret[q] = "CL_SUCCESS" => due[q] \subseteq Range(series[q])

\* Whatever copies of an event the keepers and the archive's files returned
\* (mergeReplayEvents), the caller gets each once, in order, and none outside
\* the range it asked for.
EachEventOnce ==
  \A q \in Queries : Answered(q) =>
    /\ \A i, j \in DOMAIN series[q] : i < j => series[q][i] < series[q][j]
    /\ \A e \in Range(series[q]) : InRange(e, range[q].start, range[q].end)

\* A replay that returned an answer is not written to any more: the handler
\* that raced the caller's timeout had finished (receive_query_response,
\* dispatch_query).
AnswerIsFinal == [][\A q \in Queries : Answered(q) => series'[q] = series[q]]_vars
=============================================================================
