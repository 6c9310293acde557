---------------------------- MODULE DurableWrite ----------------------------
(***************************************************************************)
(* A write request at the keeper, from the RPC handler to its answer: the  *)
(* write gate of KeeperRecordingService, the checks of KeeperDurableWriter, *)
(* the identity table of KeeperWal (inFlight and the pending events) with  *)
(* its committer, the ingestion queue, and the shutdown of the keeper.     *)
(*                                                                         *)
(* Each attempt is one handler; attempts of one event are the first send   *)
(* and its retries, and run concurrently: a client that gave up on an      *)
(* attempt sends the next one while the first may still be held anywhere.  *)
(* What a group's write, sync and erase do on disk is KeeperWal's; here a  *)
(* group only ends in its status.  The queue is a set: an attempt is       *)
(* queued at most once, and any non-empty part may become the next group.  *)
(***************************************************************************)
CONSTANTS
  Attempts,     \* write handlers
  Durable,      \* the attempts sent with record_event_durable
  Events,       \* identities (story, time, client, index)
  EventOf,      \* the event each attempt carries
  Empty,        \* events with an empty record
  Oversized,    \* events too large to encode
  NoAttempt

ASSUME DurableWriteAssumption ==
  /\ Durable \subseteq Attempts
  /\ EventOf \in [Attempts -> Events]
  \* a client never sends one identity both ways
  /\ \A a \in Durable, b \in Attempts \ Durable : EventOf[a] # EventOf[b]
  /\ NoAttempt \notin Attempts

VARIABLES
  pc, answer,         \* where each handler stands, and what it answered
  joined,             \* the attempt whose completion a handler waits on
  result,             \* the value set on each attempt's completion
  inFlight, pending,  \* KeeperWal's identity table
  queue, group, registered, groupStatus,   \* the committer's queue and group
  failed, walState,   \* the failure latch; "running", "stopping", "stopped"
  overCap,            \* KeeperDurableWriter::overCap
  open, inside,       \* KeeperWriteGate (the counter as the writes it counts)
  ingested, held,     \* attempts whose event is in the ingestion queue, and collected from it
  shut, timedOut,     \* the shutdown's step, and which of its waits ran out
  confirmed, dropped  \* history: events the grapher confirmed; events a destroy dropped

handlers == <<pc, answer, joined>>
wal == <<result, inFlight, pending, queue, group, registered, groupStatus, failed, walState>>
gate == <<open, inside>>
store == <<ingested, held>>
history == <<confirmed, dropped>>
vars == <<handlers, wal, overCap, gate, store, shut, timedOut, history>>

Locations == {"new", "entered", "ingesting", "gate", "lookup", "record", "cap", "pipeline",
              "append", "encode", "enqueue", "wait", "ingest", "done"}
Statuses == {"SUCCESS", "FULL", "UNAVAILABLE", "UNKNOWN", "INVALID"}
\* the shutdown of ChronoKeeperInstance, step by step
ShutSteps == {"up", "closing", "collection", "confirm", "wal", "handlers", "quiet", "deleted"}

Init ==
  /\ pc = [a \in Attempts |-> "new"]
  /\ answer = [a \in Attempts |-> "none"]
  /\ joined = [a \in Attempts |-> NoAttempt]
  /\ result = [a \in Attempts |-> "none"]
  /\ inFlight = [e \in Events |-> NoAttempt] /\ pending = {}
  /\ queue = {} /\ group = {} /\ registered = {} /\ groupStatus = "none"
  /\ failed = FALSE /\ walState = "running"
  /\ overCap = FALSE
  /\ open = TRUE /\ inside = {}
  /\ ingested = {} /\ held = {}
  /\ shut = "up" /\ timedOut = {}
  /\ confirmed = {} /\ dropped = {}

-----------------------------------------------------------------------------
(* Handler steps.                                                           *)

Go(a, where) == pc' = [pc EXCEPT ![a] = where] /\ UNCHANGED answer
Answer(a, status) ==
  /\ pc' = [pc EXCEPT ![a] = "done"]
  /\ answer' = [answer EXCEPT ![a] = status]

\* A request arrives while the service is there; KeeperWriteGate::enter counts
\* an accepted write in before it looks whether the gate is open.
Arrive(a) ==
  /\ pc[a] = "new" /\ shut # "deleted"
  /\ IF a \in Durable THEN Go(a, "gate") /\ UNCHANGED inside
                      ELSE Go(a, "entered") /\ inside' = inside \cup {a}
  /\ UNCHANGED <<joined, wal, overCap, open, store, shut, timedOut, history>>

\* Mutant of Enter: the write leaves the gate before it ingests.
MutEnter(a) ==
  /\ pc[a] = "entered"
  /\ IF open THEN Go(a, "ingesting") ELSE Answer(a, "UNKNOWN")
  /\ inside' = inside \ {a}
  /\ UNCHANGED <<joined, wal, overCap, open, store, shut, timedOut, history>>

Enter(a) ==
  /\ pc[a] = "entered"
  /\ IF open THEN Go(a, "ingesting") /\ UNCHANGED inside
             ELSE Answer(a, "UNKNOWN") /\ inside' = inside \ {a}
  /\ UNCHANGED <<joined, wal, overCap, open, store, shut, timedOut, history>>

\* ingestLogEvent, then leave() and the answer
RecordEvent(a) ==
  /\ pc[a] = "ingesting"
  /\ ingested' = ingested \cup {a}
  /\ inside' = inside \ {a}
  /\ Answer(a, "SUCCESS")
  /\ UNCHANGED <<joined, wal, overCap, open, held, shut, timedOut, history>>

\* record_event_durable: the gate is looked at, not entered
DurableGate(a) ==
  /\ pc[a] = "gate"
  /\ IF open THEN Go(a, "lookup") ELSE Answer(a, "UNAVAILABLE")
  /\ UNCHANGED <<joined, wal, overCap, gate, store, shut, timedOut, history>>

\* findIdentity found an attempt in flight, or the event durable and pending
AnsweredByFirst(a) ==
  LET e == EventOf[a] IN
  \/ /\ inFlight[e] # NoAttempt
     /\ joined' = [joined EXCEPT ![a] = inFlight[e]]
     /\ Go(a, "wait")
  \/ /\ inFlight[e] = NoAttempt /\ e \in pending
     /\ Answer(a, "SUCCESS") /\ UNCHANGED joined
NotFound(a) == inFlight[EventOf[a]] = NoAttempt /\ EventOf[a] \notin pending

LookupDurable(a) ==
  /\ pc[a] = "lookup"
  /\ AnsweredByFirst(a) \/ (NotFound(a) /\ Go(a, "record") /\ UNCHANGED joined)
  /\ UNCHANGED <<wal, overCap, gate, store, shut, timedOut, history>>

\* the empty record, then admit(): a failed or stopped WAL, or a file system
\* below the reserve
Admit(a) ==
  /\ pc[a] = "record"
  /\ \/ EventOf[a] \in Empty /\ Answer(a, "INVALID")
     \/ /\ EventOf[a] \notin Empty
        /\ IF walState # "running" \/ failed THEN Answer(a, "UNAVAILABLE")
           ELSE Go(a, "cap") \/ Answer(a, "FULL")
  /\ UNCHANGED <<joined, wal, overCap, gate, store, shut, timedOut, history>>

\* The cap on bytes the grapher has not confirmed, as the retention store
\* reads them: above the cap, between three quarters of it and the cap, below.
CheckCap(a) ==
  /\ pc[a] = "cap"
  /\ \E level \in {"above", "between", "below"} :
       LET refused == level = "above" \/ (level = "between" /\ overCap)
       IN /\ IF refused THEN Answer(a, "FULL") ELSE Go(a, "pipeline")
          /\ overCap' = refused
  /\ UNCHANGED <<joined, wal, gate, store, shut, timedOut, history>>

\* a story without an ingestion handle gets a pipeline, or the write is refused
EnsurePipeline(a) ==
  /\ pc[a] = "pipeline"
  /\ Go(a, "append") \/ Answer(a, "UNAVAILABLE")
  /\ UNCHANGED <<joined, wal, overCap, gate, store, shut, timedOut, history>>

\* Mutant of Settled: the state of the WAL comes before the identity.
MutSettled(a) ==
  \/ /\ walState # "running" \/ failed
     /\ Answer(a, "UNAVAILABLE") /\ UNCHANGED joined
  \/ walState = "running" /\ ~ failed /\ AnsweredByFirst(a)

\* appendDurable's `settled`: the identity first, then the state of the WAL
Settled(a) ==
  \/ AnsweredByFirst(a)
  \/ /\ NotFound(a) /\ (walState # "running" \/ failed)
     /\ Answer(a, "UNAVAILABLE") /\ UNCHANGED joined
Unsettled(a) == NotFound(a) /\ walState = "running" /\ ~ failed

AppendDurable(a) ==
  /\ pc[a] = "append"
  /\ Settled(a) \/ (Unsettled(a) /\ Go(a, "encode") /\ UNCHANGED joined)
  /\ UNCHANGED <<wal, overCap, gate, store, shut, timedOut, history>>

\* the record is encoded without the mutex
Encode(a) ==
  /\ pc[a] = "encode"
  /\ IF EventOf[a] \in Oversized THEN Answer(a, "INVALID") ELSE Go(a, "enqueue")
  /\ UNCHANGED <<joined, wal, overCap, gate, store, shut, timedOut, history>>

\* Mutant of Enqueue: the identity is not looked up again after the encoding.
MutEnqueue(a) ==
  /\ pc[a] = "enqueue"
  /\ inFlight' = [inFlight EXCEPT ![EventOf[a]] = a]
  /\ queue' = queue \cup {a}
  /\ joined' = [joined EXCEPT ![a] = a]
  /\ Go(a, "wait")
  /\ UNCHANGED <<result, pending, group, registered, groupStatus, failed, walState, overCap,
                 gate, store, shut, timedOut, history>>

\* looked up again; the attempt that is queued waits on its own completion
Enqueue(a) ==
  /\ pc[a] = "enqueue"
  /\ \/ Settled(a) /\ UNCHANGED <<inFlight, queue>>
     \/ /\ Unsettled(a)
        /\ inFlight' = [inFlight EXCEPT ![EventOf[a]] = a]
        /\ queue' = queue \cup {a}
        /\ joined' = [joined EXCEPT ![a] = a]
        /\ Go(a, "wait")
  /\ UNCHANGED <<result, pending, group, registered, groupStatus, failed, walState, overCap,
                 gate, store, shut, timedOut, history>>

\* Mutants of Woken: the completion is read before it is set; the attempt that
\* wrote the record does not ingest it.
MutWokenEarly(a) ==
  /\ pc[a] = "wait"
  /\ IF joined[a] = a /\ result[a] = "SUCCESS" THEN Go(a, "ingest")
                                               ELSE Answer(a, result[joined[a]])
  /\ UNCHANGED <<joined, wal, overCap, gate, store, shut, timedOut, history>>
MutWokenNoIngest(a) ==
  /\ pc[a] = "wait" /\ result[joined[a]] # "none"
  /\ Answer(a, result[joined[a]])
  /\ UNCHANGED <<joined, wal, overCap, gate, store, shut, timedOut, history>>

\* The completion was set: only the attempt that wrote the record ingests it.
Woken(a) ==
  /\ pc[a] = "wait" /\ result[joined[a]] # "none"
  /\ IF joined[a] = a /\ result[a] = "SUCCESS" THEN Go(a, "ingest")
                                               ELSE Answer(a, result[joined[a]])
  /\ UNCHANGED <<joined, wal, overCap, gate, store, shut, timedOut, history>>

IngestDurable(a) ==
  /\ pc[a] = "ingest"
  /\ ingested' = ingested \cup {a}
  /\ Answer(a, "SUCCESS")
  /\ UNCHANGED <<joined, wal, overCap, gate, held, shut, timedOut, history>>

-----------------------------------------------------------------------------
(* The committer: a group ends in one status, and its events are then       *)
(* registered a batch per hold of the mutex, before any of them is answered. *)

TakeGroup ==
  /\ walState # "stopped" /\ queue # {} /\ group = {} /\ registered = {}
  /\ \E taken \in (SUBSET queue) \ {{}} : group' = taken /\ queue' = queue \ taken
  /\ groupStatus' = IF failed THEN "UNAVAILABLE" ELSE "none"
  /\ UNCHANGED <<handlers, result, inFlight, pending, registered, failed, walState, overCap,
                 gate, store, shut, timedOut, history>>

\* the group's sync returned, or its write or sync failed and latched the WAL
EndGroup ==
  /\ group # {} /\ groupStatus = "none"
  /\ groupStatus' \in {"SUCCESS", "UNAVAILABLE", "UNKNOWN"}
  /\ failed' = (groupStatus' # "SUCCESS")
  /\ UNCHANGED <<handlers, result, inFlight, pending, queue, group, registered, walState, overCap,
                 gate, store, shut, timedOut, history>>

\* finishGroup: an entry becomes pending in the step it leaves inFlight
Register(a) ==
  /\ a \in group /\ groupStatus # "none"
  /\ pending' = IF groupStatus = "SUCCESS" THEN pending \cup {EventOf[a]} ELSE pending
  /\ inFlight' = [inFlight EXCEPT ![EventOf[a]] = NoAttempt]
  /\ group' = group \ {a} /\ registered' = registered \cup {a}
  /\ UNCHANGED <<handlers, result, queue, groupStatus, failed, walState, overCap, gate, store, shut,
                 timedOut, history>>

\* Mutant of AnswerGroup: the requests are answered before the group is registered.
MutAnswerGroup ==
  /\ groupStatus # "none" /\ group \cup registered # {}
  /\ result' = [a \in Attempts |-> IF a \in group \cup registered THEN groupStatus ELSE result[a]]
  /\ registered' = {} /\ groupStatus' = IF group = {} THEN "none" ELSE groupStatus
  /\ UNCHANGED <<handlers, inFlight, pending, queue, group, failed, walState, overCap, gate, store,
                 shut, timedOut, history>>

\* the whole group registered: every completion is set
AnswerGroup ==
  /\ group = {} /\ registered # {}
  /\ result' = [a \in Attempts |-> IF a \in registered THEN groupStatus ELSE result[a]]
  /\ registered' = {} /\ groupStatus' = "none"
  /\ UNCHANGED <<handlers, inFlight, pending, queue, group, failed, walState, overCap, gate, store,
                 shut, timedOut, history>>

\* the committer reached the D record of the story of these events
DropStory ==
  /\ walState # "stopped"
  /\ \E gone \in (SUBSET pending) \ {{}} :
       pending' = pending \ gone /\ dropped' = dropped \cup gone
  /\ UNCHANGED <<handlers, result, inFlight, queue, group, registered, groupStatus, failed, walState,
                 overCap, gate, store, shut, timedOut, confirmed>>

-----------------------------------------------------------------------------
(* The pipeline behind the queue, and the shutdown.                         *)

\* the data store's collector takes the event into a chunk
Collect(a) ==
  /\ a \in ingested /\ shut \in {"up", "closing", "collection"}
  /\ ingested' = ingested \ {a} /\ held' = held \cup {a}
  /\ UNCHANGED <<handlers, wal, overCap, gate, shut, timedOut, history>>

\* The grapher confirmed the chunk: the retention store frees it and tells
\* the WAL, for as long as the data admin service is up.
Confirm(a) ==
  /\ a \in held /\ shut \in {"up", "closing", "collection", "confirm"}
  /\ held' = held \ {a}
  /\ pending' = pending \ {EventOf[a]}
  /\ confirmed' = confirmed \cup {EventOf[a]}
  /\ UNCHANGED <<handlers, result, inFlight, queue, group, registered, groupStatus, failed, walState,
                 overCap, gate, ingested, shut, timedOut, dropped>>

\* stopAcceptingWrites: the gate is shut, then the writes inside are waited for
CloseGate ==
  /\ shut = "up" /\ shut' = "closing" /\ open' = FALSE
  /\ UNCHANGED <<handlers, wal, overCap, inside, store, timedOut, history>>
GateClosed ==
  /\ shut = "closing" /\ shut' = "collection"
  /\ \/ inside = {} /\ UNCHANGED timedOut
     \/ inside # {} /\ timedOut' = timedOut \cup {"gate"}
  /\ UNCHANGED <<handlers, wal, overCap, gate, store, history>>

\* shutdownDataCollection collects what is in the queue, then stops
ShutdownDataCollection ==
  /\ shut = "collection" /\ shut' = "confirm"
  /\ held' = held \cup ingested /\ ingested' = {}
  /\ UNCHANGED <<handlers, wal, overCap, gate, timedOut, history>>

\* waitUntilDurable ended, by confirmation or by its timeout: the WAL stops
StopWal ==
  /\ shut = "confirm" /\ shut' = "wal" /\ walState' = "stopping"
  /\ UNCHANGED <<handlers, result, inFlight, pending, queue, group, registered, groupStatus, failed,
                 overCap, gate, store, timedOut, history>>
\* Mutant of WalStopped: the committer ends with requests still queued.
MutWalStopped ==
  /\ shut = "wal" /\ group = {} /\ registered = {}
  /\ walState' = "stopped" /\ shut' = "handlers"
  /\ UNCHANGED <<handlers, result, inFlight, pending, queue, group, registered, groupStatus, failed,
                 overCap, gate, store, timedOut, history>>

WalStopped ==
  /\ shut = "wal" /\ queue = {} /\ group = {} /\ registered = {}
  /\ walState' = "stopped" /\ shut' = "handlers"
  /\ UNCHANGED <<handlers, result, inFlight, pending, queue, group, registered, groupStatus, failed,
                 overCap, gate, store, timedOut, history>>

\* Mutant of Active: only the writes inside the gate are counted.
MutActive == {a \in Attempts : pc[a] \in {"entered", "ingesting"}}

\* waitForWriteHandlers, then the delete of the service
Active == {a \in Attempts : pc[a] \notin {"new", "done"}}
HandlersQuiet ==
  /\ shut = "handlers" /\ shut' = "quiet"
  /\ \/ Active = {} /\ UNCHANGED timedOut
     \/ Active # {} /\ timedOut' = timedOut \cup {"handlers"}
  /\ UNCHANGED <<handlers, wal, overCap, gate, store, history>>
DeleteService ==
  /\ shut = "quiet" /\ shut' = "deleted"
  /\ UNCHANGED <<handlers, wal, overCap, gate, store, timedOut, history>>

-----------------------------------------------------------------------------
Handler(a) ==
  \/ Enter(a) \/ RecordEvent(a) \/ DurableGate(a) \/ LookupDurable(a) \/ Admit(a) \/ CheckCap(a)
  \/ EnsurePipeline(a) \/ AppendDurable(a) \/ Encode(a) \/ Enqueue(a) \/ Woken(a) \/ IngestDurable(a)
Committer == TakeGroup \/ EndGroup \/ (\E a \in Attempts : Register(a)) \/ AnswerGroup
Shutdown == CloseGate \/ GateClosed \/ ShutdownDataCollection \/ StopWal \/ WalStopped
              \/ HandlersQuiet \/ DeleteService
Next ==
  \/ \E a \in Attempts : Arrive(a) \/ Handler(a) \/ Collect(a) \/ Confirm(a)
  \/ Committer \/ DropStory \/ Shutdown

Spec == Init /\ [][Next]_vars

\* Every handler runs on its own ULT and waits only for a completion, and the
\* committer runs on a stream of its own until the queue is drained.
FairSpec == Spec /\ WF_vars(Committer) /\ \A a \in Attempts : WF_vars(Handler(a))

-----------------------------------------------------------------------------
(* Properties.                                                              *)

TypeOK ==
  /\ pc \in [Attempts -> Locations]
  /\ answer \in [Attempts -> Statuses \cup {"none"}]
  /\ \A a \in Attempts : pc[a] = "done" <=> answer[a] # "none"
  /\ joined \in [Attempts -> Attempts \cup {NoAttempt}]
  /\ result \in [Attempts -> Statuses \cup {"none"}]
  /\ inFlight \in [Events -> Attempts \cup {NoAttempt}]
  /\ pending \subseteq Events
  /\ queue \subseteq Attempts /\ group \subseteq Attempts /\ registered \subseteq Attempts
  /\ groupStatus \in Statuses \cup {"none"}
  /\ failed \in BOOLEAN /\ overCap \in BOOLEAN /\ open \in BOOLEAN
  /\ walState \in {"running", "stopping", "stopped"}
  /\ inside \subseteq Attempts /\ ingested \subseteq Attempts /\ held \subseteq Attempts
  /\ shut \in ShutSteps
  /\ confirmed \subseteq Events /\ dropped \subseteq Events

\* The durable attempts that have put a copy of their event in the keeper's
\* pipeline, or will once their group ends.
Carries(a) ==
  /\ a \in Durable
  /\ \/ a \in ingested \cup held
     \/ pc[a] = "ingest"
     \/ pc[a] = "wait" /\ joined[a] = a /\ result[a] \in {"none", "SUCCESS"}

\* However a write and its retries interleave, at most one of them carries the
\* event into the pipeline, until the grapher confirms it or a destroy drops it.
IngestedOnce ==
  \A a, b \in Attempts :
    Carries(a) /\ Carries(b) /\ EventOf[a] = EventOf[b] /\ EventOf[a] \notin dropped => a = b

\* An event the WAL keeps has a carrier, so no segment waits for the
\* confirmation of an event that nobody will ever ingest.
PendingIsCarried ==
  \A e \in pending \ dropped : \E a \in Attempts : EventOf[a] = e /\ Carries(a)

\* An event answered durable is in the WAL until the grapher confirms it or its
\* story is destroyed, also when it misses the last collection of a shutdown.
AcknowledgedIsKept ==
  \A a \in Durable : answer[a] = "SUCCESS" => EventOf[a] \in pending \cup confirmed \cup dropped

\* An accepted write answered CL_SUCCESS is collected before data collection
\* stops, unless the wait for the writes inside the gate ran out.
AcceptedIsCollected ==
  shut \notin {"up", "closing", "collection"} /\ "gate" \notin timedOut =>
    \A a \in Attempts \ Durable : pc[a] # "ingesting" /\ a \notin ingested

\* Once the wait for the handlers ended quiet, none is past the gate when the
\* service is deleted: a handler that still starts is refused by the gate.
NoHandlerAtDelete ==
  shut \in {"quiet", "deleted"} /\ "handlers" \notin timedOut =>
    \A a \in Attempts : pc[a] \in {"new", "entered", "gate", "done"}

\* appendDurable refuses no attempt while the event is durable or on its way.
AppendHonoursFirst ==
  [][\A a \in Attempts :
       /\ pc[a] \in {"append", "enqueue"} /\ pc'[a] = "done" /\ answer'[a] # "SUCCESS"
       => inFlight[EventOf[a]] = NoAttempt /\ EventOf[a] \notin pending]_vars

\* Every handler answers, through a failing WAL and through the shutdown: once
\* the last attempt has arrived, no handler stays behind in write().
EveryHandlerAnswers == <>[](\A a \in Attempts : pc[a] \in {"new", "done"})

=============================================================================
