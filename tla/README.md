# ChronoLog: TLA+ models, checks and proofs

ChronoLog is a distributed log store. A client records events of a *story*
(a log inside a *chronicle*); a **visor** keeps the metadata and assigns each
story to a *recording group* of **keepers**, one **grapher** and one
**player**. A keeper takes events in, seals them into chunks, and ships the
chunks to the grapher; the grapher merges the chunks of all keepers into time
windows and writes the windows to an HDF5 archive; the player answers replays
from the archive and from what the keepers still hold. A write can be
*accepted* (in the keeper's memory) or *durable* (in the keeper's write-ahead
log before the answer).

The project follows an event from the client's call to the archive and back to
a reader, because that is where the system makes promises that outlive a
process, and a story through the visor, because that decides whether anybody
records it:

    StoryClient --record_event_durable--> DurableWrite --group--> KeeperWal (disk)
        |                                      |                      ^
        | TailRead (tail reads)            KeeperIngest               | released
        |                                      | sealed chunk         |
        |                                 ChunkDelivery <--report-- grapher
        |                                      |                      | windows
        +--Replay (player)----hot fetch--------+                  Archive
              +-----------------------archive read-------------------+

    StoryClient --acquire, release, destroy--> VisorStories --start, stop--> group
                                                   ^-------register, leave----+
    KeeperProcess: the processes that hold all of the keeper's parts, one after another

| module | what it models | run | proved in |
|---|---|---|---|
| `KeeperWal` | the write-ahead log on its medium: group commit, failure, crash, recovery | `wal`, `wal_drop_line` | `KeeperProofs` |
| `DurableWrite` | concurrent write handlers, the WAL's identity table, the write gate, the shutdown | `durable_write` | `DurableWriteProofs` |
| `KeeperIngest` | ingestion queue, story pipelines, collection threads, orphans, shutdown of data collection | `ingest` | `KeeperIngestProofs` |
| `EventCustody` | the abstract promise of the ingestion path, which `KeeperIngest` implements | `ingest` (`KeepsCustody`) | `KeeperIngestProofs` (`CustodyKept`) |
| `ChunkDelivery` | chunk, receipt, watermark and report between one keeper and the grapher | `delivery`, `delivery_confirmed` | `ChunkDeliveryProofs` |
| `Archive` | window files, manifest logs, the destroy worker, and the player's index of them | `archive`, `archive_destroy` | `ArchiveProofs` |
| `Replay` | a replay over keepers and archive, from the call to the return | `replay` | `ReplayProofs` |
| `TailRead` | the keepers' tails and the two-phase tail read of the client | `client` | `StoryClientProofs` |
| `StoryClient` | the client library: session, handle, event identities, durable writes | `client` | `StoryClientProofs` |
| `VisorStories` | the visor: who holds a story, which group records it, and the requests and registrations that change both | `visor_stories` | `VisorStoriesProofs` |
| `KeeperProcess` | keeper processes started, stopped, killed and restarted on one WAL directory | `process` | `KeeperProofs` |

`MC<module>` instantiates a module for TLC. `tlc -config <cfg> <MC module>`
repeats a run, `tlapm` on the module named in the last column the proofs. `PROJECT.json` lists
the runs, the source lines behind every definition, the mutants that show each
property can fail, and the hazards. Below, paths are relative to `src/src/`
unless they start with `client/`.

The modules meet at named events and not in one product: `DurableWrite` ends
where an event is ingested and `KeeperIngest` begins there; `KeeperIngest` ends
where a chunk is sealed and `ChunkDelivery` begins there; a window written in
`ChunkDelivery` is a whole life of a file in `Archive`; `Replay` takes the
states of a chunk that `ChunkDelivery` shows to be reachable. Where one module
abstracts another, its header says what it takes over.

## Inventory

**Keeper write-ahead log** (`chrono-keeper`: `KeeperWal`, `WalRecovery`,
`WalSegmentManager`, `WalReleaseTracker`, `WalFileSink`, `WalFormat`).
State: preallocated segment files, one active and one prepared spare; a queue
of records; a table of the identities in flight or pending; per segment the
count of its pending events and its story-drop records; a failure latch; the
*unlogged-drops* file. Operations: append, release after confirmation, story
drop, group commit, rotation, deletion, recovery. Hard: a crash between any
two of write, sync, answer, erase, rename, unlink and directory sync; a sync
that fails; a crash during recovery. Correct when every acknowledged event is
found again until it is confirmed or destroyed, a destroyed one is not, and no
queued request waits forever.

**Keeper durable write path** (`KeeperRecordingService`, `KeeperDurableWriter`,
`KeeperWriteGate`, `ChronoKeeperInstance`). State: the handlers (one ULT per
request), the gate's flag and counter, the cap's hysteresis, the step of the
shutdown. Hard: a retry with the identity of a first attempt that is held
anywhere; the shutdown closing, stopping and deleting what the handlers use.
Correct when an event enters the pipeline once, an answer `CL_SUCCESS` is kept
or collected, and every handler answers before its service is deleted.

**Keeper data store, ingestion queue, story pipeline** (`KeeperDataStore`,
`IngestionQueue`, `KeeperStoryPipeline`). State: per story an ingestion handle
with two event deques, an orphan queue, a timeline of open chunks, pipelines
waiting to retire. Operations: ingest, collect, merge, seal, retire, rescue of
orphans, WAL replay, shutdown. Hard: several collection ULTs, a story that
retires while a writer holds its handle, the end of the threads. Correct when
no collected event is lost or sealed twice and the threads end.

**Keeper retention store and extraction** (`KeeperChunkRetentionStore`,
`StoryChunkExtractionQueue`, `DualEndpointChunkExtractorRDMA`). State: each
sealed chunk with its delivery state, the keeper's view of the grapher's
receipts, the known watermark, remembered drops, a tail index for hot reads.
Hard: acks and reports late, lost and out of order, a grapher that was
replaced, a story dropped while its chunks are in transfer. Correct when a
chunk is freed only once it is in the archive, and every chunk in the end is.

**Grapher** (`GrapherRecordingService`, `GrapherDataStore`, `StoryPipeline`,
`StoryWatermarkRegistry`, `WatermarkReportPublisher`,
`HDF5FileChunkExtractor`, `ArchiveManifest`). State: receipts and the windows
that hold them, the timeline, the extraction queue, per story the watermark W
with parked windows, dirty and dropped stories, the manifest and its latch, the
destroy worker's queue. Hard: windows written by several streams in any order,
failed writes, lost reports, restart, re-acquisition over an idle gap, destroy
behind a queue that is still written. Correct when W and the settled receipts
never run ahead of the archive.

**Player** (`PlaybackService`, `PlayerDataStore`, `HotRangeSplit`,
`KeeperHotFetchClient`, `ArchiveReadingAgent`, `QueryResponseTransferAgent`).
State: story rosters, queued reading requests, responses. Hard: a replay joins
an archive read with hot fetches taken at different moments from keepers that
free chunks meanwhile. Correct when a reply that claims to be complete is.

**Visor** (`VisorClientPortal`, `ChronicleMetaDirectory`, `Chronicle`, `Story`,
`ClientRegistryManager`, `KeeperRegistry`, `DataStoreAdminClient`). State:
clients, chronicles, stories and their acquirers behind one lock; groups,
processes, active stories and delayed exits behind another. Hard: one request
takes the two locks one after the other and sends RPCs holding neither. Correct
when a story some client holds is recorded by its group, and one nobody holds
is not.

**Client** (`client/cpp/src`: `ChronologClientImpl`, `StorytellerClient`,
`ClientQueryService`, `KeeperTailReader`). State: story handles, keeper
clients, event index, open queries. Hard: retries of a write whose fate is
unknown, several threads at one handle and one index, a tail read over keepers
that evict and restart, a late response to a query that timed out. Correct when
an answer is true: a handle is backed by an acquisition, a status by what the
keeper holds, and no two events have one identity.

**Keeper process** (`ChronoKeeperInstance`). State: the WAL directory's lock, the
services, the registration, the exit summary. Hard: a start while the last
process still runs, a kill or power loss at any step of start and shutdown, a
grapher that never confirms. Correct when the summary a stop script reads is true
and a stop ends.

Configuration, logging, encodings, tools, plugins and the Python bindings keep
no protocol state.

## The modules and the code

### KeeperWal

A segment is a row of `SegSlots` record slots after its header. `cache` is what
a reader of this boot sees, `disk` what survives a power loss, `dirty` what the
next data sync writes; `dirCache` and `dirDisk` are the same two layers of the
directory, with the lines of the unlogged-drops file. A power loss keeps, loses
or tears every unsynced slot and keeps or loses every unsynced directory change.
A sync that fails writes any part of the dirty slots and leaves none dirty,
which is what Linux does and what `KeeperWal.h` says.

`pc` is the committer's place between two steps another party can see:
`TakeGroup`, `CommitWrite`, `CommitSync` (with `finishGroup`'s registrations),
`Rotate`, `FailGroup`, `Erase`, `EraseSync`, and the deletion pass
`DeleteBegin`, `RemoveSegment`, `RemoveSync`. Each has its failing form.
`PrepareSpare`/`SyncSpare` are the preparer's. `AppendDurable`, `RetryDurable`,
`Release`, `StoryDropped` are the calls of the rest of the keeper. Recovery is
`RecoverSync` (checks and syncs of the whole segments), `RecoverZero`,
`RecoverZeroSync` (the torn tail), `RecoverStart` (directory sync, the pending
table, adoption of a header-only segment or a new one); a crash may come between
any two. `Damaged`, `Torn`, `LiveCopies`, `Dropped` and `Recovered` are the
rules of `WalRecovery` as predicates on a directory.

`CommitSync` registers its whole group in one step, where `finishGroup` works in
batches of 1024 and lets the lock go in between. All answers come after the last
batch, so no event of the group is ingested, and no report can release it, before
all are registered; copies are added and dropped by the committer alone. What a
retry can see between two batches is in `DurableWrite`, which registers entry by
entry (`Register`) and answers afterwards (`AnswerGroup`).

`owed`, `suspect` and `buried` are history: what was acknowledged and is neither
confirmed nor destroyed, what was in a group whose sync failed and that no erase
removed, what belonged to a story whose destroy was recorded.

### DurableWrite

Each attempt is one handler with a program counter; two attempts of one event
are a first send and its retry, running at once. `inFlight` and `pending` are
the identity table of the WAL; `queue`, `group`, `registered` and `groupStatus`
its committer, which ends a group in one status and registers every entry before
it answers any. What a group does on disk is `KeeperWal`'s matter. `inside` is
the gate's counter as the set of the writes it counts; `shut` walks through the
shutdown of `ChronoKeeperInstance`, and `timedOut` remembers which of its two
bounded waits ran out, since the code goes on then. The cap's byte count, the
disk reserve and a story's pipeline are environment: any outcome of those checks
is possible at any time.

### ChunkDelivery

One story, one keeper, the grapher of its group. Time is counted in grapher
windows, and a chunk has one event in every window of its span, so a chunk may
straddle windows and a window may hold events of several chunks. The keeper side
is `KeeperChunkRetentionStore`: `tracked`, `chunk` (in_queue, shipped, instance,
receipt, indexed), `view`, `knownW`, `droppedHere`. The grapher side has the
receipts with the number of windows that hold each, the timeline, the extraction
queue with several streams at work, the registry entry (`anchor`, `w`,
`writeFailed`, `parked`), the publisher, and the process itself: `Restart`
forgets everything but the archive, while acks and reports of the old process
may still arrive.

Ages and timeouts (decay, stall age, visibility delay, how long a drop is
remembered) are not counted: what has an age may be acted on at any later
moment. `MaybeFree` therefore frees any subset of what may go.

`TailCapacity` is the number of chunks the tail index holds. `deliveries`,
`persisted`, `covered` and `destroyed` are history. The archive files of a
destroyed story are not modelled; no property here speaks of them.

### VisorStories

The visor has two stores with a lock each: the metadata directory
(`chronicles`, `existing`, `acquirers`, `count`, with the client registry
`clients`) and the process registry (`activeStories`, `activeGroups`,
`adminClient`, `grapher`, `player`). A request takes one lock, then the other,
and holds neither during an RPC, so it is modelled as a record `request[c]` that
walks through its critical sections and RPCs; another client's request and a
keeper's registration (`registration[k][n]`, the loop of
`startHeldStoriesOnKeeper` for the `n`th start of keeper `k`) may come between
any two of them. A client has one request at a time, since
`ChronologClientImpl` holds its mutex during each.

| actions | code |
|---|---|
| `ClientConnect`, `ClientDisconnect`, `AutoRelease`, `RemoveClientRecord` | `VisorClientPortal::ClientConnect`, `ClientDisconnect`, `release_all_acquired_stories` |
| `CreateChronicle`, `AcquireStory`, `ReleaseStory`, `RollBackAcquire` | the metadata part of the portal's calls |
| `ChooseGroup`, `StartGrapher`, `ListKeepers`, `StartOnKeeper`, `StartPlayer`, `ForgetStory` | `notifyRecordingGroupOfStoryRecordingStart` and what it calls |
| `EraseStory`, `CopyKeepers`, `StopOnKeeper` | `notifyRecordingGroupOfStoryRecordingStop`, and the stops of `forget_story` |
| `DestroyStory`, `DestroyChronicle`, `destroy_story`, `destroy_chronicle`, `BroadcastDestroy` | evaluate, auto-release, stop, remove, broadcast |
| `registerKeeperProcess`, `CheckHeld`, `StartHeld`, `RecheckHeld`, `StopHeld` | registration of a keeper whose group holds stories |
| `KeeperStarts`, `unregisterKeeperProcess`, `KeeperEnds` | the keeper process: a start, an orderly end, a crash |
| `register-`/`unregisterGrapherProcess`, `-PlayerProcess` | the same handlers of the registry |

`pipelines[k]` is what keeper `k` records. An RPC to a keeper may fail before or
after the keeper ran it (`Rpc`). An entry of the registry that its process left
behind stays active until the process registers again, as in the code. Graphers
and players have no state beyond their entry: their stop notifications change
nothing here.

Four history variables say what a property excuses. `astray` holds the stories
for which a start or stop did not take its normal way: a stop that its keeper
did not run, a start that reached a process not yet registered, a request that
found no group in rotation (the code returns early and leaves the entry).
`overlap` is set once two requests, or a request and the stop of
`startHeldStoriesOnKeeper`, were under way together; `rolledBack` holds the
stories of an acquire that was rolled back after that; `undone` those whose entry
was erased, by a stop or by a failed start, while another client's start of the
same story was between the choice of its group and its last keeper. Such a start
goes on telling keepers of a story the registry no longer lists.

### KeeperIngest and EventCustody

The event's way through the keeper: a handler puts it into the deque of its
story's ingestion handle or, when the story has none, into the orphan queue;
collection threads drain the orphans, merge each deque into the pipeline's
timeline, take decayed chunks off it, retire pipelines that wait for exit and
seal what stayed an orphan of a retired story. A durable write creates a
pipeline of its own (`ensureStoryPipeline`). `StartStoryRecording` and
`StopStoryRecording` come from the visor at any time; recovered events are
sealed before the threads start (`replayRecoveredEvents`). The shutdown is
`CloseGate`, `StopAccepting`, `ChangeState`, `LabelPipelines`, `Joined`.

`pipelines` gives every story a record, `live` while the store has its pipeline,
and `orphans` a queue per story: the code keeps one queue, but it rescues and
seals story by story and keeps their order. `mergeEvents` places the records of
a deque in one step, those a chunk can take (`Placed`) in the timeline and the
others (`Unplaced`) given up.

`dataStoreMutex` makes a thread's pass over the pipelines one step; the
handlers do not take it and run between any two steps. Time is whole numbers;
a clock reading lies between two of them or, if `Readings` has `"on"`, exactly
on one, which is where `extractDecayedStoryChunks` never ends: its loop asks
for `>=` and its body for `>` (`KeeperStoryPipeline.cpp:320` and `:327`). The
thread is then `"spinning"`.

`EventCustody` states the promise alone: an event that was taken in is held
until it is sealed, once, and given up only if no chunk can take its record.
`KeeperIngest` implements it under the mapping `Custody` (`INSTANCE EventCustody
WITH custody <- Custody`), checked as the property `KeepsCustody`. `Custody` does
not believe the progress of the write: it looks where copies of the event are
(`Places`: the deques, orphan queues and timelines, a handler's hands, what was
sealed or given up). An event in two places has a state the abstract module does
not know, one that is nowhere has gone back to `"none"`, and one that turns up
again after it was sealed is in two places; each of these is no step of
`EventCustody`.

### Archive

A grapher's extraction streams take windows off the queue, write a file under a
temporary name and publish it, sync the directories, append a `PUBLISH` record
to the group's manifest log, sync the log, and report the window written. A
destroy leaves a tombstone and a task; the worker waits until extraction is
idle, lists and deletes the files of the pipelines the destroy covers, other
processes' files older than `Margin` included, and appends a `DELETE` record. A player
reads the logs from where it stopped, in pieces while the graphers go on
appending (here one line a step), keeps an index, selects the files of a range
with the longest span it has seen, and reads them without its lock.

A line is written in one step, under the writer's lock. A reader that meets half of
it takes whole lines only and keeps its offset (`ArchiveManifest.cpp:586`), as if it
had come before the write. A line that stays half-written, after a failed write or a
power loss, is in the log as such and can be read at any time.

A log is a sequence of items, each a record or a cut-short one, with or without
its newline, and `"dirty"`, `"doubt"` or `"synced"`. A sync covers every line
written before it; a failed sync latches the writer and leaves lines in doubt,
which no later sync makes good. A process crash keeps the disk as it is; a power
loss keeps what was synced and any part of the rest, and takes the player too.
`live`, `gone`, `doomed` and `raced` are history: windows reported written and
not destroyed, destroys that have ended, the pipelines a destroy has reached,
whether or not it ended, and pipelines whose windows a retiring thread held while
a destroy passed.

Taken as given: a destroy reaches every running grapher within the margin; one
chronicle; a removal is durable at once; nobody removes files by hand. Partial
files, empty windows and two windows with the same start are abstracted.

### Replay

The client's call sends a request; the player asks the story's keepers one
after the other, splits the range at the highest watermark they report
(`splitHotRange`), reads the archive below the split, merges and answers; the
client's handler writes the answer into the caller's vector, or finds the query
gone. The keepers' chunks are sealed, shipped, written, reported and freed
meanwhile. The unlocked find in `receive_query_response` is a step of its own:
if the caller erases the query in between, the handler's write is to freed
memory, modelled as any effect on the vector it may still point to.

`Ascending` is the order of `EventSequence`, by rank, and stands for the maps
the code sorts with; `readArchivedStory` gives the rows of each file by
themselves, so an event that two files have is there twice until
`mergeReplayEvents`.

A chunk goes from `"open"` through `"sealed"`, `"shipped"`, `"settled"`
and `"visible"` to `"freed"`, or is `"lost"`. When a keeper's process ends
(`Without`), what it held and does not get back is freed if a replay is sure to
find it in the archive, and lost otherwise. A crashed keeper (`RestartKeeper`)
gets back the durable events in the segments of its log that are left: all that
were not confirmed, and any of the confirmed ones, because recovery takes all of a
surviving segment for outstanding. Accepted events, and durable ones of a keeper
that stops and leaves, are not read back (`durable-retention.md:107`).
`DurableChunks` says which chunks are of durable events.
Losing a chunk takes its events out of `due`, what a replay has to return, for a
replay that has not yet got the keeper's answer. `disturbed` is history: a keeper
with a chunk that only the archive has, has restarted or left.

Taken as given: a file older than the visibility delay is readable (`Archive`
shows when), while a younger one may or may not be found; a keeper merges a
report it hears of at any time after it was made. The client ignores the RPC's
return value, and a request with start 0 stays stashed, as in the code
(`ArchiveReadingRequestQueue.h:43`). One query, no death of the player, no
client restart that uses an id again, no growth of the roster and no destroy
during the replay. A replay sees sealed chunks only (`durable-retention.md`).

### StoryClient and TailRead

One process, one story, and four uses of the library, one per behaviour:
threads that connect, acquire, release, destroy and disconnect with lost
requests or answers; threads whose `log_event` draws an index from the handle's
counter at `INT_MAX` (`MaxIndex`) within one clock tick; a durable write of up
to three attempts to a keeper that dies, comes back as a version without the
RPC, fills up or loses its WAL; and a tail read. The visor is reduced to
whether it knows the client and lists it as an acquirer: what it does with that
is `VisorStories`. An answer that times out may still be the answer to a request
that arrives later (`inflight`). `Disconnect` and `DestroyStory` may come while the
process has the story acquired, as the API allows; neither takes the handle out of
the client's map. `outlived` is history: the handle was kept over one of these.

`TailRead` has per keeper the active timeline, the chunk on its way to the
retention store (`taken`) and the bounded index; a read asks every keeper for
its newest sequences, picks the newest of all, and fetches these. With
`live_tail_read` a keeper answers from timeline and index, which it reads one
after the other. `stable` is history: what was in an index during the whole
read; an event that moves from the timeline to the index during the read may be
missed, and `TailReadIsWhole` does not claim it.

Taken as given: the keepers of a handle never change; no thread uses a handle
another has released; oversized and empty records are `DurableWrite`'s.

### KeeperProcess

`main` of each process as a program counter: lock of the WAL directory,
recovery, removal of the old exit summary, services, registration with retries,
the loop, and after `SIGTERM` the unregistration, the gate, data collection, the
wait for confirmations, the WAL's stop, the exit summary (`.partial`, sync,
rename, directory sync), the wait for handlers and the end. Any file system
call may fail, any process may be killed, and a power loss takes unsynced
changes of the summary. Only one process passes the lock, so the state of its
parts is kept once. Waits with a deadline may end at any time.

`outstanding` is what the WAL counts as pending, `everLogged` what it has ever
taken. A confirmed event is outstanding no more, but its record stays in its
segment until the whole segment can go: `replayRecoveredEvents` takes every event
that was outstanding for outstanding again and, with them, any of the confirmed
ones, and seals them all. `unconfirmed` is history: the events that no grapher has
ever confirmed. Which segment an event lies in, and what a crash takes of it, is
`KeeperWal`'s.

## Runs

Passing runs:

- `wal`: two scenarios. Two crashes or power losses anywhere, groups of two, one
  destroy with re-creation; or one crash and two I/O faults of any kind, stories
  not created again after a destroy. `DurableSurvives`, `NoResurrection`,
  `PendingCopiesOnDisk`, and `RecoveryAdmits`: nothing leaves a directory that
  recovery calls damaged.
- `durable_write`: two attempts of one event, one attempt of an event with an
  empty record and one accepted write, with every outcome of the checks, of
  groups, of destroys, and a shutdown at any point. `EveryHandlerAnswers` is its
  liveness property; the others are proved, see below.
- `ingest`: two collection threads, an accepted, a durable and a recovered event
  at two times, two starts, stops, and a shutdown at any moment.
  `InOnePlace`, `NothingLeftBehind` and the refinement `KeepsCustody` follow the
  event; `StartedStaysRecorded` the story; `LateEventRescued` and `ShutdownEnds`
  are liveness, with the exceptions the code makes: an orphan of a story this
  keeper never recorded, a story started after the pipelines were put on the
  waiting list, and the spinning thread.
- `delivery`: two scenarios. Two chunks that share a window, one of them across
  two, two streams, one failed write that may latch the manifest; or two chunks
  of one window, the grapher replaced, a failed write, the story released,
  retired and acquired again. `FreedIsWritten`, `SettledIsWritten`,
  `WatermarkIsPrefix`.
- `delivery_confirmed`: a lost transfer, a failed report, a restart and a
  destroy. `QueueOwnsItsChunks` and, under fairness, `EverySealedConfirmed`.
- `archive`: seven scenarios: two streams with a failing operation and a crash;
  two streams with a failing operation and a replay; one stream with a failing
  operation, a crash and a replay; a story destroyed and created again with a
  replay; two graphers and a destroy that covers the other's files; a shutdown
  with a queued destroy, a crash and a fault; a window whose numbers the manifest
  refuses.
  `PersistedIsFindable`, `ReadComplete`, `DestroyedStaysGone`, and under
  fairness `DestroyIsCarriedOut`.
- `replay`: two keepers with a chunk each and an event both hold, with a steady
  roster, with truncated answers, and with a keeper that restarts or leaves; one
  keeper's events are durable, the other's are not. `ReplayHoldsAll`: `CL_SUCCESS`
  means every event sealed before the call and in its range is there, but for two
  exceptions: events that were lost with their keeper before it answered, and any
  event once a keeper with a chunk in the archive has restarted without it or left.
  `EachEventOnce`, and the action property `AnswerIsFinal`.
- `client`: the four uses of the library above. `AcquireMeansHeld` (with the
  exception of a handle that outlived a disconnect or a destroy),
  `UniqueIdentity`, `DurableStatusIsTrue`, `TailReadIsWhole`.
- `visor_stories`: two clients with three requests, a story, a group of two
  keepers, one of which ends and comes back once, one failing RPC, one move of a
  grapher or player. `UnheldNotRecorded` and `ListedIsHeld`: when no request is
  under way, nothing is recorded or listed that nobody holds, but for what
  `astray` and `rolledBack` excuse. `HeldExists`: no destroy removes what
  somebody holds. `HeldIsRecorded`: a held story is recorded by every registered
  keeper of its group, restarts included, in a history without overlapping
  requests and failing RPCs. With overlap it is not so: an acquire between
  another client's release and its stop finds the story still listed, is told
  nothing, and loses the recording; one that joins a start which then fails
  keeps a story that is not recorded.
- `process`: two processes, three starts, one failing file system call, one
  kill, one power loss. `SummaryIsTrue`: the summary a stop script finds counts what
  the last keeper's WAL had outstanding, every unconfirmed event among it, so that a
  count of 0 means there is none; it may count events an earlier keeper had confirmed.
  Under fairness `StopEnds`.

Runs that end in a counterexample, each a disagreement between the code and its
own comments or documents:

- `wal_drop_line`: `recordUnloggedDrops` writes "drop this story up to the
  active segment", and says a story created again has its events in newer
  segments only. When that segment holds only its header, recovery adopts it
  again as the active one; the re-created story's acknowledged events go into
  it, and the recovery after that drops them.
- `archive_destroy`: "Persistence-vs-deletion ordering is now safe"
  (`GrapherDataStore.cpp:424`), but `retireDecayedPipelines` stashes a retired
  pipeline's windows after it has let the store's mutex go. A destroy in between
  finds no pipeline and an idle queue and deletes; the windows are published
  afterwards and stay.

### Further configurations

The same modules under configurations that are not among the runs. The first
three hold, the others end in a counterexample.

| configuration | property | what it shows |
|---|---|---|
| `KeeperWalAnswers.cfg` | `EveryRequestAnswered` | holds: the committer answers every queued request under fairness, also once the WAL has latched |
| `VisorRestarts.cfg` | `UnheldNotRecorded` | holds: two clients with four requests, a keeper that starts three times, no failing RPC; three starts let a registration be overtaken by the next |
| `VisorRequests.cfg` | `UnheldNotRecorded`, `ListedIsHeld` | holds: seven requests of two clients, one failing RPC, keepers that stay |
| `KeeperWalFailedSync.cfg` | `EveryAnswerSurvives` | a group's sync fails and the keeper dies before the erase; recovery reads it from the page cache, syncs clean pages, a retry is answered `CL_SUCCESS`, and a power loss loses it; `keeper-wal.md:71` describes the case |
| `ChunkDeliveryLostReport.cfg` | `RetiredStoryConfirmed` | `requeueStalled` "covers ... shipped ones whose ack or watermark report was lost", but skips a chunk whose receipt has settled; after `kMaxReportRetries` + 1 failed reports of a retired story the chunk stays on the keeper |
| `ReplayDeparted.cfg` | `ReplayHoldsAllAlways` | `ReplayHoldsAll` without its second exception. "When no keeper reports a watermark, no keeper has freed anything" (`HotRangeSplit.h:25`), but a keeper whose chunks are written leaves the roster and takes its watermark along; the other reports none, its lowest event is taken for the boundary, the archive is not read, and the replay returns `CL_SUCCESS` without the events of the first |
| `StoryClientReconnect.cfg` | `AcquireOpensStory` | `AcquireMeansHeld` without its exception. "Disconnect() auto-releases any stories still acquired" (`chronolog_client.h:202`), but the handle map is not cleared, and after a reconnect `AcquireStory` answers `CL_SUCCESS` from it without asking the visor |
| `VisorRollback.cfg` | `RollBackLeavesNothing` | "no need notify keepers of the story ending in this case as it hasn't started" (`VisorClientPortal.cpp:391`), but a second client acquired and released the story before the rollback, and nobody stops it |
| `VisorLateStop.cfg` | `StopsOnlyUnheld` | "Only stop the recording group if no other client still holds the story" (`VisorClientPortal.cpp:430`), but whether one does is read before the directory's lock is given back; a client that acquires in between holds a story whose keepers are then stopped |
| `KeeperIngestWindow.cfg` | `WindowNeverShrinks` | `mergeEvents` means "to increase the acceptance window" (`KeeperStoryPipeline.cpp:442`) and assigns the event's delay + 3000 ns, which may be smaller than the window was |

One more sentence of the code does not hold: a retry is said to be "never
refused by a later check while its first attempt is on disk or on its way there"
(`KeeperDurableWriter.h`). A first attempt held before `appendDurable` is not
found by the retry's lookup, and may be queued before the retry reaches the
check that refuses it. `AppendHonoursFirst` is the part of the promise that
holds.

Seen while reading, and in no model: a failed registration deletes the recording
service before the WAL is stopped (`ChronoKeeperInstance.cpp:632`), although the
comment at `:679` says a handler still running then crashes the keeper; the
unregistration and the recording RPCs have no deadline; an exit summary that is
gone at start skips the directory sync an earlier failed one may still need
(`:137`); `StorytellerClient.cpp:404` dereferences `end()` when a recording
client could not be made; an acquire whose answer was lost can be neither
repeated (`CL_ERR_ACQUIRED`, `ChronicleMetaDirectory.cpp:240`) nor released; a
chronicle's tombstone goes when any story of it starts again
(`GrapherDataStore.cpp:61`); destroy tasks and the keeper's watermark live in
memory only; `ingestStoryChunk` looks a handle up without the mutex
(`StoryChunkIngestionQueue.h:65`); an admin client is deleted a fixed time after
its process left, in use or not (`KeeperRegistry.cpp:666`).

### Bounds

Two events, two stories and four segments let a WAL commit, rotate, destroy,
re-create and delete with an older segment still pending; five slots hold the
largest group of one story with its name record and leave room that a second
group does not fit. Two crashes are needed for a crash of a recovery, or for a
loss that only the second recovery shows. The scenarios do not mix two crashes,
faults and re-creation, because there the counterexamples of `wal_drop_line` and
`KeeperWalFailedSync.cfg` wait. The two stories and their events are
interchangeable and declared symmetric. `KeeperWalAnswers.cfg` allows eight
segments so that no segment bound stops the committer.

`scenario` is a variable that `Init` chooses and no step changes: a module with
several `Scenarios` is checked for each of them in one run.

For the write path, two attempts of an event are enough to race each other and
the committer; the theorems remove that bound. For the delivery, two chunks in
overlapping windows are the least that makes a receipt depend on two windows and
a window on two receipts; three windows in the extraction queue with two streams
give writes out of order; two reports in flight give reports out of order. Every
fault has a budget (`Bounds`), so that the liveness runs ask what happens once
faults stop. `MaxReceipts` bounds the deliveries of one process; in
`delivery_confirmed` it is above what the fault budget can use up, so it never
blocks a re-send. `RequeueStalled` is unlimited when nothing is under way
(`Quiet`), the case its age limit is for, and limited by `Bounds["resend"]` otherwise.

For the ingestion path, two threads are the least that pass each other, and two
event times make an event late for a chunk that was sealed. Requests stop at
`LastRequest` and the clock goes on to `MaxTime`, so that everything that has an
age can reach it. For the archive, one window that is longer than the replay's
range exercises the span of the index, a second shares the log, and budgets
count what is left of each kind of event. For a replay, two keepers with
overlapping chunks let a watermark, a hot floor and an archive read disagree;
event 2 was written to both. For the client, three threads can stand at
`INT_MAX` together, three attempts are the least where a first one is still in
flight when the last is refused, and two deaths allow the keeper to change and
to change back; four events and an index of one give evictions within a read.
For the process, one event suffices as the summary only counts (with two, 1.7
million states, the same properties hold), and three starts
leave room for a start that fails, one that is killed, and one that finds what
they left.

For the visor, two clients are the least that share a story, and three requests
let one of them release or destroy what the other acquired meanwhile. One story
and one group are enough for the passing run, since stories meet only in the
requests that release several, and the choice of a group reads no other story;
one of the keepers stays, so that the group lives on while the other restarts.
Clients are interchangeable there and are declared symmetric; keepers are not,
because only one may leave.

Deadlock is checked in `replay`. Elsewhere it is not: a keeper that was stopped, a service that was deleted
and a story whose chunks are all freed have nothing left to do; the requests of the visor's clients
are used up at their bound.

### Fairness

`KeeperWal` (in `KeeperWalAnswers.cfg`): the committer and the preparer run on
streams of their own and do not wait for requests. `DurableWrite`: the same of the committer, and of each
handler once it has arrived; no fairness for arrivals, for destroys, for
confirmations or for the shutdown, and a shutdown may stop at any step.
`ChunkDelivery`: the drain threads, the collection and extraction ULTs, the
writers and the publisher loop as long as their process runs, so each of their
steps is weakly fair; a stalled chunk is noticed by the periodic pass. No fault
is fair, neither are stop, start and destroy. `KeeperIngest`: the clock goes on,
a shutdown that began goes on, some collection thread and some handler under way
take their next step; the store's mutex is held by none of them forever. No
request is fair. `Archive`: the extraction streams, the destroy worker and a
thread that has retired a pipeline keep running, as their loops do until the
process ends. `KeeperProcess`: the main thread of each process; its sleeps end,
its waits have deadlines and a call to the visor is answered or fails (the
library's RPC has no deadline, so a visor that hangs is outside the claim); the
end of `shutdownDataCollection` is `ShutdownEnds`' matter. `VisorStories`,
`Replay` and `StoryClient` state no liveness: their RPCs have no timeout, or
what they promise is about an answer once it is given.

## Proofs

Each `<module>Proofs` module extends its module and proves the properties below
as theorems of `Spec`, for every value of the constants that satisfies the
module's assumption; `KeeperProofs` extends `KeeperWal` and `KeeperProcess`, whose
specification is therefore `ProcessSpec`. Each module's inductive invariant was
checked by TLC on its run first, and there is a lemma per action. Bounds on faults, restarts and
requests are constants too, so the theorems hold for any number of them.

### DurableWriteProofs

`DurableWriteProofs` proves, for any sets of attempts and events, from
`DurableWriteAssumption` alone (an identity is never sent both durable and
accepted, which the client's two calls ensure by drawing a new index for each
event):

- `TypeCorrect`, `AtMostOneCarrier` (`IngestedOnce`), `EveryPendingCarried`,
  `DurableAnswerKept` (`AcknowledgedIsKept`), `GateCollects`
  (`AcceptedIsCollected`), `QuietDelete` (`NoHandlerAtDelete`);
- `AppendNeverRefuses` (`AppendHonoursFirst`), an action property.

None of these is inductive. `IngestedOnce` fails to be, for example, because a
state with an event in flight for one attempt and a second attempt waiting on
its own completion satisfies it and steps to two carriers. The inductive
invariant `IInv` adds what ties the parts together:

- `TableInv`: a queued or grouped attempt is exactly the one `inFlight` names
  for its event, and that event is not pending; queue and group are disjoint;
- `GroupInv`: a group has one status, a failed one has latched the WAL, and the
  registered attempts of a good group have their events kept;
- `HandlerInv`: a waiting handler waits on an attempt of its own event; one that
  waits on itself without a result is queued, grouped or registered; a result
  `CL_SUCCESS` belongs to an event that is kept;
- `CarrierInv`: an event with a carrier is pending, in flight for that carrier,
  or its group just failed. With `TableInv` this is why a second attempt that
  passes the lookup of `Enqueue` is the only carrier;
- `ShutInv`: the gate stays shut, and no counted write is past it afterwards.

The steps that only walk through the checks are handled at once: `MovesOnly`
shows that each is a `Moves`, and `MovesInv` that a `Moves` keeps `IInv`.
Queueing, waking, registering, answering, dropping, collecting, confirming and
the shutdown have a lemma each, and `NextInv` puts them together.

### KeeperIngestProofs

For any stories, events, times, clock readings and a non-empty set of collection
threads (`startDataCollection` starts three): `OnePlace` (`InOnePlace`),
`StartedRecorded`, `NothingLeft`, and `CustodyKept`, the refinement of
`EventCustody`. The proof does not look at times: which chunk takes an event,
when a chunk decays and when a pipeline retires may be anything. The invariant is
`PlaceInv`, each event in at most one of handle, orphan queue, timeline, sealed
and given up, and in one of them once its handler has let it go; `StoreInv`, a
story's deque and orphans hold its own events, without repetition, and none when
it has no pipeline; `LogInv`, recovered events are sealed before anything else
happens; `StartInv`, only what is recorded waits for exit; and `EndInv`, a
thread ends only after the state has changed and with nothing in memory, which
is why no event can be taken in behind its back. For the refinement, `CustodyFact`
shows from the invariant that the places `Custody` finds are those the progress of
the write stands for (`OneOrNone`: one place or none), and `CustodyStep` that each
action is then a step of `EventCustody` or a stutter.

### ChunkDeliveryProofs

For any chunks, spans, streams, faults and number of grapher processes, with at
least one window (`Horizon >= 1`): `ChunksOwned` (`QueueOwnsItsChunks`),
`WatermarkPrefix`, `SettledWritten`, `FreedWritten`. `CustodyInv` says who has a
chunk. `WatermarkInv` says what is between anchor and W and that the parked
windows are the written ones beyond it, so that the loop which moves W on stops
at the first gap. `SettledWritten` needs the most: a report may be late, of a
process that was replaced, or overtaken, so `TruthInv` is about every report
under way and not only about the keeper's view; a report is true when made
because of `PendingInv` (a receipt that is no longer pending is of a written
chunk), and that holds because of `CountInv`: the holders of a merged receipt are
at least as many as the windows that keep it. At least, and not exactly, since a
window that is merged again counts twice. `HolderInv` ties the count to the
places: a window that has a receipt is in the timeline, on its way to the archive
or written and not yet let go, in one of them only, and has the event.
`ReceiptInv` makes a receipt name one chunk for ever. What a destroyed story
leaves is excluded by `~destroyed => LiveInv`, as in the properties.

### ReplayProofs

For any keepers, chunks, finite set of events in `EventSequence` order, fetch
limits, ranges and watermarks: `ReplayWhole` (`ReplayHoldsAll`), `EventsOnce`,
and the action property `AnswerStays` (`AnswerIsFinal`), with keepers that crash,
lose what was not durable, read confirmed events back again, or leave. `ChunkInv` is
what the keepers give a replay to rely on: what was freed is readable in the archive
and, until `disturbed`, lies below the W its keeper reports, and every keeper with
something sealed is on the roster. A chunk that is lost gives nothing, and its events
leave `due` of the replays that relied on it. `DueInv` follows each event that is due: before the player asks, some
keeper holds it; while it asks, a keeper still to be asked holds it, or an answer
gives it, leaves it to the archive below the W it reports, or is cut short or
missing; then it is in the record or in the archive below the end of the read
that is queued; then in the record; then in the caller's vector. The step between
the second and third is `splitHotRange`'s: W differs from keeper to keeper, and
an event one keeper left to the archive is below the split since the split is the
highest W. `OrderInv` carries the order through `Ascending`, whose lemma
(`AscendingFact`) is by counting: the rank is an injection of a finite set into
as many places. `LifeInv` orders call, player and handler, and makes an answer
imply that the handler is done.

### StoryClientProofs

- `AcquireHeld` (`AcquireMeansHeld`), for any order of connects, disconnects,
  destroys, acquires and releases of any number of threads and any lost RPCs. The
  invariant `SessionInv` adds that a handle which has not outlived a disconnect or a
  destroy is one the visor knows of; `StoryClientReconnect.cfg` shows that
  the others are not.
- `IdentityUnique`: no two events of one clock tick have the same index while no
  more than `MaxIndex` (`INT_MAX`) were logged in it; beyond that indices repeat by
  design. The invariant `IndexInv` tells the runs of the counter before and after
  its one reset apart.
- `DurableStatusTrue`: a write that was not stored yet has only its first attempt
  under way until `mayBeStored` is set; an answer is true when it is given and
  stays true while it is on its way.
- `TailReadWhole`: `SequencesInv` and `EventsInv` say of each phase that a keeper
  which has answered named every stable event or enough newer ones.

### VisorStoriesProofs

For any clients, stories, groups, keepers and bounds: `HeldStays` (`HeldExists`),
`ListedHeld`, `UnheldSilent` (`UnheldNotRecorded`) and `HeldRecorded`
(`HeldIsRecorded`). `RequestInv` says what a
request at each place still owes; `CountInv` that the story's counter is the
number of its acquirers, on which the decision to stop rests; `ListedInv` and
`RecordedInv` that a story which is listed or recorded without a holder is
excused, or that a request, or the second look of `startHeldStoriesOnKeeper`, has
still to stop it; `KeeperInv` that a stop under way goes to the process that is
registered now.

`HeldRecorded` is about the other direction, and needs an invariant of its own.
An acquire that finds an entry starts nothing, so the entry itself must promise
the recording, also one that a stop left behind because the registry did not run.
`HeldInv` says, of histories in which no two requests overlapped and no RPC
failed: every registered keeper of the group an entry names records the story, or
its registration has it still to start, or the acquire that made the entry is
still to start it there or to take the entry back (`Covered`); a held story has
an entry, unless its acquire is still under way (`Entered`); a story that a
request is to stop has no holder and one that it is stopping no entry
(`LoneRequest`); and no registration takes back what it started (`Unstopped`).
The two assumptions are what the code lacks a guard for: with overlap the stop of
an earlier release may erase the entry a later acquire has made, and one keeper
that answers is enough for an acquire, so a lost RPC leaves another one out.

### KeeperProofs

Of `KeeperWal`: `AcknowledgedSurvives` (`DurableSurvives`, and
`EveryAnswerSurvives`, which excepts no event), `DestroyedStaysDestroyed`
(`NoResurrection`), `CopiesAreOnDisk` (`PendingCopiesOnDisk`) and
`RecoveryNeverRefuses` (`RecoveryAdmits`), for any events, stories, segment and
group sizes, requests and scenarios, from `ConstantsAssumption`, and each as
`Spec => [](OnlyHousekeepingFails => ...)`. The hypothesis is about the behaviour
so far: no fault has happened, or the scenario's faults are the failed removal of
a segment, the failed directory sync after it and the failed replacement of the
unlogged-drops file. Crashes, power losses at any step (of recovery too), destroys
and re-created stories are not limited. It is needed: with a failed write or sync
the same properties are false for some scenarios (`wal_drop_line`,
`KeeperWalFailedSync.cfg`), and what remains true of those is left to the run.

None of the four is inductive. The invariant `Inv` speaks of both layers of the
medium:

- `RowInv`: at most one segment has an end that is not clean, the active one of
  the keeper or of the last keeper. `Edge` says what it may look like: whole
  groups, equal in both layers, then the slots of one group of which each may be
  old, new or damaged in either layer, then zeros. Segments after it are empty.
  This is why a torn group is the last one whichever slots a power loss keeps,
  and why recovery's zeros reach no acknowledged record.
- `NamesInv`: no E record is readable in a segment without its story's N record
  before it, so recovery knows the story of every event it reads.
- `PendingInv`, `OwedInv`: one copy of every owed event is `Good`: in a segment
  both layers of the directory have, at a slot no crash takes, before no D record
  of its story and above every line for it.
- `BuriedInv`: every copy of a buried event is `Covered`, by a D record that no
  crash takes and whose segment stays at least as long, or by a line of the
  unlogged-drops file in both layers of the directory.
- `DeleteInv`, `LineInv`: the pass over released segments removes the oldest
  first, and a D record that an older segment which stays still needs is a line
  before its own segment goes; a line names a segment before the active one, so it
  never reaches an event written after it.
- `DirectoryInv`, `RecoveryInv`, `IdleInv`: what is listed, what may come back
  after a power loss, and how far the committer or recovery has come.

The steps that only take from the medium (a power loss, a sync, recovery's zeros)
are handled at once: `Fades` says what they may take, and the `Fade...` lemmas that
`Good`, `Covered`, `NamesInv` and `Edge` survive it. The rest has a lemma per
action; `CommitWrite` and `CommitSync` rest on where a group's frames lie
(`GroupLaid`, `LaidEntry`), `RecoverStart` on what `Recovered` returns for a clean
directory (`RecoveredFacts`).

Of `KeeperProcess`: `SummaryTrue` for any processes, events and faults: `LockInv`
(exactly the holder of the lock is past it), `PartialInv` (what is renamed was
synced and counted after the WAL stopped), `SummaryInv` (a summary under its name is
true while nobody can change what is outstanding, on the disk too, and is gone
before recovery makes more outstanding), `CleanInv`.

### ArchiveProofs

For any stories, queries, graphers, extraction streams, margin, finite set of
windows and any number of destroys, failed operations, crashes, power losses,
restarts and replays: `DestroyedStoriesStayGone` (`DestroyedStaysGone`),
`PersistedStaysFindable` (`PersistedIsFindable`) and `ReadsAreComplete`
(`ReadComplete`). Besides types, `ArchiveAssumption` asks that a window ends
after it starts and that there are finitely many (for `SetToSeq`, the order
finished windows are queued in).

None of the three is inductive. The invariant follows a window from its pipeline
to the player's answer:

- `CustodyInv`, for the destroys: `Fence(g, D, b, C)` says that a destroy of `D`
  up to pipeline number `b` has taken those pipelines out and that none of the
  chunks `C` is of one of them, unless excused. A queued destroy has it for the
  chunks stashed after it, one that is draining for what is not in the extraction
  queue yet, one that removes files and one that has ended for everything the
  grapher holds. The step from the second to the third is what `ExtractionIdle`
  is for.
- `NamesInv`: a file name is made once, so no two streams hold the same file and
  no worker removes a file that was written after it listed the directory.
- `TaskInv`, `BroadcastInv`: a destroy under way reaches only pipelines that are
  doomed, and was requested no later than now; with `Margin` this is why a
  younger file of another grapher is safe from it.
- `LinesInv`: a line without its newline is followed by nothing, or by a line
  that puts a newline first.
- `StreamInv`: a window that no destroy reaches has, at each place of its stream,
  its file (`Spared` by every destroy on its way, queued or working), its synced
  name, its record, and at the report a synced record.
- `LiveInv`: behind each report stand a file and a line (`Evidence`), and that
  line is synced and ended, hence survives a power loss and a torn line after it.
- `IndexInv`: the player has indexed what is recorded in the lines it has read,
  and knows a span no shorter than that of any indexed file.
- `DueInv`: a due window was read already, or its evidence is ahead of the
  reader: in a log still to be read, in the lines read, in the files selected. A
  window that was destroyed meanwhile is not due any more.

`doomed` is there for `LiveInv`: a destroy that a failing deletion or a shutdown
cuts short has removed files and is neither queued nor ended, and what a pipeline
it reached reports later may be gone.

The proof has two halves. Each action is shown to have one of some twenty shapes
(`StepShape`: a window arrives, a worker takes, lists, unlinks or records,
a stream publishes, names, appends, reports, a process dies, the power fails, a
player reads ...), which say what it does to the parts of the state the invariant
is about; then each part of the invariant has one lemma over the shapes
(`StepCustody`, `StepNames`, `StepLines`, `StepStreams`, `StepReports`,
`StepIndex`, `StepDue`). `RecordedKeeps`, `SparedKeeps` and `EvidenceKeeps` carry
a report's line and file through every step.

### What only TLC checks

- Liveness: `EveryHandlerAnswers`, `EverySealedConfirmed`, `LateEventRescued`,
  `ShutdownEnds`, `DestroyIsCarriedOut`, `StopEnds`. The prover does not reason
  about fairness.
- `KeeperWal` once a write, a data sync, an erase or the preparation of a segment
  has failed. The four invariants hold then of the scenarios of the run and not of
  every scenario: `wal_drop_line` and `KeeperWalFailedSync.cfg` are the
  counterexamples once crashes, such faults and re-creation mix.

## Plan

The system's protocol is modelled, every module with invariants has proofs, and
every invariant a run checks is stated by a theorem; what is left, in order of
importance:

1. `KeeperWal`: state which mixes of crashes, failed writes and syncs and
   re-creation the code withstands, and prove the four invariants for those too.
2. `WalReleaseTracker` and `WalSegmentManager` on their own, refining the sets
   that `KeeperWal` uses for them.

The runs are kept few: a new question shares a run with an old one, or
takes the place of one that a theorem has made needless. Type invariants are
stated in every large module; TLC checks the one of `DurableWrite` in a run, and
the others are for the proofs.

## Not modelled

See the components with status `not_modelled` or `partly` in `PROJECT.json`.
Configuration, logging, encodings, checksums, RDMA bulk handling, HDF5 layout,
tools, plugins and bindings hold no state the promises depend on. Of the visor,
the shutdown, the deletion of an admin client some seconds after its process
left, statistics, listings and chronicle attributes are left out; of the grapher
and the player, their mains and registration loops, which are the keeper's
without the WAL; of the player, the pipelines it keeps and does not use for a
replay; of the client, listings, attributes and monitoring. A data race on a
container (`StoryChunkIngestionQueue.h:65`, the registry's maps) has no bounded
set of outcomes and is listed as a hazard or an observation only.
