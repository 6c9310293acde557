------------------------------ MODULE Archive ------------------------------
(***************************************************************************)
(* The archive the graphers write and the players read: window files, one  *)
(* manifest log per recording group, and the index a player builds from    *)
(* the logs.                                                               *)
(*                                                                         *)
(* Grapher side: GrapherDataStore hands finished windows of its pipelines  *)
(* to the extraction queue; each extraction stream writes a window file    *)
(* (StoryChunkWriter), appends and syncs a PUBLISH record                  *)
(* (ArchiveManifestWriter) and only then reports the window written        *)
(* (HDF5FileChunkExtractor::process_chunk).  A destroy is queued for the   *)
(* destroy worker, which waits until extraction is idle, deletes the files *)
(* the destroy covers and appends a DELETE record.                         *)
(* Player side: HDF5ArchiveReadingAgent follows the logs, selects the      *)
(* files of a range by its index, and reads them without its lock.         *)
(*                                                                         *)
(* A line of a log is an item: its record (or Cut, part of one), whether a *)
(* newline was put before it, whether its own newline is there, and how    *)
(* far it is on its way to the disk.  A sync covers every line written     *)
(* before it; lines a failed sync leaves in doubt may never reach the disk *)
(* although later syncs succeed.  A process that dies leaves the disk as   *)
(* it is; a power loss takes every process and what was not synced.        *)
(***************************************************************************)
EXTENDS Integers, Sequences, FiniteSets, SequencesExt, FiniteSetsExt

CONSTANTS Stories, Windows, StoryOf, From, To,
          Unstorable,       \* windows with a number append refuses (above INT64_MAX)
          Graphers, Streams,
          Scenarios,        \* deployments: the streams' graphers, and what may happen how often
          Queries,          \* the replay ranges [story, from, to]
          Margin            \* kForeignFileMargin

\* what is bounded: deliveries of each window, stories started and stopped, destroys,
\* crashes, failing operations, replays, shutdowns, clock ticks
Kinds == Windows \cup {"starts", "stops", "destroys", "crashes", "faults", "reads", "exits", "ticks"}

ASSUME ArchiveAssumption ==
  /\ StoryOf \in [Windows -> Stories] /\ From \in [Windows -> Nat] /\ To \in [Windows -> Nat]
  /\ \A w \in Windows : From[w] < To[w]
  /\ IsFiniteSet(Windows)
  /\ Unstorable \subseteq Windows /\ Margin \in Nat
  /\ Queries \subseteq [story : Stories, from : Nat, to : Nat]
  /\ \A c \in Scenarios : c.home \in UNION {[S -> Graphers] : S \in SUBSET Streams} /\ c.budget \in [Kinds -> Nat]

VARIABLES
  home, now,
  started, up,                             \* process starts of a grapher; whether one is running
  incarnation, pipe, waiting,              \* latestIncarnation, theMapOfStoryPipelines, pipelinesWaitingForExit
  destroyedStories, destroyedChronicle,    \* the tombstones
  extractionQueue, retiring, stream,       \* chunks queued, in a retiring thread's hands, in a stream's
  destroyQueue, worker, exiting,           \* exiting: destroyWorkerShouldExit
  latched, needsNewline, sequence,         \* theFailed, theLogNeedsNewline, writeWindow's sequence
  files, named, log,                       \* the disk: window files, the names that are synced, the logs
  tail, index, maxSpan, reader,            \* the player
  broadcast,                               \* the visor's destroy on its way to the graphers
  live, gone, doomed, raced,               \* history, see the properties
  budget                                   \* what may still happen

grapher == <<started, up>>
pipelines == <<incarnation, pipe, waiting, destroyedStories, destroyedChronicle>>
extraction == <<extractionQueue, retiring, stream>>
destroying == <<destroyQueue, worker, exiting, broadcast, gone, doomed>>
writer == <<latched, needsNewline, sequence>>
disk == <<files, named, log>>
player == <<tail, index, maxSpan, reader>>
vars == <<home, now, grapher, pipelines, extraction, destroying, writer, disk, player, live, raced, budget>>

Cut == [op |-> "cut"]
NoPipe == [inc |-> 0, windows |-> {}]
Idle == [pc |-> "idle"]
Spend(k) == budget[k] > 0 /\ budget' = [budget EXCEPT ![k] = @ - 1]

Overlaps(w, q) == StoryOf[w] = q.story /\ From[w] < q.to /\ q.from < To[w]
Recording(g) == {s \in Stories : pipe[g][s].inc # 0}
StreamsOf(g) == {x \in DOMAIN home : home[x] = g}

Init ==
  /\ \E c \in Scenarios : home = c.home /\ budget = c.budget
  /\ now = 0 /\ started = [g \in Graphers |-> 1] /\ up = [g \in Graphers |-> StreamsOf(g) # {}]
  /\ incarnation = [g \in Graphers |-> 0] /\ pipe = [g \in Graphers |-> [s \in Stories |-> NoPipe]]
  /\ waiting = [g \in Graphers |-> {}]
  /\ destroyedStories = [g \in Graphers |-> {}] /\ destroyedChronicle = [g \in Graphers |-> FALSE]
  /\ extractionQueue = [g \in Graphers |-> <<>>] /\ retiring = [g \in Graphers |-> <<>>]
  /\ stream = [x \in Streams |-> Idle]
  /\ destroyQueue = [g \in Graphers |-> <<>>] /\ worker = [g \in Graphers |-> Idle]
  /\ exiting = [g \in Graphers |-> FALSE]
  /\ latched = [g \in Graphers |-> FALSE] /\ needsNewline = [g \in Graphers |-> FALSE]
  /\ sequence = [g \in Graphers |-> 0]
  /\ files = {} /\ named = {} /\ log = [g \in Graphers |-> <<>>]
  /\ tail = [g \in Graphers |-> 0] /\ index = {} /\ maxSpan = [s \in Stories |-> 0] /\ reader = Idle
  /\ broadcast = [stories |-> {}, whole |-> FALSE, to |-> {}, at |-> 0]
  /\ live = {} /\ gone = {} /\ raced = {}
  /\ doomed = [g \in Graphers |-> [s \in Stories |-> 0]]

----------------------------------------------------------------------------
(* The grapher's data store *)

\* the windows W of the pipeline of story s, as chunks
Chunks(g, s, W) == {[w |-> w, inc |-> pipe[g][s].inc] : w \in W}
Remaining(g, D) == UNION {Chunks(g, s, pipe[g][s].windows) : s \in D}

\* stashStoryChunks: chunks are queued in any order they finished
stashStoryChunks(q, C) == q \o SetToSeq(C)

\* startStoryRecording for a visor's registration
startStoryRecording(g, s) ==
  /\ up[g] /\ ~exiting[g] /\ Spend("starts")
  /\ destroyedStories' = [destroyedStories EXCEPT ![g] = @ \ {s}]
  /\ destroyedChronicle' = [destroyedChronicle EXCEPT ![g] = FALSE]
  /\ waiting' = [waiting EXCEPT ![g] = @ \ {s}]
  /\ \/ pipe[g][s].inc # 0 /\ UNCHANGED <<pipe, incarnation>>
     \/ /\ pipe[g][s].inc = 0
        /\ incarnation' = [incarnation EXCEPT ![g] = @ + 1]
        /\ pipe' = [pipe EXCEPT ![g][s] = [inc |-> incarnation[g] + 1, windows |-> {}]]
  /\ UNCHANGED <<home, now, grapher, extraction, destroying, writer, disk, player, live, raced>>

stopStoryRecording(g, s) ==
  /\ up[g] /\ ~exiting[g] /\ pipe[g][s].inc # 0 /\ s \notin waiting[g] /\ Spend("stops")
  /\ waiting' = [waiting EXCEPT ![g] = @ \cup {s}]
  /\ UNCHANGED <<home, now, grapher, incarnation, pipe, destroyedStories, destroyedChronicle, extraction,
                 destroying, writer, disk, player, live, raced>>

\* A chunk of a recorded story is merged into its pipeline.
collectIngestedEvents(g, w) ==
  /\ up[g] /\ ~exiting[g] /\ pipe[g][StoryOf[w]].inc # 0 /\ Spend(w)
  /\ pipe' = [pipe EXCEPT ![g][StoryOf[w]].windows = @ \cup {w}]
  /\ UNCHANGED <<home, now, grapher, incarnation, waiting, destroyedStories, destroyedChronicle, extraction,
                 destroying, writer, disk, player, live, raced>>

Tombstoned(g, s) == s \in destroyedStories[g] \/ destroyedChronicle[g]

\* A chunk of a story without a pipeline gets one, scheduled to retire, unless
\* the story is tombstoned; then the chunk is discarded.
adoptOrphanChunks(g, w) ==
  LET s == StoryOf[w] IN
  /\ up[g] /\ ~exiting[g] /\ pipe[g][s].inc = 0 /\ Spend(w)
  /\ \/ Tombstoned(g, s) /\ UNCHANGED <<incarnation, pipe, waiting>>
     \/ /\ ~Tombstoned(g, s)
        /\ incarnation' = [incarnation EXCEPT ![g] = @ + 1]
        /\ pipe' = [pipe EXCEPT ![g][s] = [inc |-> incarnation[g] + 1, windows |-> {w}]]
        /\ waiting' = [waiting EXCEPT ![g] = @ \cup {s}]
  /\ UNCHANGED <<home, now, grapher, destroyedStories, destroyedChronicle, extraction, destroying, writer,
                 disk, player, live, raced>>

\* The windows that decayed are stashed under dataStoreMutex.
extractDecayedStoryChunks(g, s) ==
  /\ up[g] /\ ~exiting[g]
  /\ \E W \in SUBSET pipe[g][s].windows \ {{}} :
       /\ pipe' = [pipe EXCEPT ![g][s].windows = @ \ W]
       /\ extractionQueue' = [extractionQueue EXCEPT ![g] = stashStoryChunks(@, Chunks(g, s, W))]
  /\ UNCHANGED <<home, now, grapher, incarnation, waiting, destroyedStories, destroyedChronicle, retiring, stream,
                 destroying, writer, disk, player, live, raced, budget>>

\* A pipeline past its exit time is taken out and finalized under
\* dataStoreMutex; the stash comes after the lock is released.
retireDecayedPipelines(g, s) ==
  /\ up[g] /\ ~exiting[g] /\ s \in waiting[g] /\ retiring[g] = <<>>
  /\ retiring' = [retiring EXCEPT ![g] = SetToSeq(Remaining(g, {s}))]
  /\ pipe' = [pipe EXCEPT ![g][s] = NoPipe]
  /\ waiting' = [waiting EXCEPT ![g] = @ \ {s}]
  /\ UNCHANGED <<home, now, grapher, incarnation, destroyedStories, destroyedChronicle, extractionQueue, stream,
                 destroying, writer, disk, player, live, raced, budget>>

StashRetired(g) ==
  /\ up[g] /\ retiring[g] # <<>>
  /\ extractionQueue' = [extractionQueue EXCEPT ![g] = @ \o retiring[g]]
  /\ retiring' = [retiring EXCEPT ![g] = <<>>]
  /\ UNCHANGED <<home, now, grapher, pipelines, stream, destroying, writer, disk, player, live, raced, budget>>

----------------------------------------------------------------------------
(* Destroying a story, or every story of the chronicle *)

\* history: the destroy of the stories D reaches the pipelines g has made so far
Doom(g, D) == [s \in Stories |-> IF s \in D THEN incarnation[g] ELSE doomed[g][s]]

\* The visor has removed the metadata and sends the destroy to the running graphers.
BroadcastDestroy(D, whole) ==
  /\ broadcast.to = {} /\ Spend("destroys")
  /\ whole => D = Stories
  /\ broadcast' = [stories |-> D, whole |-> whole, to |-> {g \in Graphers : up[g] /\ ~exiting[g]}, at |-> now]
  /\ doomed' = [g \in Graphers |-> Doom(g, D)]
  /\ live' = {r \in live : StoryOf[r.w] \notin D}
  /\ reader' = IF reader.pc = "idle" THEN reader
               ELSE [reader EXCEPT !.due = {w \in @ : StoryOf[w] \notin D}]
  /\ UNCHANGED <<home, now, grapher, pipelines, extraction, destroyQueue, worker, exiting, gone, writer, disk,
                 tail, index, maxSpan, raced>>

\* The task carries the bound, the time and the unwritten chunks of the stories' pipelines.
DestroyTask(g, D) ==
  [stories |-> D, bound |-> incarnation[g], requested |-> now, remaining |-> SetToSeq(Remaining(g, D))]

\* destroyStory and destroyChronicle: the bound and the tombstone are set and
\* the pipelines taken out under dataStoreMutex; what they still hold goes to
\* the worker with the task.
destroyStory(g) ==
  LET D == broadcast.stories IN
  /\ g \in broadcast.to /\ up[g] /\ ~exiting[g]
  /\ broadcast' = [broadcast EXCEPT !.to = @ \ {g}]
  /\ IF broadcast.whole
     THEN destroyedChronicle' = [destroyedChronicle EXCEPT ![g] = TRUE] /\ UNCHANGED destroyedStories
     ELSE destroyedStories' = [destroyedStories EXCEPT ![g] = @ \cup D] /\ UNCHANGED destroyedChronicle
  /\ pipe' = [pipe EXCEPT ![g] = [s \in Stories |-> IF s \in D THEN NoPipe ELSE @[s]]]
  /\ waiting' = [waiting EXCEPT ![g] = @ \ D]
  /\ destroyQueue' = [destroyQueue EXCEPT ![g] = Append(@, DestroyTask(g, D))]
  /\ doomed' = [doomed EXCEPT ![g] = Doom(g, D)]
  /\ raced' = raced \cup {[g |-> g, start |-> started[g], inc |-> c.inc] :
                            c \in {d \in ToSet(retiring[g]) : StoryOf[d.w] \in D}}
  /\ UNCHANGED <<home, now, grapher, incarnation, extraction, worker, exiting, gone, writer, disk, player, live,
                 budget>>

\* mutant: an empty queue counts as idle although a stream is writing
MutExtractionIdle(g) == extractionQueue[g] = <<>>

\* idle(): nothing queued and nothing in process
ExtractionIdle(g) == extractionQueue[g] = <<>> /\ \A x \in StreamsOf(g) : stream[x].pc = "idle"

\* The worker takes a task and stashes the chunks it brought.
TakeTask(g) ==
  /\ up[g] /\ worker[g].pc = "idle" /\ destroyQueue[g] # <<>>
  /\ worker' = [worker EXCEPT ![g] = [pc |-> "drain", task |-> Head(destroyQueue[g]), files |-> {}]]
  /\ extractionQueue' = [extractionQueue EXCEPT ![g] = @ \o Head(destroyQueue[g]).remaining]
  /\ destroyQueue' = [destroyQueue EXCEPT ![g] = Tail(@)]
  /\ UNCHANGED <<home, now, grapher, pipelines, retiring, stream, exiting, broadcast, gone, doomed, writer,
                 disk, player, live, raced, budget>>

\* own files of this process up to the bound, own files of earlier processes,
\* another grapher's by its age
coveredByDestroy(f, g, task) ==
  IF f.g = g THEN f.start = started[g] => f.inc <= task.bound
  ELSE f.mtime + Margin < task.requested

\* the window files of the story directories that the destroy covers
Listed(g) == {f \in files : StoryOf[f.w] \in worker[g].task.stories /\ coveredByDestroy(f, g, worker[g].task)}

\* drainExtractionQueueOrTimeout, then the listing of the story directories
ListCovered(g) ==
  /\ up[g] /\ worker[g].pc = "drain" /\ (ExtractionIdle(g) \/ exiting[g])
  /\ worker' = [worker EXCEPT ![g].pc = "remove", ![g].files = Listed(g)]
  /\ raced' = raced \cup {[g |-> g, start |-> started[g], inc |-> i] :
                            i \in {j \in 1..worker[g].task.bound : ~ExtractionIdle(g)}}
  /\ UNCHANGED <<home, now, grapher, pipelines, extraction, destroyQueue, exiting, broadcast, gone, doomed,
                 writer, disk, player, live, budget>>

\* deleteStoryDirectory removes the listed files one by one; one that is gone is no error.
deleteStoryDirectory(g) ==
  /\ up[g] /\ worker[g].pc = "remove" /\ worker[g].files # {}
  /\ LET f == CHOOSE h \in worker[g].files : TRUE IN
     /\ files' = files \ {f} /\ named' = named \ {f}
     /\ worker' = [worker EXCEPT ![g].files = @ \ {f}]
  /\ UNCHANGED <<home, now, grapher, pipelines, extraction, destroyQueue, exiting, broadcast, gone, doomed,
                 writer, log, player, live, raced, budget>>

\* A directory that leads out of the archive ends the task before anything is deleted.
validateArchiveDirectory(g) ==
  /\ up[g] /\ worker[g].pc = "drain" /\ (ExtractionIdle(g) \/ exiting[g]) /\ Spend("faults")
  /\ worker' = [worker EXCEPT ![g] = Idle]
  /\ UNCHANGED <<home, now, grapher, pipelines, extraction, destroyQueue, exiting, broadcast, gone, doomed,
                 writer, disk, player, live, raced>>

\* A file that cannot be removed ends the task without a record.
DeleteFails(g) ==
  /\ up[g] /\ worker[g].pc = "remove" /\ worker[g].files # {} /\ Spend("faults")
  /\ worker' = [worker EXCEPT ![g] = Idle]
  /\ UNCHANGED <<home, now, grapher, pipelines, extraction, destroyQueue, exiting, broadcast, gone, doomed,
                 writer, disk, player, live, raced>>

----------------------------------------------------------------------------
(* Appending to a manifest log *)

\* mutant: no newline before the record that follows a cut-short line
MutNeedsNl(g) == FALSE

NeedsNl(g) == log[g] # <<>> /\ needsNewline[g]
Item(rec, nl, ended) == [rec |-> rec, nl |-> nl, ended |-> ended, at |-> "dirty"]

\* append refuses a number it cannot store and everything once a sync failed.
Refused(g, rec) ==
  latched[g] \/ (rec.op = "publish" /\ rec.file.w \in Unstorable)

\* The line is written whole, under theMutex.  A reader that comes while it is
\* half there takes whole lines only and keeps its offset (readNew), as if it had
\* come before the write; a line that stays half-written is WriteFails'.
WriteLine(g, rec) ==
  /\ ~Refused(g, rec)
  /\ log' = [log EXCEPT ![g] = Append(@, Item(rec, NeedsNl(g), TRUE))]
  /\ needsNewline' = [needsNewline EXCEPT ![g] = FALSE]

\* the write fails: nothing, part of the line, or all but its newline is in the file
WriteFails(g, rec) ==
  /\ ~Refused(g, rec) /\ Spend("faults")
  /\ \/ UNCHANGED log
     \/ \E r \in {rec, Cut} : log' = [log EXCEPT ![g] = Append(@, Item(r, NeedsNl(g), FALSE))]
  /\ needsNewline' = [needsNewline EXCEPT ![g] = TRUE]

Move(g, from, to) ==
  log' = [log EXCEPT ![g] = [i \in DOMAIN @ |-> IF @[i].at = from THEN [@[i] EXCEPT !.at = to] ELSE @[i]]]

\* syncFile without the lock: it succeeds for a descriptor whose own line no
\* earlier failure left in doubt
SyncLine(g, at) == log[g][at].at # "doubt" /\ Move(g, "dirty", "synced") /\ UNCHANGED <<latched, needsNewline>>
SyncFails(g) == /\ Spend("faults") /\ Move(g, "dirty", "doubt")
                /\ latched' = [latched EXCEPT ![g] = TRUE] /\ UNCHANGED needsNewline
SyncDoubted(g, at) == /\ log[g][at].at = "doubt" /\ UNCHANGED <<log, needsNewline, budget>>
                      /\ latched' = [latched EXCEPT ![g] = TRUE]
CloseFails(g, at) == /\ log[g][at].at # "doubt" /\ Spend("faults") /\ Move(g, "dirty", "synced")
                     /\ needsNewline' = [needsNewline EXCEPT ![g] = TRUE] /\ UNCHANGED latched

\* recordDeletion: the files are gone, the record lets players forget them
DeleteRecord(g) == [op |-> "delete", stories |-> worker[g].task.stories, start |-> started[g],
                    bound |-> worker[g].task.bound]
Gone(g) == gone' = gone \cup {[g |-> g, start |-> started[g], stories |-> worker[g].task.stories,
                               bound |-> worker[g].task.bound]}

recordDeletion(g) ==
  /\ up[g] /\ worker[g].pc = "remove" /\ worker[g].files = {} /\ Gone(g)
  /\ \/ /\ Refused(g, DeleteRecord(g)) /\ worker' = [worker EXCEPT ![g] = Idle]
        /\ UNCHANGED <<log, needsNewline, budget>>
     \/ /\ WriteLine(g, DeleteRecord(g)) /\ UNCHANGED budget
        /\ worker' = [worker EXCEPT ![g] = [pc |-> "sync", at |-> Len(log'[g])]]
     \/ WriteFails(g, DeleteRecord(g)) /\ worker' = [worker EXCEPT ![g] = Idle]
  /\ UNCHANGED <<home, now, grapher, pipelines, extraction, destroyQueue, exiting, broadcast, doomed, latched,
                 sequence, files, named, player, live, raced>>

SyncDeletion(g) ==
  /\ up[g] /\ worker[g].pc = "sync"
  /\ worker' = [worker EXCEPT ![g] = Idle]
  /\ \/ SyncLine(g, worker[g].at) /\ UNCHANGED budget
     \/ SyncFails(g) \/ SyncDoubted(g, worker[g].at) \/ CloseFails(g, worker[g].at)
  /\ UNCHANGED <<home, now, grapher, pipelines, extraction, destroyQueue, exiting, broadcast, gone, doomed,
                 sequence, files, named, player, live, raced>>

----------------------------------------------------------------------------
(* An extraction stream: process_chunk *)

Rest(x) == stream' = [stream EXCEPT ![x] = Idle]
Step(x, pc) == stream' = [stream EXCEPT ![x].pc = pc]
Quiet(x) == UNCHANGED <<home, now, grapher, pipelines, retiring, destroying, player, raced>>

\* A latched manifest: the window is held, its writer told it failed.
ejectStoryChunk(x) ==
  LET g == home[x] IN
  /\ up[g] /\ stream[x].pc = "idle" /\ extractionQueue[g] # <<>>
  /\ extractionQueue' = [extractionQueue EXCEPT ![g] = Tail(@)]
  /\ \/ latched[g] /\ Rest(x)
     \/ ~latched[g] /\ stream' = [stream EXCEPT ![x] = [pc |-> "write", chunk |-> Head(extractionQueue[g])]]
  /\ Quiet(x) /\ UNCHANGED <<writer, disk, live, budget>>

\* The name holds the window, the group, the process's start, the incarnation
\* and a number of its own.
windowFileName(g, c) == [g |-> g, start |-> started[g], inc |-> c.inc, w |-> c.w, n |-> sequence[g], mtime |-> now]

\* writeWindow: the events go to a partial file, which is synced and gets its
\* name by a link; or some step of it fails and leaves nothing.
publishFile(x) ==
  LET g == home[x]  f == windowFileName(g, stream[x].chunk) IN
  /\ up[g] /\ stream[x].pc = "write"
  /\ sequence' = [sequence EXCEPT ![g] = @ + 1]
  /\ files' = files \cup {f}
  /\ stream' = [stream EXCEPT ![x] = [pc |-> "names", chunk |-> @.chunk, file |-> f]]
  /\ Quiet(x) /\ UNCHANGED <<extractionQueue, latched, needsNewline, named, log, live, budget>>

WriteWindowFails(x) ==
  /\ up[home[x]] /\ stream[x].pc = "write" /\ Spend("faults") /\ Rest(x)
  /\ sequence' = [sequence EXCEPT ![home[x]] = @ + 1]
  /\ Quiet(x) /\ UNCHANGED <<extractionQueue, latched, needsNewline, disk, live>>

\* the story directory and, for its first window, the directories above it
syncParentDirectories(x) ==
  /\ up[home[x]] /\ stream[x].pc = "names"
  /\ \/ named' = named \cup ({stream[x].file} \cap files) /\ Step(x, "append") /\ UNCHANGED <<files, budget>>
     \/ Spend("faults") /\ Rest(x) /\ files' = files \ {stream[x].file} /\ UNCHANGED named
  /\ Quiet(x) /\ UNCHANGED <<extractionQueue, writer, log, live>>

AppendPublish(x) ==
  LET g == home[x]  rec == [op |-> "publish", file |-> stream[x].file] IN
  /\ up[g] /\ stream[x].pc = "append"
  /\ \/ Refused(g, rec) /\ Step(x, "remove") /\ UNCHANGED <<log, needsNewline, budget>>
     \/ /\ WriteLine(g, rec) /\ UNCHANGED budget
        /\ stream' = [stream EXCEPT ![x] = [pc |-> "sync", chunk |-> @.chunk, file |-> @.file,
                                            at |-> Len(log'[g])]]
     \/ WriteFails(g, rec) /\ Step(x, "remove")
  /\ Quiet(x) /\ UNCHANGED <<extractionQueue, latched, sequence, files, named, live>>

SyncPublish(x) ==
  LET g == home[x] IN
  /\ up[g] /\ stream[x].pc = "sync"
  /\ \/ SyncLine(g, stream[x].at) /\ Step(x, "report") /\ UNCHANGED budget
     \/ (SyncFails(g) \/ SyncDoubted(g, stream[x].at) \/ CloseFails(g, stream[x].at)) /\ Step(x, "remove")
  /\ Quiet(x) /\ UNCHANGED <<extractionQueue, sequence, files, named, live>>

\* mutant: the failure path returns without chunkProcessed
MutRemoveUnrecorded(x) ==
  /\ up[home[x]] /\ stream[x].pc = "remove" /\ UNCHANGED stream
  /\ files' = files \ {stream[x].file} /\ named' = named \ {stream[x].file}
  /\ Quiet(x) /\ UNCHANGED <<extractionQueue, writer, log, live, budget>>

\* A file no record names is removed and the window counts as failed.
RemoveUnrecorded(x) ==
  /\ up[home[x]] /\ stream[x].pc = "remove" /\ Rest(x)
  /\ files' = files \ {stream[x].file} /\ named' = named \ {stream[x].file}
  /\ Quiet(x) /\ UNCHANGED <<extractionQueue, writer, log, live, budget>>

\* The window counts as persisted: the keepers may now free its events.  What
\* is reported of a pipeline that a destroy of its story reaches is not
\* expected to be found.
NotDestroyed(g, c) ==
  /\ ~(g \in broadcast.to /\ StoryOf[c.w] \in broadcast.stories)
  /\ c.inc > doomed[g][StoryOf[c.w]]

advancePersisted(x) ==
  LET g == home[x] IN
  /\ up[g] /\ stream[x].pc = "report" /\ Rest(x)
  /\ live' = IF ~latched[g] /\ NotDestroyed(g, stream[x].chunk)
             THEN live \cup {[g |-> g, w |-> stream[x].chunk.w]} ELSE live
  /\ Quiet(x) /\ UNCHANGED <<extractionQueue, writer, disk, budget>>

----------------------------------------------------------------------------
(* The player *)

\* A record is parsed when its line starts after a newline and ends in one.
EndsLine(L, i) == L[i].ended \/ (i < Len(L) /\ L[i + 1].nl)
StartsLine(L, i) == i = 1 \/ L[i - 1].ended \/ L[i].nl
parseManifestLine(L, i) == L[i].rec.op # "cut" /\ StartsLine(L, i) /\ EndsLine(L, i)

\* readNew consumes whole lines only: whether there is one after the first n items
readNew(L, n) == \E i \in n + 1..Len(L) : EndsLine(L, i)

\* applyDeletion takes the log's own files of the destroyed story off the index
Covers(rec, f) == StoryOf[f.w] \in rec.stories /\ (f.start # rec.start \/ f.inc <= rec.bound)

\* mutant: the last recorded span replaces the longest
MutLongest(a, b) == b

\* the index a log's records make, with the longest span of each story
Longest(a, b) == IF a > b THEN a ELSE b
applyRecord(rec, g, at) ==
  IF rec.op = "delete"
  THEN LET left == {e \in at.index : ~(e.log = g /\ Covers(rec, e.file))} IN
       [index |-> left,
        span |-> [s \in Stories |-> IF \E e \in left : StoryOf[e.file.w] = s THEN at.span[s] ELSE 0]]
  ELSE [index |-> at.index \cup {[file |-> rec.file, log |-> g]},
        span |-> [at.span EXCEPT ![StoryOf[rec.file.w]] = Longest(@, To[rec.file.w] - From[rec.file.w])]]

BeginRead(q) ==
  /\ reader.pc = "idle" /\ Spend("reads")
  /\ reader' = [pc |-> "refresh", query |-> q, logs |-> {g \in Graphers : StreamsOf(g) # {}},
                files |-> {}, ok |-> TRUE, got |-> {},
                due |-> {w \in Windows : Overlaps(w, q) /\ \E r \in live : r.w = w}]
  /\ UNCHANGED <<home, now, grapher, pipelines, extraction, destroying, writer, disk, tail, index, maxSpan, live,
                 raced>>

\* refreshFromManifest reads one log after the other in pieces, under
\* index_mutex_, while the graphers go on appending: a piece of whole lines is
\* applied, here one line, until a piece moves the offset no further.
refreshFromManifest(g) ==
  LET i == tail[g] + 1
      at == [index |-> index, span |-> maxSpan]
      after == IF parseManifestLine(log[g], i) THEN applyRecord(log[g][i].rec, g, at) ELSE at
  IN
  /\ reader.pc = "refresh" /\ g \in reader.logs /\ readNew(log[g], tail[g])
  /\ tail' = [tail EXCEPT ![g] = i]
  /\ index' = after.index /\ maxSpan' = after.span
  /\ UNCHANGED <<home, now, grapher, pipelines, extraction, destroying, writer, disk, reader, live, raced, budget>>

RefreshedLog(g) ==
  /\ reader.pc = "refresh" /\ g \in reader.logs /\ ~readNew(log[g], tail[g])
  /\ reader' = [reader EXCEPT !.logs = @ \ {g}]
  /\ UNCHANGED <<home, now, grapher, pipelines, extraction, destroying, writer, disk, tail, index, maxSpan, live,
                 raced, budget>>

\* A log that cannot be read leaves the index incomplete.
RefreshFails(g) ==
  /\ reader.pc = "refresh" /\ g \in reader.logs /\ Spend("faults")
  /\ reader' = [reader EXCEPT !.logs = @ \ {g}, !.ok = FALSE]
  /\ UNCHANGED <<home, now, grapher, pipelines, extraction, destroying, writer, disk, tail, index, maxSpan, live,
                 raced>>

\* readArchivedStory looks for ranges from the longest span before the start on
FirstStart(q) == IF q.from > maxSpan[q.story] THEN q.from - maxSpan[q.story] ELSE 0
Selected(q) == {e.file : e \in {e \in index : /\ StoryOf[e.file.w] = q.story
                                             /\ FirstStart(q) <= From[e.file.w] /\ Overlaps(e.file.w, q)}}
SelectFiles ==
  /\ reader.pc = "refresh" /\ reader.logs = {}
  /\ reader' = [reader EXCEPT !.pc = "read", !.files = Selected(reader.query)]
  /\ UNCHANGED <<home, now, grapher, pipelines, extraction, destroying, writer, disk, tail, index, maxSpan, live,
                 raced, budget>>

\* readStoryChunkFile without the lock; a file that is gone is skipped
readStoryChunkFile ==
  /\ reader.pc = "read" /\ reader.files # {}
  /\ \E f \in reader.files :
       /\ \/ /\ reader' = [reader EXCEPT !.files = @ \ {f}, !.got = IF f \in files THEN @ \cup {f.w} ELSE @]
             /\ UNCHANGED budget
          \/ /\ f \in files /\ Spend("faults")
             /\ reader' = [reader EXCEPT !.files = @ \ {f}, !.ok = FALSE]
  /\ UNCHANGED <<home, now, grapher, pipelines, extraction, destroying, writer, disk, tail, index, maxSpan, live,
                 raced>>

FinishRead ==
  /\ reader.pc = "read" /\ reader.files = {}
  /\ reader' = Idle
  /\ UNCHANGED <<home, now, grapher, pipelines, extraction, destroying, writer, disk, tail, index, maxSpan, live,
                 raced, budget>>

----------------------------------------------------------------------------
(* Processes end, crash and start; time passes *)

Empty(g) ==
  /\ pipe' = [pipe EXCEPT ![g] = [s \in Stories |-> NoPipe]] /\ waiting' = [waiting EXCEPT ![g] = {}]
  /\ incarnation' = [incarnation EXCEPT ![g] = 0]
  /\ destroyedStories' = [destroyedStories EXCEPT ![g] = {}]
  /\ destroyedChronicle' = [destroyedChronicle EXCEPT ![g] = FALSE]
  /\ extractionQueue' = [extractionQueue EXCEPT ![g] = <<>>] /\ retiring' = [retiring EXCEPT ![g] = <<>>]
  /\ stream' = [x \in Streams |-> IF x \in StreamsOf(g) THEN Idle ELSE stream[x]]
  /\ destroyQueue' = [destroyQueue EXCEPT ![g] = <<>>] /\ worker' = [worker EXCEPT ![g] = Idle]
  /\ latched' = [latched EXCEPT ![g] = FALSE] /\ needsNewline' = [needsNewline EXCEPT ![g] = FALSE]
  /\ sequence' = [sequence EXCEPT ![g] = 0]
  /\ up' = [up EXCEPT ![g] = FALSE]
  /\ broadcast' = [broadcast EXCEPT !.to = @ \ {g}]
  /\ doomed' = [doomed EXCEPT ![g] = [s \in Stories |-> 0]]

\* The process dies; its files and its log stay as they are.
Crash(g) ==
  /\ up[g] /\ Spend("crashes") /\ Empty(g)
  /\ UNCHANGED <<home, now, started, exiting, gone, disk, player, live, raced>>

\* What a power loss may leave of a log: the lines that were synced, some more,
\* perhaps part of the next; a line in doubt may be unreadable.
Kept(L, n, bad) == [i \in 1..n |-> [L[i] EXCEPT !.at = IF @ = "doubt" THEN @ ELSE "synced",
                                               !.rec = IF i \in bad THEN Cut ELSE @]]
Torn(L, n) == [L[n + 1] EXCEPT !.rec = Cut, !.ended = FALSE, !.at = "synced"]
Remains(L) ==
  LET ends == {n \in 0..Len(L) : \A i \in n + 1..Len(L) : L[i].at = "dirty"}
      doubt == {i \in DOMAIN L : L[i].at = "doubt"}
  IN {Kept(L, n, bad) : n \in ends, bad \in SUBSET doubt}
     \cup {Append(Kept(L, n, bad), Torn(L, n)) : n \in ends \ {Len(L)}, bad \in SUBSET doubt}

\* every grapher and the player stop
PowerLoss ==
  /\ Spend("crashes")
  /\ \E keep \in SUBSET (files \ named), L \in [Graphers -> UNION {Remains(log[g]) : g \in Graphers}] :
       /\ \A g \in Graphers : L[g] \in Remains(log[g])
       /\ files' = named \cup keep /\ named' = named \cup keep /\ log' = L
  /\ up' = [g \in Graphers |-> FALSE] /\ stream' = [x \in Streams |-> Idle]
  /\ pipe' = [g \in Graphers |-> [s \in Stories |-> NoPipe]]
  /\ waiting' = [g \in Graphers |-> {}] /\ destroyedStories' = [g \in Graphers |-> {}]
  /\ destroyedChronicle' = [g \in Graphers |-> FALSE] /\ incarnation' = [g \in Graphers |-> 0]
  /\ extractionQueue' = [g \in Graphers |-> <<>>] /\ retiring' = [g \in Graphers |-> <<>>]
  /\ destroyQueue' = [g \in Graphers |-> <<>>] /\ worker' = [g \in Graphers |-> Idle]
  /\ latched' = [g \in Graphers |-> FALSE] /\ needsNewline' = [g \in Graphers |-> FALSE]
  /\ sequence' = [g \in Graphers |-> 0] /\ broadcast' = [broadcast EXCEPT !.to = {}]
  /\ doomed' = [g \in Graphers |-> [s \in Stories |-> 0]]
  /\ tail' = [g \in Graphers |-> 0] /\ index' = {} /\ maxSpan' = [s \in Stories |-> 0] /\ reader' = Idle
  /\ UNCHANGED <<home, now, started, exiting, gone, live, raced>>

\* ArchiveManifestWriter::open: the log is synced, and a last line without its
\* newline is remembered
endsWithoutNewline(L) == L # <<>> /\ ~L[Len(L)].ended
open(g) ==
  /\ ~up[g] /\ ~exiting[g] /\ StreamsOf(g) # {}
  /\ up' = [up EXCEPT ![g] = TRUE] /\ started' = [started EXCEPT ![g] = @ + 1]
  /\ Move(g, "dirty", "synced")
  /\ needsNewline' = [needsNewline EXCEPT ![g] = endsWithoutNewline(log[g])]
  /\ UNCHANGED <<home, now, pipelines, extraction, destroying, latched, sequence, files, named, player, live, raced,
                 budget>>

\* shutdownDataCollection: the worker no longer waits; once it has no task left
\* the remaining pipelines are finalized and handed to the extraction queue.
shutdownDataCollection(g) ==
  /\ up[g] /\ ~exiting[g] /\ Spend("exits")
  /\ exiting' = [exiting EXCEPT ![g] = TRUE]
  /\ broadcast' = [broadcast EXCEPT !.to = @ \ {g}]
  /\ UNCHANGED <<home, now, grapher, pipelines, extraction, destroyQueue, worker, gone, doomed, writer, disk,
                 player, live, raced>>

FinalizePipelines(g) ==
  /\ up[g] /\ exiting[g] /\ Recording(g) # {}
  /\ worker[g].pc = "idle" /\ destroyQueue[g] = <<>> /\ retiring[g] = <<>>
  /\ pipe' = [pipe EXCEPT ![g] = [s \in Stories |-> NoPipe]] /\ waiting' = [waiting EXCEPT ![g] = {}]
  /\ extractionQueue' = [extractionQueue EXCEPT ![g] = stashStoryChunks(@, Remaining(g, Stories))]
  /\ UNCHANGED <<home, now, grapher, incarnation, destroyedStories, destroyedChronicle, retiring, stream,
                 destroying, writer, disk, player, live, raced, budget>>

\* A destroy reaches every running grapher within the margin, and a grapher's
\* clock and the file server's agree up to it: kForeignFileMargin stands for both.
Tick ==
  /\ Spend("ticks") /\ (broadcast.to # {} => now < broadcast.at + Margin)
  /\ now' = now + 1
  /\ UNCHANGED <<home, grapher, pipelines, extraction, destroying, writer, disk, player, live, raced>>

GrapherStep(g) ==
  \/ \E s \in Stories : \/ startStoryRecording(g, s) \/ stopStoryRecording(g, s)
                        \/ extractDecayedStoryChunks(g, s) \/ retireDecayedPipelines(g, s)
  \/ \E w \in Windows : collectIngestedEvents(g, w) \/ adoptOrphanChunks(g, w)
  \/ StashRetired(g) \/ destroyStory(g) \/ shutdownDataCollection(g) \/ FinalizePipelines(g)
WorkerStep(g) ==
  \/ TakeTask(g) \/ validateArchiveDirectory(g) \/ ListCovered(g) \/ deleteStoryDirectory(g) \/ DeleteFails(g)
  \/ recordDeletion(g) \/ SyncDeletion(g)
StreamStep(x) ==
  \/ ejectStoryChunk(x) \/ publishFile(x) \/ WriteWindowFails(x) \/ syncParentDirectories(x) \/ AppendPublish(x)
  \/ SyncPublish(x) \/ RemoveUnrecorded(x) \/ advancePersisted(x)
PlayerStep ==
  \/ \E q \in Queries : BeginRead(q)
  \/ \E g \in Graphers : refreshFromManifest(g) \/ RefreshedLog(g) \/ RefreshFails(g)
  \/ SelectFiles \/ readStoryChunkFile \/ FinishRead

Next ==
  \/ \E g \in Graphers : GrapherStep(g) \/ WorkerStep(g) \/ Crash(g) \/ open(g)
  \/ \E x \in DOMAIN home : StreamStep(x)
  \/ PlayerStep
  \/ \E s \in Stories : BroadcastDestroy({s}, FALSE)
  \/ BroadcastDestroy(Stories, TRUE)
  \/ PowerLoss \/ Tick

\* The extraction streams, the destroy worker and a retiring thread keep running.
Progress == (\E x \in DOMAIN home : StreamStep(x)) \/ (\E g \in Graphers : WorkerStep(g) \/ StashRetired(g))

Spec == Init /\ [][Next]_vars /\ WF_vars(Progress)

----------------------------------------------------------------------------
(* Properties *)

File == [g : Graphers, start : Nat, inc : Nat, w : Windows, n : Nat, mtime : Nat]
Chunk == [w : Windows, inc : Nat]
StreamPcs == {"idle", "write", "names", "append", "sync", "remove", "report"}

\* Every variable keeps its type; a synced name belongs to a file of the disk,
\* a stream that names a file is past writeWindow, and the player has not read
\* past the end of a log.
TypeOK ==
  /\ budget \in [Kinds -> Nat] /\ up \in [Graphers -> BOOLEAN]
  /\ \A g \in Graphers :
       /\ \A s \in Stories : pipe[g][s].inc \in 0..incarnation[g] /\ pipe[g][s].windows \subseteq Windows
       /\ waiting[g] \subseteq Recording(g)
       /\ extractionQueue[g] \in Seq(Chunk) /\ retiring[g] \in Seq(Chunk)
       /\ tail[g] \in 0..Len(log[g])
       /\ \A i \in DOMAIN log[g] : log[g][i].at \in {"dirty", "doubt", "synced"}
  /\ \A x \in Streams : stream[x].pc \in StreamPcs
  /\ files \subseteq File /\ named \subseteq files

\* The files a log's records name after its deletions, for a reader that has
\* only what the items in At hold.
Findable(g, At) ==
  LET L == log[g]
      On(i) == L[i].at \in At /\ parseManifestLine(L, i) IN
  {L[i].rec.file : i \in {i \in DOMAIN L : /\ On(i) /\ L[i].rec.op = "publish"
     /\ ~ \E j \in i + 1..Len(L) : On(j) /\ L[j].rec.op = "delete" /\ Covers(L[j].rec, L[i].rec.file)}}

\* What process_chunk reported written, and whose story was not destroyed
\* since, is found by every later reader, a power loss at any moment included:
\* a synced record that can be parsed names a file that is there under a synced
\* name.  Keepers free their copies on the strength of that report.
PersistedIsFindable ==
  \A r \in live : \E f \in Findable(r.g, {"synced"}) \cap named : f.w = r.w

\* readArchivedStory answers CL_SUCCESS only when it returned every window of
\* the range that was reported written before it began, unless the story was
\* destroyed meanwhile.
ReadComplete ==
  reader.pc = "read" /\ reader.files = {} /\ reader.ok => reader.due \subseteq reader.got

\* Files a finished destroy covers that are in the archive.
Undead == {f \in files : \E d \in gone : f.g = d.g /\ f.start = d.start /\ StoryOf[f.w] \in d.stories
                                          /\ f.inc <= d.bound}

\* Once a grapher's destroy worker has deleted a story, no file of the deleted
\* pipelines appears again, whatever was queued or being written; pipelines
\* whose windows a retiring thread still held, and destroys a shutdown hurried,
\* are left out.
DestroyedStaysGone ==
  \A f \in Undead : [g |-> f.g, start |-> f.start, inc |-> f.inc] \in raced

\* The same without the exception for retiring pipelines: by the time the
\* worker deletes, everything stashed for the story has been written.
DeletedAfterWritten ==
  \A f \in Undead : exiting[f.g]

\* The destroys the graphers have queued are carried out, or end with their
\* processes: extraction comes to rest once no more chunks arrive, also when
\* windows fail or are refused.
DestroyIsCarriedOut ==
  (\E g \in Graphers : destroyQueue[g] # <<>>) ~>
    (\A g \in Graphers : destroyQueue[g] = <<>> /\ worker[g].pc = "idle")
====
