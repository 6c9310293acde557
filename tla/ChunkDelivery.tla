---------------------------- MODULE ChunkDelivery ----------------------------
(***************************************************************************)
(* One story's sealed chunks on their way from a keeper's memory to the    *)
(* grapher's archive, and the confirmation back: the retention store and   *)
(* extraction queue of the keeper, and the receipts, timeline windows,     *)
(* persisted watermark W and watermark reports of the grapher.             *)
(*                                                                         *)
(* Time is counted in grapher windows: window k is [k, k+1), W and a       *)
(* chunk's end are window boundaries.  A chunk holds one event in each     *)
(* window of its span.  How old a chunk, a window or a stall has to be is  *)
(* left open: whatever has aged may be acted on at any later moment.       *)
(* The timeline starts on a multiple of the window length, so extending it *)
(* into the past never fails and no chunk is salvaged or discarded.        *)
(***************************************************************************)
EXTENDS Naturals, FiniteSets, Sequences, SequencesExt, FiniteSetsExt

CONSTANT
  Scenarios           \* the chunks, sizes and bounds a behaviour may have

BoundNames == {"send", "write", "report", "restart", "start", "resend"}

ASSUME ChunkDeliveryAssumption ==
  \A s \in Scenarios :
    /\ {s.TailCapacity, s.MaxReportRetries, s.Streams, s.Horizon, s.MaxReceipts, s.MaxInFlight,
        s.MaxQueued} \subseteq Nat /\ s.Horizon >= 1
    /\ DOMAIN s.Span \subseteq Nat /\ IsFiniteSet(DOMAIN s.Span)
    /\ s.Span \in [DOMAIN s.Span -> (SUBSET (1..s.Horizon)) \ {{}}]
    /\ s.Bounds \in [BoundNames -> Nat]
    /\ {s.MayLatch, s.MayDestroy} \subseteq BOOLEAN

VARIABLES
  scenario,                     \* the behaviour's scenario: never changes
  now,                          \* the latest time any step has shown to be reached
  sealed, tracked, chunk,       \* keeper: chunks sealed, retained, and their ChunkState
  view, knownW, droppedHere,    \* keeper: receipt view, watermark, the drop remembered
  queue, transfer,              \* keeper: extraction queue, and the chunks taken off it
  released, freed,              \* chunks the WAL was told of as written; chunks deleted
  instance, lastReceipt,        \* grapher process and its receipt counter
  lastAssigned, pending,        \* the story's StoryReceipts
  arrived, adopted,             \* receipts of chunks not merged yet; those adopted among them
  timeline, waiting,            \* the pipeline's windows; scheduled for exit
  extraction, settling,         \* windows to write; windows written, receipts not yet let go
  entry, failedEarly,           \* the story's registry entry; failedBeforeRegistration
  dirty, dropped, tombstone,    \* stories to report, drops to report, destroyedStories
  contributor, reportFailures,  \* the publisher's
  latched,                      \* the archive manifest failed
  archive,                      \* events in published files
  reports,                      \* reports on their way
  deliveries,                   \* history: every receipt ever assigned, and its chunk
  persisted, covered,           \* history of the entry: windows written, and covered by a registration
  destroyed,                    \* history: the story was destroyed
  spent                         \* the bounds used up

keeper == <<sealed, tracked, chunk, view, knownW, droppedHere, released, freed>>
receipts == <<lastReceipt, lastAssigned, pending, deliveries>>
pipeline == <<arrived, adopted, timeline, waiting>>
registry == <<entry, failedEarly, dirty, dropped>>
publisher == <<contributor, reportFailures>>
writer == <<extraction, settling, latched, archive, persisted>>
moving == <<now, keeper, queue, transfer, instance, receipts, pipeline, writer, registry, tombstone,
            publisher, reports, covered, destroyed, spent>>
vars == <<scenario, moving>>

Span == scenario.Span                   \* the windows each chunk has events in
Chunks == DOMAIN Span                   \* the story's chunks, numbered in time order
TailCapacity == scenario.TailCapacity   \* chunks the tail index holds
MaxReportRetries == scenario.MaxReportRetries   \* kMaxReportRetries
Streams == scenario.Streams             \* the grapher's extraction streams
Horizon == scenario.Horizon             \* bound: time stops here
MaxReceipts == scenario.MaxReceipts     \* bound: chunks one grapher process receives
MaxQueued == scenario.MaxQueued         \* bound: windows waiting to be written
MaxInFlight == scenario.MaxInFlight     \* bound: reports under way, the threads that publish
\* bounds on failed sends, writes and reports, grapher restarts, acquisitions after
\* the first, and re-sends while a chunk's fate is still undecided
Bounds == scenario.Bounds

EventsOf(c) == {<<c, k>> : k \in Span[c]}
StartOf(c) == Min(Span[c])
EndOf(c) == Max(Span[c]) + 1

\* kStoryDroppedWatermark, above every window
DropWatermark == Horizon + 10
Spend(what) ==
  /\ spent[what] < Bounds[what]
  /\ spent' = [spent EXCEPT ![what] = @ + 1]

NoState == [inQueue |-> FALSE, shipped |-> FALSE, inst |-> 0, receipt |-> 0, indexed |-> FALSE]
NoTransfer == [at |-> "none", inst |-> 0, n |-> 0]
NoView == [inst |-> 0, highest |-> 0, pending |-> {}]
NoEntry == [known |-> FALSE, anchor |-> 0, w |-> 0, writeFailed |-> FALSE, parked |-> {}]
EmptyWindow == [evs |-> {}, rec |-> {}]
\* StoryPipeline's constructor: three windows from the start
NewTimeline(start) == [k \in start..(start + 2) |-> EmptyWindow]
NoTimeline == <<>>
HasPipeline == DOMAIN timeline # {}

Init ==
  /\ scenario \in Scenarios
  /\ now = 1
  /\ sealed = {} /\ tracked = {} /\ chunk = [c \in Chunks |-> NoState]
  /\ view = NoView /\ knownW = 0 /\ droppedHere = FALSE
  /\ queue = <<>> /\ transfer = [c \in Chunks |-> NoTransfer]
  /\ released = {} /\ freed = {}
  /\ instance = 1 /\ lastReceipt = 0 /\ lastAssigned = 0 /\ pending = <<>>
  /\ arrived = {} /\ adopted = {} /\ timeline = NewTimeline(1) /\ waiting = FALSE
  /\ extraction = <<>> /\ settling = {}
  /\ entry = [NoEntry EXCEPT !.known = TRUE, !.anchor = 1, !.w = 1]
  /\ failedEarly = FALSE /\ dirty = TRUE /\ dropped = FALSE /\ tombstone = FALSE
  /\ contributor = FALSE /\ reportFailures = 0 /\ latched = FALSE
  /\ archive = {} /\ reports = {} /\ destroyed = FALSE /\ deliveries = {} /\ persisted = {} /\ covered = {}
  /\ spent = [b \in BoundNames |-> 0]

\* a step that shows the time to be t or later
Reached(t) == t <= Horizon /\ now' = Max({now, t})

-----------------------------------------------------------------------------
(* The keeper: KeeperChunkRetentionStore.                                   *)

\* receiptSettled
Settled(s, v) ==
  \/ s.receipt = 0
  \/ s.inst = v.inst /\ s.receipt <= v.highest /\ s.receipt \notin v.pending

MutConfirmed(c, s, v, w) == s.shipped /\ EndOf(c) <= w

\* confirmedWritten
Confirmed(c, s, v, w) == s.shipped /\ Settled(s, v) /\ EndOf(c) <= w

\* maybeFreeChunk on each chunk of C: the WAL hears of a confirmed chunk, and
\* a chunk goes when it may and its archive visibility delay has passed.
MaybeFree(C, track, st, v, w) ==
  LET confirmed == {c \in C : Confirmed(c, st[c], v, w)}
      mayGo == {c \in confirmed : ~st[c].inQueue /\ ~st[c].indexed} IN
  \E gone \in SUBSET mayGo :
    /\ released' = released \cup confirmed
    /\ tracked' = track \ gone
    /\ freed' = freed \cup gone
    /\ chunk' = [c \in Chunks |-> IF c \in gone THEN NoState ELSE st[c]]

\* ingestSealedChunk.  A drop is remembered for droppedStoryTtl only, so a
\* chunk that seals after a drop is discarded or, the drop forgotten, retained.
IngestSealedChunk(c) ==
  /\ c \notin sealed /\ Reached(Max(Span[c]))
  /\ sealed' = sealed \cup {c}
  /\ \/ /\ droppedHere
        /\ freed' = freed \cup {c}
        /\ UNCHANGED <<tracked, chunk, released, queue, droppedHere>>
     \/ LET st == [chunk EXCEPT ![c] = [NoState EXCEPT !.inQueue = TRUE, !.indexed = TRUE]]
            track == tracked \cup {c}
            index == {d \in track : st[d].indexed}
            evicted == IF Cardinality(index) > TailCapacity THEN {Min(index)} ELSE {} IN
        /\ MaybeFree(evicted, track,
                     [d \in Chunks |-> IF d \in evicted THEN [st[d] EXCEPT !.indexed = FALSE] ELSE st[d]],
                     view, knownW)
        /\ queue' = Append(queue, c)
        /\ droppedHere' = FALSE
  /\ UNCHANGED <<view, knownW, transfer, instance, receipts, pipeline, writer, registry,
                 tombstone, publisher, reports, covered, destroyed, spent>>

\* releaseStoryTail: the keeper no longer records the story
ReleaseStoryTail ==
  /\ sealed = Chunks /\ \E c \in tracked : chunk[c].indexed
  /\ MaybeFree(tracked, tracked, [c \in Chunks |-> [chunk[c] EXCEPT !.indexed = FALSE]], view, knownW)
  /\ UNCHANGED <<now, sealed, view, knownW, droppedHere, queue, transfer, instance, receipts, pipeline,
                 writer, registry, tombstone, publisher, reports, covered, destroyed, spent>>

\* markShipped: the grapher acked the chunk.  An untracked chunk (its story
\* was dropped while it was queued) is deleted.
MarkShipped(c) ==
  /\ transfer[c].at = "acked"
  /\ transfer' = [transfer EXCEPT ![c] = NoTransfer]
  /\ IF c \in tracked
     THEN LET receipt == transfer[c] IN
          MaybeFree({c}, tracked,
                    [chunk EXCEPT ![c] = [@ EXCEPT !.shipped = TRUE, !.inQueue = FALSE,
                                          !.inst = receipt.inst, !.receipt = receipt.n]],
                    view, knownW)
     ELSE freed' = freed \cup {c} /\ UNCHANGED <<tracked, chunk, released>>
  /\ UNCHANGED <<now, sealed, view, knownW, droppedHere, queue, instance, receipts, pipeline,
                 writer, registry, tombstone, publisher, reports, covered, destroyed, spent>>

\* markSendFailed: the chunk stays, with the ack of an earlier delivery
MarkSendFailed(c) ==
  /\ transfer[c].at = "failed"
  /\ transfer' = [transfer EXCEPT ![c] = NoTransfer]
  /\ IF c \in tracked
     THEN MaybeFree({c}, tracked, [chunk EXCEPT ![c].inQueue = FALSE], view, knownW)
     ELSE freed' = freed \cup {c} /\ UNCHANGED <<tracked, chunk, released>>
  /\ UNCHANGED <<now, sealed, view, knownW, droppedHere, queue, instance, receipts, pipeline,
                 writer, registry, tombstone, publisher, reports, covered, destroyed, spent>>

MutMergeReceiptsOneView(v, r) ==
  [inst |-> r.inst,
   highest |-> Max({v.highest, r.highest}),
   pending |-> {n \in v.pending : n > r.highest \/ n \in r.pending}
                 \cup {n \in r.pending : n > v.highest}]

\* mergeReceipts: reports of one instance combine in any order, a report of
\* another instance replaces the view
MergeReceipts(v, r) ==
  IF r.inst # v.inst
  THEN [inst |-> r.inst, highest |-> r.highest, pending |-> r.pending]
  ELSE [inst |-> v.inst,
        highest |-> Max({v.highest, r.highest}),
        pending |-> {n \in v.pending : n > r.highest \/ n \in r.pending}
                      \cup {n \in r.pending : n > v.highest}]

MutDropStoryHere ==
  /\ droppedHere' = TRUE
  /\ freed' = freed \cup tracked
  /\ tracked' = {} /\ chunk' = [c \in Chunks |-> NoState]
  /\ view' = NoView /\ knownW' = 0
  /\ UNCHANGED released

\* dropStory: every chunk goes, but the extraction queue keeps its pointers
DropStoryHere ==
  /\ droppedHere' = TRUE
  /\ freed' = freed \cup {c \in tracked : ~chunk[c].inQueue}
  /\ tracked' = {} /\ chunk' = [c \in Chunks |-> NoState]
  /\ view' = NoView /\ knownW' = 0
  /\ UNCHANGED released

\* applyReport; the send's success resets the publisher's failure count
ApplyReport(r) ==
  /\ r \in reports
  /\ reports' = reports \ {r}
  /\ reportFailures' = IF r.inst = instance /\ ~r.failed THEN 0 ELSE reportFailures
  /\ IF r.w = DropWatermark
     THEN DropStoryHere
     ELSE LET v == MergeReceipts(view, r) w == Max({knownW, r.w}) IN
          /\ view' = v /\ knownW' = w
          /\ MaybeFree(tracked, tracked, chunk, v, w)
          /\ UNCHANGED droppedHere
  /\ UNCHANGED <<now, sealed, queue, transfer, instance, receipts, pipeline, writer, registry,
                 tombstone, contributor, covered, destroyed, spent>>

\* freeDurableChunks: the visibility delay of a durable chunk has passed
FreeDurableChunks ==
  /\ MaybeFree(tracked, tracked, chunk, view, knownW)
  /\ freed' # freed
  /\ UNCHANGED <<now, sealed, view, knownW, droppedHere, queue, transfer, instance, receipts, pipeline,
                 writer, registry, tombstone, publisher, reports, covered, destroyed, spent>>

\* Nothing is under way: no chunk, window or report is between two places.
Quiet ==
  /\ queue = <<>> /\ \A c \in Chunks : transfer[c].at = "none"
  /\ arrived = {} /\ extraction = <<>> /\ settling = {} /\ reports = {}
  /\ HasPipeline => Min(DOMAIN timeline) >= Horizon
  /\ ~dirty

MutRequeueStalledUnshipped(c) ==
  /\ c \in tracked /\ ~chunk[c].inQueue /\ ~chunk[c].shipped
  /\ chunk' = [chunk EXCEPT ![c].inQueue = TRUE]
  /\ queue' = Append(queue, c)
  /\ IF Quiet THEN UNCHANGED spent ELSE Spend("resend")
  /\ UNCHANGED <<now, sealed, tracked, view, knownW, droppedHere, released, freed, transfer, instance,
                 receipts, pipeline, writer, registry, tombstone, publisher, reports, covered, destroyed>>

\* requeueStalled (and flushUnshippedChunks): a chunk seen inactive for the
\* stall age is sent again, unless it is confirmed or its receipt has settled.
RequeueStalled(c) ==
  /\ c \in tracked /\ ~chunk[c].inQueue
  /\ ~Confirmed(c, chunk[c], view, knownW)
  /\ ~(chunk[c].shipped /\ chunk[c].receipt # 0 /\ Settled(chunk[c], view))
  /\ chunk' = [chunk EXCEPT ![c].inQueue = TRUE]
  /\ queue' = Append(queue, c)
  /\ IF Quiet THEN UNCHANGED spent ELSE Spend("resend")
  /\ UNCHANGED <<now, sealed, tracked, view, knownW, droppedHere, released, freed, transfer, instance,
                 receipts, pipeline, writer, registry, tombstone, publisher, reports, covered, destroyed>>

\* drainExtractionQueue: several streams take chunks, so any may be the next
\* transferred; a chunk counts as queued until its transfer has ended
Take(i) == queue' = RemoveAt(queue, i)

\* the transfer to the grapher fails before the chunk arrived
TransferFails(i) ==
  /\ Take(i) /\ Spend("send")
  /\ transfer' = [transfer EXCEPT ![queue[i]].at = "failed"]
  /\ UNCHANGED <<now, keeper, instance, receipts, pipeline, writer, registry, tombstone,
                 publisher, reports, covered, destroyed>>

-----------------------------------------------------------------------------
(* The grapher: GrapherRecordingService and StoryWatermarkRegistry.         *)

\* assignReceipt
AssignReceipt(c) ==
  LET n == lastReceipt + 1 IN
  /\ n <= MaxReceipts
  /\ lastReceipt' = n /\ lastAssigned' = n
  /\ pending' = [m \in DOMAIN pending \cup {n} |->
                   IF m = n THEN [holders |-> 0, merged |-> FALSE] ELSE pending[m]]
  /\ deliveries' = deliveries \cup {[inst |-> instance, n |-> n, c |-> c]}
  /\ arrived' = arrived \cup {n}

\* receive_story_chunk: the chunk gets its receipt and is queued for
\* ingestion; the answer reaches the keeper or does not.
ReceiveStoryChunk(i) ==
  /\ Take(i)
  /\ AssignReceipt(queue[i])
  /\ contributor' = TRUE
  /\ \/ transfer' = [transfer EXCEPT ![queue[i]] = [at |-> "acked", inst |-> instance, n |-> lastReceipt + 1]]
        /\ UNCHANGED spent
     \/ transfer' = [transfer EXCEPT ![queue[i]].at = "failed"] /\ Spend("send")
  /\ UNCHANGED <<now, keeper, instance, adopted, timeline, waiting, writer, registry, tombstone,
                 reportFailures, reports, covered, destroyed>>

\* the chunk a receipt of the running process was given for
ChunkOf(n) == (CHOOSE d \in deliveries : d.inst = instance /\ d.n = n).c

\* registerStory, no drop outstanding: W covers the gap up to start only when
\* the pipeline is fresh, no write failed and nothing is parked.
RegisterStory(start, fresh) ==
  LET gap == fresh /\ ~entry.writeFailed /\ entry.parked = {} /\ start > entry.w IN
  IF ~entry.known
  THEN /\ entry' = [known |-> TRUE, anchor |-> start, w |-> start, writeFailed |-> failedEarly, parked |-> {}]
       /\ failedEarly' = FALSE /\ dirty' = TRUE
       /\ UNCHANGED <<dropped, covered>>
  ELSE /\ entry' = IF gap THEN [entry EXCEPT !.w = start] ELSE entry
       /\ covered' = IF gap THEN covered \cup (entry.w .. (start - 1)) ELSE covered
       /\ dirty' = (dirty \/ gap)
       /\ UNCHANGED <<failedEarly, dropped>>

\* dropStory: the drop is reported, and nothing stays outstanding
DropStory ==
  /\ dropped' = TRUE /\ dirty' = TRUE
  /\ entry' = IF entry.known THEN [entry EXCEPT !.w = DropWatermark] ELSE entry
  /\ pending' = IF entry.known THEN <<>> ELSE pending
  /\ UNCHANGED failedEarly

\* startStoryRecording by the visor at time t; a live pipeline is kept
StartStoryRecording(t) ==
  /\ (HasPipeline => waiting) /\ ~destroyed /\ Spend("start")
  /\ t >= now /\ Reached(t)
  /\ waiting' = FALSE
  /\ timeline' = IF HasPipeline THEN timeline ELSE NewTimeline(t)
  /\ RegisterStory(t, ~HasPipeline)
  /\ UNCHANGED <<keeper, queue, transfer, instance, receipts, arrived, adopted, writer, tombstone,
                 publisher, reports, destroyed>>

\* stopStoryRecording schedules the pipeline to retire
StopStoryRecording ==
  /\ HasPipeline /\ ~waiting /\ spent["start"] < Bounds["start"]
  /\ waiting' = TRUE
  /\ UNCHANGED <<now, keeper, queue, transfer, instance, receipts, arrived, adopted, timeline, writer, registry,
                 tombstone, publisher, reports, covered, destroyed, spent>>

\* adoptOrphanChunks: a chunk of a story without a pipeline makes one, to be
\* retired again; one of a destroyed story is refused and reports the drop.
AdoptOrphanChunk(n) ==
  /\ n \in arrived /\ ~HasPipeline
  /\ IF tombstone
     THEN /\ DropStory
          /\ arrived' = arrived \ {n}
          /\ UNCHANGED <<adopted, timeline, waiting, covered, lastReceipt, lastAssigned, deliveries>>
     ELSE /\ timeline' = NewTimeline(StartOf(ChunkOf(n)))
          /\ waiting' = TRUE /\ adopted' = {n}
          /\ RegisterStory(StartOf(ChunkOf(n)), FALSE)
          /\ UNCHANGED <<arrived, receipts>>
  /\ UNCHANGED <<now, keeper, queue, transfer, instance, writer, tombstone, publisher, reports, destroyed, spent>>

\* prependStoryChunk and appendStoryChunk: the windows of the timeline once it
\* reaches over the span
Extended(span) ==
  Min({Min(DOMAIN timeline), Min(span)}) .. Max({Max(DOMAIN timeline), Max(span)})

\* holdReceipts, and the events of the chunk that fall into window k.  The
\* window keeps one copy of an event it is given twice, and holds the receipt
\* of either delivery.
MergedWindow(k, n) ==
  LET old == IF k \in DOMAIN timeline THEN timeline[k] ELSE EmptyWindow IN
  IF k \in Span[ChunkOf(n)]
  THEN [evs |-> old.evs \cup {<<ChunkOf(n), k>>}, rec |-> old.rec \cup {n}]
  ELSE old

\* holdReceipt and receiptMerged: the windows that hold receipt n are counted,
\* and it is merged
Merged(n) ==
  IF n \in DOMAIN pending
  THEN [pending EXCEPT ![n] = [holders |-> @.holders + Cardinality(Span[ChunkOf(n)]), merged |-> TRUE]]
  ELSE pending

\* mergeEvents of StoryPipeline
MergeEvents(n) ==
  /\ n \in arrived /\ HasPipeline
  /\ timeline' = [k \in Extended(Span[ChunkOf(n)]) |-> MergedWindow(k, n)]
  /\ pending' = Merged(n)
  /\ arrived' = arrived \ {n} /\ adopted' = adopted \ {n}
  /\ UNCHANGED <<now, keeper, queue, transfer, instance, lastReceipt, lastAssigned, deliveries, waiting,
                 writer, registry, tombstone, publisher, reports, covered, destroyed, spent>>

\* the window k, and all windows in order, as they are stashed
Window(k) == [win |-> k, evs |-> timeline[k].evs, rec |-> timeline[k].rec]
AllWindows == [j \in 1..Cardinality(DOMAIN timeline) |-> Window(Min(DOMAIN timeline) + j - 1)]

Stash(windows) ==
  /\ Len(extraction) + Len(windows) <= MaxQueued
  /\ extraction' = extraction \o windows

\* extractDecayedStoryChunks: the oldest window leaves, empty ones too; at
\* least two stay
ExtractDecayed ==
  /\ HasPipeline
  /\ LET head == Min(DOMAIN timeline)
         last == Max(DOMAIN timeline)
         stays == IF last = head + 1 THEN last + 1 ELSE last IN
     /\ Reached(head + 1)
     /\ Stash(<<Window(head)>>)
     /\ timeline' = [k \in (head + 1)..stays |->
                       IF k \in DOMAIN timeline THEN timeline[k] ELSE EmptyWindow]
  /\ UNCHANGED <<keeper, queue, transfer, instance, receipts, arrived, adopted, waiting, settling, latched,
                 archive, persisted, registry, tombstone, publisher, reports, covered, destroyed, spent>>

\* retireDecayedPipelines: every window leaves, what was ingested merged first.
\* A chunk that arrived and is not ingested yet finds no pipeline.
RetirePipeline ==
  /\ HasPipeline /\ waiting /\ adopted = {}
  /\ Stash(AllWindows)
  /\ timeline' = NoTimeline /\ waiting' = FALSE
  /\ UNCHANGED <<now, keeper, queue, transfer, instance, receipts, arrived, adopted, settling, latched, archive,
                 persisted, registry, tombstone, publisher, reports, covered, destroyed, spent>>

\* destroyStory: tombstone and drop, and the destroy worker hands the
\* pipeline's windows to the writers.  The deletion of the files is left out:
\* no property speaks of a destroyed story's archive.
DestroyStory ==
  /\ scenario.MayDestroy /\ ~destroyed /\ adopted = {}
  /\ tombstone' = TRUE /\ destroyed' = TRUE
  /\ DropStory
  /\ Stash(AllWindows)
  /\ timeline' = NoTimeline /\ waiting' = FALSE
  /\ UNCHANGED <<now, keeper, queue, transfer, instance, lastReceipt, lastAssigned, deliveries, arrived, adopted,
                 settling, latched, archive, persisted, publisher, reports, covered, spent>>

-----------------------------------------------------------------------------
(* The grapher: HDF5FileChunkExtractor and WatermarkReportPublisher.        *)

MutAbsorb(w, parked) == Max({w} \cup {k + 1 : k \in parked})

\* absorbContiguous: the end of the run of parked windows that starts at w
Absorb(w, parked) ==
  CHOOSE m \in w..(Horizon + 3) : m \notin parked /\ \A j \in w..(m - 1) : j \in parked

\* advancePersisted for window k; an unregistered story is anchored there
AdvancePersisted(k) ==
  LET e == IF entry.known THEN entry ELSE [NoEntry EXCEPT !.known = TRUE, !.anchor = k, !.w = k]
      parked == e.parked \cup {k}
      w == Absorb(e.w, parked) IN
  IF k + 1 <= e.w THEN entry' = e /\ UNCHANGED dirty
  ELSE /\ entry' = [e EXCEPT !.w = w, !.parked = {j \in parked : j > w}]
       /\ dirty' = (dirty \/ w # e.w)

\* the windows the extraction streams have in hand; any may finish first
InProcess == {i \in DOMAIN extraction : i <= Streams}

\* a written window, while it has receipts to let go
Holding(k, rec) == IF rec = {} THEN {} ELSE {[win |-> k, rec |-> rec]}

\* process_chunk: the window's file is published and recorded, W moves
WriteWindow(i) ==
  LET x == extraction[i] IN
  /\ ~latched
  /\ extraction' = RemoveAt(extraction, i)
  /\ archive' = archive \cup x.evs
  /\ persisted' = persisted \cup {x.win}
  /\ AdvancePersisted(x.win)
  /\ settling' = settling \cup Holding(x.win, x.rec)
  /\ UNCHANGED <<now, keeper, queue, transfer, instance, receipts, pipeline, latched, failedEarly,
                 dropped, tombstone, publisher, reports, covered, destroyed, spent>>

\* process_chunk: the write, or the manifest record, fails, which may leave
\* the manifest latched; from then on nothing is reported, and a window whose
\* file another stream's failure overtook is published all the same
WriteFails(i) ==
  /\ IF latched THEN UNCHANGED <<latched, spent>> /\ archive' \in {archive, archive \cup extraction[i].evs}
                ELSE /\ extraction[i].evs # {} /\ Spend("write")
                     /\ latched' \in {FALSE, scenario.MayLatch} /\ UNCHANGED archive
  /\ extraction' = RemoveAt(extraction, i)
  /\ entry' = IF entry.known THEN [entry EXCEPT !.writeFailed = TRUE] ELSE entry
  /\ failedEarly' = (failedEarly \/ ~entry.known)
  /\ UNCHANGED <<now, keeper, queue, transfer, instance, receipts, pipeline, settling, persisted,
                 dirty, dropped, tombstone, publisher, reports, covered, destroyed>>

\* releaseReceipt for one receipt of a written window, and settleIfWritten
ReleaseReceipt(x, n) ==
  /\ x \in settling /\ n \in x.rec
  /\ settling' = (settling \ {x}) \cup Holding(x.win, x.rec \ {n})
  /\ IF n \in DOMAIN pending /\ pending[n].holders > 0
     THEN LET left == pending[n].holders - 1
              done == left = 0 /\ pending[n].merged IN
          /\ pending' = IF done THEN [m \in DOMAIN pending \ {n} |-> pending[m]]
                                ELSE [pending EXCEPT ![n].holders = left]
          /\ dirty' = (dirty \/ done)
     ELSE UNCHANGED <<pending, dirty>>
  /\ UNCHANGED <<now, keeper, queue, transfer, instance, lastReceipt, lastAssigned, deliveries, pipeline,
                 extraction, latched, archive, persisted, entry, failedEarly, dropped, tombstone,
                 publisher, reports, covered, destroyed, spent>>

\* publish: snapshotDirty, and a report for the keeper if it contributed.  A
\* dropped story is reported once and forgotten.
Snapshot ==
  IF entry.known
  THEN {[inst |-> instance, w |-> entry.w, highest |-> lastAssigned, pending |-> DOMAIN pending,
         failed |-> FALSE]}
  ELSE IF dropped
  THEN {[inst |-> instance, w |-> DropWatermark, highest |-> 0, pending |-> {}, failed |-> FALSE]}
  ELSE {}

Publish ==
  /\ dirty /\ Cardinality(reports) < MaxInFlight
  /\ reports' = IF contributor THEN reports \cup Snapshot ELSE reports
  /\ dirty' = FALSE /\ dropped' = FALSE
  /\ IF dropped THEN entry' = NoEntry /\ pending' = <<>> /\ lastAssigned' = 0 /\ persisted' = {}
                ELSE UNCHANGED <<entry, pending, lastAssigned, persisted>>
  /\ UNCHANGED <<now, keeper, queue, transfer, instance, lastReceipt, deliveries, pipeline, extraction,
                 settling, latched, archive, failedEarly, tombstone, publisher, covered, destroyed, spent>>

\* The send of a report fails, whether or not the report still arrives:
\* reportFailed, and markUndelivered unless too many sends failed in a row.
ReportFails(r) ==
  /\ r \in reports /\ ~r.failed /\ Spend("report")
  /\ \E late \in {{}, {[r EXCEPT !.failed = TRUE]}} : reports' = (reports \ {r}) \cup late
  /\ IF r.inst = instance
     THEN LET retry == reportFailures < MaxReportRetries IN
          /\ reportFailures' = reportFailures + 1
          /\ dirty' = (dirty \/ (retry /\ (entry.known \/ r.w = DropWatermark)))
          /\ dropped' = (dropped \/ (retry /\ ~entry.known /\ r.w = DropWatermark))
     ELSE UNCHANGED <<reportFailures, dirty, dropped>>
  /\ UNCHANGED <<now, keeper, queue, transfer, instance, receipts, pipeline, writer, entry, failedEarly,
                 tombstone, contributor, covered, destroyed>>

\* The grapher process dies and a new one starts: its memory is gone, the
\* files stay, the reports under way may still arrive.
Restart ==
  /\ Spend("restart") /\ instance' = instance + 1
  /\ lastReceipt' = 0 /\ lastAssigned' = 0 /\ pending' = <<>> /\ UNCHANGED deliveries
  /\ arrived' = {} /\ adopted' = {} /\ timeline' = NoTimeline /\ waiting' = FALSE
  /\ extraction' = <<>> /\ settling' = {} /\ latched' = FALSE /\ persisted' = {} /\ UNCHANGED archive
  /\ entry' = NoEntry /\ failedEarly' = FALSE /\ dirty' = FALSE /\ dropped' = FALSE
  /\ tombstone' = FALSE
  /\ contributor' = FALSE /\ reportFailures' = 0 /\ covered' = {}
  /\ UNCHANGED <<now, keeper, queue, transfer, reports, destroyed>>

-----------------------------------------------------------------------------

KeeperNext ==
  \/ \E c \in Chunks : \/ IngestSealedChunk(c) \/ MarkShipped(c) \/ MarkSendFailed(c)
                       \/ RequeueStalled(c)
  \/ \E i \in DOMAIN queue : TransferFails(i)
  \/ ReleaseStoryTail \/ FreeDurableChunks
  \/ \E r \in reports : ApplyReport(r)
GrapherNext ==
  \/ \E i \in DOMAIN queue : ReceiveStoryChunk(i)
  \/ \E n \in arrived : AdoptOrphanChunk(n) \/ MergeEvents(n)
  \/ (\E t \in 1..Horizon : StartStoryRecording(t)) \/ StopStoryRecording \/ ExtractDecayed \/ RetirePipeline \/ DestroyStory
  \/ \E i \in InProcess : WriteWindow(i) \/ WriteFails(i)
  \/ \E x \in settling : \E n \in x.rec : ReleaseReceipt(x, n)
  \/ Publish \/ \E r \in reports : ReportFails(r)
  \/ Restart
Next == (KeeperNext \/ GrapherNext) /\ UNCHANGED scenario

Spec == Init /\ [][Next]_vars

\* The threads that drain, collect, extract, write and publish keep running,
\* the clock advances, and a stalled chunk is noticed.  Faults are not fair.
FairSpec ==
  /\ Spec
  /\ WF_moving(\E c \in Chunks : IngestSealedChunk(c))
  /\ WF_moving(\E i \in DOMAIN queue : ReceiveStoryChunk(i))
  /\ WF_moving(\E c \in Chunks : MarkShipped(c) \/ MarkSendFailed(c))
  /\ WF_moving(\E c \in Chunks : RequeueStalled(c))
  /\ WF_moving(\E n \in arrived : AdoptOrphanChunk(n) \/ MergeEvents(n))
  /\ WF_moving(ExtractDecayed) /\ WF_moving(RetirePipeline)
  /\ WF_moving(\E i \in InProcess : WriteWindow(i))
  /\ WF_moving(\E x \in settling : \E n \in x.rec : ReleaseReceipt(x, n))
  /\ WF_moving(Publish) /\ WF_moving(\E r \in reports : ApplyReport(r))

-----------------------------------------------------------------------------
(* Properties.                                                              *)

ChunkStates == [inQueue : BOOLEAN, shipped : BOOLEAN, inst : Nat, receipt : Nat, indexed : BOOLEAN]
Receipts == 1..MaxReceipts
Events == UNION {EventsOf(c) : c \in Chunks}

TypeOK ==
  /\ now \in 1..Horizon
  /\ sealed \subseteq Chunks /\ tracked \subseteq sealed /\ freed \subseteq sealed /\ released \subseteq sealed
  /\ chunk \in [Chunks -> ChunkStates]
  /\ view \in [inst : Nat, highest : Nat, pending : SUBSET Receipts]
  /\ knownW \in 0..(Horizon + 3) /\ droppedHere \in BOOLEAN
  /\ queue \in Seq(Chunks)
  /\ transfer \in [Chunks -> [at : {"none", "failed", "acked"}, inst : Nat, n : Nat]]
  /\ {instance, lastReceipt, lastAssigned, reportFailures} \subseteq Nat /\ lastAssigned <= lastReceipt
  /\ DOMAIN pending \subseteq 1..lastReceipt
  /\ \A n \in DOMAIN pending : pending[n] \in [holders : Nat, merged : BOOLEAN]
  /\ arrived \subseteq 1..lastReceipt /\ adopted \subseteq arrived
  /\ \A k \in DOMAIN timeline : timeline[k] \in [evs : SUBSET Events, rec : SUBSET Receipts]
  /\ entry \in [known : BOOLEAN, anchor : Nat, w : Nat, writeFailed : BOOLEAN, parked : SUBSET Nat]
  /\ {waiting, failedEarly, dirty, dropped, tombstone, contributor, latched, destroyed} \subseteq BOOLEAN
  /\ archive \subseteq Events

\* The events of a chunk the keeper deleted, or told its WAL was written, are
\* in the archive, unless the story was destroyed (maybeFreeChunk).
FreedIsWritten ==
  ~destroyed => \A c \in freed \cup released : EventsOf(c) \subseteq archive

\* Whatever order reports arrive in, and whichever grapher process sent them,
\* a receipt the keeper's view holds for written is of a chunk whose events
\* are all in the archive (mergeReceipts, settleIfWritten).
SettledIsWritten ==
  ~destroyed => \A d \in deliveries :
     Settled([inst |-> d.inst, receipt |-> d.n], view) => EventsOf(d.c) \subseteq archive

Occurrences(c) == Cardinality({i \in DOMAIN queue : queue[i] = c}) + (IF transfer[c].at = "none" THEN 0 ELSE 1)

\* A chunk in the extraction queue, or in a drain thread's hands, is there
\* once, is not deleted, and is marked so while it is tracked; a sealed chunk
\* neither tracked nor there has been deleted.  So nothing is deleted twice,
\* used after it was deleted, or forgotten (in_queue).
QueueOwnsItsChunks ==
  \A c \in sealed :
    /\ Occurrences(c) <= 1
    /\ Occurrences(c) = 1 => c \notin freed
    /\ c \in tracked => (chunk[c].inQueue <=> Occurrences(c) = 1) /\ c \notin freed
    /\ c \notin tracked => (c \in freed <=> Occurrences(c) = 0)

\* W is the end of a run of windows from the anchor, each written since
\* the entry was made or covered by a registration, and is not short of it
\* (advancePersisted, absorbContiguous).
WatermarkIsPrefix ==
  entry.known /\ entry.w # DropWatermark =>
    /\ \A k \in entry.anchor..(entry.w - 1) : k \in persisted \cup covered
    /\ entry.w \notin persisted

\* Once the faults stop, every sealed chunk is confirmed written: the WAL is
\* told so, and the chunk can go (requeueStalled "covers both send-failed
\* chunks and shipped ones whose ack or watermark report was lost").
EverySealedConfirmed ==
  \A c \in UNION {DOMAIN s.Span : s \in Scenarios} : c \in sealed ~> c \in released \cup freed

\* The same of a story that has retired on the grapher, so that nothing new
\* happens to it there.
RetiredStoryConfirmed ==
  <>[](~HasPipeline) => EverySealedConfirmed
=============================================================================
