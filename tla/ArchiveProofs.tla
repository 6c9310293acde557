--------------------------- MODULE ArchiveProofs ---------------------------
(***************************************************************************)
(* Proofs about the archive, for any graphers, streams, stories, windows,  *)
(* queries and budgets: a destroyed story stays gone, a window reported    *)
(* written is found by every later reader, and a replay that succeeds is   *)
(* complete.                                                               *)
(***************************************************************************)
EXTENDS Archive, FiniteSetTheorems, SequenceTheorems, TLAPS

-----------------------------------------------------------------------------
(* The types                                                               *)

Pipes == [inc : Nat, windows : SUBSET Windows]
\* a pipeline of story s among those with numbers up to n
PipeOf(p, s, n) ==
  /\ p \in Pipes /\ \A w \in p.windows : StoryOf[w] = s
  /\ p.inc <= n /\ (p.inc = 0 => p.windows = {})
Broadcasts == [stories : SUBSET Stories, whole : BOOLEAN, to : SUBSET Graphers, at : Nat]
Tasks == [stories : SUBSET Stories, bound : Nat, requested : Nat, remaining : Seq(Chunk)]
Dones == [g : Graphers, start : Nat, stories : SUBSET Stories, bound : Nat]
Reports == [g : Graphers, w : Windows]
Entries == [file : File, log : Graphers]

\* a stream: it writes, it holds a file, it waits for the sync of line at
NamingPcs == {"names", "append", "remove"}
SyncingPcs == {"sync", "remove", "report"}
Holding == {"names", "append", "sync", "remove", "report"}
Writing == [pc : {"write"}, chunk : Chunk]
Naming == [pc : NamingPcs, chunk : Chunk, file : File]
Syncing == [pc : SyncingPcs, chunk : Chunk, file : File, at : Nat]
StreamStates == {Idle} \cup Writing \cup Naming \cup Syncing

\* a destroy worker: it carries out a task, it waits for the sync of line at
TaskPcs == {"drain", "remove"}
Busy == [pc : TaskPcs, task : Tasks, files : SUBSET File]
Recorders == [pc : {"sync"}, at : Nat]
WorkerStates == {Idle} \cup Busy \cup Recorders

\* a line of a log
Publishes == [op : {"publish"}, file : File]
Deletes == [op : {"delete"}, stories : SUBSET Stories, start : Nat, bound : Nat]
Records == {Cut} \cup Publishes \cup Deletes
Ats == {"dirty", "doubt", "synced"}
Items == [rec : Records, nl : BOOLEAN, ended : BOOLEAN, at : Ats]

ReadPcs == {"refresh", "read"}
Replaying == [pc : ReadPcs, query : Queries, logs : SUBSET Graphers, files : SUBSET File, ok : BOOLEAN,
          got : SUBSET Windows, due : SUBSET Windows]
Readers == {Idle} \cup Replaying

ProcessTypes ==
  /\ DOMAIN home \subseteq Streams /\ home \in [DOMAIN home -> Graphers]
  /\ now \in Nat /\ started \in [Graphers -> Nat] /\ up \in [Graphers -> BOOLEAN]
  /\ incarnation \in [Graphers -> Nat] /\ pipe \in [Graphers -> [Stories -> Pipes]]
  /\ \A g \in Graphers, s \in Stories : PipeOf(pipe[g][s], s, incarnation[g])
  /\ doomed \in [Graphers -> [Stories -> Nat]] /\ broadcast \in Broadcasts
  /\ sequence \in [Graphers -> Nat] /\ needsNewline \in [Graphers -> BOOLEAN]
QueueTypes ==
  /\ extractionQueue \in [Graphers -> Seq(Chunk)] /\ retiring \in [Graphers -> Seq(Chunk)]
  /\ destroyQueue \in [Graphers -> Seq(Tasks)]
HandTypes == stream \in [Streams -> StreamStates] /\ worker \in [Graphers -> WorkerStates]
DiskTypes ==
  /\ files \subseteq File /\ named \subseteq File /\ log \in [Graphers -> Seq(Items)]
  /\ gone \subseteq Dones /\ live \subseteq Reports
PlayerTypes ==
  tail \in [Graphers -> Nat] /\ index \subseteq Entries /\ maxSpan \in [Stories -> Nat] /\ reader \in Readers
Types == ProcessTypes /\ QueueTypes /\ HandTypes /\ DiskTypes /\ PlayerTypes

-----------------------------------------------------------------------------
(* The custody of chunks: who may still write a window of a pipeline       *)

\* the chunks of the tasks after the k-th and of a retiring thread; all a grapher holds
InTasks(g, k) ==
  UNION {Range(destroyQueue[g][l].remaining) : l \in {l \in DOMAIN destroyQueue[g] : l > k}}
InStreams(g) == {stream[x].chunk : x \in {x \in StreamsOf(g) : stream[x].pc # "idle"}}
Unstashed(g, k) == Range(retiring[g]) \cup InTasks(g, k)
Held(g) == Unstashed(g, 0) \cup Range(extractionQueue[g]) \cup InStreams(g)

\* A chunk of grapher g that a destroy of the stories D up to the number b
\* covers is one of the exceptions DestroyedStaysGone names.
Excused(g, D, b, c) ==
  StoryOf[c.w] \in D /\ c.inc <= b => [g |-> g, start |-> started[g], inc |-> c.inc] \in raced

\* The destroy of D up to b has taken the pipelines out, and of the chunks in C
\* it covers only excused ones.
Fence(g, D, b, C) ==
  /\ b <= incarnation[g]
  /\ \A s \in D : pipe[g][s].inc = 0 \/ pipe[g][s].inc > b
  /\ \A c \in C : Excused(g, D, b, c)

\* what a grapher holds carries numbers of its pipelines
Numbered(g) == \A c \in Held(g) : 1 <= c.inc /\ c.inc <= incarnation[g]

\* a grapher that is down holds nothing
Empties(g) ==
  ~up[g] =>
    /\ destroyQueue[g] = <<>> /\ worker[g] = Idle /\ Held(g) = {} /\ g \notin broadcast.to
    /\ \A x \in StreamsOf(g) : stream[x] = Idle

\* a queued destroy, one being carried out, and one that is done
QueueFence(g) ==
  \A k \in DOMAIN destroyQueue[g] :
    Fence(g, destroyQueue[g][k].stories, destroyQueue[g][k].bound, Unstashed(g, k))
WorkerFence(g) ==
  /\ worker[g].pc \in TaskPcs => Fence(g, worker[g].task.stories, worker[g].task.bound, Unstashed(g, 0))
  /\ worker[g].pc = "remove" =>
       /\ Fence(g, worker[g].task.stories, worker[g].task.bound, Held(g))
       /\ \A f \in files : f.g = g /\ f.start = started[g] /\ f \notin worker[g].files =>
            Excused(g, worker[g].task.stories, worker[g].task.bound, f)
GoneFence(g) ==
  \A d \in gone : d.g = g =>
    /\ d.start <= started[g]
    /\ up[g] /\ d.start = started[g] => Fence(g, d.stories, d.bound, Held(g))
    /\ \A f \in files : f.g = g /\ f.start = d.start /\ StoryOf[f.w] \in d.stories /\ f.inc <= d.bound =>
         [g |-> g, start |-> f.start, inc |-> f.inc] \in raced
Starts(g) == \A f \in files : f.g = g => f.start <= started[g]

Custody(g) == Numbered(g) /\ Empties(g) /\ QueueFence(g) /\ WorkerFence(g) /\ GoneFence(g) /\ Starts(g)
CustodyInv == \A g \in Graphers : Custody(g)

-----------------------------------------------------------------------------
(* Sequences and records                                                   *)

\* What a queue put behind another one holds
LEMMA Chained ==
  ASSUME NEW S, NEW q \in Seq(S), NEW r \in Seq(S)
  PROVE  q \o r \in Seq(S) /\ Range(q \o r) = Range(q) \cup Range(r)
<1> DEFINE w == q \o r
<1>1. Len(q) \in Nat /\ DOMAIN q = 1 .. Len(q) /\ Len(r) \in Nat /\ DOMAIN r = 1 .. Len(r)
  BY LenProperties
<1>2. /\ w \in Seq(S) /\ Len(w) = Len(q) + Len(r)
      /\ \A i \in 1 .. (Len(q) + Len(r)) : w[i] = IF i <= Len(q) THEN q[i] ELSE r[i - Len(q)]
  BY ConcatProperties, Zenon
<1>3. DOMAIN w = 1 .. (Len(q) + Len(r))
  BY <1>2, LenProperties
<1> HIDE DEF w
<1>4. \A i \in DOMAIN q : i \in DOMAIN w /\ w[i] = q[i]
  BY <1>1, <1>2, <1>3
<1>5. ASSUME NEW i \in DOMAIN r PROVE Len(q) + i \in DOMAIN w /\ w[Len(q) + i] = r[i]
  <2>1. Len(q) + i \in 1 .. (Len(q) + Len(r)) /\ ~(Len(q) + i <= Len(q)) /\ (Len(q) + i) - Len(q) = i
    BY <1>1
  <2> QED BY <1>2, <1>3, <2>1
<1>6. ASSUME NEW i \in DOMAIN w
      PROVE  (i \in DOMAIN q /\ w[i] = q[i]) \/ (i - Len(q) \in DOMAIN r /\ w[i] = r[i - Len(q)])
  BY <1>1, <1>2, <1>3
<1>7. Range(w) \subseteq Range(q) \cup Range(r)
  BY <1>6 DEF Range
<1>8. Range(q) \subseteq Range(w)
  BY <1>4 DEF Range
<1>9. Range(r) \subseteq Range(w)
  BY <1>5 DEF Range
<1> QED BY <1>2, <1>7, <1>8, <1>9 DEF w

\* What taking the first element of a queue leaves
LEMMA Shifted ==
  ASSUME NEW S, NEW q \in Seq(S), q # <<>>
  PROVE  /\ Head(q) \in S /\ Head(q) \in Range(q) /\ Tail(q) \in Seq(S) /\ Range(Tail(q)) \subseteq Range(q)
         /\ DOMAIN q = 1 .. Len(q) /\ 1 \in DOMAIN q /\ Head(q) = q[1]
         /\ \A k \in DOMAIN Tail(q) : k \in Nat /\ k + 1 \in DOMAIN q /\ Tail(q)[k] = q[k + 1]
<1>1. Len(q) \in Nat /\ DOMAIN q = 1 .. Len(q) /\ Len(q) # 0
  BY LenProperties, EmptySeq
<1>2. /\ Head(q) \in S /\ Tail(q) \in Seq(S) /\ Head(q) = q[1] /\ Len(Tail(q)) = Len(q) - 1
      /\ \A i \in 1 .. Len(Tail(q)) : Tail(q)[i] = q[i + 1]
  BY HeadTailProperties
<1>3. DOMAIN Tail(q) = 1 .. (Len(q) - 1)
  BY <1>2, LenProperties
<1>4. \A k \in DOMAIN Tail(q) : k \in Nat /\ k + 1 \in DOMAIN q /\ Tail(q)[k] = q[k + 1]
  BY <1>1, <1>2, <1>3
<1>5. 1 \in DOMAIN q
  BY <1>1
<1> QED BY <1>1, <1>2, <1>4, <1>5 DEF Range

\* What an element appended to a queue changes
LEMMA Appended ==
  ASSUME NEW S, NEW q \in Seq(S), NEW e \in S
  PROVE  /\ Append(q, e) \in Seq(S) /\ Len(q) \in Nat /\ Len(Append(q, e)) = Len(q) + 1
         /\ DOMAIN q = 1 .. Len(q) /\ DOMAIN Append(q, e) = 1 .. (Len(q) + 1)
         /\ \A i \in DOMAIN q : Append(q, e)[i] = q[i]
         /\ Append(q, e)[Len(q) + 1] = e
<1>1. Len(q) \in Nat /\ DOMAIN q = 1 .. Len(q)
  BY LenProperties
<1>2. /\ Append(q, e) \in Seq(S) /\ Len(Append(q, e)) = Len(q) + 1
      /\ \A i \in 1 .. Len(q) : Append(q, e)[i] = q[i]
      /\ Append(q, e)[Len(q) + 1] = e
  BY AppendProperties
<1>3. DOMAIN Append(q, e) = 1 .. (Len(q) + 1)
  BY <1>2, LenProperties
<1> QED BY <1>1, <1>2, <1>3

\* SetToSeq lists the elements of a finite set.
LEMMA Listing ==
  ASSUME NEW S, IsFiniteSet(S)
  PROVE  SetToSeq(S) \in Seq(S) /\ Range(SetToSeq(S)) \subseteq S
<1> DEFINE n == Cardinality(S)
<1>1. n \in Nat /\ ExistsBijection(1 .. n, S)
  BY FS_CardinalityType
<1>2. PICK b : b \in Bijection(1 .. n, S)
  BY <1>1 DEF ExistsBijection
<1>3. b \in [1 .. n -> S] /\ IsInjective(b)
  BY <1>2 DEF Bijection, Injection, IsInjective
<1>4. SetToSeq(S) \in [1 .. n -> S]
  BY <1>3 DEF SetToSeq
<1>5. SetToSeq(S) \in Seq(S)
  BY <1>1, <1>4, SeqDef
<1> QED BY <1>4, <1>5 DEF Range

\* A chunk of a pipeline carries a window of the pipeline's story.
LEMMA OfPipe ==
  ASSUME Types, NEW g \in Graphers, NEW D \in SUBSET Stories, NEW c \in Remaining(g, D)
  PROVE  /\ c \in Chunk /\ StoryOf[c.w] \in D /\ c.w \in pipe[g][StoryOf[c.w]].windows
         /\ c = [w |-> c.w, inc |-> pipe[g][StoryOf[c.w]].inc]
<1>1. PICK s \in D : c \in Chunks(g, s, pipe[g][s].windows)
  BY DEF Remaining
<1>2. PICK w \in pipe[g][s].windows : c = [w |-> w, inc |-> pipe[g][s].inc]
  BY <1>1 DEF Chunks
<1>3. pipe[g][s] \in Pipes /\ StoryOf[w] = s
  BY <1>1 DEF Types, ProcessTypes, PipeOf
<1>4. pipe[g][s].inc \in Nat /\ pipe[g][s].windows \subseteq Windows
  BY <1>3 DEF Pipes
<1>5. c \in Chunk /\ c.w = w
  BY <1>2, <1>4 DEF Chunk
<1> QED BY <1>1, <1>2, <1>3, <1>5

\* The chunks of pipelines can be listed: there is one for each window at most.
LEMMA Stashable ==
  ASSUME Types, NEW g \in Graphers, NEW D \in SUBSET Stories, NEW C \in SUBSET Remaining(g, D)
  PROVE  SetToSeq(C) \in Seq(Chunk) /\ Range(SetToSeq(C)) \subseteq C
<1> DEFINE f == [w \in Windows |-> [w |-> w, inc |-> pipe[g][StoryOf[w]].inc]]
           R == {f[w] : w \in Windows}
<1>1. f \in Surjection(Windows, R)
  BY DEF Surjection
<1>2. IsFiniteSet(R)
  BY <1>1, FS_Surjection, ArchiveAssumption
<1>3. ASSUME NEW c \in C PROVE c \in R /\ c \in Chunk
  <2>1. c \in Chunk /\ c = [w |-> c.w, inc |-> pipe[g][StoryOf[c.w]].inc]
    BY OfPipe
  <2>2. c.w \in Windows
    BY <2>1 DEF Chunk
  <2> QED BY <2>1, <2>2
<1>4. IsFiniteSet(C)
  BY <1>2, <1>3, FS_Subset
<1>5. SetToSeq(C) \in Seq(C) /\ Range(SetToSeq(C)) \subseteq C
  BY <1>4, Listing
<1>6. SetToSeq(C) \in Seq(Chunk)
  BY <1>3, <1>5, SeqDef
<1> QED BY <1>5, <1>6

\* the chunks of one pipeline
LEMMA OnePipe ==
  ASSUME NEW g \in Graphers, NEW s \in Stories, NEW W \in SUBSET pipe[g][s].windows
  PROVE  Chunks(g, s, W) \subseteq Remaining(g, {s})
BY DEF Chunks, Remaining

\* A stream's state by its pc
LEMMA StreamStateOf ==
  ASSUME NEW r \in StreamStates
  PROVE  /\ r.pc = "idle" => r = Idle
         /\ r.pc = "write" => r \in Writing
         /\ r.pc \in {"names", "append"} => r \in Naming
         /\ r.pc \in {"sync", "report"} => r \in Syncing
         /\ r.pc = "remove" => r \in Naming \/ r \in Syncing
         /\ r.pc # "idle" => r.chunk \in Chunk
         /\ r.pc \in Holding => r \in Naming \/ r \in Syncing
         /\ r.pc \in Holding => r.file \in File /\ r.chunk \in Chunk
         /\ r.pc # "idle" <=> r.pc = "write" \/ r.pc \in Holding
<1>1. CASE r = Idle
  BY <1>1 DEF Idle, Holding
<1>2. CASE r \in Writing
  BY <1>2 DEF Writing, Holding
<1>3. CASE r \in Naming
  BY <1>3 DEF Naming, NamingPcs, Holding
<1>4. CASE r \in Syncing
  BY <1>4 DEF Syncing, SyncingPcs, Holding
<1> QED BY <1>1, <1>2, <1>3, <1>4 DEF StreamStates

\* A worker's state by its pc
LEMMA WorkerStateOf ==
  ASSUME NEW r \in WorkerStates
  PROVE  /\ r.pc = "idle" => r = Idle
         /\ r.pc \in TaskPcs => r \in Busy /\ r.task \in Tasks /\ r.files \subseteq File
         /\ r.pc = "sync" => r.at \in Nat
<1>1. CASE r = Idle
  BY <1>1 DEF Idle, TaskPcs
<1>2. CASE r \in Busy
  BY <1>2 DEF Busy, TaskPcs
<1>3. CASE r \in Recorders
  BY <1>3 DEF Recorders, TaskPcs
<1> QED BY <1>1, <1>2, <1>3 DEF WorkerStates

\* A reader's state by its pc
LEMMA ReaderStateOf ==
  ASSUME NEW r \in Readers
  PROVE  /\ r.pc = "idle" => r = Idle
         /\ r.pc \in ReadPcs <=> r.pc # "idle"
         /\ r.pc # "idle" => r \in Replaying
<1>1. CASE r = Idle
  BY <1>1 DEF Idle, ReadPcs
<1>2. CASE r \in Replaying
  BY <1>2 DEF Replaying, ReadPcs
<1> QED BY <1>1, <1>2 DEF Readers

-----------------------------------------------------------------------------
(* The data store's steps                                                  *)

\* the variables a step of the data store leaves alone
StoreFrame ==
  UNCHANGED <<home, now, started, up, destroyQueue, worker, exiting, broadcast, gone, doomed, latched, needsNewline,
              sequence, stream, files, named, log, tail, index, maxSpan, reader, live, raced>>

\* Pipelines are made with new numbers or taken out, and what is queued or
\* retiring was there before or comes from a pipeline.
PipeStep(g) ==
  /\ incarnation[g] <= incarnation'[g]
  /\ \A s \in Stories : \/ pipe'[g][s].inc = 0 \/ pipe'[g][s].inc = pipe[g][s].inc
                        \/ pipe'[g][s].inc > incarnation[g]
  /\ \A h \in Graphers \ {g} : incarnation'[h] = incarnation[h] /\ pipe'[h] = pipe[h]
FlowStep(g) ==
  /\ Range(retiring'[g]) \subseteq Range(retiring[g]) \cup Remaining(g, Stories)
  /\ Range(extractionQueue'[g]) \subseteq Range(extractionQueue[g]) \cup Range(retiring[g]) \cup Remaining(g, Stories)
  /\ \A h \in Graphers \ {g} : retiring'[h] = retiring[h] /\ extractionQueue'[h] = extractionQueue[h]
StoreStep(g) == StoreFrame /\ up[g] /\ PipeStep(g) /\ FlowStep(g)

\* One pipeline becomes p.
LEMMA PipeChange ==
  ASSUME Types, NEW g \in Graphers, NEW s \in Stories, NEW p, NEW n \in Nat,
         PipeOf(p, s, n), p.inc = 0 \/ p.inc = pipe[g][s].inc \/ p.inc > incarnation[g], incarnation[g] <= n,
         pipe' = [pipe EXCEPT ![g][s] = p], incarnation' = [incarnation EXCEPT ![g] = n]
  PROVE  /\ PipeStep(g) /\ incarnation' \in [Graphers -> Nat] /\ pipe' \in [Graphers -> [Stories -> Pipes]]
         /\ \A h \in Graphers, t \in Stories : PipeOf(pipe'[h][t], t, incarnation'[h])
<1>1. /\ pipe \in [Graphers -> [Stories -> Pipes]] /\ incarnation \in [Graphers -> Nat]
      /\ \A h \in Graphers, t \in Stories : PipeOf(pipe[h][t], t, incarnation[h])
  BY DEF Types, ProcessTypes
<1>2. p \in Pipes
  BY DEF PipeOf
<1>3. /\ pipe' \in [Graphers -> [Stories -> Pipes]] /\ pipe'[g][s] = p
      /\ \A t \in Stories : t # s => pipe'[g][t] = pipe[g][t]
      /\ \A h \in Graphers \ {g} : pipe'[h] = pipe[h]
  BY <1>1, <1>2
<1>4. /\ incarnation' \in [Graphers -> Nat] /\ incarnation'[g] = n
      /\ \A h \in Graphers \ {g} : incarnation'[h] = incarnation[h]
  BY <1>1
<1>5. ASSUME NEW h \in Graphers, NEW t \in Stories PROVE PipeOf(pipe'[h][t], t, incarnation'[h])
  <2>1. CASE h # g
    BY <1>1, <1>3, <1>4, <2>1
  <2>2. CASE h = g /\ t = s
    BY <1>3, <1>4, <2>2
  <2>3. CASE h = g /\ t # s
    <3>1. PipeOf(pipe[g][t], t, incarnation[g]) /\ pipe[g][t].inc \in Nat
      BY <1>1 DEF PipeOf, Pipes
    <3>2. PipeOf(pipe[g][t], t, n)
      BY <1>1, <3>1 DEF PipeOf
    <3> QED BY <1>3, <1>4, <2>3, <3>2
  <2> QED BY <2>1, <2>2, <2>3
<1>6. PipeStep(g)
  BY <1>3, <1>4 DEF PipeStep
<1> QED BY <1>3, <1>4, <1>5, <1>6

\* The types after a step of the store, from those of what it changes
LEMMA StoreTypes ==
  ASSUME Types, StoreFrame, pipe' \in [Graphers -> [Stories -> Pipes]], incarnation' \in [Graphers -> Nat],
         \A h \in Graphers, t \in Stories : PipeOf(pipe'[h][t], t, incarnation'[h]),
         extractionQueue' \in [Graphers -> Seq(Chunk)], retiring' \in [Graphers -> Seq(Chunk)]
  PROVE  Types'
BY DEF Types, ProcessTypes, QueueTypes, HandTypes, DiskTypes, PlayerTypes, StoreFrame

\* A step that changes one pipeline and neither queue
LEMMA PipeOnly ==
  ASSUME Types, NEW g \in Graphers, NEW s \in Stories, NEW p, NEW n \in Nat, StoreFrame, up[g],
         PipeOf(p, s, n), p.inc = 0 \/ p.inc = pipe[g][s].inc \/ p.inc > incarnation[g], incarnation[g] <= n,
         pipe' = [pipe EXCEPT ![g][s] = p], incarnation' = [incarnation EXCEPT ![g] = n],
         UNCHANGED <<extractionQueue, retiring>>
  PROVE  Types' /\ StoreStep(g)
<1>1. /\ PipeStep(g) /\ incarnation' \in [Graphers -> Nat] /\ pipe' \in [Graphers -> [Stories -> Pipes]]
      /\ \A h \in Graphers, t \in Stories : PipeOf(pipe'[h][t], t, incarnation'[h])
  BY PipeChange
<1>2. FlowStep(g)
  BY DEF FlowStep
<1>3. Types'
  BY <1>1, StoreTypes DEF Types, QueueTypes
<1> QED BY <1>1, <1>2, <1>3 DEF StoreStep

\* A step that changes neither pipelines nor queues
LEMMA StoreSame ==
  ASSUME Types, NEW g \in Graphers, StoreFrame, up[g], UNCHANGED <<pipe, incarnation, extractionQueue, retiring>>
  PROVE  Types' /\ StoreStep(g)
<1>1. incarnation \in [Graphers -> Nat]
  BY DEF Types, ProcessTypes
<1>2. PipeStep(g) /\ FlowStep(g)
  BY <1>1 DEF PipeStep, FlowStep
<1>3. Types'
  BY StoreTypes DEF Types, ProcessTypes, QueueTypes
<1> QED BY <1>2, <1>3 DEF StoreStep

\* startStoryRecording is a step of the store.
LEMMA StartStep ==
  ASSUME Types, NEW g \in Graphers, NEW s \in Stories, startStoryRecording(g, s)
  PROVE  Types' /\ StoreStep(g)
<1>1. /\ StoreFrame /\ up[g] /\ UNCHANGED <<extractionQueue, retiring>>
      /\ \/ UNCHANGED <<pipe, incarnation>>
         \/ /\ incarnation' = [incarnation EXCEPT ![g] = incarnation[g] + 1]
            /\ pipe' = [pipe EXCEPT ![g][s] = [inc |-> incarnation[g] + 1, windows |-> {}]]
  BY DEF startStoryRecording, StoreFrame, grapher, pipelines, extraction, destroying, writer, disk, player
<1>2. CASE UNCHANGED <<pipe, incarnation>>
  BY <1>1, <1>2, StoreSame
<1>3. CASE /\ incarnation' = [incarnation EXCEPT ![g] = incarnation[g] + 1]
           /\ pipe' = [pipe EXCEPT ![g][s] = [inc |-> incarnation[g] + 1, windows |-> {}]]
  <2> DEFINE n == incarnation[g] + 1
             p == [inc |-> n, windows |-> {}]
  <2>1. n \in Nat /\ n > incarnation[g] /\ incarnation[g] <= n /\ n # 0
    BY DEF Types, ProcessTypes
  <2>2. p.inc = n /\ PipeOf(p, s, n)
    BY <2>1 DEF PipeOf, Pipes
  <2> HIDE DEF n, p
  <2>3. pipe' = [pipe EXCEPT ![g][s] = p] /\ incarnation' = [incarnation EXCEPT ![g] = n]
    BY <1>3 DEF n, p
  <2> QED BY <1>1, <2>1, <2>2, <2>3, PipeOnly
<1> QED BY <1>1, <1>2, <1>3

\* stopStoryRecording is a step of the store.
LEMMA StopStep ==
  ASSUME Types, NEW g \in Graphers, NEW s \in Stories, stopStoryRecording(g, s)
  PROVE  Types' /\ StoreStep(g)
<1>1. StoreFrame /\ up[g] /\ UNCHANGED <<pipe, incarnation, extractionQueue, retiring>>
  BY DEF stopStoryRecording, StoreFrame, grapher, extraction, destroying, writer, disk, player
<1> QED BY <1>1, StoreSame

\* the types of a window's story and its pipeline
LEMMA StoryTyped ==
  ASSUME Types, NEW g \in Graphers, NEW w \in Windows
  PROVE  /\ StoryOf[w] \in Stories /\ pipe[g][StoryOf[w]] \in Pipes
         /\ PipeOf(pipe[g][StoryOf[w]], StoryOf[w], incarnation[g]) /\ incarnation[g] \in Nat
BY ArchiveAssumption DEF Types, ProcessTypes

\* collectIngestedEvents is a step of the store.
LEMMA CollectStep ==
  ASSUME Types, NEW g \in Graphers, NEW w \in Windows, collectIngestedEvents(g, w)
  PROVE  Types' /\ StoreStep(g)
<1> DEFINE s == StoryOf[w]
           n == incarnation[g]
           p == [pipe[g][s] EXCEPT !.windows = @ \cup {w}]
<1>1. s \in Stories /\ pipe[g][s] \in Pipes /\ PipeOf(pipe[g][s], s, n) /\ n \in Nat
  BY StoryTyped
<1>2. StoreFrame /\ up[g] /\ pipe[g][s].inc # 0 /\ UNCHANGED <<incarnation, extractionQueue, retiring>>
  BY DEF collectIngestedEvents, StoreFrame, grapher, extraction, destroying, writer, disk, player
<1>3. pipe' = [pipe EXCEPT ![g][s] = p]
  BY <1>1 DEF collectIngestedEvents, Types, ProcessTypes
<1>4. p.inc = pipe[g][s].inc /\ p.windows = pipe[g][s].windows \cup {w} /\ p \in Pipes
  BY <1>1 DEF Pipes
<1>5. incarnation' = [incarnation EXCEPT ![g] = n] /\ n <= n
  BY <1>1, <1>2 DEF Types, ProcessTypes
<1> HIDE DEF p
<1>6. PipeOf(p, s, n)
  BY <1>1, <1>2, <1>4 DEF PipeOf
<1> HIDE DEF n, s
<1> QED BY <1>1, <1>2, <1>3, <1>4, <1>5, <1>6, PipeOnly DEF n

\* adoptOrphanChunks is a step of the store.
LEMMA AdoptStep ==
  ASSUME Types, NEW g \in Graphers, NEW w \in Windows, adoptOrphanChunks(g, w)
  PROVE  Types' /\ StoreStep(g)
<1> DEFINE s == StoryOf[w]
           n == incarnation[g] + 1
           p == [inc |-> n, windows |-> {w}]
<1>1. s \in Stories /\ incarnation[g] \in Nat
  BY StoryTyped
<1>2. /\ StoreFrame /\ up[g] /\ UNCHANGED <<extractionQueue, retiring>>
      /\ \/ UNCHANGED <<pipe, incarnation>>
         \/ incarnation' = [incarnation EXCEPT ![g] = n] /\ pipe' = [pipe EXCEPT ![g][s] = p]
  BY DEF adoptOrphanChunks, StoreFrame, grapher, extraction, destroying, writer, disk, player
<1>3. CASE UNCHANGED <<pipe, incarnation>>
  BY <1>2, <1>3, StoreSame
<1>4. CASE incarnation' = [incarnation EXCEPT ![g] = n] /\ pipe' = [pipe EXCEPT ![g][s] = p]
  <2>1. n \in Nat /\ n > incarnation[g] /\ incarnation[g] <= n /\ n # 0
    BY <1>1
  <2>2. p.inc = n /\ PipeOf(p, s, n)
    BY <2>1 DEF PipeOf, Pipes
  <2> HIDE DEF n, p, s
  <2> QED BY <1>1, <1>2, <1>4, <2>1, <2>2, PipeOnly
<1> QED BY <1>2, <1>3, <1>4

\* Chunks of g's pipelines are stashed.
LEMMA StashFlow ==
  ASSUME Types, NEW g \in Graphers, NEW D \in SUBSET Stories, NEW C \in SUBSET Remaining(g, D),
         extractionQueue' = [extractionQueue EXCEPT ![g] = stashStoryChunks(@, C)], retiring' = retiring
  PROVE  extractionQueue' \in [Graphers -> Seq(Chunk)] /\ retiring' \in [Graphers -> Seq(Chunk)] /\ FlowStep(g)
<1>1. extractionQueue \in [Graphers -> Seq(Chunk)] /\ retiring \in [Graphers -> Seq(Chunk)]
  BY DEF Types, QueueTypes
<1> DEFINE q == extractionQueue[g]
           r == SetToSeq(C)
<1>2. r \in Seq(Chunk) /\ Range(r) \subseteq C /\ q \in Seq(Chunk)
  BY <1>1, Stashable
<1> HIDE DEF r
<1>3. q \o r \in Seq(Chunk) /\ Range(q \o r) = Range(q) \cup Range(r)
  BY <1>2, Chained
<1>4. Remaining(g, D) \subseteq Remaining(g, Stories)
  BY DEF Remaining
<1>5. /\ extractionQueue' \in [Graphers -> Seq(Chunk)] /\ extractionQueue'[g] = q \o r
      /\ \A h \in Graphers \ {g} : extractionQueue'[h] = extractionQueue[h]
  BY <1>1, <1>3 DEF stashStoryChunks, r
<1> QED BY <1>1, <1>2, <1>3, <1>4, <1>5 DEF FlowStep

\* extractDecayedStoryChunks is a step of the store.
LEMMA ExtractStep ==
  ASSUME Types, NEW g \in Graphers, NEW s \in Stories, extractDecayedStoryChunks(g, s)
  PROVE  Types' /\ StoreStep(g)
<1>1. PICK W \in SUBSET pipe[g][s].windows :
        /\ pipe' = [pipe EXCEPT ![g][s].windows = @ \ W]
        /\ extractionQueue' = [extractionQueue EXCEPT ![g] = stashStoryChunks(@, Chunks(g, s, W))]
  BY DEF extractDecayedStoryChunks
<1>2. StoreFrame /\ up[g] /\ UNCHANGED <<incarnation, retiring>>
  BY DEF extractDecayedStoryChunks, StoreFrame, grapher, destroying, writer, disk, player
<1> DEFINE n == incarnation[g]
           p == [pipe[g][s] EXCEPT !.windows = @ \ W]
<1>3. pipe[g][s] \in Pipes /\ PipeOf(pipe[g][s], s, n) /\ n \in Nat
  BY DEF Types, ProcessTypes
<1>4. pipe' = [pipe EXCEPT ![g][s] = p]
  BY <1>1 DEF Types, ProcessTypes
<1>5. p.inc = pipe[g][s].inc /\ p.windows = pipe[g][s].windows \ W /\ p \in Pipes
  BY <1>3 DEF Pipes
<1>6. incarnation' = [incarnation EXCEPT ![g] = n] /\ n <= n
  BY <1>2, <1>3 DEF Types, ProcessTypes
<1> HIDE DEF p
<1>7. PipeOf(p, s, n)
  BY <1>3, <1>5 DEF PipeOf
<1>8. extractionQueue' \in [Graphers -> Seq(Chunk)] /\ retiring' \in [Graphers -> Seq(Chunk)] /\ FlowStep(g)
  <2>1. Chunks(g, s, W) \in SUBSET Remaining(g, {s}) /\ {s} \in SUBSET Stories
    BY OnePipe
  <2> QED BY <1>1, <1>2, <2>1, StashFlow
<1>9. /\ PipeStep(g) /\ incarnation' \in [Graphers -> Nat] /\ pipe' \in [Graphers -> [Stories -> Pipes]]
      /\ \A h \in Graphers, t \in Stories : PipeOf(pipe'[h][t], t, incarnation'[h])
  <2> HIDE DEF n
  <2> QED BY <1>3, <1>4, <1>5, <1>6, <1>7, PipeChange DEF n
<1>10. Types'
  BY <1>2, <1>8, <1>9, StoreTypes
<1> QED BY <1>2, <1>8, <1>9, <1>10 DEF StoreStep

\* NoPipe in a pipeline's place
LEMMA NoPipeOf ==
  ASSUME NEW s, NEW n \in Nat
  PROVE  PipeOf(NoPipe, s, n) /\ NoPipe \in Pipes /\ NoPipe.inc = 0 /\ NoPipe.windows = {}
BY DEF PipeOf, NoPipe, Pipes

\* retireDecayedPipelines is a step of the store.
LEMMA RetireStep ==
  ASSUME Types, NEW g \in Graphers, NEW s \in Stories, retireDecayedPipelines(g, s)
  PROVE  Types' /\ StoreStep(g)
<1>1. /\ StoreFrame /\ up[g] /\ UNCHANGED <<incarnation, extractionQueue>>
      /\ retiring' = [retiring EXCEPT ![g] = SetToSeq(Remaining(g, {s}))] /\ pipe' = [pipe EXCEPT ![g][s] = NoPipe]
  BY DEF retireDecayedPipelines, StoreFrame, grapher, destroying, writer, disk, player
<1> DEFINE n == incarnation[g]
           r == SetToSeq(Remaining(g, {s}))
<1>2. incarnation \in [Graphers -> Nat] /\ n \in Nat /\ n <= n /\ incarnation' = [incarnation EXCEPT ![g] = n]
  BY <1>1 DEF Types, ProcessTypes
<1>3. /\ PipeStep(g) /\ incarnation' \in [Graphers -> Nat] /\ pipe' \in [Graphers -> [Stories -> Pipes]]
      /\ \A h \in Graphers, t \in Stories : PipeOf(pipe'[h][t], t, incarnation'[h])
  <2>1. PipeOf(NoPipe, s, n) /\ NoPipe.inc = 0
    BY <1>2, NoPipeOf
  <2> HIDE DEF n
  <2> QED BY <1>1, <1>2, <2>1, PipeChange DEF n
<1>4. r \in Seq(Chunk) /\ Range(r) \subseteq Remaining(g, {s})
  <2>1. {s} \in SUBSET Stories /\ Remaining(g, {s}) \in SUBSET Remaining(g, {s})
    OBVIOUS
  <2> QED BY <2>1, Stashable
<1>5. Remaining(g, {s}) \subseteq Remaining(g, Stories)
  BY DEF Remaining
<1> HIDE DEF r
<1>6. /\ retiring' \in [Graphers -> Seq(Chunk)] /\ retiring'[g] = r
      /\ \A h \in Graphers \ {g} : retiring'[h] = retiring[h]
  BY <1>1, <1>4 DEF Types, QueueTypes, r
<1>7. FlowStep(g) /\ extractionQueue' \in [Graphers -> Seq(Chunk)]
  BY <1>1, <1>4, <1>5, <1>6 DEF FlowStep, Types, QueueTypes
<1>8. Types'
  BY <1>1, <1>3, <1>6, <1>7, StoreTypes
<1> QED BY <1>1, <1>3, <1>7, <1>8 DEF StoreStep

\* StashRetired is a step of the store.
LEMMA StashStep ==
  ASSUME Types, NEW g \in Graphers, StashRetired(g)
  PROVE  Types' /\ StoreStep(g)
<1>1. /\ StoreFrame /\ up[g] /\ UNCHANGED <<incarnation, pipe>> /\ retiring' = [retiring EXCEPT ![g] = <<>>]
      /\ extractionQueue' = [extractionQueue EXCEPT ![g] = extractionQueue[g] \o retiring[g]]
  BY DEF StashRetired, StoreFrame, grapher, pipelines, destroying, writer, disk, player
<1>2. extractionQueue \in [Graphers -> Seq(Chunk)] /\ retiring \in [Graphers -> Seq(Chunk)]
  BY DEF Types, QueueTypes
<1> DEFINE q == extractionQueue[g] \o retiring[g]
<1>3. q \in Seq(Chunk) /\ Range(q) = Range(extractionQueue[g]) \cup Range(retiring[g])
  BY <1>2, Chained
<1> HIDE DEF q
<1>4. /\ extractionQueue' \in [Graphers -> Seq(Chunk)] /\ extractionQueue'[g] = q
      /\ \A h \in Graphers \ {g} : extractionQueue'[h] = extractionQueue[h]
  BY <1>1, <1>2, <1>3 DEF q
<1>5. /\ retiring' \in [Graphers -> Seq(Chunk)] /\ retiring'[g] = <<>>
      /\ \A h \in Graphers \ {g} : retiring'[h] = retiring[h]
  BY <1>1, <1>2
<1>6. Range(<<>>) = {}
  BY DEF Range
<1>7. FlowStep(g)
  BY <1>3, <1>4, <1>5, <1>6 DEF FlowStep
<1>8. PipeStep(g)
  BY <1>1 DEF PipeStep, Types, ProcessTypes
<1>9. Types'
  BY <1>1, <1>4, <1>5, StoreTypes DEF Types, ProcessTypes
<1> QED BY <1>1, <1>7, <1>8, <1>9 DEF StoreStep

\* The pipelines of the stories D are taken out of a grapher.
LEMMA PipesOut ==
  ASSUME Types, NEW g \in Graphers, NEW D \in SUBSET Stories,
         pipe' = [pipe EXCEPT ![g] = [s \in Stories |-> IF s \in D THEN NoPipe ELSE pipe[g][s]]],
         UNCHANGED incarnation
  PROVE  /\ PipeStep(g) /\ incarnation' \in [Graphers -> Nat] /\ pipe' \in [Graphers -> [Stories -> Pipes]]
         /\ \A h \in Graphers, t \in Stories : PipeOf(pipe'[h][t], t, incarnation'[h])
         /\ \A s \in D : pipe'[g][s] = NoPipe
<1>1. /\ pipe \in [Graphers -> [Stories -> Pipes]] /\ incarnation \in [Graphers -> Nat]
      /\ \A h \in Graphers, t \in Stories : PipeOf(pipe[h][t], t, incarnation[h])
  BY DEF Types, ProcessTypes
<1>2. \A s, n : n \in Nat => PipeOf(NoPipe, s, n) /\ NoPipe \in Pipes /\ NoPipe.inc = 0
  BY NoPipeOf
<1>3. NoPipe \in Pipes /\ NoPipe.inc = 0
  BY <1>2
<1>4. /\ pipe' \in [Graphers -> [Stories -> Pipes]]
      /\ \A s \in Stories : pipe'[g][s] = IF s \in D THEN NoPipe ELSE pipe[g][s]
      /\ \A h \in Graphers \ {g} : pipe'[h] = pipe[h]
  BY <1>1, <1>3
<1>5. ASSUME NEW h \in Graphers, NEW t \in Stories PROVE PipeOf(pipe'[h][t], t, incarnation'[h])
  BY <1>1, <1>2, <1>4
<1>6. PipeStep(g)
  BY <1>1, <1>3, <1>4 DEF PipeStep
<1> QED BY <1>1, <1>4, <1>5, <1>6

\* FinalizePipelines is a step of the store.
LEMMA FinalizeStep ==
  ASSUME Types, NEW g \in Graphers, FinalizePipelines(g)
  PROVE  Types' /\ StoreStep(g)
<1>1. /\ StoreFrame /\ up[g] /\ UNCHANGED <<incarnation, retiring>>
      /\ pipe' = [pipe EXCEPT ![g] = [s \in Stories |-> NoPipe]]
      /\ extractionQueue' = [extractionQueue EXCEPT ![g] = stashStoryChunks(@, Remaining(g, Stories))]
  BY DEF FinalizePipelines, StoreFrame, grapher, destroying, writer, disk, player
<1>2. [s \in Stories |-> NoPipe] = [s \in Stories |-> IF s \in Stories THEN NoPipe ELSE pipe[g][s]]
  OBVIOUS
<1>3. /\ PipeStep(g) /\ incarnation' \in [Graphers -> Nat] /\ pipe' \in [Graphers -> [Stories -> Pipes]]
      /\ \A h \in Graphers, t \in Stories : PipeOf(pipe'[h][t], t, incarnation'[h])
  <2>1. Stories \in SUBSET Stories
    OBVIOUS
  <2> QED BY <1>1, <1>2, <2>1, PipesOut
<1>4. extractionQueue' \in [Graphers -> Seq(Chunk)] /\ retiring' \in [Graphers -> Seq(Chunk)] /\ FlowStep(g)
  <2>1. Stories \in SUBSET Stories /\ Remaining(g, Stories) \in SUBSET Remaining(g, Stories)
    OBVIOUS
  <2> QED BY <1>1, <2>1, StashFlow
<1>5. Types'
  BY <1>1, <1>3, <1>4, StoreTypes
<1> QED BY <1>1, <1>3, <1>4, <1>5 DEF StoreStep
-----------------------------------------------------------------------------
(* Destroyed stories stay gone                                             *)

\* Fence in the next state
NextFence(g, D, b, C) ==
  /\ b <= incarnation'[g]
  /\ \A s \in D : pipe'[g][s].inc = 0 \/ pipe'[g][s].inc > b
  /\ \A c \in C : StoryOf[c.w] \in D /\ c.inc <= b => [g |-> g, start |-> started'[g], inc |-> c.inc] \in raced'

\* a step of grapher g's process, or one that leaves it running
Running(g) == up[g] /\ up'[g] /\ started'[g] = started[g] /\ raced \subseteq raced' /\ PipeStep(g)

\* Destroys stay fenced while chunks move and new ones come from pipelines.
LEMMA FenceKeeps ==
  ASSUME Types, Types', NEW g \in Graphers, NEW D \in SUBSET Stories, NEW b \in Nat, NEW C, NEW C2,
         Running(g), Fence(g, D, b, C), C2 \subseteq C \cup Remaining(g, Stories)
  PROVE  NextFence(g, D, b, C2)
<1>1. incarnation[g] \in Nat /\ incarnation'[g] \in Nat /\ incarnation[g] <= incarnation'[g]
  BY DEF Types, ProcessTypes, Running, PipeStep
<1>2. b <= incarnation[g] /\ b <= incarnation'[g]
  BY <1>1 DEF Fence
<1>3. ASSUME NEW s \in D PROVE pipe'[g][s].inc = 0 \/ pipe'[g][s].inc > b
  <2>1. s \in Stories /\ pipe'[g][s] \in Pipes /\ pipe[g][s] \in Pipes
    BY DEF Types, ProcessTypes
  <2>2. pipe'[g][s].inc \in Nat
    BY <2>1 DEF Pipes
  <2>3. pipe'[g][s].inc = 0 \/ pipe'[g][s].inc = pipe[g][s].inc \/ pipe'[g][s].inc > incarnation[g]
    BY <2>1 DEF Running, PipeStep
  <2>4. pipe[g][s].inc = 0 \/ pipe[g][s].inc > b
    BY DEF Fence
  <2> QED BY <1>1, <1>2, <2>2, <2>3, <2>4
<1>4. ASSUME NEW c \in C2, StoryOf[c.w] \in D, c.inc <= b
      PROVE  [g |-> g, start |-> started'[g], inc |-> c.inc] \in raced'
  <2>1. CASE c \in C
    BY <1>4, <2>1 DEF Fence, Excused, Running
  <2>2. CASE c \in Remaining(g, Stories)
    <3>1. Stories \in SUBSET Stories
      OBVIOUS
    <3>2. /\ StoryOf[c.w] \in Stories /\ c.w \in pipe[g][StoryOf[c.w]].windows
          /\ c = [w |-> c.w, inc |-> pipe[g][StoryOf[c.w]].inc]
      BY <2>2, <3>1, OfPipe
    <3> DEFINE p == pipe[g][StoryOf[c.w]]
    <3>3. PipeOf(p, StoryOf[c.w], incarnation[g])
      BY <3>2 DEF Types, ProcessTypes
    <3>4. p.inc \in Nat /\ p.inc # 0 /\ c.inc = p.inc
      BY <3>2, <3>3 DEF PipeOf, Pipes
    <3>5. p.inc = 0 \/ p.inc > b
      BY <1>4 DEF Fence
    <3> QED BY <1>4, <3>4, <3>5
  <2> QED BY <2>1, <2>2
<1> QED BY <1>2, <1>3, <1>4 DEF NextFence

\* What is held stays numbered.
LEMMA NumbersKeep ==
  ASSUME Types, Types', NEW g \in Graphers, Running(g), Numbered(g), Held(g)' \subseteq Held(g) \cup Remaining(g, Stories),
         \A c \in Held(g) : c \in Chunk
  PROVE  Numbered(g)'
<1>1. incarnation[g] \in Nat /\ incarnation'[g] \in Nat /\ incarnation[g] <= incarnation'[g]
  BY DEF Types, ProcessTypes, Running, PipeStep
<1>2. ASSUME NEW c \in Held(g)' PROVE 1 <= c.inc /\ c.inc <= incarnation'[g]
  <2>1. CASE c \in Held(g)
    <3>1. 1 <= c.inc /\ c.inc <= incarnation[g] /\ c.inc \in Nat
      BY <2>1 DEF Numbered, Chunk
    <3> QED BY <1>1, <3>1
  <2>2. CASE c \in Remaining(g, Stories)
    <3>1. Stories \in SUBSET Stories
      OBVIOUS
    <3>2. /\ StoryOf[c.w] \in Stories /\ c.w \in pipe[g][StoryOf[c.w]].windows
          /\ c = [w |-> c.w, inc |-> pipe[g][StoryOf[c.w]].inc]
      BY <2>2, <3>1, OfPipe
    <3> DEFINE p == pipe[g][StoryOf[c.w]]
    <3>3. PipeOf(p, StoryOf[c.w], incarnation[g])
      BY <3>2 DEF Types, ProcessTypes
    <3>4. p.inc \in Nat /\ p.inc # 0 /\ p.inc <= incarnation[g] /\ c.inc = p.inc
      BY <3>2, <3>3 DEF PipeOf, Pipes
    <3> QED BY <1>1, <3>4
  <2> QED BY <1>2, <2>1, <2>2
<1> QED BY <1>2 DEF Numbered

\* Everything held is a chunk.
LEMMA HeldTyped ==
  ASSUME Types, NEW g \in Graphers
  PROVE  /\ \A c \in Held(g) : c \in Chunk
         /\ \A k \in DOMAIN destroyQueue[g] : destroyQueue[g][k] \in Tasks
<1>1. /\ extractionQueue[g] \in Seq(Chunk) /\ retiring[g] \in Seq(Chunk) /\ destroyQueue[g] \in Seq(Tasks)
  BY DEF Types, QueueTypes
<1>2. \A q : q \in Seq(Chunk) => Range(q) \subseteq Chunk
  <2> SUFFICES ASSUME NEW q \in Seq(Chunk) PROVE Range(q) \subseteq Chunk
    OBVIOUS
  <2>1. DOMAIN q = 1 .. Len(q) /\ \A i \in 1 .. Len(q) : q[i] \in Chunk
    BY LenProperties, ElementOfSeq
  <2> QED BY <2>1 DEF Range
<1>3. \A k \in DOMAIN destroyQueue[g] : destroyQueue[g][k] \in Tasks
  <2>1. DOMAIN destroyQueue[g] = 1 .. Len(destroyQueue[g])
    BY <1>1, LenProperties
  <2> QED BY <1>1, <2>1, ElementOfSeq
<1>4. \A k \in DOMAIN destroyQueue[g] : destroyQueue[g][k].remaining \in Seq(Chunk)
  BY <1>3 DEF Tasks
<1>5. InTasks(g, 0) \subseteq Chunk
  BY <1>2, <1>4 DEF InTasks
<1>6. InStreams(g) \subseteq Chunk
  <2> SUFFICES ASSUME NEW x \in StreamsOf(g), stream[x].pc # "idle" PROVE stream[x].chunk \in Chunk
    BY DEF InStreams
  <2>1. stream[x] \in StreamStates
    BY DEF Types, ProcessTypes, HandTypes, StreamsOf
  <2> QED BY <2>1, StreamStateOf
<1> QED BY <1>1, <1>2, <1>3, <1>5, <1>6 DEF Held, Unstashed

\* Every queued destroy was queued before, with at least as much behind it.
LEMMA QueueKeeps ==
  ASSUME Types, Types', NEW g \in Graphers, Running(g), QueueFence(g),
         \A k \in DOMAIN destroyQueue'[g] : \E l \in DOMAIN destroyQueue[g] :
           /\ destroyQueue'[g][k] = destroyQueue[g][l]
           /\ Unstashed(g, k)' \subseteq Unstashed(g, l) \cup Remaining(g, Stories)
  PROVE  QueueFence(g)'
<1> SUFFICES ASSUME NEW k \in DOMAIN destroyQueue'[g]
             PROVE  NextFence(g, destroyQueue'[g][k].stories, destroyQueue'[g][k].bound, Unstashed(g, k)')
  BY DEF QueueFence, Fence, NextFence, Excused
<1>1. PICK l \in DOMAIN destroyQueue[g] :
        /\ destroyQueue'[g][k] = destroyQueue[g][l]
        /\ Unstashed(g, k)' \subseteq Unstashed(g, l) \cup Remaining(g, Stories)
  OBVIOUS
<1> DEFINE t == destroyQueue[g][l]
<1>2. t \in Tasks
  BY HeldTyped
<1>3. t.stories \in SUBSET Stories /\ t.bound \in Nat
  BY <1>2 DEF Tasks
<1>4. Fence(g, t.stories, t.bound, Unstashed(g, l))
  BY DEF QueueFence
<1>5. NextFence(g, t.stories, t.bound, Unstashed(g, k)')
  BY <1>1, <1>3, <1>4, FenceKeeps
<1> QED BY <1>1, <1>5

\* a file made from a chunk the grapher held
FromChunk(g, f) == f.start = started[g] /\ \E c \in Held(g) : c.w = f.w /\ c.inc = f.inc

\* A destroy that is done stays done.
LEMMA GoneKeeps ==
  ASSUME Types, Types', NEW g \in Graphers, Running(g), GoneFence(g),
         Held(g)' \subseteq Held(g) \cup Remaining(g, Stories),
         \A f \in files' : f.g = g => f \in files \/ FromChunk(g, f),
         NEW d \in gone, d.g = g
  PROVE  /\ d.start <= started'[g]
         /\ up'[g] /\ d.start = started'[g] => NextFence(g, d.stories, d.bound, Held(g)')
         /\ \A f \in files' : f.g = g /\ f.start = d.start /\ StoryOf[f.w] \in d.stories /\ f.inc <= d.bound =>
              [g |-> g, start |-> f.start, inc |-> f.inc] \in raced'
<1>1. d.stories \in SUBSET Stories /\ d.bound \in Nat
  BY DEF Types, DiskTypes, Dones
<1>2. /\ d.start <= started[g] /\ (up[g] /\ d.start = started[g] => Fence(g, d.stories, d.bound, Held(g)))
      /\ \A f \in files : f.g = g /\ f.start = d.start /\ StoryOf[f.w] \in d.stories /\ f.inc <= d.bound =>
           [g |-> g, start |-> f.start, inc |-> f.inc] \in raced
  BY DEF GoneFence
<1>3. up[g] /\ started'[g] = started[g] /\ raced \subseteq raced'
  BY DEF Running
<1>4. up'[g] /\ d.start = started'[g] => NextFence(g, d.stories, d.bound, Held(g)')
  BY <1>1, <1>2, <1>3, FenceKeeps
<1>5. ASSUME NEW f \in files', f.g = g, f.start = d.start, StoryOf[f.w] \in d.stories, f.inc <= d.bound
      PROVE  [g |-> g, start |-> f.start, inc |-> f.inc] \in raced'
  <2>1. CASE f \in files
    BY <1>2, <1>3, <1>5, <2>1
  <2>2. CASE FromChunk(g, f)
    <3>1. PICK c \in Held(g) : c.w = f.w /\ c.inc = f.inc
      BY <2>2 DEF FromChunk
    <3>2. f.start = started[g] /\ Fence(g, d.stories, d.bound, Held(g))
      BY <1>2, <1>3, <1>5, <2>2 DEF FromChunk
    <3> QED BY <1>3, <1>5, <3>1, <3>2 DEF Fence, Excused
  <2> QED BY <1>5, <2>1, <2>2
<1> QED BY <1>2, <1>3, <1>4, <1>5

\* The task in the worker's hands stays fenced.
LEMMA WorkerKeeps ==
  ASSUME Types, Types', NEW g \in Graphers, Running(g), WorkerFence(g), worker'[g] = worker[g],
         Unstashed(g, 0)' \subseteq Unstashed(g, 0) \cup Remaining(g, Stories),
         Held(g)' \subseteq Held(g) \cup Remaining(g, Stories),
         \A f \in files' : f.g = g => f \in files \/ FromChunk(g, f)
  PROVE  WorkerFence(g)'
<1>1. up[g] /\ started'[g] = started[g] /\ raced \subseteq raced'
  BY DEF Running
<1> DEFINE t == worker[g].task
<1>2. ASSUME worker[g].pc \in TaskPcs
      PROVE  t.stories \in SUBSET Stories /\ t.bound \in Nat
  <2>1. worker[g] \in WorkerStates
    BY DEF Types, HandTypes
  <2>2. t \in Tasks
    BY <1>2, <2>1, WorkerStateOf
  <2> QED BY <2>2 DEF Tasks
<1>3. ASSUME worker[g].pc \in TaskPcs PROVE NextFence(g, t.stories, t.bound, Unstashed(g, 0)')
  <2>1. Fence(g, t.stories, t.bound, Unstashed(g, 0))
    BY <1>3 DEF WorkerFence
  <2> QED BY <1>2, <1>3, <2>1, FenceKeeps
<1>4. ASSUME worker[g].pc = "remove"
      PROVE  /\ NextFence(g, t.stories, t.bound, Held(g)')
             /\ \A f \in files' : f.g = g /\ f.start = started'[g] /\ f \notin worker[g].files =>
                  (StoryOf[f.w] \in t.stories /\ f.inc <= t.bound =>
                     [g |-> g, start |-> started'[g], inc |-> f.inc] \in raced')
  <2>1. Fence(g, t.stories, t.bound, Held(g))
    BY <1>4 DEF WorkerFence
  <2>2. worker[g].pc \in TaskPcs
    BY <1>4 DEF TaskPcs
  <2>3. NextFence(g, t.stories, t.bound, Held(g)')
    BY <1>2, <2>1, <2>2, FenceKeeps
  <2>4. ASSUME NEW f \in files', f.g = g, f.start = started'[g], f \notin worker[g].files,
               StoryOf[f.w] \in t.stories, f.inc <= t.bound
        PROVE  [g |-> g, start |-> started'[g], inc |-> f.inc] \in raced'
    <3>1. CASE f \in files
      BY <1>1, <1>4, <2>4, <3>1 DEF WorkerFence, Excused
    <3>2. CASE FromChunk(g, f)
      <4>1. PICK c \in Held(g) : c.w = f.w /\ c.inc = f.inc
        BY <3>2 DEF FromChunk
      <4> QED BY <1>1, <2>1, <2>4, <4>1 DEF Fence, Excused
    <3> QED BY <2>4, <3>1, <3>2
  <2> QED BY <2>3, <2>4
<1>5. worker'[g].pc \in TaskPcs =>
        Fence(g, worker[g].task.stories, worker[g].task.bound, Unstashed(g, 0))'
  BY <1>3 DEF Fence, NextFence, Excused
<1>6. worker'[g].pc = "remove" =>
       /\ Fence(g, worker[g].task.stories, worker[g].task.bound, Held(g))'
       /\ \A f \in files' : f.g = g /\ f.start = started'[g] /\ f \notin worker'[g].files =>
            Excused(g, worker[g].task.stories, worker[g].task.bound, f)'
  BY <1>4 DEF Fence, NextFence, Excused
<1> QED BY <1>5, <1>6 DEF WorkerFence

\* A step in which chunks move on, files come from chunks or go, no destroy
\* begins and none is done.
LEMMA CustodyFlow ==
  ASSUME Types, Types', NEW g \in Graphers, Running(g), Custody(g),
         destroyQueue'[g] = destroyQueue[g], worker'[g] = worker[g] \/ worker'[g].pc \notin TaskPcs, gone' = gone,
         \A k : Unstashed(g, k)' \subseteq Unstashed(g, k) \cup Remaining(g, Stories),
         Held(g)' \subseteq Held(g) \cup Remaining(g, Stories),
         \A f \in files' : f.g = g => f \in files \/ FromChunk(g, f)
  PROVE  Custody(g)'
<1>1. Numbered(g)'
  BY HeldTyped, NumbersKeep DEF Custody
<1>2. Empties(g)'
  BY DEF Empties, Running
<1>3. QueueFence(g)'
  BY QueueKeeps DEF Custody
<1>4. WorkerFence(g)'
  <2>1. CASE worker'[g] = worker[g]
    BY <2>1, WorkerKeeps DEF Custody
  <2>2. CASE worker'[g].pc \notin TaskPcs
    BY <2>2 DEF WorkerFence, TaskPcs
  <2> QED BY <2>1, <2>2
<1>5. GoneFence(g)'
  BY GoneKeeps DEF Custody, GoneFence, Fence, NextFence, Excused
<1>6. Starts(g)'
  <2>1. started'[g] = started[g] /\ started[g] \in Nat
    BY DEF Running, Types, ProcessTypes
  <2> QED BY <2>1 DEF Custody, Starts, FromChunk
<1> QED BY <1>1, <1>2, <1>3, <1>4, <1>5, <1>6 DEF Custody

\* a grapher whose process takes no part in the step
Bystander(g) ==
  /\ up'[g] = up[g] /\ started'[g] = started[g] /\ incarnation'[g] = incarnation[g] /\ pipe'[g] = pipe[g]
  /\ retiring'[g] = retiring[g] /\ extractionQueue'[g] = extractionQueue[g] /\ destroyQueue'[g] = destroyQueue[g]
  /\ worker'[g] = worker[g] /\ home' = home /\ \A x \in StreamsOf(g) : stream'[x] = stream[x]
  /\ raced \subseteq raced' /\ (\A d \in gone' : d.g = g => d \in gone)
  /\ (\A f \in files' : f.g = g => f \in files) /\ (g \in broadcast'.to => g \in broadcast.to \/ up[g])

\* what it holds
LEMMA BystanderHolds ==
  ASSUME NEW g \in Graphers, Bystander(g)
  PROVE  Held(g)' = Held(g) /\ \A k : Unstashed(g, k)' = Unstashed(g, k)
<1>1. StreamsOf(g)' = StreamsOf(g)
  BY DEF StreamsOf, Bystander
<1>2. \A k : InTasks(g, k)' = InTasks(g, k)
  BY DEF InTasks, Bystander
<1>3. InStreams(g)' = InStreams(g)
  BY <1>1 DEF InStreams, Bystander
<1> QED BY <1>2, <1>3 DEF Held, Unstashed, Bystander

\* A bystander's custody stays.
LEMMA BystanderKeeps ==
  ASSUME NEW g \in Graphers, Bystander(g), Custody(g)
  PROVE  Custody(g)'
<1>1. /\ Held(g)' = Held(g) /\ \A k : Unstashed(g, k)' = Unstashed(g, k)
      /\ StreamsOf(g)' = StreamsOf(g)
  BY BystanderHolds DEF StreamsOf, Bystander
<1>2. ASSUME NEW D, NEW b, NEW C, Fence(g, D, b, C) PROVE NextFence(g, D, b, C)
  BY <1>2 DEF Fence, NextFence, Excused, Bystander
<1>3. Numbered(g)'
  BY <1>1 DEF Custody, Numbered, Bystander
<1>4. Empties(g)'
  BY <1>1 DEF Custody, Empties, Bystander
<1>5. QueueFence(g)'
  <2> SUFFICES ASSUME NEW k \in DOMAIN destroyQueue'[g]
               PROVE  NextFence(g, destroyQueue'[g][k].stories, destroyQueue'[g][k].bound, Unstashed(g, k)')
    BY DEF QueueFence, Fence, NextFence, Excused
  <2>1. destroyQueue'[g] = destroyQueue[g]
    BY DEF Bystander
  <2>2. Fence(g, destroyQueue[g][k].stories, destroyQueue[g][k].bound, Unstashed(g, k))
    BY <2>1 DEF Custody, QueueFence
  <2> QED BY <1>1, <1>2, <2>1, <2>2
<1>6. WorkerFence(g)'
  <2>1. worker'[g] = worker[g] /\ started'[g] = started[g] /\ raced \subseteq raced'
    BY DEF Bystander
  <2>2. worker'[g].pc \in TaskPcs => Fence(g, worker[g].task.stories, worker[g].task.bound, Unstashed(g, 0))'
    <3>1. worker[g].pc \in TaskPcs => Fence(g, worker[g].task.stories, worker[g].task.bound, Unstashed(g, 0))
      BY DEF Custody, WorkerFence
    <3>2. worker[g].pc \in TaskPcs => NextFence(g, worker[g].task.stories, worker[g].task.bound, Unstashed(g, 0)')
      BY <1>1, <1>2, <3>1
    <3> QED BY <2>1, <3>2 DEF Fence, NextFence, Excused
  <2>3. worker'[g].pc = "remove" => Fence(g, worker[g].task.stories, worker[g].task.bound, Held(g))'
    <3>1. worker[g].pc = "remove" => Fence(g, worker[g].task.stories, worker[g].task.bound, Held(g))
      BY DEF Custody, WorkerFence
    <3>2. worker[g].pc = "remove" => NextFence(g, worker[g].task.stories, worker[g].task.bound, Held(g)')
      BY <1>1, <1>2, <3>1
    <3> QED BY <2>1, <3>2 DEF Fence, NextFence, Excused
  <2>4. worker'[g].pc = "remove" =>
          \A f \in files' : f.g = g /\ f.start = started'[g] /\ f \notin worker'[g].files =>
            Excused(g, worker[g].task.stories, worker[g].task.bound, f)'
    BY <2>1 DEF Custody, WorkerFence, Excused, Bystander
  <2> QED BY <2>2, <2>3, <2>4 DEF WorkerFence
<1>7. GoneFence(g)'
  <2> SUFFICES ASSUME NEW d \in gone', d.g = g
               PROVE  /\ d.start <= started'[g]
                      /\ up'[g] /\ d.start = started'[g] => NextFence(g, d.stories, d.bound, Held(g)')
                      /\ \A f \in files' : f.g = g /\ f.start = d.start /\ StoryOf[f.w] \in d.stories
                                           /\ f.inc <= d.bound => [g |-> g, start |-> f.start, inc |-> f.inc] \in raced'
    BY DEF GoneFence, Fence, NextFence, Excused
  <2>1. /\ d \in gone /\ started'[g] = started[g] /\ up'[g] = up[g] /\ raced \subseteq raced'
        /\ \A f \in files' : f.g = g => f \in files
    BY DEF Bystander
  <2>2. /\ d.start <= started[g] /\ (up[g] /\ d.start = started[g] => Fence(g, d.stories, d.bound, Held(g)))
        /\ \A f \in files : f.g = g /\ f.start = d.start /\ StoryOf[f.w] \in d.stories /\ f.inc <= d.bound =>
             [g |-> g, start |-> f.start, inc |-> f.inc] \in raced
    BY <2>1 DEF Custody, GoneFence
  <2>3. up[g] /\ d.start = started[g] => NextFence(g, d.stories, d.bound, Held(g)')
    BY <1>1, <1>2, <2>2
  <2> QED BY <2>1, <2>2, <2>3
<1>8. Starts(g)'
  BY DEF Custody, Starts, Bystander
<1> QED BY <1>3, <1>4, <1>5, <1>6, <1>7, <1>8 DEF Custody

\* Every step of the data store keeps the custody.
LEMMA StoreKeeps ==
  ASSUME Types, Types', CustodyInv, NEW g \in Graphers, StoreStep(g)
  PROVE  CustodyInv'
<1>1. ASSUME NEW h \in Graphers, h # g PROVE Custody(h)'
  <2>1. Bystander(h)
    BY <1>1 DEF Bystander, StoreStep, StoreFrame, PipeStep, FlowStep
  <2> QED BY <2>1, BystanderKeeps DEF CustodyInv
<1>2. Custody(g)'
  <2>1. Running(g) /\ destroyQueue' = destroyQueue /\ worker' = worker /\ gone' = gone /\ files' = files
    BY DEF Running, StoreStep, StoreFrame
  <2>2. \A k : InTasks(g, k)' = InTasks(g, k)
    BY <2>1 DEF InTasks
  <2>3. InStreams(g)' = InStreams(g)
    BY DEF InStreams, StreamsOf, StoreStep, StoreFrame
  <2>4. \A k : Unstashed(g, k)' \subseteq Unstashed(g, k) \cup Remaining(g, Stories)
    BY <2>2 DEF Unstashed, StoreStep, FlowStep
  <2>5. Held(g)' \subseteq Held(g) \cup Remaining(g, Stories)
    BY <2>2, <2>3 DEF Held, Unstashed, StoreStep, FlowStep
  <2> QED BY <2>1, <2>4, <2>5, CustodyFlow DEF CustodyInv
<1> QED BY <1>1, <1>2 DEF CustodyInv
-----------------------------------------------------------------------------
(* Destroys                                                                *)

\* the variables a destroy's arrival leaves alone
ArrivalFrame ==
  UNCHANGED <<home, now, started, up, incarnation, extractionQueue, retiring, worker, exiting, gone, latched,
              needsNewline, sequence, stream, files, named, log, tail, index, maxSpan, reader, live>>

\* destroyStory, in what the proofs need of it
Arrival(g, D, t) ==
  /\ ArrivalFrame /\ up[g] /\ g \in broadcast.to /\ ~exiting[g] /\ D = broadcast.stories /\ t = DestroyTask(g, D)
  /\ broadcast' = [broadcast EXCEPT !.to = @ \ {g}]
  /\ pipe' = [pipe EXCEPT ![g] = [s \in Stories |-> IF s \in D THEN NoPipe ELSE pipe[g][s]]]
  /\ destroyQueue' = [destroyQueue EXCEPT ![g] = Append(destroyQueue[g], t)]
  /\ doomed' = [doomed EXCEPT ![g] = Doom(g, D)]
  /\ raced' = raced \cup {[g |-> g, start |-> started[g], inc |-> c.inc] :
                            c \in {d \in Range(retiring[g]) : StoryOf[d.w] \in D}}

\* destroyStory is an arrival.
LEMMA ArrivalEffect ==
  ASSUME NEW g \in Graphers, destroyStory(g)
  PROVE  Arrival(g, broadcast.stories, DestroyTask(g, broadcast.stories))
BY DEF destroyStory, Arrival, ArrivalFrame, ToSet, Range, grapher, extraction, writer, disk, player

\* the task a destroy becomes
LEMMA TaskTyped ==
  ASSUME Types, NEW g \in Graphers, NEW D \in SUBSET Stories, NEW t, t = DestroyTask(g, D)
  PROVE  /\ t \in Tasks /\ t.stories = D /\ t.bound = incarnation[g] /\ t.requested = now
         /\ Range(t.remaining) \subseteq Remaining(g, Stories)
<1> DEFINE r == SetToSeq(Remaining(g, D))
<1>1. r \in Seq(Chunk) /\ Range(r) \subseteq Remaining(g, D)
  <2>1. Remaining(g, D) \in SUBSET Remaining(g, D)
    OBVIOUS
  <2> QED BY <2>1, Stashable
<1>2. Remaining(g, D) \subseteq Remaining(g, Stories)
  BY DEF Remaining
<1> HIDE DEF r
<1>3. t = [stories |-> D, bound |-> incarnation[g], requested |-> now, remaining |-> r]
  BY DEF DestroyTask, r
<1>4. incarnation[g] \in Nat /\ now \in Nat
  BY DEF Types, ProcessTypes
<1> QED BY <1>1, <1>2, <1>3, <1>4 DEF Tasks

\* An arrival keeps the types.
LEMMA ArrivalTypes ==
  ASSUME Types, NEW g \in Graphers, NEW D, NEW t, Arrival(g, D, t)
  PROVE  Types' /\ D \in SUBSET Stories
<1>1. broadcast \in Broadcasts /\ D = broadcast.stories /\ broadcast' = [broadcast EXCEPT !.to = @ \ {g}]
  BY DEF Arrival, Types, ProcessTypes
<1>2. D \in SUBSET Stories /\ broadcast' \in Broadcasts
  BY <1>1 DEF Broadcasts
<1>3. /\ incarnation' \in [Graphers -> Nat] /\ pipe' \in [Graphers -> [Stories -> Pipes]]
      /\ \A h \in Graphers, s \in Stories : PipeOf(pipe'[h][s], s, incarnation'[h])
  BY <1>2, PipesOut DEF Arrival, ArrivalFrame
<1>4. t \in Tasks
  BY <1>2, TaskTyped DEF Arrival
<1>5. destroyQueue' \in [Graphers -> Seq(Tasks)]
  <2>1. destroyQueue \in [Graphers -> Seq(Tasks)]
    BY DEF Types, QueueTypes
  <2>2. Append(destroyQueue[g], t) \in Seq(Tasks)
    BY <1>4, <2>1, Appended
  <2> QED BY <2>1, <2>2 DEF Arrival
<1>6. doomed' \in [Graphers -> [Stories -> Nat]]
  <2>1. Doom(g, D) \in [Stories -> Nat]
    BY DEF Doom, Types, ProcessTypes
  <2> QED BY <2>1 DEF Arrival, Types, ProcessTypes
<1>7. ProcessTypes'
  BY <1>2, <1>3, <1>6 DEF Types, ProcessTypes, Arrival, ArrivalFrame
<1>8. QueueTypes' /\ HandTypes' /\ DiskTypes' /\ PlayerTypes'
  BY <1>5 DEF Types, QueueTypes, HandTypes, DiskTypes, PlayerTypes, Arrival, ArrivalFrame
<1> QED BY <1>2, <1>7, <1>8 DEF Types

\* what is behind a queued task once a task is appended
LEMMA ArrivalHolds ==
  ASSUME Types, NEW g \in Graphers, NEW D, NEW t, Arrival(g, D, t)
  PROVE  /\ Held(g)' \subseteq Held(g) \cup Remaining(g, Stories)
         /\ \A k : Unstashed(g, k)' \subseteq Unstashed(g, k) \cup Remaining(g, Stories)
         /\ \A k : k = Len(destroyQueue[g]) + 1 => Unstashed(g, k)' = Range(retiring[g])
         /\ Len(destroyQueue[g]) \in Nat
         /\ DOMAIN destroyQueue[g] = 1 .. Len(destroyQueue[g])
         /\ DOMAIN destroyQueue'[g] = 1 .. (Len(destroyQueue[g]) + 1)
         /\ \A k \in DOMAIN destroyQueue[g] : destroyQueue'[g][k] = destroyQueue[g][k]
         /\ destroyQueue'[g][Len(destroyQueue[g]) + 1] = t
<1> DEFINE q == destroyQueue[g]
           q2 == destroyQueue'[g]
           n == Len(q)
<1>1. destroyQueue \in [Graphers -> Seq(Tasks)] /\ q \in Seq(Tasks) /\ D \in SUBSET Stories
  BY ArrivalTypes DEF Types, QueueTypes
<1>2. t \in Tasks /\ Range(t.remaining) \subseteq Remaining(g, Stories)
  BY <1>1, TaskTyped DEF Arrival
<1>3. q2 = Append(q, t)
  BY <1>1 DEF Arrival
<1>4. /\ n \in Nat /\ DOMAIN q = 1 .. n /\ DOMAIN q2 = 1 .. (n + 1)
      /\ \A i \in DOMAIN q : q2[i] = q[i]
      /\ q2[n + 1] = t
  BY <1>1, <1>2, <1>3, Appended
<1> HIDE DEF q, q2, n
<1>5. ASSUME NEW l \in DOMAIN q2 PROVE l \in DOMAIN q \/ l = n + 1
  BY <1>4
<1>6. ASSUME NEW k PROVE InTasks(g, k)' \subseteq InTasks(g, k) \cup Remaining(g, Stories)
  <2> SUFFICES ASSUME NEW l \in DOMAIN q2, l > k
               PROVE  Range(q2[l].remaining) \subseteq InTasks(g, k) \cup Remaining(g, Stories)
    BY DEF InTasks, q2
  <2>1. CASE l \in DOMAIN q
    BY <1>4, <2>1 DEF InTasks, q
  <2>2. CASE l = n + 1
    BY <1>2, <1>4, <2>2
  <2> QED BY <1>5, <2>1, <2>2
<1>7. ASSUME NEW k, k = n + 1 PROVE InTasks(g, k)' = {}
  <2>1. \A l \in DOMAIN q2 : ~(l > k)
    BY <1>4, <1>7
  <2>2. {l \in DOMAIN q2 : l > k} = {}
    BY <2>1
  <2> QED BY <2>2 DEF InTasks, q2
<1>8. InStreams(g)' = InStreams(g)
  BY DEF InStreams, StreamsOf, Arrival, ArrivalFrame
<1>9. retiring' = retiring /\ extractionQueue' = extractionQueue
  BY DEF Arrival, ArrivalFrame
<1>10. \A k : Unstashed(g, k)' \subseteq Unstashed(g, k) \cup Remaining(g, Stories)
  BY <1>6, <1>9 DEF Unstashed
<1>11. Held(g)' \subseteq Held(g) \cup Remaining(g, Stories)
  BY <1>6, <1>8, <1>9 DEF Held, Unstashed
<1>12. \A k : k = n + 1 => Unstashed(g, k)' = Range(retiring[g])
  BY <1>7, <1>9 DEF Unstashed
<1> QED BY <1>4, <1>10, <1>11, <1>12 DEF q, q2, n

\* An arrival keeps the custody.
LEMMA ArrivalKeeps ==
  ASSUME Types, CustodyInv, NEW g \in Graphers, NEW D, NEW t, Arrival(g, D, t)
  PROVE  CustodyInv'
<1>1. Types' /\ D \in SUBSET Stories
  BY ArrivalTypes
<1>2. PipeStep(g) /\ \A s \in D : pipe'[g][s] = NoPipe
  BY <1>1, PipesOut DEF Arrival, ArrivalFrame
<1>3. Running(g)
  BY <1>2 DEF Running, Arrival, ArrivalFrame
<1>4. ASSUME NEW h \in Graphers, h # g PROVE Custody(h)'
  <2>1. pipe'[h] = pipe[h] /\ destroyQueue'[h] = destroyQueue[h]
    BY <1>4 DEF Arrival, Types, ProcessTypes, QueueTypes
  <2>2. h \in broadcast'.to => h \in broadcast.to
    BY DEF Arrival, Types, ProcessTypes, Broadcasts
  <2>3. Bystander(h)
    BY <2>1, <2>2 DEF Bystander, Arrival, ArrivalFrame
  <2> QED BY <2>3, BystanderKeeps DEF CustodyInv
<1>5. Custody(g)
  BY DEF CustodyInv
<1>6. /\ Held(g)' \subseteq Held(g) \cup Remaining(g, Stories)
      /\ \A k : Unstashed(g, k)' \subseteq Unstashed(g, k) \cup Remaining(g, Stories)
  BY ArrivalHolds
<1>7. worker' = worker /\ gone' = gone /\ files' = files /\ incarnation' = incarnation /\ started' = started
  BY DEF Arrival, ArrivalFrame
<1>8. Numbered(g)'
  BY <1>1, <1>3, <1>5, <1>6, HeldTyped, NumbersKeep DEF Custody
<1>9. Empties(g)'
  BY <1>3 DEF Empties, Running
<1>10. WorkerFence(g)'
  BY <1>1, <1>3, <1>5, <1>6, <1>7, WorkerKeeps DEF Custody
<1>11. GoneFence(g)'
  BY <1>1, <1>3, <1>5, <1>6, <1>7, GoneKeeps DEF Custody, GoneFence, Fence, NextFence, Excused
<1>12. Starts(g)'
  BY <1>5, <1>7 DEF Custody, Starts
<1>13. QueueFence(g)'
  <2> DEFINE n == Len(destroyQueue[g])
  <2>1. /\ n \in Nat /\ DOMAIN destroyQueue[g] = 1 .. n /\ DOMAIN destroyQueue'[g] = 1 .. (n + 1)
        /\ \A k \in DOMAIN destroyQueue[g] : destroyQueue'[g][k] = destroyQueue[g][k]
        /\ destroyQueue'[g][n + 1] = t /\ \A k : k = n + 1 => Unstashed(g, k)' = Range(retiring[g])
    BY ArrivalHolds
  <2> HIDE DEF n
  <2> SUFFICES ASSUME NEW k \in DOMAIN destroyQueue'[g]
               PROVE  NextFence(g, destroyQueue'[g][k].stories, destroyQueue'[g][k].bound, Unstashed(g, k)')
    BY DEF QueueFence, Fence, NextFence, Excused
  <2>2. CASE k \in DOMAIN destroyQueue[g]
    <3> DEFINE u == destroyQueue[g][k]
    <3>1. u \in Tasks
      BY <2>2, HeldTyped
    <3>2. u.stories \in SUBSET Stories /\ u.bound \in Nat
      BY <3>1 DEF Tasks
    <3>3. Fence(g, u.stories, u.bound, Unstashed(g, k))
      BY <1>5, <2>2 DEF Custody, QueueFence
    <3>4. NextFence(g, u.stories, u.bound, Unstashed(g, k)')
      BY <1>1, <1>3, <1>6, <3>2, <3>3, FenceKeeps
    <3> QED BY <2>1, <2>2, <3>4
  <2>3. CASE k = n + 1
    <3>1. t.stories = D /\ t.bound = incarnation[g] /\ incarnation[g] \in Nat
      BY <1>1, TaskTyped DEF Arrival, Types, ProcessTypes
    <3>2. \A s \in D : pipe'[g][s].inc = 0
      BY <1>2 DEF NoPipe
    <3>3. \A c \in Range(retiring[g]) : StoryOf[c.w] \in D =>
            [g |-> g, start |-> started'[g], inc |-> c.inc] \in raced'
      BY <1>7 DEF Arrival
    <3>4. NextFence(g, D, incarnation[g], Range(retiring[g]))
      BY <1>7, <3>1, <3>2, <3>3 DEF NextFence
    <3> QED BY <2>1, <2>3, <3>1, <3>4
  <2>4. k \in DOMAIN destroyQueue[g] \/ k = n + 1
    BY <2>1
  <2> QED BY <2>2, <2>3, <2>4
<1>14. Custody(g)'
  BY <1>8, <1>9, <1>10, <1>11, <1>12, <1>13 DEF Custody
<1> QED BY <1>4, <1>14 DEF CustodyInv
-----------------------------------------------------------------------------
(* The logs                                                                *)

\* Lines are appended and synced, never changed otherwise.
Extends(h) ==
  \A i \in DOMAIN log[h] :
    /\ i \in DOMAIN log'[h] /\ log'[h][i].rec = log[h][i].rec /\ log'[h][i].nl = log[h][i].nl
    /\ log'[h][i].ended = log[h][i].ended /\ (log[h][i].at = "synced" => log'[h][i].at = "synced")

\* A log is a sequence of lines.
LEMMA LogTyped ==
  ASSUME Types, NEW h \in Graphers
  PROVE  /\ log[h] \in Seq(Items) /\ Len(log[h]) \in Nat /\ DOMAIN log[h] = 1 .. Len(log[h])
         /\ \A i \in DOMAIN log[h] : log[h][i] \in Items
<1>1. log[h] \in Seq(Items)
  BY DEF Types, DiskTypes
<1>2. Len(log[h]) \in Nat /\ DOMAIN log[h] = 1 .. Len(log[h])
  BY <1>1, LenProperties
<1> QED BY <1>1, <1>2, ElementOfSeq

\* a new line
LEMMA ItemTyped ==
  ASSUME NEW rec \in Records, NEW nl \in BOOLEAN, NEW ended \in BOOLEAN
  PROVE  /\ Item(rec, nl, ended) \in Items /\ Item(rec, nl, ended).rec = rec
         /\ Item(rec, nl, ended).nl = nl /\ Item(rec, nl, ended).ended = ended
BY DEF Item, Items, Ats

\* one line more
OneMore(g, m) ==
  /\ log' \in [Graphers -> Seq(Items)] /\ \A h \in Graphers \ {g} : log'[h] = log[h]
  /\ Len(log[g]) \in Nat /\ Len(log'[g]) = Len(log[g]) + 1
  /\ DOMAIN log[g] = 1 .. Len(log[g]) /\ DOMAIN log'[g] = 1 .. (Len(log[g]) + 1)
  /\ \A i \in DOMAIN log[g] : log'[g][i] = log[g][i]
  /\ log'[g][Len(log[g]) + 1] = m

\* Appending adds one line.
LEMMA OneMoreLine ==
  ASSUME Types, NEW g \in Graphers, NEW m \in Items, log' = [log EXCEPT ![g] = Append(@, m)]
  PROVE  OneMore(g, m)
<1>1. log \in [Graphers -> Seq(Items)] /\ log[g] \in Seq(Items)
  BY DEF Types, DiskTypes
<1> DEFINE q == Append(log[g], m)
<1>2. /\ q \in Seq(Items) /\ Len(log[g]) \in Nat /\ Len(q) = Len(log[g]) + 1
      /\ DOMAIN log[g] = 1 .. Len(log[g]) /\ DOMAIN q = 1 .. (Len(log[g]) + 1)
      /\ \A i \in DOMAIN log[g] : q[i] = log[g][i]
      /\ q[Len(log[g]) + 1] = m
  BY <1>1, Appended
<1> HIDE DEF q
<1>3. log' \in [Graphers -> Seq(Items)] /\ log'[g] = q /\ \A h \in Graphers \ {g} : log'[h] = log[h]
  BY <1>1, <1>2 DEF q
<1> QED BY <1>2, <1>3 DEF OneMore

\* A log with one line more extends the old one.
LEMMA OneMoreExtends ==
  ASSUME NEW g \in Graphers, NEW m, OneMore(g, m), NEW h \in Graphers
  PROVE  Extends(h)
<1>1. CASE h = g
  BY <1>1 DEF OneMore, Extends
<1>2. CASE h # g
  BY <1>2 DEF OneMore, Extends
<1> QED BY <1>1, <1>2

\* A sync moves lines on.
Moved(g, from, to) ==
  /\ log' \in [Graphers -> Seq(Items)] /\ \A h \in Graphers \ {g} : log'[h] = log[h]
  /\ DOMAIN log'[g] = DOMAIN log[g] /\ Len(log'[g]) = Len(log[g])
  /\ \A i \in DOMAIN log[g] :
       /\ log'[g][i].rec = log[g][i].rec /\ log'[g][i].nl = log[g][i].nl /\ log'[g][i].ended = log[g][i].ended
       /\ log'[g][i].at = IF log[g][i].at = from THEN to ELSE log[g][i].at

\* Move changes how far lines are on their way to the disk, nothing else.
LEMMA MovedLines ==
  ASSUME Types, NEW g \in Graphers, NEW from, NEW to \in Ats, Move(g, from, to)
  PROVE  Moved(g, from, to)
<1>1. /\ log[g] \in Seq(Items) /\ Len(log[g]) \in Nat /\ DOMAIN log[g] = 1 .. Len(log[g])
      /\ \A i \in DOMAIN log[g] : log[g][i] \in Items
  BY LogTyped
<1> DEFINE m(i) == IF log[g][i].at = from THEN [log[g][i] EXCEPT !.at = to] ELSE log[g][i]
           q == [i \in DOMAIN log[g] |-> m(i)]
<1>2. ASSUME NEW i \in DOMAIN log[g]
      PROVE  /\ m(i) \in Items /\ m(i).rec = log[g][i].rec /\ m(i).nl = log[g][i].nl /\ m(i).ended = log[g][i].ended
             /\ m(i).at = IF log[g][i].at = from THEN to ELSE log[g][i].at
  <2>1. log[g][i] \in Items
    BY <1>1
  <2> QED BY <2>1 DEF Items
<1> HIDE DEF m
<1>3. DOMAIN q = 1 .. Len(log[g]) /\ \A i \in DOMAIN log[g] : q[i] = m(i)
  BY <1>1
<1>4. q \in [1 .. Len(log[g]) -> Items]
  BY <1>1, <1>2
<1>5. q \in Seq(Items) /\ Len(q) = Len(log[g])
  <2>1. q \in Seq(Items)
    BY <1>1, <1>4, SeqDef
  <2> QED BY <1>1, <1>3, <2>1, LenProperties
<1>6. log \in [Graphers -> Seq(Items)] /\ log' = [log EXCEPT ![g] = q]
  BY DEF Move, Types, DiskTypes, m
<1> HIDE DEF q
<1>7. log' \in [Graphers -> Seq(Items)] /\ log'[g] = q /\ \A h \in Graphers \ {g} : log'[h] = log[h]
  BY <1>5, <1>6
<1> QED BY <1>1, <1>2, <1>3, <1>5, <1>7 DEF Moved

\* Lines that were dirty and move on leave the log otherwise as it was.
LEMMA MovedExtends ==
  ASSUME NEW g \in Graphers, NEW to, Moved(g, "dirty", to), NEW h \in Graphers
  PROVE  Extends(h)
<1>1. CASE h = g
  BY <1>1 DEF Moved, Extends
<1>2. CASE h # g
  BY <1>2 DEF Moved, Extends
<1> QED BY <1>1, <1>2

\* A line of grapher g is written, or some of it is, or nothing.
Wrote(g, m) == OneMore(g, m) /\ (m.ended \/ needsNewline'[g]) /\ (NeedsNl(g) <=> m.nl)
Written(g, rec) ==
  /\ needsNewline' \in [Graphers -> BOOLEAN] /\ \A h \in Graphers \ {g} : needsNewline'[h] = needsNewline[h]
  /\ log' \in [Graphers -> Seq(Items)]
  /\ \/ log' = log /\ needsNewline'[g]
     \/ \E m \in Items : Wrote(g, m) /\ m.rec \in {rec, Cut}

\* WriteLine writes the record and its newline.
LEMMA WriteLineEffect ==
  ASSUME Types, NEW g \in Graphers, NEW rec \in Records, WriteLine(g, rec)
  PROVE  /\ Written(g, rec)
         /\ \E m \in Items : Wrote(g, m) /\ m.rec = rec /\ m.ended
<1> DEFINE m == Item(rec, NeedsNl(g), TRUE)
<1>1. needsNewline \in [Graphers -> BOOLEAN] /\ log \in [Graphers -> Seq(Items)]
  BY DEF Types, ProcessTypes, DiskTypes
<1>2. NeedsNl(g) \in BOOLEAN
  BY <1>1 DEF NeedsNl
<1>3. m \in Items /\ m.rec = rec /\ m.nl = NeedsNl(g) /\ m.ended = TRUE
  BY <1>2, ItemTyped
<1> HIDE DEF m
<1>4. log' = [log EXCEPT ![g] = Append(@, m)] /\ needsNewline' = [needsNewline EXCEPT ![g] = FALSE]
  BY DEF WriteLine, m
<1>5. OneMore(g, m)
  BY <1>3, <1>4, OneMoreLine
<1>6. Wrote(g, m)
  BY <1>3, <1>5 DEF Wrote
<1> QED BY <1>1, <1>3, <1>4, <1>5, <1>6 DEF Written, OneMore

\* A failing write leaves nothing or an unfinished line.
LEMMA WriteFailsEffect ==
  ASSUME Types, NEW g \in Graphers, NEW rec \in Records, WriteFails(g, rec)
  PROVE  Written(g, rec)
<1>1. needsNewline \in [Graphers -> BOOLEAN] /\ log \in [Graphers -> Seq(Items)]
  BY DEF Types, ProcessTypes, DiskTypes
<1>2. NeedsNl(g) \in BOOLEAN
  BY <1>1 DEF NeedsNl
<1>3. /\ needsNewline' \in [Graphers -> BOOLEAN] /\ \A h \in Graphers \ {g} : needsNewline'[h] = needsNewline[h]
      /\ needsNewline'[g]
  BY <1>1 DEF WriteFails
<1>4. CASE UNCHANGED log
  BY <1>1, <1>3, <1>4 DEF Written
<1>5. ASSUME NEW r \in {rec, Cut}, log' = [log EXCEPT ![g] = Append(@, Item(r, NeedsNl(g), FALSE))]
      PROVE  Written(g, rec)
  <2> DEFINE m == Item(r, NeedsNl(g), FALSE)
  <2>1. r \in Records
    BY DEF Records
  <2>2. m \in Items /\ m.rec = r /\ m.nl = NeedsNl(g) /\ m.ended = FALSE
    BY <1>2, <2>1, ItemTyped
  <2> HIDE DEF m
  <2>3. log' = [log EXCEPT ![g] = Append(@, m)]
    BY <1>5 DEF m
  <2>4. OneMore(g, m)
    BY <2>2, <2>3, OneMoreLine
  <2>5. Wrote(g, m)
    BY <1>3, <2>2, <2>4 DEF Wrote
  <2> QED BY <1>3, <1>5, <2>2, <2>4, <2>5 DEF Written, OneMore
<1> QED BY <1>4, <1>5 DEF WriteFails

\* A log written to only grows.
LEMMA WrittenExtends ==
  ASSUME NEW g \in Graphers, NEW rec, Written(g, rec), NEW h \in Graphers
  PROVE  Extends(h)
<1>1. CASE log' = log
  BY <1>1 DEF Extends
<1>2. CASE \E m \in Items : Wrote(g, m) /\ m.rec \in {rec, Cut}
  BY <1>2, OneMoreExtends DEF Wrote
<1> QED BY <1>1, <1>2 DEF Written

\* A sync, one that fails, one of a line in doubt, one whose close fails
Synced(g) ==
  /\ needsNewline' \in [Graphers -> BOOLEAN] /\ \A h \in Graphers : needsNewline[h] => needsNewline'[h]
  /\ log' \in [Graphers -> Seq(Items)]
  /\ \/ log' = log \/ \E to \in Ats : Moved(g, "dirty", to)

\* The outcomes of a sync
LEMMA SyncEffect ==
  ASSUME Types, NEW g \in Graphers, NEW i,
         SyncLine(g, i) \/ SyncFails(g) \/ SyncDoubted(g, i) \/ CloseFails(g, i)
  PROVE  /\ Synced(g)
         /\ SyncLine(g, i) => Moved(g, "dirty", "synced") /\ log[g][i].at # "doubt"
<1>1. needsNewline \in [Graphers -> BOOLEAN] /\ log \in [Graphers -> Seq(Items)]
  BY DEF Types, ProcessTypes, DiskTypes
<1>2. "synced" \in Ats /\ "doubt" \in Ats
  BY DEF Ats
<1>3. \A to \in Ats : Move(g, "dirty", to) => Moved(g, "dirty", to) /\ log' \in [Graphers -> Seq(Items)]
  BY MovedLines DEF Moved
<1>4. CASE SyncLine(g, i)
  BY <1>1, <1>2, <1>3, <1>4 DEF SyncLine, Synced
<1>5. CASE SyncFails(g) \/ SyncDoubted(g, i)
  BY <1>1, <1>2, <1>3, <1>5 DEF SyncFails, SyncDoubted, SyncLine, Synced
<1>6. CASE CloseFails(g, i)
  BY <1>1, <1>2, <1>3, <1>6 DEF CloseFails, SyncLine, Synced
<1> QED BY <1>4, <1>5, <1>6

\* A sync changes no line's record.
LEMMA SyncedExtends ==
  ASSUME NEW g \in Graphers, Synced(g), NEW h \in Graphers
  PROVE  Extends(h)
<1>1. CASE log' = log
  BY <1>1 DEF Extends
<1>2. CASE \E to \in Ats : Moved(g, "dirty", to)
  BY <1>2, MovedExtends
<1> QED BY <1>1, <1>2 DEF Synced
-----------------------------------------------------------------------------
(* The destroy worker                                                      *)

\* The worker of g goes on to the state v.
Hand(g, v) ==
  /\ up[g] /\ worker' = [worker EXCEPT ![g] = v]
  /\ UNCHANGED <<home, now, started, up, incarnation, pipe, retiring, stream, exiting, broadcast, doomed, sequence,
                 tail, index, maxSpan, reader, live>>

\* The worker's steps, in what the proofs need of them
Take(g) ==
  /\ Hand(g, [pc |-> "drain", task |-> Head(destroyQueue[g]), files |-> {}])
  /\ worker[g].pc = "idle" /\ destroyQueue[g] # <<>>
  /\ extractionQueue' = [extractionQueue EXCEPT ![g] = extractionQueue[g] \o Head(destroyQueue[g]).remaining]
  /\ destroyQueue' = [destroyQueue EXCEPT ![g] = Tail(destroyQueue[g])]
  /\ UNCHANGED <<gone, needsNewline, files, named, log, raced>>
List(g) ==
  /\ Hand(g, [worker[g] EXCEPT !.pc = "remove", !.files = Listed(g)]) /\ worker[g].pc = "drain"
  /\ raced \subseteq raced'
  /\ ExtractionIdle(g) \/ \A i \in 1..worker[g].task.bound : [g |-> g, start |-> started[g], inc |-> i] \in raced'
  /\ UNCHANGED <<extractionQueue, destroyQueue, gone, needsNewline, files, named, log>>
Unlink(g, f) ==
  /\ Hand(g, [worker[g] EXCEPT !.files = @ \ {f}]) /\ worker[g].pc = "remove" /\ f \in worker[g].files
  /\ files' = files \ {f} /\ named' = named \ {f}
  /\ UNCHANGED <<extractionQueue, destroyQueue, gone, needsNewline, log, raced>>
GiveUp(g) ==
  /\ Hand(g, Idle) /\ worker[g].pc \in TaskPcs
  /\ UNCHANGED <<extractionQueue, destroyQueue, gone, needsNewline, files, named, log, raced>>
Record(g) ==
  /\ \/ Hand(g, Idle) \/ \E i \in Nat : Hand(g, [pc |-> "sync", at |-> i])
  /\ worker[g].pc = "remove" /\ worker[g].files = {} /\ Gone(g)
  /\ UNCHANGED <<log, needsNewline>> \/ Written(g, DeleteRecord(g))
  /\ UNCHANGED <<extractionQueue, destroyQueue, files, named, raced>>
Settle(g) ==
  /\ Hand(g, Idle) /\ worker[g].pc = "sync" /\ Synced(g)
  /\ UNCHANGED <<extractionQueue, destroyQueue, gone, files, named, raced>>

\* Each action of the worker is one of them.
LEMMA WorkerEffect ==
  ASSUME Types, NEW g \in Graphers, WorkerStep(g)
  PROVE  Take(g) \/ List(g) \/ (\E f \in File : Unlink(g, f)) \/ GiveUp(g) \/ Record(g) \/ Settle(g)
<1>1. ASSUME TakeTask(g) PROVE Take(g)
  BY <1>1 DEF TakeTask, Take, Hand, grapher, pipelines, writer, disk, player
<1>2. ASSUME ListCovered(g) PROVE List(g)
  <2>1. Hand(g, [worker[g] EXCEPT !.pc = "remove", !.files = Listed(g)])
    <3>1. worker \in [Graphers -> WorkerStates]
      BY DEF Types, HandTypes
    <3>2. worker' = [worker EXCEPT ![g] = [worker[g] EXCEPT !.pc = "remove", !.files = Listed(g)]]
      BY <1>2, <3>1 DEF ListCovered
    <3> QED BY <1>2, <3>2 DEF ListCovered, Hand, grapher, pipelines, extraction, writer, disk, player
  <2> QED BY <1>2, <2>1 DEF ListCovered, List, extraction, writer, disk
<1>3. ASSUME deleteStoryDirectory(g) PROVE \E f \in File : Unlink(g, f)
  <2>1. PICK f \in worker[g].files :
          /\ files' = files \ {f} /\ named' = named \ {f}
          /\ worker' = [worker EXCEPT ![g].files = @ \ {f}]
    BY <1>3 DEF deleteStoryDirectory
  <2>2. worker[g] \in WorkerStates /\ worker[g].pc = "remove"
    BY <1>3 DEF deleteStoryDirectory, Types, HandTypes
  <2>3. worker[g].files \subseteq File
    BY <2>2, WorkerStateOf DEF TaskPcs
  <2>4. worker' = [worker EXCEPT ![g] = [worker[g] EXCEPT !.files = @ \ {f}]]
    BY <2>1 DEF Types, HandTypes
  <2>5. Unlink(g, f)
    BY <1>3, <2>1, <2>4 DEF deleteStoryDirectory, Unlink, Hand, grapher, pipelines, extraction, writer, player
  <2> QED BY <2>3, <2>5
<1>4. ASSUME validateArchiveDirectory(g) \/ DeleteFails(g) PROVE GiveUp(g)
  BY <1>4 DEF validateArchiveDirectory, DeleteFails, GiveUp, Hand, TaskPcs, grapher, pipelines, extraction, writer,
              disk, player
<1>5. ASSUME recordDeletion(g) PROVE Record(g)
  <2>1. DeleteRecord(g) \in Records
    <3>1. worker[g] \in WorkerStates /\ worker[g].pc = "remove"
      BY <1>5 DEF recordDeletion, Types, HandTypes
    <3>2. worker[g].task \in Tasks
      BY <3>1, WorkerStateOf DEF TaskPcs
    <3>3. worker[g].task.stories \in SUBSET Stories /\ worker[g].task.bound \in Nat /\ started[g] \in Nat
      BY <3>2 DEF Tasks, Types, ProcessTypes
    <3> QED BY <3>3 DEF DeleteRecord, Records, Deletes
  <2>2. UNCHANGED <<extractionQueue, destroyQueue, files, named, raced>> /\ worker[g].pc = "remove"
        /\ worker[g].files = {} /\ Gone(g)
    BY <1>5 DEF recordDeletion, extraction
  <2>3. ASSUME NEW v, worker' = [worker EXCEPT ![g] = v] PROVE Hand(g, v)
    BY <1>5, <2>3 DEF recordDeletion, Hand, grapher, pipelines, extraction, player
  <2>4. CASE worker' = [worker EXCEPT ![g] = Idle] /\ UNCHANGED <<log, needsNewline>>
    BY <2>2, <2>3, <2>4 DEF Record
  <2>5. CASE WriteLine(g, DeleteRecord(g)) /\ worker' = [worker EXCEPT ![g] = [pc |-> "sync", at |-> Len(log'[g])]]
    <3>1. Written(g, DeleteRecord(g)) /\ log' \in [Graphers -> Seq(Items)]
      BY <2>1, <2>5, WriteLineEffect DEF Written
    <3>2. Len(log'[g]) \in Nat
      BY <3>1, LenProperties
    <3> QED BY <2>2, <2>3, <2>5, <3>1, <3>2 DEF Record
  <2>6. CASE WriteFails(g, DeleteRecord(g)) /\ worker' = [worker EXCEPT ![g] = Idle]
    <3>1. Written(g, DeleteRecord(g))
      BY <2>1, <2>6, WriteFailsEffect
    <3> QED BY <2>2, <2>3, <2>6, <3>1 DEF Record
  <2> QED BY <1>5, <2>4, <2>5, <2>6 DEF recordDeletion
<1>6. ASSUME SyncDeletion(g) PROVE Settle(g)
  <2>1. Synced(g)
    BY <1>6, SyncEffect DEF SyncDeletion
  <2> QED BY <1>6, <2>1 DEF SyncDeletion, Settle, Hand, grapher, pipelines, extraction, player
<1> QED BY <1>1, <1>2, <1>3, <1>4, <1>5, <1>6 DEF WorkerStep

\* The types, from those of what the step changes
LEMMA HandTyped ==
  ASSUME Types, NEW g \in Graphers, NEW v \in WorkerStates, Hand(g, v),
         extractionQueue' \in [Graphers -> Seq(Chunk)], destroyQueue' \in [Graphers -> Seq(Tasks)],
         needsNewline' \in [Graphers -> BOOLEAN], log' \in [Graphers -> Seq(Items)],
         files' \subseteq files, named' \subseteq named, gone' \subseteq Dones
  PROVE  Types'
<1>1. ProcessTypes'
  BY DEF Hand, Types, ProcessTypes
<1>2. QueueTypes' /\ HandTypes'
  BY DEF Hand, Types, QueueTypes, HandTypes
<1>3. DiskTypes' /\ PlayerTypes'
  BY DEF Hand, Types, DiskTypes, PlayerTypes
<1> QED BY <1>1, <1>2, <1>3 DEF Types

\* the worker's state after each step
LEMMA HandState ==
  ASSUME Types, NEW g \in Graphers
  PROVE  /\ Take(g) => [pc |-> "drain", task |-> Head(destroyQueue[g]), files |-> {}] \in WorkerStates
         /\ List(g) => [worker[g] EXCEPT !.pc = "remove", !.files = Listed(g)] \in WorkerStates
         /\ \A f : Unlink(g, f) => [worker[g] EXCEPT !.files = @ \ {f}] \in WorkerStates
         /\ Idle \in WorkerStates /\ \A i \in Nat : [pc |-> "sync", at |-> i] \in WorkerStates
         /\ worker[g].pc \in TaskPcs => worker[g].task \in Tasks
<1>1. worker[g] \in WorkerStates
  BY DEF Types, HandTypes
<1>2. ASSUME worker[g].pc \in TaskPcs PROVE worker[g] \in Busy /\ worker[g].task \in Tasks
  BY <1>1, <1>2, WorkerStateOf
<1>3. ASSUME Take(g) PROVE [pc |-> "drain", task |-> Head(destroyQueue[g]), files |-> {}] \in Busy
  <2>1. destroyQueue[g] \in Seq(Tasks) /\ destroyQueue[g] # <<>>
    BY <1>3 DEF Take, Types, QueueTypes
  <2>2. Head(destroyQueue[g]) \in Tasks
    BY <2>1, Shifted
  <2> QED BY <2>2 DEF Busy, TaskPcs
<1>4. ASSUME List(g) PROVE [worker[g] EXCEPT !.pc = "remove", !.files = Listed(g)] \in Busy
  <2>1. worker[g] \in Busy
    BY <1>2, <1>4 DEF List, TaskPcs
  <2>2. Listed(g) \subseteq File
    BY DEF Listed, Types, DiskTypes
  <2> QED BY <2>1, <2>2 DEF Busy, TaskPcs
<1>5. ASSUME NEW f, Unlink(g, f) PROVE [worker[g] EXCEPT !.files = @ \ {f}] \in Busy
  <2>1. worker[g] \in Busy
    BY <1>2, <1>5 DEF Unlink, TaskPcs
  <2> QED BY <2>1 DEF Busy
<1>6. \A i \in Nat : [pc |-> "sync", at |-> i] \in Recorders
  BY DEF Recorders
<1> QED BY <1>2, <1>3, <1>4, <1>5, <1>6 DEF WorkerStates

\* Every step of the worker keeps the types.
LEMMA WorkerTypes ==
  ASSUME Types, NEW g \in Graphers, WorkerStep(g)
  PROVE  Types'
<1>1. /\ extractionQueue \in [Graphers -> Seq(Chunk)] /\ destroyQueue \in [Graphers -> Seq(Tasks)]
      /\ needsNewline \in [Graphers -> BOOLEAN] /\ log \in [Graphers -> Seq(Items)] /\ gone \subseteq Dones
  BY DEF Types, QueueTypes, ProcessTypes, DiskTypes
<1>2. CASE Take(g)
  <2>1. destroyQueue[g] \in Seq(Tasks) /\ destroyQueue[g] # <<>> /\ extractionQueue[g] \in Seq(Chunk)
    BY <1>1, <1>2 DEF Take
  <2>2. Head(destroyQueue[g]) \in Tasks /\ Tail(destroyQueue[g]) \in Seq(Tasks)
    BY <2>1, Shifted
  <2>3. Head(destroyQueue[g]).remaining \in Seq(Chunk)
    BY <2>2 DEF Tasks
  <2>4. extractionQueue[g] \o Head(destroyQueue[g]).remaining \in Seq(Chunk)
    BY <2>1, <2>3, Chained
  <2>5. extractionQueue' \in [Graphers -> Seq(Chunk)] /\ destroyQueue' \in [Graphers -> Seq(Tasks)]
    BY <1>1, <1>2, <2>2, <2>4 DEF Take
  <2>6. /\ needsNewline' \in [Graphers -> BOOLEAN] /\ log' \in [Graphers -> Seq(Items)] /\ gone' \subseteq Dones
        /\ files' \subseteq files /\ named' \subseteq named
    BY <1>1, <1>2 DEF Take
  <2>7. Hand(g, [pc |-> "drain", task |-> Head(destroyQueue[g]), files |-> {}])
    BY <1>2 DEF Take
  <2> QED BY <1>2, <2>5, <2>6, <2>7, HandState, HandTyped
<1>3. CASE List(g)
  <2>1. Hand(g, [worker[g] EXCEPT !.pc = "remove", !.files = Listed(g)])
    BY <1>3 DEF List
  <2>2. UNCHANGED <<extractionQueue, destroyQueue, gone, needsNewline, files, named, log>>
    BY <1>3 DEF List
  <2> QED BY <1>1, <1>3, <2>1, <2>2, HandState, HandTyped
<1>4. ASSUME NEW f \in File, Unlink(g, f) PROVE Types'
  <2>1. Hand(g, [worker[g] EXCEPT !.files = @ \ {f}])
    BY <1>4 DEF Unlink
  <2>2. /\ UNCHANGED <<extractionQueue, destroyQueue, gone, needsNewline, log>>
        /\ files' \subseteq files /\ named' \subseteq named
    BY <1>4 DEF Unlink
  <2> QED BY <1>1, <1>4, <2>1, <2>2, HandState, HandTyped
<1>5. CASE GiveUp(g)
  <2>1. Hand(g, Idle) /\ UNCHANGED <<extractionQueue, destroyQueue, gone, needsNewline, files, named, log>>
    BY <1>5 DEF GiveUp
  <2> QED BY <1>1, <2>1, HandState, HandTyped
<1>6. CASE Record(g)
  <2>1. gone' \subseteq Dones
    <3>1. worker[g].task \in Tasks /\ started[g] \in Nat
      BY <1>6, HandState DEF Record, TaskPcs, Types, ProcessTypes
    <3>2. worker[g].task.stories \in SUBSET Stories /\ worker[g].task.bound \in Nat
      BY <3>1 DEF Tasks
    <3>3. [g |-> g, start |-> started[g], stories |-> worker[g].task.stories, bound |-> worker[g].task.bound] \in Dones
      BY <3>1, <3>2 DEF Dones
    <3> QED BY <1>1, <1>6, <3>3 DEF Record, Gone
  <2>2. /\ UNCHANGED <<extractionQueue, destroyQueue, files, named>>
        /\ needsNewline' \in [Graphers -> BOOLEAN] /\ log' \in [Graphers -> Seq(Items)]
    BY <1>1, <1>6 DEF Record, Written
  <2>3. Hand(g, Idle) \/ \E i \in Nat : Hand(g, [pc |-> "sync", at |-> i])
    BY <1>6 DEF Record
  <2> QED BY <1>1, <2>1, <2>2, <2>3, HandState, HandTyped
<1>7. CASE Settle(g)
  <2>1. /\ Hand(g, Idle) /\ UNCHANGED <<extractionQueue, destroyQueue, gone, files, named>>
        /\ needsNewline' \in [Graphers -> BOOLEAN] /\ log' \in [Graphers -> Seq(Items)]
    BY <1>7 DEF Settle, Synced
  <2> QED BY <1>1, <2>1, HandState, HandTyped
<1> QED BY <1>2, <1>3, <1>4, <1>5, <1>6, <1>7, WorkerEffect

\* What the worker's grapher holds
LEMMA HandHolds ==
  ASSUME Types, NEW g \in Graphers, NEW v, Hand(g, v), UNCHANGED <<extractionQueue, destroyQueue>>
  PROVE  Held(g)' = Held(g) /\ \A k : Unstashed(g, k)' = Unstashed(g, k)
<1>1. \A k : InTasks(g, k)' = InTasks(g, k)
  BY DEF InTasks
<1>2. InStreams(g)' = InStreams(g)
  BY DEF InStreams, StreamsOf, Hand
<1> QED BY <1>1, <1>2 DEF Held, Unstashed, Hand

\* what a grapher holds once its worker has taken a task
LEMMA TakeHolds ==
  ASSUME Types, NEW g \in Graphers, Take(g)
  PROVE  /\ Held(g)' \subseteq Held(g) /\ 1 \in DOMAIN destroyQueue[g] /\ Head(destroyQueue[g]) = destroyQueue[g][1]
         /\ Unstashed(g, 0)' \subseteq Unstashed(g, 1)
         /\ \A k \in DOMAIN destroyQueue'[g] : \E l \in DOMAIN destroyQueue[g] :
              destroyQueue'[g][k] = destroyQueue[g][l] /\ Unstashed(g, k)' \subseteq Unstashed(g, l)
<1> DEFINE q == destroyQueue[g]
           q2 == destroyQueue'[g]
           t == Head(q)
<1>1. q \in Seq(Tasks) /\ q # <<>> /\ q2 = Tail(q) /\ extractionQueue[g] \in Seq(Chunk)
  BY DEF Take, Types, QueueTypes
<1>2. /\ t \in Tasks /\ DOMAIN q = 1 .. Len(q) /\ 1 \in DOMAIN q /\ t = q[1]
      /\ \A k \in DOMAIN q2 : k \in Nat /\ k + 1 \in DOMAIN q /\ q2[k] = q[k + 1]
  BY <1>1, Shifted
<1>3. DOMAIN q2 \subseteq Nat \ {0}
  <2>1. q2 \in Seq(Tasks)
    BY <1>1, Shifted
  <2>2. DOMAIN q2 = 1 .. Len(q2) /\ Len(q2) \in Nat
    BY <2>1, LenProperties
  <2> QED BY <2>2
<1> HIDE DEF q, q2
<1>4. t.remaining \in Seq(Chunk)
  BY <1>2 DEF Tasks
<1>5. /\ extractionQueue'[g] = extractionQueue[g] \o t.remaining
      /\ Range(extractionQueue'[g]) = Range(extractionQueue[g]) \cup Range(t.remaining)
  <2>1. extractionQueue'[g] = extractionQueue[g] \o t.remaining
    BY DEF Take, Types, QueueTypes, q
  <2> QED BY <1>1, <1>4, <2>1, Chained
<1>6. ASSUME NEW k \in Nat, NEW m \in Nat, m = k + 1 PROVE InTasks(g, k)' \subseteq InTasks(g, m)
  <2> SUFFICES ASSUME NEW l \in DOMAIN q2, l > k PROVE Range(q2[l].remaining) \subseteq InTasks(g, m)
    BY DEF InTasks, q2
  <2>1. l + 1 \in DOMAIN q /\ l + 1 > m /\ q2[l] = q[l + 1]
    BY <1>2, <1>6
  <2> HIDE <1>6
  <2> QED BY <2>1 DEF InTasks, q
<1>7. InTasks(g, 1) \subseteq InTasks(g, 0) /\ Range(t.remaining) \subseteq InTasks(g, 0)
  <2>1. \A l \in DOMAIN q : l > 1 => l > 0
    BY <1>2
  <2>2. 1 > 0
    OBVIOUS
  <2> QED BY <1>2, <2>1, <2>2 DEF InTasks, q
<1>8. InStreams(g)' = InStreams(g) /\ retiring' = retiring
  BY DEF InStreams, StreamsOf, Take, Hand
<1>9. ASSUME NEW k \in Nat, NEW m \in Nat, m = k + 1 PROVE Unstashed(g, k)' \subseteq Unstashed(g, m)
  BY <1>6, <1>8, <1>9 DEF Unstashed
<1>10. Unstashed(g, 0)' \subseteq Unstashed(g, 1)
  BY <1>9
<1>11. Held(g)' \subseteq Held(g)
  BY <1>5, <1>7, <1>8, <1>10 DEF Held, Unstashed
<1>12. ASSUME NEW k \in DOMAIN q2
       PROVE  \E l \in DOMAIN q : q2[k] = q[l] /\ Unstashed(g, k)' \subseteq Unstashed(g, l)
  <2>1. k \in Nat /\ k + 1 \in DOMAIN q /\ q2[k] = q[k + 1] /\ k + 1 \in Nat
    BY <1>2
  <2>2. \A m \in Nat : m = k + 1 => Unstashed(g, k)' \subseteq Unstashed(g, m)
    BY <1>9, <2>1
  <2> QED BY <2>1, <2>2
<1> QED BY <1>2, <1>10, <1>11, <1>12 DEF q, q2

\* The worker's steps keep the custody at its grapher.
LEMMA HandKeeps ==
  ASSUME Types, Types', NEW g \in Graphers, NEW v, Hand(g, v), Custody(g), raced \subseteq raced',
         Held(g)' \subseteq Held(g), files' \subseteq files, \A d \in gone' : d \in gone \/ d.g # g,
         \A k \in DOMAIN destroyQueue'[g] : \E l \in DOMAIN destroyQueue[g] :
              destroyQueue'[g][k] = destroyQueue[g][l] /\ Unstashed(g, k)' \subseteq Unstashed(g, l)
  PROVE  Running(g) /\ Numbered(g)' /\ Empties(g)' /\ QueueFence(g)' /\ GoneFence(g)' /\ Starts(g)'
<1>1. Running(g)
  <2>1. PipeStep(g)
    BY DEF PipeStep, Hand, Types, ProcessTypes
  <2> QED BY <2>1 DEF Running, Hand
<1>2. Numbered(g)'
  BY <1>1, HeldTyped, NumbersKeep DEF Custody
<1>3. Empties(g)'
  BY <1>1 DEF Empties, Running
<1>4. QueueFence(g)'
  <2>1. \A k \in DOMAIN destroyQueue'[g] : \E l \in DOMAIN destroyQueue[g] :
           /\ destroyQueue'[g][k] = destroyQueue[g][l]
           /\ Unstashed(g, k)' \subseteq Unstashed(g, l) \cup Remaining(g, Stories)
    OBVIOUS
  <2> QED BY <1>1, <2>1, QueueKeeps DEF Custody
<1>5. GoneFence(g)'
  <2>1. Held(g)' \subseteq Held(g) \cup Remaining(g, Stories) /\ \A f \in files' : f.g = g => f \in files
    OBVIOUS
  <2> QED BY <1>1, <2>1, GoneKeeps DEF Custody, GoneFence, Fence, NextFence, Excused
<1>6. Starts(g)'
  BY <1>1 DEF Custody, Starts, Running
<1> QED BY <1>1, <1>2, <1>3, <1>4, <1>5, <1>6

\* ... and at the others.
LEMMA HandOthers ==
  ASSUME Types, NEW g \in Graphers, WorkerStep(g), CustodyInv, NEW h \in Graphers, h # g
  PROVE  Custody(h)'
<1>1. PICK v : Hand(g, v)
  BY WorkerEffect DEF Take, List, Unlink, GiveUp, Record, Settle
<1>2. /\ extractionQueue'[h] = extractionQueue[h] /\ destroyQueue'[h] = destroyQueue[h] /\ worker'[h] = worker[h]
  <2>1. /\ extractionQueue \in [Graphers -> Seq(Chunk)] /\ destroyQueue \in [Graphers -> Seq(Tasks)]
        /\ worker \in [Graphers -> WorkerStates]
    BY DEF Types, QueueTypes, HandTypes
  <2> QED BY <1>1, <2>1, WorkerEffect DEF Hand, Take, List, Unlink, GiveUp, Record, Settle
<1>3. raced \subseteq raced' /\ files' \subseteq files /\ \A d \in gone' : d.g = h => d \in gone
  <2>1. ASSUME Gone(g) PROVE \A d \in gone' : d.g = h => d \in gone
    BY <2>1 DEF Gone
  <2>2. CASE \E f \in File : Unlink(g, f)
    BY <2>2 DEF Unlink
  <2>3. CASE Take(g) \/ List(g) \/ GiveUp(g) \/ Settle(g)
    BY <2>3 DEF Take, List, GiveUp, Settle
  <2>4. CASE Record(g)
    BY <2>1, <2>4 DEF Record
  <2> QED BY <2>2, <2>3, <2>4, WorkerEffect
<1>4. Bystander(h)
  BY <1>1, <1>2, <1>3 DEF Bystander, Hand
<1> QED BY <1>4, BystanderKeeps DEF CustodyInv

\* Every step of the worker keeps the custody.
LEMMA WorkerKeepsCustody ==
  ASSUME Types, Types', CustodyInv, NEW g \in Graphers, WorkerStep(g)
  PROVE  CustodyInv'
<1> DEFINE t == worker[g].task
<1>1. Custody(g) /\ worker \in [Graphers -> WorkerStates]
  BY DEF CustodyInv, Types, HandTypes
<1>2. ASSUME worker[g].pc \in TaskPcs PROVE t.stories \in SUBSET Stories /\ t.bound \in Nat
  <2>1. t \in Tasks
    BY <1>2, HandState
  <2> QED BY <2>1 DEF Tasks
<1>3. ASSUME Take(g) PROVE Custody(g)'
  <2> DEFINE u == Head(destroyQueue[g])
  <2>1. Hand(g, [pc |-> "drain", task |-> u, files |-> {}]) /\ UNCHANGED <<gone, files, raced>>
    BY <1>3 DEF Take
  <2>2. /\ Held(g)' \subseteq Held(g) /\ 1 \in DOMAIN destroyQueue[g] /\ u = destroyQueue[g][1]
        /\ Unstashed(g, 0)' \subseteq Unstashed(g, 1)
        /\ \A k \in DOMAIN destroyQueue'[g] : \E l \in DOMAIN destroyQueue[g] :
             destroyQueue'[g][k] = destroyQueue[g][l] /\ Unstashed(g, k)' \subseteq Unstashed(g, l)
    BY <1>3, TakeHolds
  <2>3. Running(g) /\ Numbered(g)' /\ Empties(g)' /\ QueueFence(g)' /\ GoneFence(g)' /\ Starts(g)'
    BY <1>1, <2>1, <2>2, HandKeeps
  <2>4. NextFence(g, u.stories, u.bound, Unstashed(g, 0)')
    <3>1. u \in Tasks
      BY <2>2, HeldTyped
    <3>2. u.stories \in SUBSET Stories /\ u.bound \in Nat
      BY <3>1 DEF Tasks
    <3>3. Fence(g, u.stories, u.bound, Unstashed(g, 1))
      BY <1>1, <2>2 DEF Custody, QueueFence
    <3> QED BY <2>2, <2>3, <3>2, <3>3, FenceKeeps
  <2> HIDE DEF u
  <2>5. worker'[g].pc = "drain" /\ worker'[g].task = u
    BY <1>1, <2>1 DEF Hand
  <2>6. WorkerFence(g)'
    BY <2>4, <2>5 DEF WorkerFence, Fence, NextFence, Excused
  <2> QED BY <2>3, <2>6 DEF Custody
<1>4. ASSUME List(g) PROVE Custody(g)'
  <2>1. Hand(g, [worker[g] EXCEPT !.pc = "remove", !.files = Listed(g)]) /\ worker[g].pc = "drain"
        /\ UNCHANGED <<gone, files, extractionQueue, destroyQueue>> /\ raced \subseteq raced'
    BY <1>4 DEF List
  <2>2. Held(g)' = Held(g) /\ \A k : Unstashed(g, k)' = Unstashed(g, k)
    BY <2>1, HandHolds
  <2>3. \A k \in DOMAIN destroyQueue'[g] : \E l \in DOMAIN destroyQueue[g] :
          destroyQueue'[g][k] = destroyQueue[g][l] /\ Unstashed(g, k)' \subseteq Unstashed(g, l)
    BY <2>1, <2>2
  <2>4. Running(g) /\ Numbered(g)' /\ Empties(g)' /\ QueueFence(g)' /\ GoneFence(g)' /\ Starts(g)'
    BY <1>1, <2>1, <2>2, <2>3, HandKeeps
  <2>5. worker[g] \in Busy
    BY <1>1, <2>1, WorkerStateOf DEF TaskPcs
  <2>6. worker'[g].pc = "remove" /\ worker'[g].task = t /\ worker'[g].files = Listed(g)
    BY <1>1, <2>1, <2>5 DEF Hand, Busy
  <2>7. t.stories \in SUBSET Stories /\ t.bound \in Nat /\ Fence(g, t.stories, t.bound, Unstashed(g, 0))
    BY <1>1, <1>2, <2>1 DEF TaskPcs, Custody, WorkerFence
  <2>8. NextFence(g, t.stories, t.bound, Unstashed(g, 0)')
    BY <2>2, <2>4, <2>7, FenceKeeps
  <2>9. NextFence(g, t.stories, t.bound, Held(g)')
    <3>1. CASE ExtractionIdle(g)
      <4>1. Range(extractionQueue[g]) = {} /\ InStreams(g) = {}
        BY <3>1 DEF ExtractionIdle, Range, InStreams
      <4>2. Held(g) = Unstashed(g, 0)
        BY <4>1 DEF Held
      <4> QED BY <2>2, <2>8, <4>2
    <3>2. CASE \A i \in 1..t.bound : [g |-> g, start |-> started[g], inc |-> i] \in raced'
      <4>1. started'[g] = started[g]
        BY <2>4 DEF Running
      <4>2. ASSUME NEW c \in Held(g), c.inc <= t.bound PROVE [g |-> g, start |-> started'[g], inc |-> c.inc] \in raced'
        <5>1. c.inc \in Nat /\ 1 <= c.inc
          BY <1>1, HeldTyped DEF Custody, Numbered, Chunk
        <5>2. c.inc \in 1..t.bound
          BY <2>7, <4>2, <5>1
        <5> QED BY <3>2, <4>1, <5>2
      <4> QED BY <2>2, <2>8, <4>2 DEF NextFence
    <3> QED BY <1>4, <3>1, <3>2 DEF List
  <2>10. ASSUME NEW f \in files', f.g = g, f.start = started'[g], f \notin Listed(g),
                StoryOf[f.w] \in t.stories, f.inc <= t.bound
         PROVE  FALSE
    BY <2>1, <2>4, <2>10 DEF Listed, coveredByDestroy, Running
  <2> HIDE DEF t
  <2>11. WorkerFence(g)'
    BY <2>6, <2>8, <2>9, <2>10 DEF WorkerFence, Fence, NextFence, Excused
  <2> QED BY <2>4, <2>11 DEF Custody
<1>5. ASSUME NEW f \in File, Unlink(g, f) PROVE Custody(g)'
  <2>1. Hand(g, [worker[g] EXCEPT !.files = @ \ {f}]) /\ worker[g].pc = "remove"
        /\ UNCHANGED <<gone, raced, extractionQueue, destroyQueue>> /\ files' = files \ {f}
    BY <1>5 DEF Unlink
  <2>2. Held(g)' = Held(g) /\ \A k : Unstashed(g, k)' = Unstashed(g, k)
    BY <2>1, HandHolds
  <2>3. \A k \in DOMAIN destroyQueue'[g] : \E l \in DOMAIN destroyQueue[g] :
          destroyQueue'[g][k] = destroyQueue[g][l] /\ Unstashed(g, k)' \subseteq Unstashed(g, l)
    BY <2>1, <2>2
  <2>4. Running(g) /\ Numbered(g)' /\ Empties(g)' /\ QueueFence(g)' /\ GoneFence(g)' /\ Starts(g)'
    BY <1>1, <2>1, <2>2, <2>3, HandKeeps
  <2>5. worker[g] \in Busy
    BY <1>1, <2>1, WorkerStateOf DEF TaskPcs
  <2>6. worker'[g].pc = "remove" /\ worker'[g].task = t /\ worker'[g].files = worker[g].files \ {f}
    BY <1>1, <2>1, <2>5 DEF Hand, Busy
  <2>7. /\ t.stories \in SUBSET Stories /\ t.bound \in Nat /\ Fence(g, t.stories, t.bound, Unstashed(g, 0))
        /\ Fence(g, t.stories, t.bound, Held(g))
        /\ \A e \in files : e.g = g /\ e.start = started[g] /\ e \notin worker[g].files =>
             Excused(g, t.stories, t.bound, e)
    BY <1>1, <1>2, <2>1 DEF TaskPcs, Custody, WorkerFence
  <2>8. NextFence(g, t.stories, t.bound, Unstashed(g, 0)') /\ NextFence(g, t.stories, t.bound, Held(g)')
    BY <2>2, <2>4, <2>7, FenceKeeps
  <2>9. started'[g] = started[g] /\ raced \subseteq raced'
    BY <2>4 DEF Running
  <2> HIDE DEF t
  <2>10. WorkerFence(g)'
    BY <2>1, <2>6, <2>7, <2>8, <2>9 DEF WorkerFence, Fence, NextFence, Excused
  <2> QED BY <2>4, <2>10 DEF Custody
<1>6. ASSUME GiveUp(g) \/ Settle(g) PROVE Custody(g)'
  <2>1. Hand(g, Idle) /\ UNCHANGED <<gone, raced, files, extractionQueue, destroyQueue>>
    BY <1>6 DEF GiveUp, Settle
  <2>2. Held(g)' = Held(g) /\ \A k : Unstashed(g, k)' = Unstashed(g, k)
    BY <2>1, HandHolds
  <2>3. \A k \in DOMAIN destroyQueue'[g] : \E l \in DOMAIN destroyQueue[g] :
          destroyQueue'[g][k] = destroyQueue[g][l] /\ Unstashed(g, k)' \subseteq Unstashed(g, l)
    BY <2>1, <2>2
  <2>4. Running(g) /\ Numbered(g)' /\ Empties(g)' /\ QueueFence(g)' /\ GoneFence(g)' /\ Starts(g)'
    BY <1>1, <2>1, <2>2, <2>3, HandKeeps
  <2>5. worker'[g] = Idle
    BY <1>1, <2>1 DEF Hand
  <2>6. WorkerFence(g)'
    BY <2>5 DEF WorkerFence, TaskPcs, Idle
  <2> QED BY <2>4, <2>6 DEF Custody
<1>7. ASSUME Record(g) PROVE Custody(g)'
  <2>1. PICK v : Hand(g, v) /\ v.pc \notin TaskPcs /\ v.pc # "remove"
    <3>1. Idle.pc \notin TaskPcs /\ Idle.pc # "remove"
      BY DEF Idle, TaskPcs
    <3>2. \A i : [pc |-> "sync", at |-> i].pc \notin TaskPcs /\ [pc |-> "sync", at |-> i].pc # "remove"
      BY DEF TaskPcs
    <3>3. CASE Hand(g, Idle)
      BY <3>1, <3>3
    <3>4. ASSUME NEW i, Hand(g, [pc |-> "sync", at |-> i])
          PROVE  \E v : Hand(g, v) /\ v.pc \notin TaskPcs /\ v.pc # "remove"
      BY <3>2, <3>4
    <3> QED BY <1>7, <3>3, <3>4 DEF Record
  <2>2. UNCHANGED <<raced, files, extractionQueue, destroyQueue>> /\ Gone(g)
        /\ worker[g].pc = "remove" /\ worker[g].files = {}
    BY <1>7 DEF Record
  <2>3. Held(g)' = Held(g) /\ \A k : Unstashed(g, k)' = Unstashed(g, k)
    BY <2>1, <2>2, HandHolds
  <2>4. Running(g)
    <3>1. PipeStep(g)
      BY <2>1 DEF PipeStep, Hand, Types, ProcessTypes
    <3> QED BY <2>1, <2>2, <3>1 DEF Running, Hand
  <2>5. Numbered(g)' /\ Empties(g)' /\ Starts(g)'
    BY <1>1, <2>2, <2>3, <2>4, HeldTyped, NumbersKeep DEF Custody, Empties, Starts, Running
  <2>6. QueueFence(g)'
    BY <1>1, <2>2, <2>3, <2>4, QueueKeeps DEF Custody
  <2>7. WorkerFence(g)'
    <3>1. worker'[g] = v
      BY <1>1, <2>1 DEF Hand
    <3> QED BY <2>1, <3>1 DEF WorkerFence
  <2>8. /\ t.stories \in SUBSET Stories /\ t.bound \in Nat /\ Fence(g, t.stories, t.bound, Held(g))
        /\ \A e \in files : e.g = g /\ e.start = started[g] => Excused(g, t.stories, t.bound, e)
    BY <1>1, <1>2, <2>2 DEF TaskPcs, Custody, WorkerFence
  <2>9. NextFence(g, t.stories, t.bound, Held(g)')
    BY <2>3, <2>4, <2>8, FenceKeeps
  <2>10. started'[g] = started[g] /\ started[g] \in Nat
    BY <2>4 DEF Running, Types, ProcessTypes
  <2> HIDE DEF t
  <2>11. ASSUME NEW d \in gone', d.g = g
         PROVE  /\ d.start <= started'[g]
                /\ up'[g] /\ d.start = started'[g] => NextFence(g, d.stories, d.bound, Held(g)')
                /\ \A f \in files' : f.g = g /\ f.start = d.start /\ StoryOf[f.w] \in d.stories
                                     /\ f.inc <= d.bound => [g |-> g, start |-> f.start, inc |-> f.inc] \in raced'
    <3>1. CASE d \in gone
      BY <1>1, <2>2, <2>3, <2>4, <2>11, <3>1, GoneKeeps DEF Custody
    <3>2. CASE d \notin gone
      <4>1. d.start = started[g] /\ d.stories = t.stories /\ d.bound = t.bound
        BY <2>2, <3>2 DEF Gone, t
      <4> QED BY <2>2, <2>8, <2>9, <2>10, <4>1 DEF Excused
    <3> QED BY <3>1, <3>2
  <2>12. GoneFence(g)'
    BY <2>11 DEF GoneFence, Fence, NextFence, Excused
  <2> QED BY <2>5, <2>6, <2>7, <2>12 DEF Custody
<1> QED BY <1>3, <1>4, <1>5, <1>6, <1>7, HandOthers, WorkerEffect DEF CustodyInv
-----------------------------------------------------------------------------
(* The extraction streams                                                  *)

\* The stream x goes on to the state v.
Go(x, v) ==
  /\ up[home[x]] /\ stream' = [stream EXCEPT ![x] = v]
  /\ UNCHANGED <<home, now, started, up, incarnation, pipe, retiring, destroyQueue, worker, exiting, broadcast, gone,
                 doomed, tail, index, maxSpan, reader, raced>>

\* The streams' steps, in what the proofs need of them
Pick(x) ==
  /\ extractionQueue[home[x]] # <<>> /\ stream[x].pc = "idle"
  /\ extractionQueue' = [extractionQueue EXCEPT ![home[x]] = Tail(extractionQueue[home[x]])]
  /\ Go(x, Idle) \/ Go(x, [pc |-> "write", chunk |-> Head(extractionQueue[home[x]])])
  /\ UNCHANGED <<needsNewline, sequence, files, named, log, live>>
Publish(x, f) ==
  /\ stream[x].pc = "write" /\ f = windowFileName(home[x], stream[x].chunk)
  /\ Go(x, [pc |-> "names", chunk |-> stream[x].chunk, file |-> f])
  /\ sequence' = [sequence EXCEPT ![home[x]] = @ + 1] /\ files' = files \cup {f}
  /\ UNCHANGED <<extractionQueue, needsNewline, named, log, live>>
Fail(x) ==
  /\ stream[x].pc = "write" /\ Go(x, Idle) /\ sequence' = [sequence EXCEPT ![home[x]] = @ + 1]
  /\ UNCHANGED <<extractionQueue, needsNewline, files, named, log, live>>
Name(x) ==
  /\ stream[x].pc = "names"
  /\ \/ Go(x, [stream[x] EXCEPT !.pc = "append"]) /\ files' = files /\ named' = named \cup ({stream[x].file} \cap files)
     \/ Go(x, Idle) /\ files' = files \ {stream[x].file} /\ named' = named
  /\ UNCHANGED <<extractionQueue, needsNewline, sequence, log, live>>
NotAppended(x) ==
  /\ stream[x].pc = "append" /\ Go(x, [stream[x] EXCEPT !.pc = "remove"])
  /\ UNCHANGED <<log, needsNewline>> \/ Written(home[x], [op |-> "publish", file |-> stream[x].file])
  /\ UNCHANGED <<extractionQueue, sequence, files, named, live>>
Append1(x, m) ==
  /\ stream[x].pc = "append" /\ Wrote(home[x], m) /\ m.rec = [op |-> "publish", file |-> stream[x].file] /\ m.ended
  /\ Go(x, [pc |-> "sync", chunk |-> stream[x].chunk, file |-> stream[x].file, at |-> Len(log'[home[x]])])
  /\ Written(home[x], [op |-> "publish", file |-> stream[x].file])
  /\ UNCHANGED <<extractionQueue, sequence, files, named, live>>
Flush(x) ==
  /\ stream[x].pc = "sync" /\ Synced(home[x])
  /\ \/ Go(x, [stream[x] EXCEPT !.pc = "remove"])
     \/ /\ Go(x, [stream[x] EXCEPT !.pc = "report"])
        /\ Moved(home[x], "dirty", "synced") /\ log[home[x]][stream[x].at].at # "doubt"
  /\ UNCHANGED <<extractionQueue, sequence, files, named, live>>
Drop(x) ==
  /\ stream[x].pc = "remove" /\ Go(x, Idle)
  /\ files' = files \ {stream[x].file} /\ named' = named \ {stream[x].file}
  /\ UNCHANGED <<extractionQueue, needsNewline, sequence, log, live>>
Report(x) ==
  /\ stream[x].pc = "report" /\ Go(x, Idle)
  /\ \/ live' = live
     \/ NotDestroyed(home[x], stream[x].chunk) /\ live' = live \cup {[g |-> home[x], w |-> stream[x].chunk.w]}
  /\ UNCHANGED <<extractionQueue, needsNewline, sequence, files, named, log>>

StreamShape(x) ==
  \/ Pick(x) \/ (\E f \in File : Publish(x, f)) \/ Fail(x) \/ Name(x) \/ NotAppended(x)
  \/ (\E m \in Items : Append1(x, m)) \/ Flush(x) \/ Drop(x) \/ Report(x)

\* what is known of a stream
LEMMA StreamTyped ==
  ASSUME Types, NEW x \in DOMAIN home
  PROVE  /\ x \in Streams /\ home[x] \in Graphers /\ stream[x] \in StreamStates
         /\ stream \in [Streams -> StreamStates] /\ x \in StreamsOf(home[x])
         /\ stream[x].pc # "idle" => stream[x].chunk \in Chunk
         /\ stream[x].pc \in Holding => stream[x].file \in File
<1>1. x \in Streams /\ home[x] \in Graphers /\ stream[x] \in StreamStates /\ stream \in [Streams -> StreamStates]
  BY DEF Types, ProcessTypes, HandTypes
<1> QED BY <1>1, StreamStateOf DEF StreamsOf

\* the name windowFileName gives
LEMMA NameTyped ==
  ASSUME Types, NEW g \in Graphers, NEW c \in Chunk, NEW f, f = windowFileName(g, c)
  PROVE  /\ f \in File /\ f.g = g /\ f.start = started[g] /\ f.inc = c.inc /\ f.w = c.w /\ f.n = sequence[g]
         /\ f.mtime = now
<1>1. started[g] \in Nat /\ sequence[g] \in Nat /\ now \in Nat /\ c.inc \in Nat /\ c.w \in Windows
  BY DEF Types, ProcessTypes, Chunk
<1> QED BY <1>1 DEF windowFileName, File

\* Each action of a stream is one of these steps.
LEMMA StreamEffect ==
  ASSUME Types, NEW x \in DOMAIN home, StreamStep(x)
  PROVE  StreamShape(x)
<1> DEFINE g == home[x]
<1>1. g \in Graphers /\ stream[x] \in StreamStates /\ stream \in [Streams -> StreamStates] /\ x \in Streams
  BY StreamTyped
<1>2. ASSUME NEW v, up[g], Quiet(x), stream' = [stream EXCEPT ![x] = v] PROVE Go(x, v)
  BY <1>2 DEF Go, Quiet, grapher, pipelines, destroying, player
<1>3. ASSUME NEW pc, Step(x, pc) PROVE stream' = [stream EXCEPT ![x] = [stream[x] EXCEPT !.pc = pc]]
  BY <1>1, <1>3 DEF Step
<1>4. ASSUME ejectStoryChunk(x) PROVE Pick(x)
  BY <1>2, <1>4 DEF ejectStoryChunk, Pick, Rest, writer, disk
<1>5. ASSUME publishFile(x) PROVE \E f \in File : Publish(x, f)
  <2> DEFINE f == windowFileName(g, stream[x].chunk)
  <2>1. stream[x].chunk \in Chunk
    BY <1>1, <1>5, StreamStateOf DEF publishFile
  <2>2. f \in File
    BY <1>1, <2>1, NameTyped
  <2>3. /\ sequence' = [sequence EXCEPT ![g] = @ + 1] /\ files' = files \cup {f} /\ up[g] /\ stream[x].pc = "write"
        /\ stream' = [stream EXCEPT ![x] = [pc |-> "names", chunk |-> stream[x].chunk, file |-> f]]
        /\ Quiet(x) /\ UNCHANGED <<extractionQueue, latched, needsNewline, named, log, live>>
    BY <1>1, <1>5 DEF publishFile
  <2> HIDE DEF f
  <2>4. Go(x, [pc |-> "names", chunk |-> stream[x].chunk, file |-> f])
    BY <1>2, <2>3
  <2>5. Publish(x, f)
    BY <2>3, <2>4 DEF Publish, f
  <2> QED BY <2>2, <2>5
<1>6. ASSUME WriteWindowFails(x) PROVE Fail(x)
  BY <1>2, <1>6 DEF WriteWindowFails, Fail, Rest, disk
<1>7. ASSUME syncParentDirectories(x) PROVE Name(x)
  BY <1>2, <1>3, <1>7 DEF syncParentDirectories, Name, Rest, writer
<1>8. ASSUME AppendPublish(x) PROVE NotAppended(x) \/ \E m \in Items : Append1(x, m)
  <2> DEFINE rec == [op |-> "publish", file |-> stream[x].file]
  <2>1. up[g] /\ stream[x].pc = "append" /\ Quiet(x) /\ UNCHANGED <<extractionQueue, sequence, files, named, live>>
    BY <1>8 DEF AppendPublish
  <2>2. rec \in Records
    <3>1. stream[x].file \in File
      BY <1>1, <2>1, StreamStateOf DEF Holding
    <3> QED BY <3>1 DEF Records, Publishes
  <2>3. CASE Step(x, "remove") /\ UNCHANGED <<log, needsNewline>>
    <3>1. Go(x, [stream[x] EXCEPT !.pc = "remove"])
      BY <1>2, <1>3, <2>1, <2>3
    <3> QED BY <2>1, <2>3, <3>1 DEF NotAppended
  <2>4. CASE Step(x, "remove") /\ WriteFails(g, rec)
    <3>1. Go(x, [stream[x] EXCEPT !.pc = "remove"])
      BY <1>2, <1>3, <2>1, <2>4
    <3>2. Written(g, rec)
      BY <1>1, <2>2, <2>4, WriteFailsEffect
    <3> QED BY <2>1, <3>1, <3>2 DEF NotAppended
  <2>5. CASE /\ WriteLine(g, rec)
             /\ stream' = [stream EXCEPT ![x] = [pc |-> "sync", chunk |-> @.chunk, file |-> @.file, at |-> Len(log'[g])]]
    <3>1. Written(g, rec) /\ \E m \in Items : Wrote(g, m) /\ m.rec = rec /\ m.ended
      BY <1>1, <2>2, <2>5, WriteLineEffect
    <3>2. stream' = [stream EXCEPT ![x] = [pc |-> "sync", chunk |-> stream[x].chunk, file |-> stream[x].file,
                                           at |-> Len(log'[g])]]
      BY <1>1, <2>5
    <3>3. Go(x, [pc |-> "sync", chunk |-> stream[x].chunk, file |-> stream[x].file, at |-> Len(log'[g])])
      BY <1>2, <2>1, <3>2
    <3> QED BY <2>1, <3>1, <3>3 DEF Append1
  <2> QED BY <1>8, <2>3, <2>4, <2>5 DEF AppendPublish
<1>9. ASSUME SyncPublish(x) PROVE Flush(x)
  <2>1. up[g] /\ stream[x].pc = "sync" /\ Quiet(x) /\ UNCHANGED <<extractionQueue, sequence, files, named, live>>
    BY <1>9 DEF SyncPublish
  <2>2. CASE SyncLine(g, stream[x].at) /\ Step(x, "report")
    <3>1. Synced(g) /\ Moved(g, "dirty", "synced") /\ log[g][stream[x].at].at # "doubt"
      BY <1>1, <2>2, SyncEffect
    <3>2. Go(x, [stream[x] EXCEPT !.pc = "report"])
      BY <1>2, <1>3, <2>1, <2>2
    <3> QED BY <2>1, <3>1, <3>2 DEF Flush
  <2>3. CASE (SyncFails(g) \/ SyncDoubted(g, stream[x].at) \/ CloseFails(g, stream[x].at)) /\ Step(x, "remove")
    <3>1. Synced(g)
      BY <1>1, <2>3, SyncEffect
    <3>2. Go(x, [stream[x] EXCEPT !.pc = "remove"])
      BY <1>2, <1>3, <2>1, <2>3
    <3> QED BY <2>1, <3>1, <3>2 DEF Flush
  <2> QED BY <1>9, <2>2, <2>3 DEF SyncPublish
<1>10. ASSUME RemoveUnrecorded(x) PROVE Drop(x)
  BY <1>2, <1>10 DEF RemoveUnrecorded, Drop, Rest, writer
<1>11. ASSUME advancePersisted(x) PROVE Report(x)
  BY <1>2, <1>11 DEF advancePersisted, Report, Rest, writer, disk
<1> QED BY <1>4, <1>5, <1>6, <1>7, <1>8, <1>9, <1>10, <1>11 DEF StreamStep, StreamShape

\* the stream's state after each step, with its chunk and its file
LEMMA GoState ==
  ASSUME Types, NEW x \in DOMAIN home
  PROVE  /\ Pick(x) => [pc |-> "write", chunk |-> Head(extractionQueue[home[x]])] \in StreamStates
         /\ \A f \in File : Publish(x, f) => [pc |-> "names", chunk |-> stream[x].chunk, file |-> f] \in StreamStates
         /\ \A pc \in {"append", "remove"} : stream[x].pc \in {"names", "append"} =>
              /\ [stream[x] EXCEPT !.pc = pc] \in StreamStates /\ [stream[x] EXCEPT !.pc = pc].pc = pc
              /\ [stream[x] EXCEPT !.pc = pc].chunk = stream[x].chunk /\ [stream[x] EXCEPT !.pc = pc].file = stream[x].file
         /\ \A pc \in {"report", "remove"} : stream[x].pc = "sync" =>
              /\ [stream[x] EXCEPT !.pc = pc] \in StreamStates /\ [stream[x] EXCEPT !.pc = pc].pc = pc
              /\ [stream[x] EXCEPT !.pc = pc].chunk = stream[x].chunk /\ [stream[x] EXCEPT !.pc = pc].file = stream[x].file
              /\ [stream[x] EXCEPT !.pc = pc].at = stream[x].at
         /\ \A i \in Nat : stream[x].pc = "append" =>
              [pc |-> "sync", chunk |-> stream[x].chunk, file |-> stream[x].file, at |-> i] \in StreamStates
         /\ Idle \in StreamStates /\ Idle.pc = "idle"
<1>1. stream[x] \in StreamStates /\ home[x] \in Graphers
  BY StreamTyped
<1>2. ASSUME Pick(x) PROVE [pc |-> "write", chunk |-> Head(extractionQueue[home[x]])] \in Writing
  <2>1. extractionQueue[home[x]] \in Seq(Chunk) /\ extractionQueue[home[x]] # <<>>
    BY <1>1, <1>2 DEF Pick, Types, QueueTypes
  <2>2. Head(extractionQueue[home[x]]) \in Chunk
    BY <2>1, Shifted
  <2> QED BY <2>2 DEF Writing
<1>3. ASSUME NEW f \in File, Publish(x, f) PROVE [pc |-> "names", chunk |-> stream[x].chunk, file |-> f] \in Naming
  <2>1. stream[x].chunk \in Chunk
    BY <1>1, <1>3, StreamStateOf DEF Publish
  <2> QED BY <2>1 DEF Naming, NamingPcs
<1>4. ASSUME NEW pc \in {"append", "remove"}, stream[x].pc \in {"names", "append"}
      PROVE  /\ [stream[x] EXCEPT !.pc = pc] \in Naming /\ [stream[x] EXCEPT !.pc = pc].pc = pc
             /\ [stream[x] EXCEPT !.pc = pc].chunk = stream[x].chunk /\ [stream[x] EXCEPT !.pc = pc].file = stream[x].file
  <2>1. stream[x] \in Naming
    BY <1>1, <1>4, StreamStateOf
  <2> QED BY <2>1 DEF Naming, NamingPcs
<1>5. ASSUME NEW pc \in {"report", "remove"}, stream[x].pc = "sync"
      PROVE  /\ [stream[x] EXCEPT !.pc = pc] \in Syncing /\ [stream[x] EXCEPT !.pc = pc].pc = pc
             /\ [stream[x] EXCEPT !.pc = pc].chunk = stream[x].chunk /\ [stream[x] EXCEPT !.pc = pc].file = stream[x].file
             /\ [stream[x] EXCEPT !.pc = pc].at = stream[x].at
  <2>1. stream[x] \in Syncing
    BY <1>1, <1>5, StreamStateOf
  <2> QED BY <2>1 DEF Syncing, SyncingPcs
<1>6. ASSUME NEW i \in Nat, stream[x].pc = "append"
      PROVE  [pc |-> "sync", chunk |-> stream[x].chunk, file |-> stream[x].file, at |-> i] \in Syncing
  <2>1. stream[x] \in Naming
    BY <1>1, <1>6, StreamStateOf
  <2>2. stream[x].chunk \in Chunk /\ stream[x].file \in File
    BY <2>1 DEF Naming
  <2> QED BY <2>2 DEF Syncing, SyncingPcs
<1>7. Idle.pc = "idle"
  BY DEF Idle
<1> QED BY <1>2, <1>3, <1>4, <1>5, <1>6, <1>7 DEF StreamStates

\* The types, from those of what the step changes
LEMMA GoTyped ==
  ASSUME Types, NEW x \in DOMAIN home, NEW v \in StreamStates, Go(x, v),
         extractionQueue' \in [Graphers -> Seq(Chunk)], sequence' \in [Graphers -> Nat],
         needsNewline' \in [Graphers -> BOOLEAN], log' \in [Graphers -> Seq(Items)],
         files' \subseteq File, named' \subseteq File, live' \subseteq Reports
  PROVE  Types'
<1>1. ProcessTypes'
  BY DEF Go, Types, ProcessTypes
<1>2. QueueTypes'
  BY DEF Go, Types, QueueTypes
<1>3. HandTypes'
  BY StreamTyped DEF Go, Types, HandTypes
<1>4. DiskTypes' /\ PlayerTypes'
  BY DEF Go, Types, DiskTypes, PlayerTypes
<1> QED BY <1>1, <1>2, <1>3, <1>4 DEF Types

\* Every step of a stream moves one chunk on: the stream's new state is typed,
\* and the chunk in it was held before.
Carried(x, v) ==
  /\ Go(x, v) /\ v \in StreamStates /\ (v.pc # "idle" => v.chunk \in Held(home[x]))
  /\ Range(extractionQueue'[home[x]]) \subseteq Range(extractionQueue[home[x]])
  /\ \A h \in Graphers \ {home[x]} : extractionQueue'[h] = extractionQueue[h]

\* A step of a stream keeps the types and carries one chunk.
LEMMA StreamTypes ==
  ASSUME Types, NEW x \in DOMAIN home, StreamShape(x)
  PROVE  /\ Types' /\ \E v : Carried(x, v)
         /\ \A f \in files' : f \in files \/ (f.g = home[x] /\ FromChunk(home[x], f))
<1> DEFINE g == home[x]
<1>1. /\ extractionQueue \in [Graphers -> Seq(Chunk)] /\ sequence \in [Graphers -> Nat]
      /\ needsNewline \in [Graphers -> BOOLEAN] /\ log \in [Graphers -> Seq(Items)]
      /\ files \subseteq File /\ named \subseteq File /\ live \subseteq Reports
  BY DEF Types, QueueTypes, ProcessTypes, DiskTypes
<1>2. /\ x \in Streams /\ g \in Graphers /\ stream[x] \in StreamStates /\ x \in StreamsOf(g)
      /\ stream[x].pc # "idle" => stream[x].chunk \in Chunk
      /\ stream[x].pc \in Holding => stream[x].file \in File
  BY StreamTyped
<1>3. stream[x].pc # "idle" => stream[x].chunk \in Held(g)
  BY <1>2 DEF Held, InStreams
<1>4. Idle \in StreamStates /\ Idle.pc = "idle"
  BY GoState
<1>5. ASSUME Pick(x) PROVE Types' /\ (\E v : Carried(x, v)) /\ files' \subseteq files
  <2> DEFINE c == Head(extractionQueue[g])
             u == [pc |-> "write", chunk |-> c]
  <2>1. extractionQueue[g] \in Seq(Chunk) /\ extractionQueue[g] # <<>>
    BY <1>1, <1>2, <1>5 DEF Pick
  <2>2. /\ c \in Range(extractionQueue[g]) /\ Tail(extractionQueue[g]) \in Seq(Chunk)
        /\ Range(Tail(extractionQueue[g])) \subseteq Range(extractionQueue[g])
    BY <2>1, Shifted
  <2>3. /\ extractionQueue' \in [Graphers -> Seq(Chunk)] /\ extractionQueue'[g] = Tail(extractionQueue[g])
        /\ \A h \in Graphers \ {g} : extractionQueue'[h] = extractionQueue[h]
    BY <1>1, <1>2, <1>5, <2>2 DEF Pick
  <2>4. UNCHANGED <<needsNewline, sequence, files, named, log, live>>
    BY <1>5 DEF Pick
  <2>5. u \in StreamStates /\ u.chunk = c
    BY <1>5, GoState
  <2>6. c \in Held(g)
    BY <2>2 DEF Held
  <2> HIDE DEF u, c
  <2>7. CASE Go(x, Idle)
    BY <1>1, <1>4, <2>2, <2>3, <2>4, <2>7, GoTyped DEF Carried
  <2>8. CASE Go(x, u)
    BY <1>1, <2>2, <2>3, <2>4, <2>5, <2>6, <2>8, GoTyped DEF Carried
  <2> QED BY <1>5, <2>7, <2>8 DEF Pick, u, c
<1>6. ASSUME NEW f \in File, Publish(x, f)
      PROVE  /\ Types' /\ \E v : Carried(x, v)
             /\ \A e \in files' : e \in files \/ (e.g = g /\ FromChunk(g, e))
  <2> DEFINE u == [pc |-> "names", chunk |-> stream[x].chunk, file |-> f]
  <2>1. u \in StreamStates /\ u.chunk = stream[x].chunk
    BY <1>6, GoState
  <2>2. /\ stream[x].pc = "write" /\ sequence' \in [Graphers -> Nat] /\ files' = files \cup {f} /\ Go(x, u)
        /\ UNCHANGED <<extractionQueue, needsNewline, named, log, live>>
    BY <1>1, <1>2, <1>6 DEF Publish
  <2>3. f.g = g /\ FromChunk(g, f)
    <3>1. stream[x].chunk \in Chunk /\ stream[x].chunk \in Held(g) /\ f = windowFileName(g, stream[x].chunk)
      BY <1>2, <1>3, <1>6, <2>2 DEF Publish
    <3>2. f.g = g /\ f.start = started[g] /\ f.inc = stream[x].chunk.inc /\ f.w = stream[x].chunk.w
      BY <1>2, <3>1, NameTyped
    <3> QED BY <3>1, <3>2 DEF FromChunk
  <2> HIDE DEF u
  <2>4. Carried(x, u)
    BY <1>3, <2>1, <2>2 DEF Carried
  <2>5. Types'
    BY <1>1, <2>1, <2>2, GoTyped
  <2> QED BY <2>2, <2>3, <2>4, <2>5
<1>7. ASSUME Fail(x) PROVE Types' /\ (\E v : Carried(x, v)) /\ files' \subseteq files
  <2>1. /\ sequence' \in [Graphers -> Nat] /\ Go(x, Idle)
        /\ UNCHANGED <<extractionQueue, needsNewline, files, named, log, live>>
    BY <1>1, <1>2, <1>7 DEF Fail
  <2> QED BY <1>1, <1>4, <2>1, GoTyped DEF Carried
<1>8. ASSUME NEW v \in StreamStates, Go(x, v), v.pc = "idle" \/ (stream[x].pc # "idle" /\ v.chunk = stream[x].chunk),
             UNCHANGED <<extractionQueue, sequence>>, needsNewline' \in [Graphers -> BOOLEAN],
             log' \in [Graphers -> Seq(Items)], files' \subseteq files, named' \subseteq File, live' \subseteq Reports
      PROVE  Types' /\ Carried(x, v) /\ files' \subseteq files
  BY <1>1, <1>3, <1>8, GoTyped DEF Carried
<1>9. ASSUME Name(x) PROVE Types' /\ (\E v : Carried(x, v)) /\ files' \subseteq files
  <2> DEFINE u == [stream[x] EXCEPT !.pc = "append"]
  <2>1. stream[x].pc = "names" /\ UNCHANGED <<extractionQueue, needsNewline, sequence, log, live>>
        /\ files' \subseteq files /\ named' \subseteq File
    BY <1>1, <1>9 DEF Name
  <2>2. u \in StreamStates /\ u.chunk = stream[x].chunk
    BY <2>1, GoState
  <2>3. Go(x, u) \/ Go(x, Idle)
    BY <1>9 DEF Name
  <2> HIDE DEF u
  <2> QED BY <1>1, <1>4, <1>8, <2>1, <2>2, <2>3
<1>10. ASSUME NotAppended(x) PROVE Types' /\ (\E v : Carried(x, v)) /\ files' \subseteq files
  <2> DEFINE u == [stream[x] EXCEPT !.pc = "remove"]
  <2>1. /\ stream[x].pc = "append" /\ UNCHANGED <<extractionQueue, sequence, files, named, live>>
        /\ needsNewline' \in [Graphers -> BOOLEAN] /\ log' \in [Graphers -> Seq(Items)] /\ Go(x, u)
    BY <1>1, <1>10 DEF NotAppended, Written
  <2>2. u \in StreamStates /\ u.chunk = stream[x].chunk
    BY <2>1, GoState
  <2> HIDE DEF u
  <2> QED BY <1>1, <1>8, <2>1, <2>2
<1>11. ASSUME NEW m \in Items, Append1(x, m) PROVE Types' /\ (\E v : Carried(x, v)) /\ files' \subseteq files
  <2> DEFINE u == [pc |-> "sync", chunk |-> stream[x].chunk, file |-> stream[x].file, at |-> Len(log'[g])]
  <2>1. /\ stream[x].pc = "append" /\ UNCHANGED <<extractionQueue, sequence, files, named, live>>
        /\ needsNewline' \in [Graphers -> BOOLEAN] /\ log' \in [Graphers -> Seq(Items)] /\ Go(x, u)
    BY <1>11 DEF Append1, Written
  <2>2. Len(log'[g]) \in Nat
    BY <1>2, <2>1, LenProperties
  <2>3. u \in StreamStates /\ u.chunk = stream[x].chunk
    BY <2>1, <2>2, GoState
  <2> HIDE DEF u
  <2> QED BY <1>1, <1>8, <2>1, <2>3
<1>12. ASSUME Flush(x) PROVE Types' /\ (\E v : Carried(x, v)) /\ files' \subseteq files
  <2>1. /\ stream[x].pc = "sync" /\ UNCHANGED <<extractionQueue, sequence, files, named, live>>
        /\ needsNewline' \in [Graphers -> BOOLEAN] /\ log' \in [Graphers -> Seq(Items)]
    BY <1>12 DEF Flush, Synced
  <2>2. PICK pc \in {"report", "remove"} : Go(x, [stream[x] EXCEPT !.pc = pc])
    BY <1>12 DEF Flush
  <2> DEFINE u == [stream[x] EXCEPT !.pc = pc]
  <2>3. u \in StreamStates /\ u.chunk = stream[x].chunk /\ Go(x, u)
    BY <2>1, <2>2, GoState
  <2> HIDE DEF u
  <2> QED BY <1>1, <1>8, <2>1, <2>3
<1>13. ASSUME Drop(x) PROVE Types' /\ (\E v : Carried(x, v)) /\ files' \subseteq files
  <2>1. /\ Go(x, Idle) /\ UNCHANGED <<extractionQueue, needsNewline, sequence, log, live>>
        /\ files' \subseteq files /\ named' \subseteq File
    BY <1>1, <1>13 DEF Drop
  <2> QED BY <1>1, <1>4, <1>8, <2>1
<1>14. ASSUME Report(x) PROVE Types' /\ (\E v : Carried(x, v)) /\ files' \subseteq files
  <2>1. stream[x].chunk.w \in Windows
    BY <1>2, <1>14 DEF Report, Chunk
  <2>2. [g |-> g, w |-> stream[x].chunk.w] \in Reports
    BY <1>2, <2>1 DEF Reports
  <2>3. Go(x, Idle) /\ UNCHANGED <<extractionQueue, needsNewline, sequence, files, named, log>> /\ live' \subseteq Reports
    BY <1>1, <1>14, <2>2 DEF Report
  <2> QED BY <1>1, <1>4, <1>8, <2>3
<1> QED BY <1>5, <1>6, <1>7, <1>9, <1>10, <1>11, <1>12, <1>13, <1>14 DEF StreamShape

\* Every step of a stream keeps the custody.
LEMMA StreamKeeps ==
  ASSUME Types, CustodyInv, NEW x \in DOMAIN home, StreamShape(x)
  PROVE  CustodyInv'
<1>0. PICK g \in Graphers : g = home[x]
  BY StreamTyped
<1>1. Types' /\ \A f \in files' : f \in files \/ (f.g = g /\ FromChunk(g, f))
  BY <1>0, StreamTypes
<1>2. PICK v : Carried(x, v)
  BY StreamTypes
<1>3. g \in Graphers /\ x \in Streams /\ stream \in [Streams -> StreamStates] /\ Go(x, v)
  BY <1>0, <1>2, StreamTyped DEF Carried
<1>4. stream'[x] = v /\ \A y \in Streams \ {x} : stream'[y] = stream[y]
  BY <1>3 DEF Go
<1>5. ASSUME NEW h \in Graphers, h # g PROVE Custody(h)'
  <2>1. \A y \in StreamsOf(h) : y \in Streams \ {x}
    BY <1>0, <1>5 DEF StreamsOf, Types, ProcessTypes
  <2>2. Bystander(h)
    BY <1>0, <1>1, <1>2, <1>3, <1>4, <1>5, <2>1 DEF Bystander, Go, Carried
  <2> QED BY <2>2, BystanderKeeps DEF CustodyInv
<1>6. Custody(g)'
  <2>1. Running(g)
    <3>1. PipeStep(g)
      BY <1>3 DEF PipeStep, Go, Types, ProcessTypes
    <3> QED BY <1>0, <1>3, <3>1 DEF Running, Go
  <2>2. \A k : Unstashed(g, k)' = Unstashed(g, k)
    <3>1. \A k : InTasks(g, k)' = InTasks(g, k)
      BY <1>3 DEF InTasks, Go
    <3> QED BY <1>3, <3>1 DEF Unstashed, Go
  <2>3. InStreams(g)' \subseteq Held(g)
    <3> SUFFICES ASSUME NEW y \in StreamsOf(g)', stream'[y].pc # "idle" PROVE stream'[y].chunk \in Held(g)
      BY DEF InStreams
    <3>1. y \in StreamsOf(g) /\ y \in Streams
      BY <1>3 DEF StreamsOf, Go, Types, ProcessTypes
    <3>2. CASE y = x
      BY <1>0, <1>2, <1>4, <3>2 DEF Carried
    <3>3. CASE y # x
      BY <1>4, <3>1, <3>3 DEF Held, InStreams
    <3> QED BY <3>2, <3>3
  <2>4. Held(g)' \subseteq Held(g)
    <3>1. Range(extractionQueue'[g]) \subseteq Held(g) /\ Unstashed(g, 0)' \subseteq Held(g)
      BY <1>0, <1>2, <2>2 DEF Carried, Held
    <3> QED BY <2>3, <3>1 DEF Held
  <2>5. destroyQueue'[g] = destroyQueue[g] /\ worker'[g] = worker[g] /\ gone' = gone
    BY <1>3 DEF Go
  <2> QED BY <1>1, <1>3, <2>1, <2>2, <2>4, <2>5, CustodyFlow DEF CustodyInv
<1> QED BY <1>5, <1>6 DEF CustodyInv
-----------------------------------------------------------------------------
(* The player                                                              *)

\* The player's steps: only the player moves.
PlayerFrame ==
  UNCHANGED <<home, now, started, up, incarnation, pipe, extractionQueue, retiring, stream, destroyQueue, worker, exiting,
              broadcast, gone, doomed, needsNewline, sequence, files, named, log, live, raced>>

\* A line is read: it is skipped, a file is learnt, a destroy is applied.
Ahead(g) ==
  /\ PlayerFrame /\ reader.pc = "refresh" /\ g \in reader.logs /\ reader' = reader
  /\ tail' = [tail EXCEPT ![g] = tail[g] + 1] /\ tail[g] + 1 \in DOMAIN log[g]
Skip(g) == Ahead(g) /\ ~parseManifestLine(log[g], tail[g] + 1) /\ index' = index /\ maxSpan' = maxSpan
Learn(g, f) ==
  /\ Ahead(g) /\ log[g][tail[g] + 1].rec = [op |-> "publish", file |-> f]
  /\ index' = index \cup {[file |-> f, log |-> g]}
  /\ maxSpan' = [maxSpan EXCEPT ![StoryOf[f.w]] = Longest(@, To[f.w] - From[f.w])]
Forget(g, rec) ==
  /\ Ahead(g) /\ log[g][tail[g] + 1].rec = rec
  /\ index' = {e \in index : ~(e.log = g /\ Covers(rec, e.file))}
  /\ maxSpan' = [s \in Stories |-> IF \E e \in index' : StoryOf[e.file.w] = s THEN maxSpan[s] ELSE 0]

\* a file's span and story
LEMMA SpanTyped ==
  ASSUME NEW f \in File
  PROVE  /\ f.w \in Windows /\ StoryOf[f.w] \in Stories /\ From[f.w] \in Nat /\ To[f.w] \in Nat
         /\ To[f.w] - From[f.w] \in Nat
<1>1. f.w \in Windows
  BY DEF File
<1>2. StoryOf[f.w] \in Stories /\ From[f.w] \in Nat /\ To[f.w] \in Nat /\ From[f.w] < To[f.w]
  BY <1>1, ArchiveAssumption
<1> QED BY <1>1, <1>2

\* what a record says by its op
LEMMA RecordOf ==
  ASSUME NEW rec \in Records
  PROVE  /\ rec.op = "publish" => rec \in Publishes /\ rec.file \in File /\ rec = [op |-> "publish", file |-> rec.file]
         /\ rec.op = "delete" => rec \in Deletes
         /\ rec.op # "cut" => rec.op = "publish" \/ rec.op = "delete"
<1>1. CASE rec = Cut
  BY <1>1 DEF Cut
<1>2. CASE rec \in Publishes
  BY <1>2 DEF Publishes
<1>3. CASE rec \in Deletes
  BY <1>3 DEF Deletes
<1> QED BY <1>1, <1>2, <1>3 DEF Records

\* refreshFromManifest is one of these three.
LEMMA RefreshEffect ==
  ASSUME Types, NEW g \in Graphers, refreshFromManifest(g)
  PROVE  Skip(g) \/ (\E f \in File : Learn(g, f)) \/ (\E rec \in Deletes : Forget(g, rec))
<1> DEFINE i == tail[g] + 1
           L == log[g]
           rec == log[g][i].rec
           at == [index |-> index, span |-> maxSpan]
<1>1. /\ L \in Seq(Items) /\ Len(L) \in Nat /\ DOMAIN L = 1 .. Len(L) /\ \A j \in DOMAIN L : L[j] \in Items
  BY LogTyped
<1>2. tail[g] \in Nat /\ i \in Nat
  BY DEF Types, PlayerTypes
<1>3. i \in DOMAIN L
  <2>1. PICK j \in i .. Len(L) : EndsLine(L, j)
    BY DEF refreshFromManifest, readNew
  <2> QED BY <1>1, <1>2, <2>1
<1>4. Ahead(g)
  BY <1>3 DEF Ahead, PlayerFrame, refreshFromManifest, grapher, pipelines, extraction, destroying, writer, disk
<1>5. rec \in Records
  <2>1. L[i] \in Items
    BY <1>1, <1>3
  <2> QED BY <2>1 DEF Items
<1>6. CASE ~parseManifestLine(L, i)
  <2>1. index' = index /\ maxSpan' = maxSpan
    BY <1>6 DEF refreshFromManifest
  <2> QED BY <1>4, <1>6, <2>1 DEF Skip
<1>7. CASE parseManifestLine(L, i)
  <2>1. index' = applyRecord(rec, g, at).index /\ maxSpan' = applyRecord(rec, g, at).span /\ rec.op # "cut"
    BY <1>7 DEF refreshFromManifest, parseManifestLine
  <2>2. CASE rec.op = "publish"
    <3>1. rec.file \in File /\ rec = [op |-> "publish", file |-> rec.file]
      BY <1>5, <2>2, RecordOf
    <3>2. /\ index' = index \cup {[file |-> rec.file, log |-> g]}
          /\ maxSpan' = [maxSpan EXCEPT ![StoryOf[rec.file.w]] = Longest(@, To[rec.file.w] - From[rec.file.w])]
      BY <2>1, <2>2 DEF applyRecord
    <3>3. Learn(g, rec.file)
      BY <1>4, <3>1, <3>2 DEF Learn
    <3> QED BY <3>1, <3>3
  <2>3. CASE rec.op = "delete"
    <3>1. rec \in Deletes
      BY <1>5, <2>3, RecordOf
    <3>2. /\ index' = {e \in index : ~(e.log = g /\ Covers(rec, e.file))}
          /\ maxSpan' = [s \in Stories |-> IF \E e \in index' : StoryOf[e.file.w] = s THEN maxSpan[s] ELSE 0]
      BY <2>1, <2>3 DEF applyRecord
    <3>3. Forget(g, rec)
      BY <1>4, <3>2 DEF Forget
    <3> QED BY <3>1, <3>3
  <2> QED BY <1>5, <2>1, <2>2, <2>3, RecordOf
<1> QED BY <1>6, <1>7

\* The reader goes on, or there is none.
Reads == PlayerFrame /\ UNCHANGED <<tail, index, maxSpan>>

\* Each action of the player reads a line or moves its reader.
LEMMA PlayerEffect ==
  ASSUME Types, PlayerStep
  PROVE  /\ Types' /\ PlayerFrame
         /\ Reads \/ \E g \in Graphers : refreshFromManifest(g)
<1>1. ASSUME PlayerFrame, tail' \in [Graphers -> Nat], index' \subseteq Entries, maxSpan' \in [Stories -> Nat],
             reader' \in Readers
      PROVE  Types'
  BY <1>1 DEF PlayerFrame, Types, ProcessTypes, QueueTypes, HandTypes, DiskTypes, PlayerTypes
<1>2. ASSUME Reads, reader' \in Readers PROVE Types'
  <2>1. PlayerFrame
    BY <1>2 DEF Reads
  <2>2. tail' \in [Graphers -> Nat] /\ index' \subseteq Entries /\ maxSpan' \in [Stories -> Nat]
    BY <1>2 DEF Reads, Types, PlayerTypes
  <2> QED BY <1>1, <1>2, <2>1, <2>2
<1>3. reader \in Readers /\ files \subseteq File /\ Idle \in Readers
  BY DEF Types, PlayerTypes, DiskTypes, Readers
<1>4. reader.pc \in ReadPcs => reader \in Replaying
  BY <1>3, ReaderStateOf
<1>5. ASSUME NEW q \in Queries, BeginRead(q) PROVE Types' /\ Reads
  <2>1. Reads
    BY <1>5 DEF BeginRead, Reads, PlayerFrame, grapher, pipelines, extraction, destroying, writer, disk
  <2>2. reader' \in Replaying
    BY <1>5 DEF BeginRead, Replaying, ReadPcs
  <2> QED BY <1>2, <2>1, <2>2 DEF Readers
<1>6. ASSUME NEW g \in Graphers, refreshFromManifest(g) PROVE Types' /\ PlayerFrame
  <2>1. Ahead(g)
    BY <1>6, RefreshEffect DEF Skip, Learn, Forget
  <2>2. tail' \in [Graphers -> Nat] /\ reader' \in Readers /\ PlayerFrame
    BY <1>3, <2>1 DEF Ahead, Types, PlayerTypes
  <2>3. index' \subseteq Entries /\ maxSpan' \in [Stories -> Nat]
    <3>1. CASE Skip(g)
      BY <3>1 DEF Skip, Types, PlayerTypes
    <3>2. ASSUME NEW f \in File, Learn(g, f) PROVE index' \subseteq Entries /\ maxSpan' \in [Stories -> Nat]
      <4>1. [file |-> f, log |-> g] \in Entries
        BY DEF Entries
      <4>2. StoryOf[f.w] \in Stories /\ To[f.w] - From[f.w] \in Nat
        BY SpanTyped
      <4>3. \A a \in Nat : Longest(a, To[f.w] - From[f.w]) \in Nat
        BY <4>2 DEF Longest
      <4> QED BY <3>2, <4>1, <4>2, <4>3 DEF Learn, Types, PlayerTypes
    <3>3. ASSUME NEW rec \in Deletes, Forget(g, rec) PROVE index' \subseteq Entries /\ maxSpan' \in [Stories -> Nat]
      BY <3>3 DEF Forget, Types, PlayerTypes
    <3> QED BY <1>6, <3>1, <3>2, <3>3, RefreshEffect
  <2> QED BY <1>1, <2>2, <2>3
<1>7. ASSUME NEW g \in Graphers, RefreshedLog(g) \/ RefreshFails(g) PROVE Types' /\ Reads
  <2>1. Reads
    BY <1>7 DEF RefreshedLog, RefreshFails, Reads, PlayerFrame, grapher, pipelines, extraction, destroying, writer, disk
  <2>2. reader \in Replaying
    BY <1>4, <1>7 DEF RefreshedLog, RefreshFails, ReadPcs
  <2>3. reader' \in Replaying
    BY <1>7, <2>2 DEF RefreshedLog, RefreshFails, Replaying
  <2> QED BY <1>2, <2>1, <2>3 DEF Readers
<1>8. ASSUME SelectFiles PROVE Types' /\ Reads
  <2>1. Reads
    BY <1>8 DEF SelectFiles, Reads, PlayerFrame, grapher, pipelines, extraction, destroying, writer, disk
  <2>2. reader \in Replaying
    BY <1>4, <1>8 DEF SelectFiles, ReadPcs
  <2>3. Selected(reader.query) \subseteq File
    BY DEF Selected, Entries, Types, PlayerTypes
  <2>4. reader' \in Replaying
    BY <1>8, <2>2, <2>3 DEF SelectFiles, Replaying, ReadPcs
  <2> QED BY <1>2, <2>1, <2>4 DEF Readers
<1>9. ASSUME readStoryChunkFile PROVE Types' /\ Reads
  <2>1. Reads
    BY <1>9 DEF readStoryChunkFile, Reads, PlayerFrame, grapher, pipelines, extraction, destroying, writer, disk
  <2>2. reader \in Replaying
    BY <1>4, <1>9 DEF readStoryChunkFile, ReadPcs
  <2>3. PICK f \in reader.files :
          \/ reader' = [reader EXCEPT !.files = @ \ {f}, !.got = IF f \in files THEN @ \cup {f.w} ELSE @]
          \/ reader' = [reader EXCEPT !.files = @ \ {f}, !.ok = FALSE]
    BY <1>9 DEF readStoryChunkFile
  <2>4. f \in File
    BY <2>2, <2>3 DEF Replaying
  <2>5. f.w \in Windows
    BY <2>4 DEF File
  <2>6. reader' \in Replaying
    <3> DEFINE got == IF f \in files THEN reader.got \cup {f.w} ELSE reader.got
    <3>1. got \subseteq Windows /\ reader.files \ {f} \subseteq File
      BY <2>2, <2>5 DEF Replaying
    <3> HIDE DEF got
    <3>2. CASE reader' = [reader EXCEPT !.files = @ \ {f}, !.ok = FALSE]
      BY <2>2, <3>1, <3>2 DEF Replaying
    <3>3. CASE reader' = [reader EXCEPT !.files = @ \ {f}, !.got = got]
      BY <2>2, <3>1, <3>3 DEF Replaying
    <3> QED BY <2>3, <3>2, <3>3 DEF got
  <2> QED BY <1>2, <2>1, <2>6 DEF Readers
<1>10. ASSUME FinishRead PROVE Types' /\ Reads
  <2>1. Reads /\ reader' = Idle
    BY <1>10 DEF FinishRead, Reads, PlayerFrame, grapher, pipelines, extraction, destroying, writer, disk
  <2> QED BY <1>2, <1>3, <2>1
<1>11. Reads => PlayerFrame
  BY DEF Reads
<1> QED BY <1>5, <1>6, <1>7, <1>8, <1>9, <1>10, <1>11 DEF PlayerStep

\* A step of the player keeps the custody.
LEMMA PlayerKeeps ==
  ASSUME PlayerFrame, CustodyInv
  PROVE  CustodyInv'
<1> SUFFICES ASSUME NEW g \in Graphers PROVE Custody(g)'
  BY DEF CustodyInv
<1>1. Bystander(g)
  BY DEF Bystander, PlayerFrame
<1> QED BY <1>1, BystanderKeeps DEF CustodyInv
-----------------------------------------------------------------------------
(* Processes and time                                                      *)

\* a name that windowFileName will not make again
Known(f) == f.start <= started[f.g] /\ (up[f.g] /\ f.start = started[f.g] => f.n < sequence[f.g])

\* The file a stream holds is the one it wrote for its chunk, not yet under a
\* synced name before syncParentDirectories.
HoldsFile(x) ==
  /\ stream[x].file.g = home[x] /\ stream[x].file.start = started[home[x]] /\ stream[x].file.n < sequence[home[x]]
  /\ stream[x].file.w = stream[x].chunk.w /\ stream[x].file.inc = stream[x].chunk.inc
  /\ stream[x].pc = "names" => stream[x].file \notin named

\* Names are made once: files on the disk, files a worker removes and the
\* files the streams hold.
NamesInv ==
  /\ named \subseteq files /\ \A f \in files : Known(f)
  /\ \A g \in Graphers : worker[g].pc = "remove" => \A f \in worker[g].files : Known(f)
  /\ \A x \in DOMAIN home : stream[x].pc \in Holding => HoldsFile(x)
  /\ \A x, y \in DOMAIN home :
       x # y /\ stream[x].pc \in Holding /\ stream[y].pc \in Holding => stream[x].file # stream[y].file

\* A grapher's process is gone.
Away(g) ==
  /\ ~up'[g] /\ incarnation'[g] = 0 /\ pipe'[g] = [s \in Stories |-> NoPipe]
  /\ extractionQueue'[g] = <<>> /\ retiring'[g] = <<>> /\ destroyQueue'[g] = <<>> /\ worker'[g] = Idle
  /\ \A x \in StreamsOf(g) : stream'[x] = Idle
  /\ started'[g] = started[g] /\ g \notin broadcast'.to /\ doomed'[g] = [s \in Stories |-> 0]
  /\ home' = home /\ now' = now /\ gone' = gone /\ live' = live /\ raced' = raced

\* What it leaves is in order.
LEMMA AwayKeeps ==
  ASSUME NEW g \in Graphers, Custody(g), Away(g), \A f \in files' : f \in files
  PROVE  Custody(g)'
<1>1. Held(g)' = {} /\ \A k : Unstashed(g, k)' = {}
  <2>1. Range(<<>>) = {} /\ DOMAIN <<>> = {}
    BY DEF Range
  <2>2. \A k : InTasks(g, k)' = {}
    BY <2>1 DEF InTasks, Away
  <2>3. InStreams(g)' = {}
    BY DEF InStreams, StreamsOf, Away, Idle
  <2> QED BY <2>1, <2>2, <2>3 DEF Held, Unstashed, Away
<1>2. Numbered(g)'
  BY <1>1 DEF Numbered
<1>3. Empties(g)'
  <2>1. StreamsOf(g)' = StreamsOf(g)
    BY DEF StreamsOf, Away
  <2> QED BY <1>1, <2>1 DEF Empties, Away
<1>4. QueueFence(g)'
  BY DEF QueueFence, Away
<1>5. WorkerFence(g)'
  BY DEF WorkerFence, Away, Idle, TaskPcs
<1>6. GoneFence(g)'
  BY DEF Custody, GoneFence, Away
<1>7. Starts(g)'
  BY DEF Custody, Starts, Away
<1> QED BY <1>2, <1>3, <1>4, <1>5, <1>6, <1>7 DEF Custody

\* Crash in what the proofs need of it
Crashed(g) ==
  /\ up[g] /\ Away(g) /\ UNCHANGED <<files, named, log, exiting, tail, index, maxSpan, reader>>
  /\ \A h \in Graphers \ {g} :
       /\ up'[h] = up[h] /\ incarnation'[h] = incarnation[h] /\ pipe'[h] = pipe[h] /\ retiring'[h] = retiring[h]
       /\ extractionQueue'[h] = extractionQueue[h] /\ destroyQueue'[h] = destroyQueue[h] /\ worker'[h] = worker[h]
       /\ doomed'[h] = doomed[h] /\ needsNewline'[h] = needsNewline[h] /\ sequence'[h] = sequence[h]
       /\ started'[h] = started[h]
  /\ \A x \in Streams \ StreamsOf(g) : stream'[x] = stream[x]
  /\ broadcast' = [broadcast EXCEPT !.to = @ \ {g}]

\* Crash is a crash in this sense.
LEMMA CrashEffect ==
  ASSUME Types, NEW g \in Graphers, Crash(g)
  PROVE  Crashed(g) /\ Types'
<1>1. /\ incarnation \in [Graphers -> Nat] /\ pipe \in [Graphers -> [Stories -> Pipes]] /\ up \in [Graphers -> BOOLEAN]
      /\ doomed \in [Graphers -> [Stories -> Nat]] /\ broadcast \in Broadcasts
      /\ sequence \in [Graphers -> Nat] /\ needsNewline \in [Graphers -> BOOLEAN]
      /\ DOMAIN home \subseteq Streams
  BY DEF Types, ProcessTypes
<1>2. /\ extractionQueue \in [Graphers -> Seq(Chunk)] /\ retiring \in [Graphers -> Seq(Chunk)]
      /\ destroyQueue \in [Graphers -> Seq(Tasks)] /\ stream \in [Streams -> StreamStates]
      /\ worker \in [Graphers -> WorkerStates]
  BY DEF Types, QueueTypes, HandTypes
<1>3. Empty(g) /\ up[g] /\ UNCHANGED <<home, now, started, exiting, gone, files, named, log, tail, index, maxSpan, reader, live, raced>>
  BY DEF Crash, disk, player
<1>4. /\ up' = [up EXCEPT ![g] = FALSE] /\ incarnation' = [incarnation EXCEPT ![g] = 0]
      /\ pipe' = [pipe EXCEPT ![g] = [s \in Stories |-> NoPipe]]
      /\ extractionQueue' = [extractionQueue EXCEPT ![g] = <<>>] /\ retiring' = [retiring EXCEPT ![g] = <<>>]
      /\ destroyQueue' = [destroyQueue EXCEPT ![g] = <<>>] /\ worker' = [worker EXCEPT ![g] = Idle]
      /\ needsNewline' = [needsNewline EXCEPT ![g] = FALSE] /\ sequence' = [sequence EXCEPT ![g] = 0]
      /\ doomed' = [doomed EXCEPT ![g] = [s \in Stories |-> 0]]
      /\ stream' = [x \in Streams |-> IF x \in StreamsOf(g) THEN Idle ELSE stream[x]]
      /\ broadcast' = [broadcast EXCEPT !.to = @ \ {g}]
  BY <1>3 DEF Empty
<1>5. \A x \in StreamsOf(g) : x \in Streams
  BY <1>1 DEF StreamsOf
<1>6. g \notin broadcast'.to /\ broadcast' \in Broadcasts
  BY <1>1, <1>4 DEF Broadcasts
<1>7. Away(g)
  <2>1. /\ ~up'[g] /\ incarnation'[g] = 0 /\ pipe'[g] = [s \in Stories |-> NoPipe]
        /\ extractionQueue'[g] = <<>> /\ retiring'[g] = <<>> /\ destroyQueue'[g] = <<>> /\ worker'[g] = Idle
        /\ doomed'[g] = [s \in Stories |-> 0]
    BY <1>1, <1>2, <1>4
  <2>2. \A x \in StreamsOf(g) : stream'[x] = Idle
    BY <1>4, <1>5
  <2> QED BY <1>3, <1>6, <2>1, <2>2 DEF Away
<1>8. ASSUME NEW h \in Graphers \ {g}
      PROVE  /\ up'[h] = up[h] /\ incarnation'[h] = incarnation[h] /\ pipe'[h] = pipe[h] /\ retiring'[h] = retiring[h]
             /\ extractionQueue'[h] = extractionQueue[h] /\ destroyQueue'[h] = destroyQueue[h] /\ worker'[h] = worker[h]
             /\ doomed'[h] = doomed[h] /\ needsNewline'[h] = needsNewline[h] /\ sequence'[h] = sequence[h]
             /\ started'[h] = started[h]
  BY <1>1, <1>2, <1>3, <1>4
<1>9. \A x \in Streams \ StreamsOf(g) : stream'[x] = stream[x]
  BY <1>4
<1>10. Crashed(g)
  BY <1>3, <1>4, <1>7, <1>8, <1>9 DEF Crashed
<1>11. ProcessTypes'
  <2>1. [s \in Stories |-> NoPipe] \in [Stories -> Pipes] /\ \A s \in Stories : PipeOf(NoPipe, s, 0)
    BY NoPipeOf
  <2>2. [s \in Stories |-> 0] \in [Stories -> Nat]
    OBVIOUS
  <2>3. /\ incarnation' \in [Graphers -> Nat] /\ pipe' \in [Graphers -> [Stories -> Pipes]] /\ up' \in [Graphers -> BOOLEAN]
        /\ doomed' \in [Graphers -> [Stories -> Nat]]
        /\ sequence' \in [Graphers -> Nat] /\ needsNewline' \in [Graphers -> BOOLEAN]
    BY <1>1, <1>4, <2>1, <2>2
  <2>4. ASSUME NEW h \in Graphers, NEW s \in Stories PROVE PipeOf(pipe'[h][s], s, incarnation'[h])
    <3>1. CASE h = g
      BY <1>7, <2>1, <3>1 DEF Away
    <3>2. CASE h # g
      BY <1>8, <3>2 DEF Types, ProcessTypes
    <3> QED BY <3>1, <3>2
  <2> QED BY <1>3, <1>6, <2>3, <2>4 DEF Types, ProcessTypes
<1>12. QueueTypes' /\ HandTypes'
  <2>1. <<>> \in Seq(Chunk) /\ <<>> \in Seq(Tasks) /\ Idle \in StreamStates /\ Idle \in WorkerStates
    BY EmptySeq DEF StreamStates, WorkerStates
  <2> QED BY <1>2, <1>4, <2>1 DEF QueueTypes, HandTypes
<1>13. DiskTypes' /\ PlayerTypes'
  BY <1>3 DEF Types, DiskTypes, PlayerTypes
<1> QED BY <1>10, <1>11, <1>12, <1>13 DEF Types

\* A crash keeps the custody.
LEMMA CrashKeeps ==
  ASSUME Types, CustodyInv, NEW g \in Graphers, Crashed(g)
  PROVE  CustodyInv'
<1>1. ASSUME NEW h \in Graphers, h # g PROVE Custody(h)'
  <2>1. \A x \in StreamsOf(h) : x \in Streams \ StreamsOf(g)
    BY <1>1 DEF StreamsOf, Types, ProcessTypes
  <2>2. h \in broadcast'.to => h \in broadcast.to
    BY DEF Crashed, Types, ProcessTypes, Broadcasts
  <2>3. Bystander(h)
    BY <1>1, <2>1, <2>2 DEF Bystander, Crashed, Away
  <2> QED BY <2>3, BystanderKeeps DEF CustodyInv
<1>2. Custody(g)'
  BY AwayKeeps DEF CustodyInv, Crashed
<1> QED BY <1>1, <1>2 DEF CustodyInv

\* What a power loss leaves of a log: its synced lines are whole, and no line
\* says what it did not say before.
Left(L, M) ==
  /\ M \in Seq(Items)
  /\ \A i \in DOMAIN M : /\ i \in DOMAIN L /\ M[i].nl = L[i].nl /\ (M[i].rec = L[i].rec \/ M[i].rec = Cut)
                         /\ (i + 1 \in DOMAIN M => M[i].ended = L[i].ended)
  /\ \A i \in DOMAIN L : L[i].at = "synced" =>
       i \in DOMAIN M /\ M[i].rec = L[i].rec /\ M[i].ended = L[i].ended /\ M[i].at = "synced"

\* Remains leaves logs so.
LEMMA RemainsLeft ==
  ASSUME NEW L \in Seq(Items), NEW M \in Remains(L)
  PROVE  Left(L, M)
<1> DEFINE ends == {n \in 0..Len(L) : \A i \in n + 1..Len(L) : L[i].at = "dirty"}
           doubt == {i \in DOMAIN L : L[i].at = "doubt"}
<1>1. Len(L) \in Nat /\ DOMAIN L = 1 .. Len(L) /\ \A i \in 1 .. Len(L) : L[i] \in Items
  BY LenProperties, ElementOfSeq
<1>2. PICK n \in ends, bad \in SUBSET doubt :
        M = Kept(L, n, bad) \/ (n # Len(L) /\ M = Append(Kept(L, n, bad), Torn(L, n)))
  BY DEF Remains
<1> DEFINE K == Kept(L, n, bad)
           k(i) == [L[i] EXCEPT !.at = IF @ = "doubt" THEN @ ELSE "synced", !.rec = IF i \in bad THEN Cut ELSE @]
<1>3. /\ n \in Nat /\ n <= Len(L) /\ \A i \in DOMAIN L : i > n => L[i].at = "dirty"
      /\ \A i \in bad : L[i].at = "doubt"
  <2>1. n \in 0..Len(L) /\ \A i \in n + 1..Len(L) : L[i].at = "dirty"
    OBVIOUS
  <2>2. \A i \in bad : L[i].at = "doubt"
    OBVIOUS
  <2> HIDE DEF ends, doubt
  <2> QED BY <1>1, <2>1, <2>2
<1> HIDE DEF ends, doubt
<1>4. ASSUME NEW i \in 1..n
      PROVE  /\ k(i) \in Items /\ k(i).nl = L[i].nl /\ k(i).ended = L[i].ended /\ i \in DOMAIN L
             /\ k(i).rec = L[i].rec \/ k(i).rec = Cut
             /\ L[i].at = "synced" => k(i).rec = L[i].rec /\ k(i).at = "synced"
  <2>1. L[i] \in Items /\ i \in DOMAIN L
    BY <1>1, <1>3
  <2>2. Cut \in Records
    BY DEF Records
  <2>3. L[i].at = "synced" => i \notin bad
    BY <1>3
  <2> QED BY <2>1, <2>2, <2>3 DEF Items, Ats
<1>5. DOMAIN K = 1..n /\ \A i \in 1..n : K[i] = k(i)
  BY DEF Kept
<1> HIDE DEF k
<1>6. K \in Seq(Items) /\ Len(K) = n
  <2>1. K \in [1..n -> Items]
    BY <1>4, <1>5 DEF Kept, k
  <2>2. K \in Seq(Items)
    BY <1>3, <2>1, SeqDef
  <2> QED BY <1>3, <1>5, <2>2, LenProperties
<1> HIDE DEF K
<1>7. \A i \in DOMAIN L : L[i].at = "synced" => i \in 1..n
  BY <1>1, <1>3
<1>8. CASE M = K
  BY <1>4, <1>5, <1>6, <1>7, <1>8 DEF Left
<1>9. CASE n # Len(L) /\ M = Append(K, Torn(L, n))
  <2> DEFINE t == Torn(L, n)
  <2>1. n + 1 \in DOMAIN L /\ L[n + 1] \in Items
    BY <1>1, <1>3, <1>9
  <2>2. t \in Items /\ t.nl = L[n + 1].nl /\ t.rec = Cut
    <3>1. Cut \in Records
      BY DEF Records
    <3> QED BY <2>1, <3>1 DEF Torn, Items, Ats
  <2> HIDE DEF t
  <2>3. /\ M \in Seq(Items) /\ DOMAIN M = 1 .. (n + 1) /\ \A i \in 1..n : M[i] = K[i]
        /\ M[n + 1] = t
    BY <1>5, <1>6, <1>9, <2>2, Appended DEF t
  <2>4. ASSUME NEW i \in DOMAIN M
        PROVE  /\ i \in DOMAIN L /\ M[i].nl = L[i].nl /\ (M[i].rec = L[i].rec \/ M[i].rec = Cut)
               /\ (i + 1 \in DOMAIN M => M[i].ended = L[i].ended)
    <3>1. CASE i \in 1..n
      BY <1>4, <1>5, <2>3, <3>1
    <3>2. CASE i = n + 1
      <4>1. i + 1 \notin DOMAIN M
        BY <1>3, <2>3, <3>2
      <4> QED BY <2>1, <2>2, <2>3, <3>2, <4>1
    <3>3. i \in 1..n \/ i = n + 1
      BY <1>3, <2>3
    <3> QED BY <3>1, <3>2, <3>3
  <2>5. ASSUME NEW i \in DOMAIN L, L[i].at = "synced"
        PROVE  i \in DOMAIN M /\ M[i].rec = L[i].rec /\ M[i].ended = L[i].ended /\ M[i].at = "synced"
    <3>1. i \in 1..n
      BY <1>7, <2>5
    <3>2. i \in DOMAIN M
      BY <1>3, <2>3, <3>1
    <3> QED BY <1>4, <1>5, <2>3, <2>5, <3>1, <3>2
  <2> QED BY <2>3, <2>4, <2>5 DEF Left
<1> QED BY <1>2, <1>8, <1>9 DEF K

\* PowerLoss in what the proofs need of it
Lost ==
  /\ \A g \in Graphers : Away(g) /\ Left(log[g], log'[g])
  /\ files' = named' /\ named \subseteq named' /\ named' \subseteq named \cup files
  /\ stream' = [x \in Streams |-> Idle] /\ reader' = Idle
  /\ tail' = [g \in Graphers |-> 0] /\ index' = {} /\ maxSpan' = [s \in Stories |-> 0]
  /\ broadcast' = [broadcast EXCEPT !.to = {}] /\ UNCHANGED <<home, now, started, gone, live, raced>>

\* PowerLoss is a loss in this sense.
LEMMA LossEffect ==
  ASSUME Types, PowerLoss
  PROVE  Lost /\ Types'
<1>1. /\ log \in [Graphers -> Seq(Items)] /\ DOMAIN home \subseteq Streams /\ broadcast \in Broadcasts
      /\ files \subseteq File /\ named \subseteq File
  BY DEF Types, DiskTypes, ProcessTypes
<1>2. /\ up' = [g \in Graphers |-> FALSE] /\ stream' = [x \in Streams |-> Idle]
      /\ pipe' = [g \in Graphers |-> [s \in Stories |-> NoPipe]] /\ incarnation' = [g \in Graphers |-> 0]
      /\ extractionQueue' = [g \in Graphers |-> <<>>] /\ retiring' = [g \in Graphers |-> <<>>]
      /\ destroyQueue' = [g \in Graphers |-> <<>>] /\ worker' = [g \in Graphers |-> Idle]
      /\ needsNewline' = [g \in Graphers |-> FALSE]
      /\ sequence' = [g \in Graphers |-> 0] /\ broadcast' = [broadcast EXCEPT !.to = {}]
      /\ doomed' = [g \in Graphers |-> [s \in Stories |-> 0]]
      /\ tail' = [g \in Graphers |-> 0] /\ index' = {} /\ maxSpan' = [s \in Stories |-> 0] /\ reader' = Idle
      /\ UNCHANGED <<home, now, started, gone, live, raced>>
  BY DEF PowerLoss
<1>3. PICK keep \in SUBSET (files \ named), L \in [Graphers -> UNION {Remains(log[g]) : g \in Graphers}] :
       /\ \A g \in Graphers : L[g] \in Remains(log[g])
       /\ files' = named \cup keep /\ named' = named \cup keep /\ log' = L
  BY DEF PowerLoss
<1>4. \A g \in Graphers : Left(log[g], log'[g])
  BY <1>1, <1>3, RemainsLeft
<1>5. log' \in [Graphers -> Seq(Items)]
  BY <1>3, <1>4 DEF Left
<1>6. broadcast' \in Broadcasts /\ broadcast'.to = {}
  BY <1>1, <1>2 DEF Broadcasts
<1>7. ASSUME NEW g \in Graphers PROVE Away(g)
  <2>1. \A x \in StreamsOf(g) : x \in Streams
    BY <1>1 DEF StreamsOf
  <2> QED BY <1>2, <1>6, <2>1 DEF Away
<1>8. Lost
  BY <1>2, <1>3, <1>4, <1>7 DEF Lost
<1>9. ProcessTypes'
  <2>1. [s \in Stories |-> NoPipe] \in [Stories -> Pipes] /\ \A s \in Stories : PipeOf(NoPipe, s, 0)
    BY NoPipeOf
  <2> QED BY <1>2, <1>6, <2>1 DEF Types, ProcessTypes
<1>10. QueueTypes' /\ HandTypes'
  <2>1. <<>> \in Seq(Chunk) /\ <<>> \in Seq(Tasks) /\ Idle \in StreamStates /\ Idle \in WorkerStates
    BY EmptySeq DEF StreamStates, WorkerStates
  <2> QED BY <1>2, <2>1 DEF QueueTypes, HandTypes
<1>11. DiskTypes' /\ PlayerTypes'
  BY <1>1, <1>2, <1>3, <1>5 DEF Types, DiskTypes, PlayerTypes, Readers
<1> QED BY <1>8, <1>9, <1>10, <1>11 DEF Types

\* A power loss keeps the custody.
LEMMA LossKeeps ==
  ASSUME CustodyInv, Lost, named \subseteq files
  PROVE  CustodyInv'
<1> SUFFICES ASSUME NEW g \in Graphers PROVE Custody(g)'
  BY DEF CustodyInv
<1>1. Away(g) /\ \A f \in files' : f \in files
  BY DEF Lost
<1> QED BY <1>1, AwayKeeps DEF CustodyInv

\* open in what the proofs need of it
Opened(g) ==
  /\ ~up[g] /\ up' = [up EXCEPT ![g] = TRUE] /\ started' = [started EXCEPT ![g] = started[g] + 1]
  /\ Moved(g, "dirty", "synced") /\ needsNewline' = [needsNewline EXCEPT ![g] = endsWithoutNewline(log[g])]
  /\ UNCHANGED <<home, now, incarnation, pipe, extractionQueue, retiring, stream, destroyQueue, worker, exiting, broadcast,
                 gone, doomed, sequence, files, named, tail, index, maxSpan, reader, live, raced>>

\* open is an opening in this sense.
LEMMA OpenEffect ==
  ASSUME Types, NEW g \in Graphers, open(g)
  PROVE  Opened(g) /\ Types'
<1>1. Move(g, "dirty", "synced") /\ "synced" \in Ats
  BY DEF open, Ats
<1>2. Moved(g, "dirty", "synced")
  BY <1>1, MovedLines
<1>3. Opened(g)
  BY <1>2 DEF open, Opened, pipelines, extraction, destroying, player
<1>4. endsWithoutNewline(log[g]) \in BOOLEAN
  BY DEF endsWithoutNewline
<1>5. started \in [Graphers -> Nat] /\ up \in [Graphers -> BOOLEAN] /\ needsNewline \in [Graphers -> BOOLEAN]
  BY DEF Types, ProcessTypes
<1>6. started' \in [Graphers -> Nat] /\ up' \in [Graphers -> BOOLEAN] /\ needsNewline' \in [Graphers -> BOOLEAN]
  BY <1>3, <1>4, <1>5 DEF Opened
<1>7. ProcessTypes'
  BY <1>3, <1>6 DEF Types, ProcessTypes, Opened
<1>8. QueueTypes' /\ HandTypes' /\ DiskTypes' /\ PlayerTypes'
  BY <1>3 DEF Types, QueueTypes, HandTypes, DiskTypes, PlayerTypes, Opened, Moved
<1> QED BY <1>3, <1>7, <1>8 DEF Types

\* A process that starts keeps the custody.
LEMMA OpenKeeps ==
  ASSUME Types, CustodyInv, NEW g \in Graphers, Opened(g)
  PROVE  CustodyInv'
<1>1. started \in [Graphers -> Nat] /\ up \in [Graphers -> BOOLEAN]
  BY DEF Types, ProcessTypes
<1>2. ASSUME NEW h \in Graphers, h # g PROVE Custody(h)'
  <2>1. Bystander(h)
    BY <1>1, <1>2 DEF Bystander, Opened
  <2> QED BY <2>1, BystanderKeeps DEF CustodyInv
<1>3. /\ up'[g] /\ started[g] \in Nat /\ started'[g] = started[g] + 1 /\ Custody(g)
      /\ worker'[g] = Idle /\ destroyQueue'[g] = <<>> /\ gone' = gone /\ files' = files /\ raced' = raced
  BY <1>1 DEF Opened, CustodyInv, Custody, Empties
<1>4. Held(g)' = {}
  <2>1. Held(g)' = Held(g)
    BY DEF Held, Unstashed, InTasks, InStreams, StreamsOf, Opened
  <2> QED BY <1>3, <2>1 DEF Custody, Empties, Opened
<1>5. Numbered(g)' /\ Empties(g)'
  BY <1>3, <1>4 DEF Numbered, Empties
<1>6. QueueFence(g)' /\ WorkerFence(g)'
  BY <1>3 DEF QueueFence, WorkerFence, TaskPcs, Idle
<1>7. GoneFence(g)'
  <2> SUFFICES ASSUME NEW d \in gone', d.g = g
               PROVE  /\ d.start <= started'[g] /\ d.start # started'[g]
                      /\ \A f \in files' : f.g = g /\ f.start = d.start /\ StoryOf[f.w] \in d.stories
                                           /\ f.inc <= d.bound => [g |-> g, start |-> f.start, inc |-> f.inc] \in raced'
    BY DEF GoneFence
  <2>1. d \in gone /\ d.start <= started[g] /\ d.start \in Nat
    BY <1>3 DEF Custody, GoneFence, Types, DiskTypes, Dones
  <2>2. \A f \in files : f.g = g /\ f.start = d.start /\ StoryOf[f.w] \in d.stories /\ f.inc <= d.bound =>
         [g |-> g, start |-> f.start, inc |-> f.inc] \in raced
    BY <1>3, <2>1 DEF Custody, GoneFence
  <2> QED BY <1>3, <2>1, <2>2
<1>8. Starts(g)'
  BY <1>3 DEF Custody, Starts, Types, DiskTypes, File
<1> QED BY <1>2, <1>3, <1>5, <1>6, <1>7, <1>8 DEF CustodyInv, Custody

\* BroadcastDestroy, a grapher's shutdown and a clock tick in what the proofs need of them
Sent(D) ==
  /\ broadcast.to = {} /\ D \in SUBSET Stories
  /\ broadcast' \in Broadcasts /\ broadcast'.stories = D /\ broadcast'.at = now
  /\ \A g \in broadcast'.to : up[g]
  /\ doomed' = [g \in Graphers |-> Doom(g, D)]
  /\ live' = {r \in live : StoryOf[r.w] \notin D}
  /\ reader' = IF reader.pc = "idle" THEN reader
               ELSE [reader EXCEPT !.due = {w \in @ : StoryOf[w] \notin D}]
  /\ UNCHANGED <<home, now, started, up, incarnation, pipe, extractionQueue, retiring, stream, destroyQueue, worker,
                 exiting, gone, needsNewline, sequence, files, named, log, tail, index, maxSpan, raced>>
Ended(g) ==
  /\ up[g] /\ broadcast' = [broadcast EXCEPT !.to = @ \ {g}]
  /\ UNCHANGED <<home, now, started, up, incarnation, pipe, extractionQueue, retiring, stream, destroyQueue, worker,
                 gone, doomed, needsNewline, sequence, files, named, log, tail, index, maxSpan, reader, live, raced>>
Elapsed ==
  /\ broadcast.to # {} => now < broadcast.at + Margin
  /\ now' = now + 1
  /\ UNCHANGED <<home, started, up, incarnation, pipe, extractionQueue, retiring, stream, destroyQueue, worker,
                 exiting, broadcast, gone, doomed, needsNewline, sequence, files, named, log, tail, index, maxSpan, reader,
                 live, raced>>

\* BroadcastDestroy sends.
LEMMA SentEffect ==
  ASSUME Types, NEW D \in SUBSET Stories, NEW whole \in BOOLEAN, BroadcastDestroy(D, whole)
  PROVE  Sent(D) /\ Types'
<1>1. now \in Nat /\ broadcast' = [stories |-> D, whole |-> whole, to |-> {g \in Graphers : up[g] /\ ~exiting[g]}, at |-> now]
  BY DEF BroadcastDestroy, Types, ProcessTypes
<1>2. /\ broadcast' \in Broadcasts /\ broadcast'.stories = D /\ broadcast'.at = now
      /\ \A g \in broadcast'.to : up[g]
  BY <1>1 DEF Broadcasts
<1>3. Sent(D)
  BY <1>2 DEF BroadcastDestroy, Sent, grapher, pipelines, extraction, writer, disk
<1>4. doomed' \in [Graphers -> [Stories -> Nat]]
  BY <1>3 DEF Sent, Doom, Types, ProcessTypes
<1>5. reader' \in Readers
  <2>1. reader \in Readers
    BY DEF Types, PlayerTypes
  <2>2. CASE reader.pc = "idle"
    BY <1>3, <2>1, <2>2 DEF Sent
  <2>3. CASE reader.pc # "idle"
    <3>1. reader \in Replaying
      BY <2>1, <2>3, ReaderStateOf
    <3> DEFINE due == {w \in reader.due : StoryOf[w] \notin D}
    <3>2. due \subseteq Windows
      BY <3>1 DEF Replaying
    <3>3. reader' = [reader EXCEPT !.due = due]
      BY <1>3, <2>3 DEF Sent
    <3> HIDE DEF due
    <3>4. reader' \in Replaying
      BY <3>1, <3>2, <3>3 DEF Replaying
    <3> QED BY <3>4 DEF Readers
  <2> QED BY <2>2, <2>3
<1>6. ProcessTypes'
  BY <1>2, <1>3, <1>4 DEF Types, ProcessTypes, Sent
<1>7. QueueTypes' /\ HandTypes' /\ DiskTypes' /\ PlayerTypes'
  BY <1>3, <1>5 DEF Types, QueueTypes, HandTypes, DiskTypes, PlayerTypes, Sent
<1> QED BY <1>3, <1>6, <1>7 DEF Types

\* shutdownDataCollection ends the grapher's collecting.
LEMMA EndedEffect ==
  ASSUME Types, NEW g \in Graphers, shutdownDataCollection(g)
  PROVE  Ended(g) /\ Types'
<1>1. Ended(g)
  BY DEF shutdownDataCollection, Ended, grapher, pipelines, extraction, writer, disk, player
<1>2. broadcast' \in Broadcasts
  BY <1>1 DEF Ended, Types, ProcessTypes, Broadcasts
<1>3. ProcessTypes'
  BY <1>1, <1>2 DEF Types, ProcessTypes, Ended
<1>4. QueueTypes' /\ HandTypes' /\ DiskTypes' /\ PlayerTypes'
  BY <1>1 DEF Types, QueueTypes, HandTypes, DiskTypes, PlayerTypes, Ended
<1> QED BY <1>1, <1>3, <1>4 DEF Types

\* Tick lets time pass.
LEMMA ElapsedEffect ==
  ASSUME Types, Tick
  PROVE  Elapsed /\ Types'
<1>1. Elapsed
  BY DEF Tick, Elapsed, grapher, pipelines, extraction, destroying, writer, disk, player
<1>2. ProcessTypes'
  BY <1>1 DEF Types, ProcessTypes, Elapsed
<1>3. QueueTypes' /\ HandTypes' /\ DiskTypes' /\ PlayerTypes'
  BY <1>1 DEF Types, QueueTypes, HandTypes, DiskTypes, PlayerTypes, Elapsed
<1> QED BY <1>1, <1>2, <1>3 DEF Types

\* They keep the custody.
LEMMA OutsideKeeps ==
  ASSUME Types, CustodyInv, (\E D : Sent(D)) \/ (\E g \in Graphers : Ended(g)) \/ Elapsed
  PROVE  CustodyInv'
<1> SUFFICES ASSUME NEW h \in Graphers PROVE Bystander(h)
  BY BystanderKeeps DEF CustodyInv
<1>1. ASSUME NEW D, Sent(D) PROVE Bystander(h)
  BY <1>1 DEF Bystander, Sent
<1>2. ASSUME NEW g \in Graphers, Ended(g) PROVE Bystander(h)
  <2>1. h \in broadcast'.to => h \in broadcast.to
    BY <1>2 DEF Ended, Types, ProcessTypes, Broadcasts
  <2> QED BY <1>2, <2>1 DEF Bystander, Ended
<1>3. CASE Elapsed
  BY <1>3 DEF Bystander, Elapsed
<1> QED BY <1>1, <1>2, <1>3

-----------------------------------------------------------------------------
(* Names are made once                                                     *)

\* Files come and go without a name being made.
LEMMA NamesSame ==
  ASSUME NamesInv, UNCHANGED <<home, started, up, sequence, stream>>,
         files' \subseteq files, named' \subseteq named, named' \subseteq files',
         \A h \in Graphers : worker'[h].pc = "remove" => \A f \in worker'[h].files :
           f \in files \/ (worker[h].pc = "remove" /\ f \in worker[h].files)
  PROVE  NamesInv'
<1>1. \A f : Known(f)' = Known(f)
  BY DEF Known
<1>2. named' \subseteq files' /\ \A f \in files' : Known(f)'
  BY <1>1 DEF NamesInv
<1>3. \A g \in Graphers : worker'[g].pc = "remove" => \A f \in worker'[g].files : Known(f)'
  BY <1>1 DEF NamesInv
<1>4. \A x \in DOMAIN home' : stream'[x].pc \in Holding => HoldsFile(x)'
  BY DEF NamesInv, HoldsFile
<1>5. \A x, y \in DOMAIN home' :
       x # y /\ stream'[x].pc \in Holding /\ stream'[y].pc \in Holding => stream'[x].file # stream'[y].file
  BY DEF NamesInv
<1> QED BY <1>2, <1>3, <1>4, <1>5 DEF NamesInv

\* A worker's steps
LEMMA WorkerNames ==
  ASSUME Types, NEW g \in Graphers, WorkerStep(g), NamesInv
  PROVE  NamesInv'
<1>1. worker \in [Graphers -> WorkerStates]
  BY DEF Types, HandTypes
<1>2. PICK v : Hand(g, v)
  BY WorkerEffect DEF Take, List, Unlink, GiveUp, Record, Settle
<1>3. /\ UNCHANGED <<home, started, up, sequence, stream>> /\ worker'[g] = v
      /\ \A h \in Graphers \ {g} : worker'[h] = worker[h]
  BY <1>1, <1>2 DEF Hand
<1>4. files' \subseteq files /\ named' \subseteq named /\ named' \subseteq files'
  BY WorkerEffect DEF Take, List, Unlink, GiveUp, Record, Settle, NamesInv
<1>5. worker'[g].pc = "remove" => \A f \in worker'[g].files :
        f \in files \/ (worker[g].pc = "remove" /\ f \in worker[g].files)
  <2>1. ASSUME Take(g) PROVE worker'[g].pc # "remove"
    BY <1>1, <2>1 DEF Take, Hand
  <2>2. ASSUME GiveUp(g) \/ Settle(g) PROVE worker'[g].pc # "remove"
    BY <1>1, <2>2 DEF GiveUp, Settle, Hand, Idle
  <2>3. ASSUME Record(g) PROVE worker'[g].pc # "remove"
    <3>1. CASE Hand(g, Idle)
      BY <1>1, <3>1 DEF Hand, Idle
    <3>2. ASSUME NEW i, Hand(g, [pc |-> "sync", at |-> i]) PROVE worker'[g].pc # "remove"
      BY <1>1, <3>2 DEF Hand
    <3> QED BY <2>3, <3>1, <3>2 DEF Record
  <2>4. ASSUME List(g) PROVE worker'[g].files \subseteq files
    <3>1. worker[g] \in Busy
      BY <1>1, <2>4, WorkerStateOf DEF List, TaskPcs
    <3>2. worker'[g].files = Listed(g)
      BY <1>1, <2>4, <3>1 DEF List, Hand, Busy
    <3> QED BY <3>2 DEF Listed
  <2>5. ASSUME NEW f \in File, Unlink(g, f) PROVE worker[g].pc = "remove" /\ worker'[g].files \subseteq worker[g].files
    <3>1. worker[g] \in Busy
      BY <1>1, <2>5, WorkerStateOf DEF Unlink, TaskPcs
    <3>2. worker'[g].files = worker[g].files \ {f}
      BY <1>1, <2>5, <3>1 DEF Unlink, Hand, Busy
    <3> QED BY <2>5, <3>2 DEF Unlink
  <2> QED BY <2>1, <2>2, <2>3, <2>4, <2>5, WorkerEffect
<1> QED BY <1>3, <1>4, <1>5, NamesSame

\* the file in a stream's new state
NewFile(x, v) ==
  /\ v.file.g = home[x] /\ v.file.start = started[home[x]] /\ v.file.n < sequence'[home[x]]
  /\ v.file.w = v.chunk.w /\ v.file.inc = v.chunk.inc
  /\ v.pc = "names" => v.file \notin named'
  /\ \A y \in DOMAIN home \ {x} : stream[y].pc \in Holding => stream[y].file # v.file

\* A stream's step, given the file in its new state
LEMMA NamesGo ==
  ASSUME Types, Types', NamesInv, NEW x \in DOMAIN home, NEW v, Go(x, v),
         \A g \in Graphers : sequence[g] <= sequence'[g], named' \subseteq files',
         \A f \in files' : f \in files \/ (v.pc \in Holding /\ f = v.file),
         \A f \in named' : f \in named \/ (stream[x].pc \in Holding /\ f = stream[x].file),
         v.pc \in Holding => NewFile(x, v)
  PROVE  NamesInv'
<1>1. /\ x \in Streams /\ home[x] \in Graphers /\ stream \in [Streams -> StreamStates] /\ DOMAIN home \subseteq Streams
      /\ \A y \in DOMAIN home : home[y] \in Graphers
  BY StreamTyped DEF Types, ProcessTypes
<1>2. /\ stream'[x] = v /\ (\A y \in Streams \ {x} : stream'[y] = stream[y]) /\ UNCHANGED <<home, started, up, worker>>
      /\ up[home[x]]
  BY <1>1 DEF Go
<1>3. \A g \in Graphers : sequence[g] \in Nat /\ sequence'[g] \in Nat
  BY DEF Types, ProcessTypes
<1>4. ASSUME NEW f \in File, Known(f) PROVE Known(f)'
  <2>1. f.g \in Graphers /\ f.n \in Nat
    BY DEF File
  <2>2. sequence[f.g] <= sequence'[f.g] /\ sequence[f.g] \in Nat /\ sequence'[f.g] \in Nat
    BY <1>3, <2>1
  <2>3. f.start <= started[f.g] /\ (up[f.g] /\ f.start = started[f.g] => f.n < sequence[f.g])
    BY <1>4 DEF Known
  <2> QED BY <1>2, <2>1, <2>2, <2>3 DEF Known
<1>5. ASSUME NEW f \in files' PROVE Known(f)'
  <2>1. CASE f \in files
    BY <1>4, <2>1 DEF NamesInv, Types, DiskTypes
  <2>2. CASE v.pc \in Holding /\ f = v.file
    <3>1. NewFile(x, v) /\ started[home[x]] \in Nat
      BY <1>1, <2>2 DEF Types, ProcessTypes
    <3> QED BY <1>2, <2>2, <3>1 DEF Known, NewFile
  <2> QED BY <2>1, <2>2
<1>6. ASSUME NEW g \in Graphers, worker'[g].pc = "remove", NEW f \in worker'[g].files PROVE Known(f)'
  <2>1. worker[g].pc = "remove" /\ f \in worker[g].files /\ worker[g] \in WorkerStates
    BY <1>2, <1>6 DEF Types, HandTypes
  <2>2. f \in File
    BY <2>1, WorkerStateOf DEF TaskPcs
  <2> QED BY <1>4, <2>1, <2>2 DEF NamesInv
<1>7. ASSUME NEW y \in DOMAIN home, stream'[y].pc \in Holding PROVE HoldsFile(y)'
  <2>1. CASE y = x
    BY <1>2, <1>7, <2>1 DEF NewFile, HoldsFile
  <2>2. CASE y # x
    <3>1. stream'[y] = stream[y] /\ stream[y].pc \in Holding /\ HoldsFile(y)
      BY <1>1, <1>2, <1>7, <2>2 DEF NamesInv
    <3>2. stream[y].file \in File
      BY <3>1, StreamTyped
    <3>3. stream[y].file.n < sequence'[home[y]]
      <4>1. stream[y].file.n \in Nat /\ stream[y].file.n < sequence[home[y]] /\ sequence[home[y]] <= sequence'[home[y]]
            /\ sequence[home[y]] \in Nat /\ sequence'[home[y]] \in Nat
        BY <1>1, <1>3, <3>1, <3>2 DEF HoldsFile, File
      <4> QED BY <4>1
    <3>4. stream[y].pc = "names" => stream[y].file \notin named'
      BY <2>2, <3>1 DEF NamesInv, HoldsFile
    <3> QED BY <1>2, <3>1, <3>3, <3>4 DEF HoldsFile
  <2> QED BY <2>1, <2>2
<1>8. ASSUME NEW y \in DOMAIN home, NEW z \in DOMAIN home, y # z, stream'[y].pc \in Holding, stream'[z].pc \in Holding
      PROVE  stream'[y].file # stream'[z].file
  <2>1. CASE y # x /\ z # x
    BY <1>1, <1>2, <1>8, <2>1 DEF NamesInv
  <2>2. CASE y = x
    BY <1>1, <1>2, <1>8, <2>2 DEF NewFile
  <2>3. CASE z = x
    BY <1>1, <1>2, <1>8, <2>3 DEF NewFile
  <2> QED BY <2>1, <2>2, <2>3
<1> QED BY <1>2, <1>5, <1>6, <1>7, <1>8 DEF NamesInv

\* A stream that goes on with its file
LEMMA SameFile ==
  ASSUME Types, Types', NamesInv, NEW x \in DOMAIN home, NEW v, stream[x].pc \in Holding, v.file = stream[x].file,
         v.chunk = stream[x].chunk, v.pc # "names", sequence' = sequence
  PROVE  NewFile(x, v)
<1>1. HoldsFile(x)
  BY DEF NamesInv
<1> QED BY <1>1 DEF HoldsFile, NewFile, NamesInv

\* Every step of a stream
LEMMA StreamNames ==
  ASSUME Types, NamesInv, NEW x \in DOMAIN home, StreamShape(x)
  PROVE  NamesInv'
<1> DEFINE g == home[x]
<1>1. Types' /\ g \in Graphers /\ sequence \in [Graphers -> Nat]
  BY StreamTypes, StreamTyped DEF Types, ProcessTypes
<1>2. named \subseteq files /\ \A f \in files : Known(f)
  BY DEF NamesInv
<1>3. Idle.pc = "idle" /\ Idle.pc \notin Holding
  BY DEF Idle, Holding
<1>4. ASSUME Pick(x) PROVE NamesInv'
  <2> DEFINE u == [pc |-> "write", chunk |-> Head(extractionQueue[g])]
  <2>1. UNCHANGED <<sequence, files, named>> /\ (Go(x, Idle) \/ Go(x, u))
    BY <1>4 DEF Pick
  <2>2. u.pc \notin Holding
    BY DEF Holding
  <2> HIDE DEF u
  <2> QED BY <1>1, <1>2, <1>3, <2>1, <2>2, NamesGo
<1>5. ASSUME NEW f \in File, Publish(x, f) PROVE NamesInv'
  <2> DEFINE u == [pc |-> "names", chunk |-> stream[x].chunk, file |-> f]
  <2>1. /\ stream[x].pc = "write" /\ f = windowFileName(g, stream[x].chunk) /\ Go(x, u)
        /\ sequence' = [sequence EXCEPT ![g] = @ + 1] /\ files' = files \cup {f} /\ named' = named
    BY <1>5 DEF Publish
  <2>2. stream[x].chunk \in Chunk
    BY <2>1, StreamTyped
  <2>3. f.g = g /\ f.start = started[g] /\ f.inc = stream[x].chunk.inc /\ f.w = stream[x].chunk.w /\ f.n = sequence[g]
    BY <1>1, <2>1, <2>2, NameTyped
  <2>4. /\ \A h \in Graphers : sequence[h] <= sequence'[h]
        /\ sequence'[g] = sequence[g] + 1 /\ sequence[g] \in Nat
    BY <1>1, <2>1
  <2>5. up[g]
    BY <2>1 DEF Go
  <2>6. f \notin files
    BY <1>2, <2>3, <2>4, <2>5 DEF Known
  <2>7. ASSUME NEW y \in DOMAIN home \ {x}, stream[y].pc \in Holding PROVE stream[y].file # f
    <3>1. stream[y].file.g = home[y] /\ stream[y].file.n < sequence[home[y]]
      BY <2>7 DEF NamesInv, HoldsFile
    <3> QED BY <2>3, <2>4, <3>1
  <2>8. NewFile(x, u)
    BY <1>2, <2>1, <2>3, <2>4, <2>6, <2>7 DEF NewFile
  <2>9. u.file = f /\ u.pc \in Holding
    BY DEF Holding
  <2> HIDE DEF u
  <2> QED BY <1>1, <1>2, <2>1, <2>4, <2>8, <2>9, NamesGo
<1>6. ASSUME Fail(x) PROVE NamesInv'
  <2>1. Go(x, Idle) /\ sequence' = [sequence EXCEPT ![g] = @ + 1] /\ UNCHANGED <<files, named>>
    BY <1>6 DEF Fail
  <2>2. \A h \in Graphers : sequence[h] <= sequence'[h]
    BY <1>1, <2>1
  <2> QED BY <1>1, <1>2, <1>3, <2>1, <2>2, NamesGo
<1>7. ASSUME NEW v, Go(x, v), v.pc \in Holding => NewFile(x, v), sequence' = sequence, files' \subseteq files, named' \subseteq files',
             \A f \in named' : f \in named \/ (stream[x].pc \in Holding /\ f = stream[x].file)
      PROVE  NamesInv'
  BY <1>1, <1>7, NamesGo
<1>8. ASSUME Name(x) PROVE NamesInv'
  <2> DEFINE u == [stream[x] EXCEPT !.pc = "append"]
  <2>1. stream[x].pc = "names" /\ sequence' = sequence /\ stream[x].pc \in Holding
    BY <1>8 DEF Name, Holding
  <2>2. u.chunk = stream[x].chunk /\ u.file = stream[x].file /\ u.pc = "append"
    BY <2>1, GoState
  <2>3. NewFile(x, u)
    <3> HIDE DEF u
    <3> QED BY <1>1, <2>1, <2>2, SameFile
  <2>4. stream[x].file \notin named
    BY <2>1 DEF NamesInv, HoldsFile
  <2>5. CASE Go(x, u) /\ files' = files /\ named' = named \cup ({stream[x].file} \cap files)
    <3> HIDE DEF u
    <3> QED BY <1>2, <1>7, <2>1, <2>3, <2>5
  <2>6. CASE Go(x, Idle) /\ files' = files \ {stream[x].file} /\ named' = named
    BY <1>2, <1>3, <1>7, <2>1, <2>4, <2>6
  <2> QED BY <1>8, <2>5, <2>6 DEF Name
<1>9. ASSUME NotAppended(x) PROVE NamesInv'
  <2> DEFINE u == [stream[x] EXCEPT !.pc = "remove"]
  <2>1. stream[x].pc = "append" /\ UNCHANGED <<sequence, files, named>> /\ Go(x, u) /\ stream[x].pc \in Holding
    BY <1>9 DEF NotAppended, Holding
  <2>2. u.chunk = stream[x].chunk /\ u.file = stream[x].file /\ u.pc = "remove"
    BY <2>1, GoState
  <2> HIDE DEF u
  <2>3. NewFile(x, u)
    BY <1>1, <2>1, <2>2, SameFile
  <2> QED BY <1>2, <1>7, <2>1, <2>3
<1>10. ASSUME NEW m \in Items, Append1(x, m) PROVE NamesInv'
  <2> DEFINE u == [pc |-> "sync", chunk |-> stream[x].chunk, file |-> stream[x].file, at |-> Len(log'[g])]
  <2>1. stream[x].pc = "append" /\ UNCHANGED <<sequence, files, named>> /\ Go(x, u) /\ stream[x].pc \in Holding
    BY <1>10 DEF Append1, Holding
  <2>2. u.chunk = stream[x].chunk /\ u.file = stream[x].file /\ u.pc = "sync"
    OBVIOUS
  <2> HIDE DEF u
  <2>3. NewFile(x, u)
    BY <1>1, <2>1, <2>2, SameFile
  <2> QED BY <1>2, <1>7, <2>1, <2>3
<1>11. ASSUME Flush(x) PROVE NamesInv'
  <2>1. stream[x].pc = "sync" /\ UNCHANGED <<sequence, files, named>> /\ stream[x].pc \in Holding
    BY <1>11 DEF Flush, Holding
  <2>2. PICK pc \in {"report", "remove"} : Go(x, [stream[x] EXCEPT !.pc = pc])
    BY <1>11 DEF Flush
  <2> DEFINE u == [stream[x] EXCEPT !.pc = pc]
  <2>3. u.chunk = stream[x].chunk /\ u.file = stream[x].file /\ u.pc # "names"
    BY <2>1, <2>2, GoState
  <2>4. Go(x, u)
    BY <2>2
  <2> HIDE DEF u
  <2>5. NewFile(x, u)
    BY <1>1, <2>1, <2>3, SameFile
  <2> QED BY <1>2, <1>7, <2>1, <2>4, <2>5
<1>12. ASSUME Drop(x) PROVE NamesInv'
  <2>1. /\ Go(x, Idle) /\ sequence' = sequence
        /\ files' = files \ {stream[x].file} /\ named' = named \ {stream[x].file}
    BY <1>12 DEF Drop
  <2> QED BY <1>2, <1>3, <1>7, <2>1
<1>13. ASSUME Report(x) PROVE NamesInv'
  <2>1. Go(x, Idle) /\ UNCHANGED <<sequence, files, named>>
    BY <1>13 DEF Report
  <2> QED BY <1>2, <1>3, <1>7, <2>1
<1> QED BY <1>4, <1>5, <1>6, <1>8, <1>9, <1>10, <1>11, <1>12, <1>13 DEF StreamShape

\* Processes that end or start
LEMMA ProcessNames ==
  ASSUME Types, Types', NamesInv, CustodyInv, Lost \/ \E g \in Graphers : Crashed(g) \/ Opened(g)
  PROVE  NamesInv'
<1>1. \A y \in DOMAIN home : home[y] \in Graphers /\ y \in StreamsOf(home[y]) /\ y \in Streams
  BY StreamTyped
<1>2. \A f \in File : f.g \in Graphers /\ f.start \in Nat
  BY DEF File
<1>3. files \subseteq File /\ named \subseteq files /\ \A f \in files : Known(f)
  BY DEF Types, DiskTypes, NamesInv
<1>4. \A g \in Graphers : worker[g].pc = "remove" => worker[g].files \subseteq File
  <2>1. \A g \in Graphers : worker[g] \in WorkerStates
    BY DEF Types, HandTypes
  <2> QED BY <2>1, WorkerStateOf DEF TaskPcs
<1>5. CASE Lost
  <2>1. \A f \in files' : Known(f)'
    <3> SUFFICES ASSUME NEW f \in files' PROVE Known(f)'
      OBVIOUS
    <3>1. f \in files
      BY <1>3, <1>5 DEF Lost
    <3>2. f.g \in Graphers /\ Known(f)
      BY <1>2, <1>3, <3>1
    <3>3. ~up'[f.g] /\ started'[f.g] = started[f.g]
      BY <1>5, <3>2 DEF Lost, Away
    <3> QED BY <3>2, <3>3 DEF Known
  <2>2. /\ \A h \in Graphers : worker'[h].pc # "remove"
        /\ \A y \in DOMAIN home' : stream'[y].pc \notin Holding
    BY <1>1, <1>5 DEF Lost, Away, Idle, Holding
  <2>3. named' \subseteq files'
    BY <1>5 DEF Lost
  <2> QED BY <2>1, <2>2, <2>3 DEF NamesInv
<1>6. ASSUME NEW g \in Graphers, Crashed(g) PROVE NamesInv'
  <2>1. ASSUME NEW f \in File, Known(f) PROVE Known(f)'
    <3>1. CASE f.g = g
      BY <1>6, <2>1, <3>1 DEF Known, Crashed, Away
    <3>2. CASE f.g # g
      BY <1>2, <1>6, <2>1, <3>2 DEF Known, Crashed, Away
    <3> QED BY <3>1, <3>2
  <2>2. \A f \in files' : Known(f)'
    BY <1>3, <1>6, <2>1 DEF Crashed
  <2>3. ASSUME NEW h \in Graphers, worker'[h].pc = "remove", NEW f \in worker'[h].files PROVE Known(f)'
    <3>1. h # g
      BY <1>6, <2>3 DEF Crashed, Away, Idle
    <3>2. worker'[h] = worker[h]
      BY <1>6, <3>1 DEF Crashed
    <3> QED BY <1>4, <2>1, <2>3, <3>2 DEF NamesInv
  <2>4. ASSUME NEW y \in DOMAIN home', stream'[y].pc \in Holding
        PROVE  y \in DOMAIN home /\ stream'[y] = stream[y] /\ stream[y].pc \in Holding /\ home[y] # g
    <3>1. y \in DOMAIN home /\ home' = home
      BY <1>6 DEF Crashed, Away
    <3>2. y \notin StreamsOf(g)
      BY <1>6, <2>4 DEF Crashed, Away, Idle, Holding
    <3> QED BY <1>1, <1>6, <2>4, <3>1, <3>2 DEF Crashed, StreamsOf
  <2>5. ASSUME NEW y \in DOMAIN home', stream'[y].pc \in Holding PROVE HoldsFile(y)'
    <3>1. y \in DOMAIN home /\ stream'[y] = stream[y] /\ stream[y].pc \in Holding /\ home[y] # g
      BY <2>4, <2>5
    <3>2. started'[home[y]] = started[home[y]] /\ sequence'[home[y]] = sequence[home[y]] /\ home' = home /\ named' = named
      BY <1>1, <1>6, <3>1 DEF Crashed, Away
    <3>3. HoldsFile(y)
      BY <3>1 DEF NamesInv
    <3> QED BY <3>1, <3>2, <3>3 DEF HoldsFile
  <2>6. named' \subseteq files'
    BY <1>3, <1>6 DEF Crashed
  <2> QED BY <2>2, <2>3, <2>4, <2>5, <2>6 DEF NamesInv
<1>7. ASSUME NEW g \in Graphers, Opened(g) PROVE NamesInv'
  <2>1. started \in [Graphers -> Nat] /\ up \in [Graphers -> BOOLEAN]
    BY DEF Types, ProcessTypes
  <2>2. ASSUME NEW f \in File, Known(f) PROVE Known(f)'
    <3>1. f.g \in Graphers /\ f.start \in Nat /\ f.start <= started[f.g] /\ started[f.g] \in Nat
      BY <1>2, <2>1, <2>2 DEF Known
    <3>2. CASE f.g = g
      <4>1. started'[g] = started[g] + 1
        BY <1>7, <2>1 DEF Opened
      <4>2. f.start <= started'[f.g] /\ f.start # started'[f.g]
        BY <3>1, <3>2, <4>1
      <4> QED BY <4>2 DEF Known
    <3>3. CASE f.g # g
      BY <1>7, <2>1, <2>2, <3>1, <3>3 DEF Known, Opened
    <3> QED BY <3>2, <3>3
  <2>3. \A y \in DOMAIN home : stream[y].pc \in Holding => home[y] # g
    <3>1. \A y \in StreamsOf(g) : stream[y] = Idle
      BY <1>7 DEF CustodyInv, Custody, Empties, Opened
    <3> QED BY <3>1 DEF StreamsOf, Idle, Holding
  <2>4. /\ \A f \in files' : Known(f)'
        /\ \A h \in Graphers : worker'[h].pc = "remove" => \A f \in worker'[h].files : Known(f)'
    BY <1>3, <1>4, <1>7, <2>2 DEF Opened, NamesInv
  <2>5. ASSUME NEW y \in DOMAIN home', stream'[y].pc \in Holding PROVE HoldsFile(y)'
    <3>1. y \in DOMAIN home /\ stream' = stream /\ stream[y].pc \in Holding /\ home' = home /\ named' = named /\ sequence' = sequence
      BY <1>7, <2>5 DEF Opened
    <3>2. started'[home[y]] = started[home[y]]
      BY <1>1, <1>7, <2>1, <2>3, <3>1 DEF Opened
    <3>3. HoldsFile(y)
      BY <3>1 DEF NamesInv
    <3> QED BY <3>1, <3>2, <3>3 DEF HoldsFile
  <2>6. \A y, z \in DOMAIN home' :
          y # z /\ stream'[y].pc \in Holding /\ stream'[z].pc \in Holding => stream'[y].file # stream'[z].file
    BY <1>7 DEF Opened, NamesInv
  <2>7. named' \subseteq files'
    BY <1>3, <1>7 DEF Opened
  <2> QED BY <2>4, <2>5, <2>6, <2>7 DEF NamesInv
<1> QED BY <1>5, <1>6, <1>7
-----------------------------------------------------------------------------
(* Every step                                                              *)

\* the kinds of steps
Shape ==
  \/ UNCHANGED vars
  \/ \E g \in Graphers : StoreStep(g) \/ (\E D, t : Arrival(g, D, t)) \/ WorkerStep(g) \/ Crashed(g) \/ Opened(g) \/ Ended(g)
  \/ \E x \in DOMAIN home : StreamShape(x)
  \/ PlayerStep \/ (\E D : Sent(D)) \/ Lost \/ Elapsed

\* Every step of the specification is one of them.
LEMMA StepShape ==
  ASSUME Types, [Next]_vars
  PROVE  Shape /\ Types'
<1>1. CASE UNCHANGED vars
  <2>1. Types'
    BY <1>1 DEF vars, grapher, pipelines, extraction, destroying, writer, disk, player, Types, ProcessTypes, QueueTypes,
                HandTypes, DiskTypes, PlayerTypes
  <2> QED BY <1>1, <2>1 DEF Shape
<1>2. ASSUME NEW g \in Graphers, GrapherStep(g) PROVE Shape /\ Types'
  <2>1. ASSUME NEW s \in Stories, \/ startStoryRecording(g, s) \/ stopStoryRecording(g, s)
                                  \/ extractDecayedStoryChunks(g, s) \/ retireDecayedPipelines(g, s)
        PROVE  Types' /\ StoreStep(g)
    BY <2>1, StartStep, StopStep, ExtractStep, RetireStep
  <2>2. ASSUME NEW w \in Windows, collectIngestedEvents(g, w) \/ adoptOrphanChunks(g, w) PROVE Types' /\ StoreStep(g)
    BY <2>2, CollectStep, AdoptStep
  <2>3. ASSUME StashRetired(g) \/ FinalizePipelines(g) PROVE Types' /\ StoreStep(g)
    BY <2>3, StashStep, FinalizeStep
  <2>4. ASSUME destroyStory(g) PROVE Types' /\ \E D, t : Arrival(g, D, t)
    BY <2>4, ArrivalEffect, ArrivalTypes
  <2>5. ASSUME shutdownDataCollection(g) PROVE Types' /\ Ended(g)
    BY <2>5, EndedEffect
  <2> QED BY <1>2, <2>1, <2>2, <2>3, <2>4, <2>5 DEF GrapherStep, Shape
<1>3. ASSUME NEW g \in Graphers, WorkerStep(g) \/ Crash(g) \/ open(g) PROVE Shape /\ Types'
  BY <1>3, WorkerTypes, CrashEffect, OpenEffect DEF Shape
<1>4. ASSUME NEW x \in DOMAIN home, StreamStep(x) PROVE Shape /\ Types'
  BY <1>4, StreamEffect, StreamTypes DEF Shape
<1>5. ASSUME PlayerStep PROVE Shape /\ Types'
  BY <1>5, PlayerEffect DEF Shape
<1>6. ASSUME NEW D \in SUBSET Stories, NEW whole \in BOOLEAN, BroadcastDestroy(D, whole) PROVE Shape /\ Types'
  BY <1>6, SentEffect DEF Shape
<1>7. ASSUME PowerLoss \/ Tick PROVE Shape /\ Types'
  BY <1>7, LossEffect, ElapsedEffect DEF Shape
<1> QED BY <1>1, <1>2, <1>3, <1>4, <1>5, <1>6, <1>7 DEF Next

\* The first state
LEMMA InitTypes ==
  ASSUME Init
  PROVE  Types
<1>1. DOMAIN home \subseteq Streams /\ home \in [DOMAIN home -> Graphers]
  <2>1. PICK c \in Scenarios : home = c.home
    BY DEF Init
  <2>2. PICK S \in SUBSET Streams : home \in [S -> Graphers]
    BY <2>1, ArchiveAssumption
  <2> QED BY <2>2
<1>2. [s \in Stories |-> NoPipe] \in [Stories -> Pipes] /\ \A s \in Stories : PipeOf(NoPipe, s, 0)
  BY NoPipeOf
<1>3. up \in [Graphers -> BOOLEAN]
  BY DEF Init
<1>4. broadcast \in Broadcasts
  BY DEF Init, Broadcasts
<1>5. ProcessTypes
  BY <1>1, <1>2, <1>3, <1>4 DEF Init, ProcessTypes
<1>6. QueueTypes /\ HandTypes
  <2>1. <<>> \in Seq(Chunk) /\ <<>> \in Seq(Tasks) /\ Idle \in StreamStates /\ Idle \in WorkerStates
    BY EmptySeq DEF StreamStates, WorkerStates
  <2> QED BY <2>1 DEF Init, QueueTypes, HandTypes
<1>7. DiskTypes
  <2>1. <<>> \in Seq(Items)
    BY EmptySeq
  <2> QED BY <2>1 DEF Init, DiskTypes
<1>8. PlayerTypes
  BY DEF Init, PlayerTypes, Readers
<1> QED BY <1>5, <1>6, <1>7, <1>8 DEF Types

\* Nothing is held and nothing named in the first state.
LEMMA InitCustody ==
  ASSUME Init
  PROVE  CustodyInv /\ NamesInv
<1>1. DOMAIN home \subseteq Streams
  BY InitTypes DEF Types, ProcessTypes
<1>2. \A x \in DOMAIN home : stream[x] = Idle
  BY <1>1 DEF Init
<1>3. ASSUME NEW g \in Graphers PROVE Custody(g)
  <2>1. /\ extractionQueue[g] = <<>> /\ retiring[g] = <<>> /\ destroyQueue[g] = <<>> /\ worker[g] = Idle
        /\ files = {} /\ gone = {} /\ broadcast.to = {}
    BY DEF Init
  <2>2. Range(<<>>) = {} /\ DOMAIN <<>> = {}
    BY DEF Range
  <2>3. InStreams(g) = {} /\ \A x \in StreamsOf(g) : stream[x] = Idle
    BY <1>2 DEF InStreams, StreamsOf, Idle
  <2>4. InTasks(g, 0) = {}
    BY <2>1, <2>2 DEF InTasks
  <2>5. Held(g) = {}
    BY <2>1, <2>2, <2>3, <2>4 DEF Held, Unstashed
  <2>6. Numbered(g) /\ Empties(g)
    BY <2>1, <2>3, <2>5 DEF Numbered, Empties
  <2>7. QueueFence(g) /\ WorkerFence(g) /\ GoneFence(g) /\ Starts(g)
    BY <2>1, <2>2 DEF QueueFence, WorkerFence, GoneFence, Starts, Idle, TaskPcs
  <2> QED BY <2>6, <2>7 DEF Custody
<1>4. NamesInv
  <2>1. files = {} /\ named = {} /\ \A g \in Graphers : worker[g].pc # "remove"
    BY DEF Init, Idle
  <2>2. \A x \in DOMAIN home : stream[x].pc \notin Holding
    BY <1>2 DEF Idle, Holding
  <2> QED BY <2>1, <2>2 DEF NamesInv
<1> QED BY <1>3, <1>4 DEF CustodyInv

\* Every step keeps the custody.
LEMMA StepCustody ==
  ASSUME Types, Types', CustodyInv, NamesInv, Shape
  PROVE  CustodyInv'
<1>1. CASE UNCHANGED vars
  BY <1>1, PlayerKeeps DEF PlayerFrame, vars, grapher, pipelines, extraction, destroying, writer, disk, player
<1>2. ASSUME NEW g \in Graphers, StoreStep(g) \/ WorkerStep(g) PROVE CustodyInv'
  BY <1>2, StoreKeeps, WorkerKeepsCustody
<1>3. ASSUME NEW g \in Graphers, NEW D, NEW t, Arrival(g, D, t) PROVE CustodyInv'
  BY <1>3, ArrivalKeeps
<1>4. ASSUME NEW g \in Graphers, Crashed(g) \/ Opened(g) PROVE CustodyInv'
  BY <1>4, CrashKeeps, OpenKeeps
<1>5. ASSUME (\E D : Sent(D)) \/ (\E g \in Graphers : Ended(g)) \/ Elapsed PROVE CustodyInv'
  BY <1>5, OutsideKeeps
<1>6. ASSUME NEW x \in DOMAIN home, StreamShape(x) PROVE CustodyInv'
  BY <1>6, StreamKeeps
<1>7. ASSUME PlayerStep PROVE CustodyInv'
  BY <1>7, PlayerEffect, PlayerKeeps
<1>8. ASSUME Lost PROVE CustodyInv'
  BY <1>8, LossKeeps DEF NamesInv
<1> QED BY <1>1, <1>2, <1>3, <1>4, <1>5, <1>6, <1>7, <1>8 DEF Shape

\* Every step keeps the names.
LEMMA StepNames ==
  ASSUME Types, Types', CustodyInv, NamesInv, Shape
  PROVE  NamesInv'
<1>1. ASSUME UNCHANGED <<home, started, up, sequence, stream, files, named, worker>> PROVE NamesInv'
  BY <1>1, NamesSame DEF NamesInv
<1>2. CASE UNCHANGED vars
  BY <1>1, <1>2 DEF vars, grapher, extraction, destroying, writer, disk
<1>3. ASSUME NEW g \in Graphers, StoreStep(g) PROVE NamesInv'
  BY <1>1, <1>3 DEF StoreStep, StoreFrame
<1>4. ASSUME NEW g \in Graphers, NEW D, NEW t, Arrival(g, D, t) PROVE NamesInv'
  BY <1>1, <1>4 DEF Arrival, ArrivalFrame
<1>5. ASSUME NEW g \in Graphers, WorkerStep(g) PROVE NamesInv'
  BY <1>5, WorkerNames
<1>6. ASSUME Lost \/ \E g \in Graphers : Crashed(g) \/ Opened(g) PROVE NamesInv'
  BY <1>6, ProcessNames
<1>7. ASSUME (\E D : Sent(D)) \/ (\E g \in Graphers : Ended(g)) \/ Elapsed PROVE NamesInv'
  BY <1>1, <1>7 DEF Sent, Ended, Elapsed
<1>8. ASSUME NEW x \in DOMAIN home, StreamShape(x) PROVE NamesInv'
  BY <1>8, StreamNames
<1>9. ASSUME PlayerStep PROVE NamesInv'
  <2>1. PlayerFrame
    BY <1>9, PlayerEffect
  <2> QED BY <1>1, <2>1 DEF PlayerFrame
<1> QED BY <1>2, <1>3, <1>4, <1>5, <1>6, <1>7, <1>8, <1>9 DEF Shape

\* Once a destroy worker has deleted a story, no file of the deleted pipelines
\* appears again, whatever was queued or being written
\* (GrapherDataStore's destroy worker, HDF5FileChunkExtractor), for any number
\* of graphers, streams, windows, crashes and faults.
THEOREM DestroyedStoriesStayGone == Spec => []DestroyedStaysGone
<1>1. Init => Types /\ CustodyInv /\ NamesInv
  BY InitTypes, InitCustody
<1>2. Types /\ CustodyInv /\ NamesInv /\ [Next]_vars => (Types /\ CustodyInv /\ NamesInv)'
  BY StepShape, StepCustody, StepNames
<1>3. Types /\ CustodyInv /\ NamesInv => DestroyedStaysGone
  <2> SUFFICES ASSUME Types, CustodyInv, NEW f \in Undead PROVE [g |-> f.g, start |-> f.start, inc |-> f.inc] \in raced
    BY DEF DestroyedStaysGone
  <2>1. f \in files /\ f \in File
    BY DEF Undead, Types, DiskTypes
  <2>2. PICK d \in gone : f.g = d.g /\ f.start = d.start /\ StoryOf[f.w] \in d.stories /\ f.inc <= d.bound
    BY DEF Undead
  <2>3. f.g \in Graphers
    BY <2>1 DEF File
  <2>4. GoneFence(f.g)
    BY <2>3 DEF CustodyInv, Custody
  <2> QED BY <2>1, <2>2, <2>4 DEF GoneFence
<1> QED BY <1>1, <1>2, <1>3, PTL DEF Spec
-----------------------------------------------------------------------------
(* What was reported written is spared, recorded and found                 *)

\* a destroy that grapher g has still to carry out
Pending(g, t) == t \in Range(destroyQueue[g]) \/ (worker[g].pc \in TaskPcs /\ t = worker[g].task)

\* Destroys were requested before now and reach pipelines that are doomed.
TaskInv ==
  \A g \in Graphers : \A t : Pending(g, t) =>
    t \in Tasks /\ t.requested <= now /\ \A s \in t.stories : t.bound <= doomed[g][s]
BroadcastInv ==
  /\ broadcast.at <= now /\ (broadcast.to # {} => now <= broadcast.at + Margin)
  /\ \A g \in Graphers, s \in Stories : doomed[g][s] <= incarnation[g]

\* No destroy on its way, queued or being carried out takes the file f.
Spared(f) ==
  /\ \A h \in Graphers : \A t : Pending(h, t) /\ StoryOf[f.w] \in t.stories => ~coveredByDestroy(f, h, t)
  /\ \A h \in Graphers : worker[h].pc = "remove" => f \notin worker[h].files
  /\ broadcast.to # {} /\ StoryOf[f.w] \in broadcast.stories => broadcast.at <= f.mtime

\* No record without its newline is followed by another on the same line.
LinesInv ==
  \A g \in Graphers :
    /\ \A i \in DOMAIN log[g] : i = 1 \/ log[g][i - 1].ended \/ log[g][i].nl
    /\ up[g] /\ log[g] # <<>> => log[g][Len(log[g])].ended \/ needsNewline[g]

\* Line i of g's log publishes f, whole, and nothing after it takes f back.
Recorded(g, i, f) ==
  /\ i \in DOMAIN log[g] /\ log[g][i].ended /\ log[g][i].rec = [op |-> "publish", file |-> f]
  /\ \A j \in DOMAIN log[g] : j > i /\ log[g][j].rec.op = "delete" => ~Covers(log[g][j].rec, f)

\* A window of a pipeline no destroy reaches keeps its file, its name and its
\* record on the way to the report.
Kept1(x) ==
  /\ Spared(stream[x].file) /\ stream[x].file \in files
  /\ stream[x].pc # "names" => stream[x].file \in named
  /\ stream[x].pc \in {"sync", "report"} => Recorded(home[x], stream[x].at, stream[x].file)
  /\ stream[x].pc = "report" => log[home[x]][stream[x].at].at = "synced"
StreamInv ==
  \A x \in DOMAIN home :
    (/\ stream[x].pc \in Holding /\ stream[x].pc # "remove"
     /\ stream[x].chunk.inc > doomed[home[x]][StoryOf[stream[x].chunk.w]]) => Kept1(x)

\* the file f, recorded in line i, is what a reader finds of the report r
Evidence(r, f, i) ==
  /\ f.g = r.g /\ f.w = r.w /\ StreamsOf(r.g) # {}
  /\ Recorded(r.g, i, f) /\ log[r.g][i].at = "synced"
  /\ f \in named /\ f \in files /\ Spared(f)
  /\ \A x \in DOMAIN home : stream[x].pc \in Holding => stream[x].file # f
  /\ StoryOf[f.w] \in broadcast.stories => r.g \notin broadcast.to
LiveInv == \A r \in live : \E f \in File, i \in Nat : Evidence(r, f, i)

-----------------------------------------------------------------------------
(* The destroys under way                                                  *)

\* what of destroys the shapes other than Arrival and Sent change
Fewer ==
  /\ \A h \in Graphers : \A t : Pending(h, t)' => Pending(h, t) /\ started'[h] = started[h]
  /\ broadcast'.stories = broadcast.stories /\ broadcast'.at = broadcast.at /\ broadcast'.to \subseteq broadcast.to
  /\ \A h \in Graphers : worker'[h].pc = "remove" =>
       \/ worker[h].pc = "remove" /\ worker'[h].files \subseteq worker[h].files
       \/ worker[h].pc \in TaskPcs /\ worker'[h].files = Listed(h)

\* the steps that leave the destroys alone
Same == UNCHANGED <<started, destroyQueue, worker, broadcast>>

\* They add no destroy.
LEMMA SameFewer ==
  ASSUME Same
  PROVE  Fewer
BY DEF Same, Fewer, Pending

\* a worker's steps
LEMMA WorkerFewer ==
  ASSUME Types, NEW g \in Graphers, WorkerStep(g)
  PROVE  Fewer
<1>1. worker \in [Graphers -> WorkerStates] /\ destroyQueue \in [Graphers -> Seq(Tasks)]
  BY DEF Types, HandTypes, QueueTypes
<1>2. PICK v : Hand(g, v)
  BY WorkerEffect DEF Take, List, Unlink, GiveUp, Record, Settle
<1>3. /\ worker'[g] = v /\ \A h \in Graphers \ {g} : worker'[h] = worker[h]
      /\ started' = started /\ broadcast' = broadcast
  BY <1>1, <1>2 DEF Hand
<1>4. \A h \in Graphers \ {g} : destroyQueue'[h] = destroyQueue[h]
  BY <1>1, WorkerEffect DEF Take, List, Unlink, GiveUp, Record, Settle
<1>5. ASSUME NEW h \in Graphers, h # g PROVE \A t : Pending(h, t)' => Pending(h, t)
  BY <1>3, <1>4, <1>5 DEF Pending
<1>6. ASSUME NEW f, Unlink(g, f) PROVE /\ \A t : Pending(g, t)' => Pending(g, t)
                                       /\ worker[g].pc = "remove" /\ worker'[g].files \subseteq worker[g].files
  <2>1. worker[g] \in Busy
    BY <1>1, <1>6, WorkerStateOf DEF Unlink, TaskPcs
  <2>2. worker'[g].pc = worker[g].pc /\ worker'[g].task = worker[g].task /\ worker'[g].files = worker[g].files \ {f}
    BY <1>1, <1>6, <2>1 DEF Unlink, Hand, Busy
  <2> QED BY <1>6, <2>2 DEF Unlink, Pending
<1>7. ASSUME List(g) PROVE /\ \A t : Pending(g, t)' => Pending(g, t)
                           /\ worker[g].pc \in TaskPcs /\ worker'[g].files = Listed(g)
  <2>1. worker[g] \in Busy /\ worker[g].pc \in TaskPcs
    BY <1>1, <1>7, WorkerStateOf DEF List, TaskPcs
  <2>2. worker'[g].task = worker[g].task /\ worker'[g].files = Listed(g)
    BY <1>1, <1>7, <2>1 DEF List, Hand, Busy
  <2> QED BY <1>7, <2>1, <2>2 DEF List, Pending
<1>8. ASSUME Take(g) PROVE (\A t : Pending(g, t)' => Pending(g, t)) /\ worker'[g].pc # "remove"
  <2>1. worker'[g] = [pc |-> "drain", task |-> Head(destroyQueue[g]), files |-> {}]
    BY <1>1, <1>8 DEF Take, Hand
  <2>2. destroyQueue[g] \in Seq(Tasks) /\ destroyQueue[g] # <<>> /\ destroyQueue'[g] = Tail(destroyQueue[g])
    BY <1>1, <1>8 DEF Take
  <2>3. Head(destroyQueue[g]) \in Range(destroyQueue[g]) /\ Range(Tail(destroyQueue[g])) \subseteq Range(destroyQueue[g])
    BY <2>2, Shifted
  <2> QED BY <2>1, <2>2, <2>3 DEF Pending
<1>9. ASSUME NEW u, Hand(g, u), u.pc \notin TaskPcs, destroyQueue' = destroyQueue
      PROVE  (\A t : Pending(g, t)' => Pending(g, t)) /\ worker'[g].pc # "remove"
  <2>1. worker'[g] = u
    BY <1>1, <1>9 DEF Hand
  <2> QED BY <1>9, <2>1 DEF Pending, TaskPcs
<1>10. ASSUME GiveUp(g) \/ Record(g) \/ Settle(g)
       PROVE  (\A t : Pending(g, t)' => Pending(g, t)) /\ worker'[g].pc # "remove"
  <2>1. destroyQueue' = destroyQueue /\ (Hand(g, Idle) \/ \E i \in Nat : Hand(g, [pc |-> "sync", at |-> i]))
    BY <1>10 DEF GiveUp, Record, Settle
  <2>2. Idle.pc \notin TaskPcs /\ \A i : [pc |-> "sync", at |-> i].pc \notin TaskPcs
    BY DEF Idle, TaskPcs
  <2> QED BY <1>9, <2>1, <2>2
<1>11. /\ \A t : Pending(g, t)' => Pending(g, t)
       /\ worker'[g].pc = "remove" =>
            \/ worker[g].pc = "remove" /\ worker'[g].files \subseteq worker[g].files
            \/ worker[g].pc \in TaskPcs /\ worker'[g].files = Listed(g)
  BY <1>6, <1>7, <1>8, <1>10, WorkerEffect
<1> QED BY <1>3, <1>5, <1>11 DEF Fewer

\* A grapher that is down has nothing pending.
LEMMA DownPending ==
  ASSUME CustodyInv, NEW g \in Graphers, ~up[g], NEW t
  PROVE  ~Pending(g, t)
BY DEF CustodyInv, Custody, Empties, Pending, Range, Idle, TaskPcs

\* processes that end or start
LEMMA ProcessFewer ==
  ASSUME Types, CustodyInv, CustodyInv', Lost \/ \E g \in Graphers : Crashed(g) \/ Opened(g) \/ Ended(g)
  PROVE  Fewer
<1>1. broadcast \in Broadcasts
  BY DEF Types, ProcessTypes
<1>2. ASSUME NEW h \in Graphers, Away(h) PROVE (\A t : ~Pending(h, t)') /\ worker'[h].pc # "remove"
  BY <1>2 DEF Away, Pending, Range, Idle, TaskPcs
<1>3. CASE Lost
  BY <1>1, <1>2, <1>3 DEF Lost, Fewer, Broadcasts
<1>4. ASSUME NEW g \in Graphers, Crashed(g) PROVE Fewer
  <2>1. /\ broadcast'.stories = broadcast.stories /\ broadcast'.at = broadcast.at /\ broadcast'.to \subseteq broadcast.to
    BY <1>1, <1>4 DEF Crashed, Broadcasts
  <2>2. (\A t : ~Pending(g, t)') /\ worker'[g].pc # "remove"
    BY <1>2, <1>4 DEF Crashed
  <2>3. \A h \in Graphers \ {g} : worker'[h] = worker[h] /\ destroyQueue'[h] = destroyQueue[h] /\ started'[h] = started[h]
    BY <1>4 DEF Crashed
  <2>4. \A h \in Graphers \ {g} : \A t : Pending(h, t)' => Pending(h, t)
    BY <2>3 DEF Pending
  <2> QED BY <2>1, <2>2, <2>3, <2>4 DEF Fewer
<1>5. ASSUME NEW g \in Graphers, Opened(g) PROVE Fewer
  <2>1. UNCHANGED <<destroyQueue, worker, broadcast>> /\ ~up[g] /\ \A h \in Graphers \ {g} : started'[h] = started[h]
    BY <1>5 DEF Opened, Types, ProcessTypes
  <2>2. \A t : ~Pending(g, t)
    BY <2>1, DownPending
  <2>3. \A h \in Graphers : \A t : Pending(h, t)' => Pending(h, t)
    BY <2>1 DEF Pending
  <2> QED BY <2>1, <2>2, <2>3 DEF Fewer
<1>6. ASSUME NEW g \in Graphers, Ended(g) PROVE Fewer
  <2>1. UNCHANGED <<destroyQueue, worker, started>>
    BY <1>6 DEF Ended
  <2>2. /\ broadcast'.stories = broadcast.stories /\ broadcast'.at = broadcast.at /\ broadcast'.to \subseteq broadcast.to
    BY <1>1, <1>6 DEF Ended, Broadcasts
  <2> QED BY <2>1, <2>2 DEF Fewer, Pending
<1> QED BY <1>3, <1>4, <1>5, <1>6

\* Every step but a destroy's sending and its arrival
LEMMA StepFewer ==
  ASSUME Types, CustodyInv, CustodyInv', Shape
  PROVE  Fewer \/ (\E g \in Graphers : \E D, t : Arrival(g, D, t)) \/ (\E D : Sent(D))
<1>1. CASE UNCHANGED vars
  BY <1>1, SameFewer DEF Same, vars, grapher, destroying
<1>2. ASSUME NEW g \in Graphers, StoreStep(g) PROVE Fewer
  BY <1>2, SameFewer DEF Same, StoreStep, StoreFrame
<1>3. ASSUME NEW x \in DOMAIN home, StreamShape(x) PROVE Fewer
  <2>1. PICK v : Go(x, v)
    BY <1>3, StreamTypes DEF Carried
  <2> QED BY <2>1, SameFewer DEF Same, Go
<1>4. ASSUME PlayerStep PROVE Fewer
  <2>1. PlayerFrame
    BY <1>4, PlayerEffect
  <2> QED BY <2>1, SameFewer DEF Same, PlayerFrame
<1>5. CASE Elapsed
  BY <1>5, SameFewer DEF Same, Elapsed
<1> QED BY <1>1, <1>2, <1>3, <1>4, <1>5, WorkerFewer, ProcessFewer DEF Shape

-----------------------------------------------------------------------------
(* Destroys reach what is doomed                                           *)

\* A step of a worker is one of its grapher.
LEMMA WorkerHand ==
  ASSUME Types, NEW g \in Graphers, WorkerStep(g)
  PROVE  \E v : Hand(g, v)
<1>1. Take(g) \/ List(g) \/ (\E f \in File : Unlink(g, f)) \/ GiveUp(g) \/ Record(g) \/ Settle(g)
  BY WorkerEffect
<1>2. (\E f \in File : Unlink(g, f)) => \E v : Hand(g, v)
  BY DEF Unlink
<1> QED BY <1>1, <1>2 DEF Take, List, GiveUp, Record, Settle

\* Clocks run forwards, and a running grapher's pipelines stay doomed.
Doomed ==
  /\ now <= now' /\ \A h \in Graphers, s \in Stories : up'[h] => doomed[h][s] <= doomed'[h][s]

\* the steps that doom nothing and leave the clock
LEMMA DoomSame ==
  ASSUME Types, Types', BroadcastInv, doomed' = doomed, now' = now, \A h \in Graphers : incarnation[h] <= incarnation'[h],
         broadcast'.at = broadcast.at, broadcast'.to \subseteq broadcast.to
  PROVE  BroadcastInv' /\ Doomed
<1>1. /\ now \in Nat /\ doomed \in [Graphers -> [Stories -> Nat]] /\ incarnation \in [Graphers -> Nat]
      /\ incarnation' \in [Graphers -> Nat] /\ broadcast.to \subseteq Graphers
  BY DEF Types, ProcessTypes, Broadcasts
<1>2. ASSUME NEW h \in Graphers, NEW s \in Stories PROVE doomed'[h][s] <= incarnation'[h] /\ doomed[h][s] <= doomed'[h][s]
  <2>1. doomed[h][s] <= incarnation[h] /\ incarnation[h] <= incarnation'[h]
    BY DEF BroadcastInv
  <2>2. doomed[h][s] \in Nat /\ incarnation[h] \in Nat /\ incarnation'[h] \in Nat
    BY <1>1
  <2> QED BY <2>1, <2>2
<1>3. broadcast'.to # {} => broadcast.to # {}
  OBVIOUS
<1>4. now <= now'
  BY <1>1
<1> QED BY <1>2, <1>3, <1>4 DEF BroadcastInv, Doomed

\* a destroy that is sent, one that arrives, processes that end
LEMMA DoomMore ==
  ASSUME Types, Types', BroadcastInv,
         (\E D : Sent(D)) \/ (\E g \in Graphers : (\E D, t : Arrival(g, D, t)) \/ Crashed(g)) \/ Lost
  PROVE  BroadcastInv' /\ Doomed
<1>1. /\ now \in Nat /\ doomed \in [Graphers -> [Stories -> Nat]] /\ incarnation \in [Graphers -> Nat]
      /\ incarnation' \in [Graphers -> Nat] /\ broadcast \in Broadcasts /\ broadcast.at \in Nat /\ Margin \in Nat
  BY ArchiveAssumption DEF Types, ProcessTypes, Broadcasts
<1>2. \A h \in Graphers, s \in Stories : /\ doomed[h][s] <= incarnation[h] /\ doomed[h][s] \in Nat /\ incarnation[h] \in Nat
                                         /\ incarnation'[h] \in Nat /\ 0 <= incarnation'[h]
  BY <1>1 DEF BroadcastInv
<1>3. \A n \in Nat : n <= n
  OBVIOUS
<1>4. ASSUME NEW D, Sent(D) PROVE BroadcastInv' /\ Doomed
  <2>1. broadcast'.at = now /\ now' = now /\ incarnation' = incarnation
    BY <1>4 DEF Sent
  <2>2. now <= now + Margin
    BY <1>1
  <2>3. \A h \in Graphers, s \in Stories : doomed'[h][s] = incarnation[h] \/ doomed'[h][s] = doomed[h][s]
    BY <1>4 DEF Sent, Doom
  <2>4. \A h \in Graphers, s \in Stories : doomed'[h][s] <= incarnation'[h] /\ doomed[h][s] <= doomed'[h][s]
    BY <1>2, <1>3, <2>1, <2>3
  <2>5. broadcast'.at <= now' /\ now <= now' /\ now' <= broadcast'.at + Margin
    BY <1>1, <1>3, <2>1, <2>2
  <2> QED BY <2>4, <2>5 DEF BroadcastInv, Doomed
<1>5. ASSUME NEW g \in Graphers, NEW D, NEW t, Arrival(g, D, t) PROVE BroadcastInv' /\ Doomed
  <2>1. now' = now /\ incarnation' = incarnation
    BY <1>5 DEF Arrival, ArrivalFrame
  <2>2. broadcast'.at = broadcast.at /\ broadcast'.to \subseteq broadcast.to
    BY <1>1, <1>5 DEF Arrival, Broadcasts
  <2>3. \A h \in Graphers, s \in Stories : doomed'[h][s] = incarnation[h] \/ doomed'[h][s] = doomed[h][s]
    BY <1>1, <1>5 DEF Arrival, Doom
  <2>4. \A h \in Graphers, s \in Stories : doomed'[h][s] <= incarnation'[h] /\ doomed[h][s] <= doomed'[h][s]
    BY <1>2, <1>3, <2>1, <2>3
  <2>5. now <= now'
    BY <1>1, <1>3, <2>1
  <2> QED BY <2>1, <2>2, <2>4, <2>5 DEF BroadcastInv, Doomed
<1>6. ASSUME NEW G \in SUBSET Graphers, \A g \in G : Away(g),
             \A h \in Graphers \ G : doomed'[h] = doomed[h] /\ incarnation'[h] = incarnation[h],
             broadcast'.at = broadcast.at, broadcast'.to \subseteq broadcast.to, now' = now
      PROVE  BroadcastInv' /\ Doomed
  <2>1. ASSUME NEW h \in Graphers, NEW s \in Stories
        PROVE  doomed'[h][s] <= incarnation'[h] /\ (up'[h] => doomed[h][s] <= doomed'[h][s])
    <3>1. CASE h \in G
      <4>1. doomed'[h][s] = 0 /\ ~up'[h]
        BY <1>6, <3>1 DEF Away
      <4> QED BY <1>2, <4>1
    <3>2. CASE h \notin G
      BY <1>2, <1>3, <1>6, <3>2
    <3> QED BY <3>1, <3>2
  <2>2. now <= now'
    BY <1>1, <1>3, <1>6
  <2> QED BY <1>6, <2>1, <2>2 DEF BroadcastInv, Doomed
<1>7. ASSUME NEW g \in Graphers, Crashed(g) PROVE BroadcastInv' /\ Doomed
  <2>1. broadcast'.at = broadcast.at /\ broadcast'.to \subseteq broadcast.to
    BY <1>1, <1>7 DEF Crashed, Broadcasts
  <2>2. {g} \in SUBSET Graphers /\ (\A h \in {g} : Away(h)) /\ now' = now
    BY <1>7 DEF Crashed, Away
  <2>3. \A h \in Graphers \ {g} : doomed'[h] = doomed[h] /\ incarnation'[h] = incarnation[h]
    BY <1>7 DEF Crashed
  <2> QED BY <1>6, <2>1, <2>2, <2>3
<1>8. ASSUME Lost PROVE BroadcastInv' /\ Doomed
  <2>1. broadcast'.at = broadcast.at /\ broadcast'.to \subseteq broadcast.to
    BY <1>1, <1>8 DEF Lost, Broadcasts
  <2>2. Graphers \in SUBSET Graphers /\ (\A h \in Graphers : Away(h)) /\ now' = now
    BY <1>8 DEF Lost
  <2> QED BY <1>6, <2>1, <2>2
<1> QED BY <1>4, <1>5, <1>7, <1>8

\* Every step keeps the clock, the margin and what is doomed.
LEMMA StepDoomed ==
  ASSUME Types, Types', BroadcastInv, Shape
  PROVE  BroadcastInv' /\ Doomed
<1>1. /\ now \in Nat /\ incarnation \in [Graphers -> Nat] /\ broadcast \in Broadcasts
      /\ broadcast.at \in Nat /\ Margin \in Nat /\ \A h \in Graphers : incarnation[h] <= incarnation[h]
  BY ArchiveAssumption DEF Types, ProcessTypes, Broadcasts
<1>2. ASSUME UNCHANGED <<doomed, now, incarnation, broadcast>> PROVE BroadcastInv' /\ Doomed
  BY <1>1, <1>2, DoomSame
<1>3. CASE UNCHANGED vars
  BY <1>2, <1>3 DEF vars, pipelines, destroying
<1>4. ASSUME NEW g \in Graphers, StoreStep(g) PROVE BroadcastInv' /\ Doomed
  <2>1. doomed' = doomed /\ now' = now /\ broadcast' = broadcast
    BY <1>4 DEF StoreStep, StoreFrame
  <2>2. \A h \in Graphers : incarnation[h] <= incarnation'[h]
    BY <1>1, <1>4 DEF StoreStep, PipeStep
  <2> QED BY <2>1, <2>2, DoomSame
<1>5. ASSUME NEW g \in Graphers, WorkerStep(g) PROVE BroadcastInv' /\ Doomed
  <2>1. \E v : Hand(g, v)
    BY <1>5, WorkerHand
  <2> QED BY <1>2, <2>1 DEF Hand
<1>6. ASSUME NEW g \in Graphers, Opened(g) PROVE BroadcastInv' /\ Doomed
  BY <1>2, <1>6 DEF Opened
<1>7. ASSUME NEW g \in Graphers, Ended(g) PROVE BroadcastInv' /\ Doomed
  <2>1. broadcast'.at = broadcast.at /\ broadcast'.to \subseteq broadcast.to
    BY <1>1, <1>7 DEF Ended, Broadcasts
  <2>2. doomed' = doomed /\ now' = now /\ incarnation' = incarnation
    BY <1>7 DEF Ended
  <2> QED BY <1>1, <2>1, <2>2, DoomSame
<1>8. ASSUME NEW x \in DOMAIN home, StreamShape(x) PROVE BroadcastInv' /\ Doomed
  <2>1. \E v : Go(x, v)
    BY <1>8, StreamTypes DEF Carried
  <2> QED BY <1>2, <2>1 DEF Go
<1>9. ASSUME PlayerStep PROVE BroadcastInv' /\ Doomed
  <2>1. PlayerFrame
    BY <1>9, PlayerEffect
  <2> QED BY <1>2, <2>1 DEF PlayerFrame
<1>10. ASSUME Elapsed PROVE BroadcastInv' /\ Doomed
  <2>1. /\ now' = now + 1 /\ (broadcast.to # {} => now < broadcast.at + Margin)
        /\ broadcast' = broadcast /\ doomed' = doomed /\ incarnation' = incarnation
    BY <1>10 DEF Elapsed
  <2>2. broadcast.at <= now /\ \A h \in Graphers, s \in Stories : doomed[h][s] <= incarnation[h] /\ doomed[h][s] <= doomed[h][s]
    BY DEF BroadcastInv, Types, ProcessTypes
  <2>3. broadcast.at <= now' /\ (broadcast.to # {} => now' <= broadcast.at + Margin) /\ now <= now'
    BY <1>1, <2>1, <2>2
  <2> QED BY <2>1, <2>2, <2>3 DEF BroadcastInv, Doomed
<1> QED BY <1>3, <1>4, <1>5, <1>6, <1>7, <1>8, <1>9, <1>10, DoomMore DEF Shape

\* what arrives is the only new destroy
LEMMA ArrivalPending ==
  ASSUME Types, NEW g \in Graphers, NEW D, NEW t, Arrival(g, D, t)
  PROVE  /\ t \in Tasks /\ t.stories = D /\ t.requested = now /\ t.bound = incarnation[g]
         /\ \A h \in Graphers : \A u : Pending(h, u)' => Pending(h, u) \/ (h = g /\ u = t)
<1>1. destroyQueue \in [Graphers -> Seq(Tasks)] /\ destroyQueue[g] \in Seq(Tasks)
  BY DEF Types, QueueTypes
<1>2. t \in Tasks /\ t.stories = D /\ t.bound = incarnation[g]
  <2>1. D \in SUBSET Stories /\ t = DestroyTask(g, D)
    BY DEF Arrival, Types, ProcessTypes, Broadcasts
  <2> QED BY <2>1, TaskTyped
<1>3. t.requested = now
  BY DEF Arrival, DestroyTask
<1>4. worker' = worker /\ \A h \in Graphers \ {g} : destroyQueue'[h] = destroyQueue[h]
  BY <1>1 DEF Arrival, ArrivalFrame
<1>5. Range(destroyQueue'[g]) \subseteq Range(destroyQueue[g]) \cup {t}
  <2>1. destroyQueue'[g] = Append(destroyQueue[g], t)
    BY <1>1 DEF Arrival
  <2>2. DOMAIN Append(destroyQueue[g], t) = 1 .. (Len(destroyQueue[g]) + 1) /\ DOMAIN destroyQueue[g] = 1 .. Len(destroyQueue[g])
        /\ (\A i \in DOMAIN destroyQueue[g] : Append(destroyQueue[g], t)[i] = destroyQueue[g][i])
        /\ Append(destroyQueue[g], t)[Len(destroyQueue[g]) + 1] = t /\ Len(destroyQueue[g]) \in Nat
    BY <1>1, <1>2, Appended
  <2> QED BY <2>1, <2>2 DEF Range
<1>6. \A u : Pending(g, u)' => Pending(g, u) \/ u = t
  BY <1>4, <1>5 DEF Pending
<1>7. \A h \in Graphers \ {g} : \A u : Pending(h, u)' => Pending(h, u)
  BY <1>4 DEF Pending
<1> QED BY <1>2, <1>3, <1>6, <1>7

\* Every step keeps the destroys under way within what is doomed.
LEMMA StepTasks ==
  ASSUME Types, Types', CustodyInv, CustodyInv', BroadcastInv, TaskInv, Shape
  PROVE  TaskInv'
<1> SUFFICES ASSUME NEW h \in Graphers, NEW u, Pending(h, u)'
             PROVE  u \in Tasks /\ u.requested <= now' /\ \A s \in u.stories : u.bound <= doomed'[h][s]
  BY DEF TaskInv
<1>1. /\ now \in Nat /\ now' \in Nat /\ doomed \in [Graphers -> [Stories -> Nat]] /\ doomed' \in [Graphers -> [Stories -> Nat]]
      /\ incarnation \in [Graphers -> Nat]
  BY DEF Types, ProcessTypes
<1>2. now <= now' /\ \A s \in Stories : up'[h] => doomed[h][s] <= doomed'[h][s]
  BY StepDoomed DEF Doomed
<1>3. up'[h]
  <2>1. ~up'[h] => destroyQueue'[h] = <<>> /\ worker'[h] = Idle
    BY DEF CustodyInv, Custody, Empties
  <2> QED BY <2>1 DEF Pending, Range, Idle, TaskPcs
<1>4. ASSUME Pending(h, u)
      PROVE  u \in Tasks /\ u.requested <= now' /\ \A s \in u.stories : u.bound <= doomed'[h][s]
  <2>1. u \in Tasks /\ u.requested <= now /\ \A s \in u.stories : u.bound <= doomed[h][s]
    BY <1>4 DEF TaskInv
  <2>2. u.requested \in Nat /\ u.bound \in Nat /\ u.stories \subseteq Stories
    BY <2>1 DEF Tasks
  <2>3. u.requested <= now'
    BY <1>1, <1>2, <2>1, <2>2
  <2>4. ASSUME NEW s \in u.stories PROVE u.bound <= doomed'[h][s]
    <3>1. doomed[h][s] \in Nat /\ doomed'[h][s] \in Nat /\ doomed[h][s] <= doomed'[h][s] /\ u.bound <= doomed[h][s]
      BY <1>1, <1>2, <1>3, <2>1, <2>2
    <3> QED BY <2>2, <3>1
  <2> QED BY <2>1, <2>3, <2>4
<1>5. CASE Fewer
  BY <1>4, <1>5 DEF Fewer
<1>6. ASSUME NEW g \in Graphers, NEW D, NEW t, Arrival(g, D, t), h = g, u = t
      PROVE  u \in Tasks /\ u.requested <= now' /\ \A s \in u.stories : u.bound <= doomed'[h][s]
  <2>1. t \in Tasks /\ t.stories = D /\ t.requested = now /\ t.bound = incarnation[g]
    BY <1>6, ArrivalPending
  <2>2. D \subseteq Stories
    BY <2>1 DEF Tasks
  <2>3. \A s \in D : doomed'[g][s] = incarnation[g]
    BY <1>1, <1>6, <2>2 DEF Arrival, Doom
  <2>4. now <= now' /\ incarnation[g] <= incarnation[g]
    BY <1>1, <1>2
  <2> QED BY <1>6, <2>1, <2>3, <2>4
<1>7. ASSUME NEW g \in Graphers, NEW D, NEW t, Arrival(g, D, t)
      PROVE  u \in Tasks /\ u.requested <= now' /\ \A s \in u.stories : u.bound <= doomed'[h][s]
  <2>1. Pending(h, u) \/ (h = g /\ u = t)
    BY <1>7, ArrivalPending
  <2> QED BY <1>4, <1>6, <1>7, <2>1
<1>8. ASSUME NEW D, Sent(D) PROVE u \in Tasks /\ u.requested <= now' /\ \A s \in u.stories : u.bound <= doomed'[h][s]
  BY <1>4, <1>8 DEF Sent, Pending
<1> QED BY <1>5, <1>7, <1>8, StepFewer

\* A file that is spared stays so, unless a destroy of its story arrives at its
\* own grapher or is sent.
LEMMA SparedKeeps ==
  ASSUME Types, Types', CustodyInv, CustodyInv', TaskInv, BroadcastInv, Shape, NEW f \in File, Spared(f),
         \A g \in Graphers : \A D, t : Arrival(g, D, t) /\ StoryOf[f.w] \in D => f.g # g,
         \A D : Sent(D) => StoryOf[f.w] \notin D
  PROVE  Spared(f)'
<1> DEFINE s == StoryOf[f.w]
<1>1. /\ now \in Nat /\ f.mtime \in Nat /\ Margin \in Nat /\ broadcast \in Broadcasts /\ broadcast.at \in Nat
      /\ broadcast.to \subseteq Graphers
  BY ArchiveAssumption DEF Types, ProcessTypes, Broadcasts, File
<1>2. worker \in [Graphers -> WorkerStates]
  BY DEF Types, HandTypes
<1>3. CASE Fewer
  <2>1. ASSUME NEW h \in Graphers, NEW t, Pending(h, t)', s \in t.stories PROVE ~coveredByDestroy(f, h, t)'
    <3>1. Pending(h, t) /\ started'[h] = started[h]
      BY <1>3, <2>1 DEF Fewer
    <3>2. ~coveredByDestroy(f, h, t)
      BY <2>1, <3>1 DEF Spared
    <3> QED BY <3>1, <3>2 DEF coveredByDestroy
  <2>2. ASSUME NEW h \in Graphers, worker'[h].pc = "remove" PROVE f \notin worker'[h].files
    <3>1. CASE worker[h].pc = "remove" /\ worker'[h].files \subseteq worker[h].files
      BY <3>1 DEF Spared
    <3>2. CASE worker[h].pc \in TaskPcs /\ worker'[h].files = Listed(h)
      <4>1. Pending(h, worker[h].task)
        BY <3>2 DEF Pending
      <4>2. f \in Listed(h) => s \in worker[h].task.stories /\ coveredByDestroy(f, h, worker[h].task)
        BY DEF Listed
      <4> QED BY <3>2, <4>1, <4>2 DEF Spared
    <3> QED BY <1>3, <2>2, <3>1, <3>2 DEF Fewer
  <2>3. broadcast'.to # {} /\ s \in broadcast'.stories => broadcast'.at <= f.mtime
    BY <1>3 DEF Fewer, Spared
  <2> QED BY <2>1, <2>2, <2>3 DEF Spared
<1>4. ASSUME NEW g \in Graphers, NEW D, NEW t, Arrival(g, D, t) PROVE Spared(f)'
  <2>1. t \in Tasks /\ t.stories = D /\ t.requested = now /\ D = broadcast.stories /\ broadcast.to # {}
    <3>1. t \in Tasks /\ t.stories = D /\ t.requested = now
      BY <1>4, ArrivalPending
    <3>2. D = broadcast.stories /\ broadcast.to # {}
      BY <1>4 DEF Arrival
    <3> QED BY <3>1, <3>2
  <2>2. started' = started /\ worker' = worker
    BY <1>4 DEF Arrival, ArrivalFrame
  <2>3. broadcast'.at = broadcast.at /\ broadcast'.stories = broadcast.stories
    BY <1>1, <1>4 DEF Arrival, Broadcasts
  <2>4. ASSUME s \in D PROVE ~coveredByDestroy(f, g, t)
    <3>1. f.g # g
      BY <1>4, <2>4
    <3>2. broadcast.at <= f.mtime /\ now <= broadcast.at + Margin
      BY <2>1, <2>4 DEF Spared, BroadcastInv
    <3>3. ~(f.mtime + Margin < now)
      BY <1>1, <3>2
    <3> QED BY <2>1, <3>1, <3>3 DEF coveredByDestroy
  <2>5. ASSUME NEW h \in Graphers, NEW u, Pending(h, u)', s \in u.stories PROVE ~coveredByDestroy(f, h, u)'
    <3>1. Pending(h, u) \/ (h = g /\ u = t)
      BY <1>4, <2>5, ArrivalPending
    <3>2. ~coveredByDestroy(f, h, u)
      BY <2>1, <2>4, <2>5, <3>1 DEF Spared
    <3> QED BY <2>2, <3>2 DEF coveredByDestroy
  <2>6. \A h \in Graphers : worker'[h].pc = "remove" => f \notin worker'[h].files
    BY <2>2 DEF Spared
  <2>7. broadcast'.to # {} /\ s \in broadcast'.stories => broadcast'.at <= f.mtime
    BY <2>1, <2>3 DEF Spared
  <2> QED BY <2>5, <2>6, <2>7 DEF Spared
<1>5. ASSUME NEW D, Sent(D) PROVE Spared(f)'
  <2>1. s \notin D /\ broadcast'.stories = D /\ started' = started /\ worker' = worker /\ destroyQueue' = destroyQueue
    BY <1>5 DEF Sent
  <2>2. \A h \in Graphers : \A u : Pending(h, u)' <=> Pending(h, u)
    BY <2>1 DEF Pending
  <2>3. \A h, u : coveredByDestroy(f, h, u)' <=> coveredByDestroy(f, h, u)
    BY <2>1 DEF coveredByDestroy
  <2> QED BY <2>1, <2>2, <2>3 DEF Spared
<1> QED BY <1>3, <1>4, <1>5, StepFewer

-----------------------------------------------------------------------------
(* Records last                                                            *)

\* A delete record is new only for what the grapher's worker has removed.
NewDeletes(h) ==
  \A j \in DOMAIN log'[h] : j \notin DOMAIN log[h] /\ log'[h][j].rec.op = "delete" =>
    worker[h].pc = "remove" /\ log'[h][j].rec = DeleteRecord(h)
Appends(h) == Extends(h) /\ NewDeletes(h)

\* a log that stays or is synced, one that a record is written to
LEMMA LogSame ==
  ASSUME log' = log, NEW h
  PROVE  Appends(h)
BY DEF Appends, Extends, NewDeletes

\* A sync adds no line.
LEMMA SyncedAppends ==
  ASSUME NEW g \in Graphers, Synced(g), NEW h \in Graphers
  PROVE  Appends(h)
<1>1. Extends(h)
  BY SyncedExtends
<1>2. DOMAIN log'[h] = DOMAIN log[h]
  BY DEF Synced, Moved
<1> QED BY <1>1, <1>2 DEF Appends, NewDeletes

\* A line that is written holds its record or part of it.
LEMMA WrittenAppends ==
  ASSUME NEW g \in Graphers, NEW rec, Written(g, rec), NEW h \in Graphers,
         rec.op = "publish" \/ (worker[g].pc = "remove" /\ rec = DeleteRecord(g))
  PROVE  Appends(h)
<1>1. Extends(h)
  BY WrittenExtends
<1>2. CASE log' = log
  BY <1>2, LogSame
<1>3. ASSUME NEW m \in Items, Wrote(g, m), m.rec \in {rec, Cut} PROVE NewDeletes(h)
  <2>1. CASE h # g
    BY <1>3, <2>1 DEF Wrote, OneMore, NewDeletes
  <2>2. CASE h = g
    <3>1. m.rec.op = "delete" => worker[g].pc = "remove" /\ m.rec = DeleteRecord(g)
      BY <1>3 DEF Cut
    <3>2. \A j \in DOMAIN log'[g] : j \notin DOMAIN log[g] => log'[g][j] = m
      BY <1>3 DEF Wrote, OneMore
    <3> QED BY <2>2, <3>1, <3>2 DEF NewDeletes
  <2> QED BY <2>1, <2>2
<1> QED BY <1>1, <1>2, <1>3 DEF Written, Appends

\* Every step but a power loss appends and syncs.
LEMMA StepAppends ==
  ASSUME Types, Shape, ~Lost, NEW h \in Graphers
  PROVE  Appends(h)
<1>1. ASSUME NEW g \in Graphers, StoreStep(g) \/ (\E D, t : Arrival(g, D, t)) \/ Crashed(g) \/ Ended(g) PROVE log' = log
  BY <1>1 DEF StoreStep, StoreFrame, Arrival, ArrivalFrame, Crashed, Ended
<1>2. ASSUME UNCHANGED vars \/ PlayerStep \/ (\E D : Sent(D)) \/ Elapsed PROVE log' = log
  <2>1. PlayerStep => PlayerFrame
    BY PlayerEffect
  <2> QED BY <1>2, <2>1 DEF vars, disk, PlayerFrame, Sent, Elapsed
<1>3. ASSUME NEW g \in Graphers, WorkerStep(g) PROVE Appends(h)
  <2>1. CASE Take(g) \/ List(g) \/ (\E f \in File : Unlink(g, f)) \/ GiveUp(g)
    BY <2>1, LogSame DEF Take, List, Unlink, GiveUp
  <2>2. CASE Record(g)
    BY <2>2, LogSame, WrittenAppends DEF Record
  <2>3. CASE Settle(g)
    BY <2>3, SyncedAppends DEF Settle
  <2> QED BY <1>3, <2>1, <2>2, <2>3, WorkerEffect
<1>4. ASSUME NEW g \in Graphers, Opened(g) PROVE Appends(h)
  <2>1. Moved(g, "dirty", "synced")
    BY <1>4 DEF Opened
  <2>2. Extends(h)
    BY <2>1, MovedExtends
  <2>3. DOMAIN log'[h] = DOMAIN log[h]
    BY <2>1 DEF Moved
  <2> QED BY <2>2, <2>3 DEF Appends, NewDeletes
<1>5. ASSUME NEW x \in DOMAIN home, StreamShape(x) PROVE Appends(h)
  <2>1. home[x] \in Graphers
    BY StreamTyped
  <2>2. [op |-> "publish", file |-> stream[x].file].op = "publish"
    OBVIOUS
  <2>3. CASE Pick(x) \/ (\E f \in File : Publish(x, f)) \/ Fail(x) \/ Name(x) \/ Drop(x) \/ Report(x)
    BY <2>3, LogSame DEF Pick, Publish, Fail, Name, Drop, Report
  <2>4. CASE NotAppended(x)
    BY <2>1, <2>2, <2>4, LogSame, WrittenAppends DEF NotAppended
  <2>5. CASE \E m \in Items : Append1(x, m)
    BY <2>1, <2>2, <2>5, WrittenAppends DEF Append1
  <2>6. CASE Flush(x)
    BY <2>1, <2>6, SyncedAppends DEF Flush
  <2> QED BY <1>5, <2>3, <2>4, <2>5, <2>6 DEF StreamShape
<1> QED BY <1>1, <1>2, <1>3, <1>4, <1>5, LogSame DEF Shape

\* The record of a file that is spared lasts; over a power loss if it is synced.
LEMMA RecordedKeeps ==
  ASSUME Types, Types', Shape, NEW h \in Graphers, NEW i \in Nat, NEW f \in File, f.g = h, Spared(f), Recorded(h, i, f),
         Lost => log[h][i].at = "synced"
  PROVE  /\ Recorded(h, i, f)' /\ (log[h][i].at = "synced" => log'[h][i].at = "synced")
<1>1. CASE Lost
  <2>1. Left(log[h], log'[h]) /\ log[h][i].at = "synced"
    BY <1>1 DEF Lost
  <2>2. i \in DOMAIN log'[h] /\ log'[h][i].rec = log[h][i].rec /\ log'[h][i].ended = log[h][i].ended /\ log'[h][i].at = "synced"
    BY <2>1 DEF Left, Recorded
  <2>3. ASSUME NEW j \in DOMAIN log'[h], j > i, log'[h][j].rec.op = "delete" PROVE ~Covers(log'[h][j].rec, f)
    <3>1. j \in DOMAIN log[h] /\ log'[h][j].rec = log[h][j].rec
      BY <2>1, <2>3 DEF Left, Cut
    <3> QED BY <2>3, <3>1 DEF Recorded
  <2> QED BY <2>2, <2>3 DEF Recorded
<1>2. CASE ~Lost
  <2>1. Extends(h) /\ NewDeletes(h)
    BY <1>2, StepAppends DEF Appends
  <2>2. /\ i \in DOMAIN log'[h] /\ log'[h][i].rec = log[h][i].rec /\ log'[h][i].ended = log[h][i].ended
        /\ (log[h][i].at = "synced" => log'[h][i].at = "synced")
    BY <2>1 DEF Extends, Recorded
  <2>3. ASSUME NEW j \in DOMAIN log'[h], j > i, log'[h][j].rec.op = "delete" PROVE ~Covers(log'[h][j].rec, f)
    <3>1. CASE j \in DOMAIN log[h]
      BY <2>1, <2>3, <3>1 DEF Extends, Recorded
    <3>2. CASE j \notin DOMAIN log[h]
      <4>1. worker[h].pc = "remove" /\ log'[h][j].rec = DeleteRecord(h)
        BY <2>1, <2>3, <3>2 DEF NewDeletes
      <4>2. StoryOf[f.w] \in worker[h].task.stories => ~coveredByDestroy(f, h, worker[h].task)
        BY <4>1 DEF Spared, Pending, TaskPcs
      <4>3. /\ DeleteRecord(h).stories = worker[h].task.stories /\ DeleteRecord(h).start = started[h]
            /\ DeleteRecord(h).bound = worker[h].task.bound
        BY DEF DeleteRecord
      <4> QED BY <4>1, <4>2, <4>3 DEF Covers, coveredByDestroy
    <3> QED BY <3>1, <3>2
  <2> QED BY <2>2, <2>3 DEF Recorded
<1> QED BY <1>1, <1>2

\* Every step keeps the lines apart.
LEMMA StepLines ==
  ASSUME Types, Types', LinesInv, CustodyInv, Shape
  PROVE  LinesInv'
<1> DEFINE Apart(g) == \A i \in DOMAIN log'[g] : i = 1 \/ log'[g][i - 1].ended \/ log'[g][i].nl
           Closed(g) == up'[g] /\ log'[g] # <<>> => log'[g][Len(log'[g])].ended \/ needsNewline'[g]
<1>1. \A g \in Graphers : /\ log[g] \in Seq(Items) /\ Len(log[g]) \in Nat /\ DOMAIN log[g] = 1 .. Len(log[g])
                          /\ log'[g] \in Seq(Items) /\ Len(log'[g]) \in Nat /\ DOMAIN log'[g] = 1 .. Len(log'[g])
  BY LogTyped, LenProperties DEF Types, DiskTypes
<1>2. needsNewline \in [Graphers -> BOOLEAN]
  BY DEF Types, ProcessTypes
<1>3. ASSUME NEW g \in Graphers, log'[g] = log[g], up'[g] => up[g], up'[g] /\ needsNewline[g] => needsNewline'[g]
      PROVE  Apart(g) /\ Closed(g)
  BY <1>3 DEF LinesInv
<1>4. ASSUME NEW g \in Graphers, NEW to, Moved(g, "dirty", to), up'[g] => up[g], needsNewline[g] => needsNewline'[g]
      PROVE  Apart(g) /\ Closed(g)
  <2>1. DOMAIN log'[g] = DOMAIN log[g] /\ Len(log'[g]) = Len(log[g])
        /\ \A i \in DOMAIN log[g] : log'[g][i].nl = log[g][i].nl /\ log'[g][i].ended = log[g][i].ended
    BY <1>4 DEF Moved
  <2>2. Apart(g)
    BY <1>1, <2>1 DEF LinesInv
  <2>3. Closed(g)
    <3>1. CASE log[g] = <<>>
      BY <1>1, <2>1, <3>1
    <3>2. CASE log[g] # <<>>
      <4>1. Len(log[g]) \in DOMAIN log[g]
        BY <1>1, <3>2
      <4> QED BY <1>4, <2>1, <3>2, <4>1 DEF LinesInv
    <3> QED BY <3>1, <3>2
  <2> QED BY <2>2, <2>3
<1>5. ASSUME NEW g \in Graphers, NEW m \in Items, Wrote(g, m), up[g]
      PROVE  Apart(g) /\ Closed(g)
  <2>1. OneMore(g, m) /\ (m.ended \/ needsNewline'[g]) /\ (NeedsNl(g) <=> m.nl)
    BY <1>5 DEF Wrote
  <2>2. /\ DOMAIN log'[g] = 1 .. (Len(log[g]) + 1) /\ Len(log'[g]) = Len(log[g]) + 1 /\ log'[g][Len(log[g]) + 1] = m
        /\ \A i \in DOMAIN log[g] : log'[g][i] = log[g][i]
    BY <2>1 DEF OneMore
  <2>3. ASSUME NEW i \in DOMAIN log'[g] PROVE i = 1 \/ log'[g][i - 1].ended \/ log'[g][i].nl
    <3>1. CASE i \in DOMAIN log[g]
      <4>1. i = 1 \/ i - 1 \in DOMAIN log[g]
        BY <1>1, <3>1
      <4> QED BY <2>2, <3>1, <4>1 DEF LinesInv
    <3>2. CASE i = Len(log[g]) + 1 /\ i # 1
      <4>1. i - 1 = Len(log[g]) /\ Len(log[g]) \in DOMAIN log[g] /\ log[g] # <<>>
        BY <1>1, <3>2
      <4>2. log[g][Len(log[g])].ended \/ needsNewline[g]
        BY <1>5, <4>1 DEF LinesInv
      <4> QED BY <2>1, <2>2, <3>2, <4>1, <4>2 DEF NeedsNl
    <3> QED BY <1>1, <2>2, <3>1, <3>2
  <2>4. Closed(g)
    BY <2>1, <2>2
  <2> QED BY <2>3, <2>4
<1>6. ASSUME NEW g \in Graphers, Lost PROVE Apart(g) /\ Closed(g)
  <2>1. Left(log[g], log'[g]) /\ ~up'[g]
    BY <1>6 DEF Lost, Away
  <2>2. ASSUME NEW i \in DOMAIN log'[g] PROVE i = 1 \/ log'[g][i - 1].ended \/ log'[g][i].nl
    <3>1. i \in DOMAIN log[g] /\ log'[g][i].nl = log[g][i].nl
      BY <2>1 DEF Left
    <3>2. i # 1 => i - 1 \in DOMAIN log'[g] /\ (i - 1) + 1 = i
      BY <1>1
    <3>3. i # 1 => log'[g][i - 1].ended = log[g][i - 1].ended
      BY <2>1, <3>2 DEF Left
    <3> QED BY <3>1, <3>3 DEF LinesInv
  <2> QED BY <2>1, <2>2
<1>7. ASSUME NEW g \in Graphers, Opened(g) PROVE Apart(g) /\ Closed(g)
  <2>1. /\ DOMAIN log'[g] = DOMAIN log[g] /\ Len(log'[g]) = Len(log[g])
        /\ \A i \in DOMAIN log[g] : log'[g][i].nl = log[g][i].nl /\ log'[g][i].ended = log[g][i].ended
    BY <1>7 DEF Opened, Moved
  <2>2. Apart(g)
    BY <1>1, <2>1 DEF LinesInv
  <2>3. needsNewline'[g] = endsWithoutNewline(log[g])
    BY <1>2, <1>7 DEF Opened
  <2>4. log'[g] # <<>> => log[g] # <<>> /\ Len(log[g]) \in DOMAIN log[g]
    BY <1>1, <2>1
  <2>5. Closed(g)
    BY <2>1, <2>3, <2>4 DEF endsWithoutNewline
  <2> QED BY <2>2, <2>5
<1> HIDE DEF Apart, Closed
\* what a line written or a sync at grapher k does
<1>8. ASSUME NEW k \in Graphers, NEW rec, Written(k, rec), up' = up, up[k], NEW g \in Graphers PROVE Apart(g) /\ Closed(g)
  <2>1. CASE g # k
    <3>1. log'[g] = log[g] /\ needsNewline'[g] = needsNewline[g]
      BY <1>8, <2>1 DEF Written, Wrote, OneMore
    <3> QED BY <1>3, <1>8, <3>1
  <2>2. CASE g = k
    BY <1>3, <1>5, <1>8, <2>2 DEF Written
  <2> QED BY <2>1, <2>2
<1>9. ASSUME NEW k \in Graphers, Synced(k), up' = up, NEW g \in Graphers PROVE Apart(g) /\ Closed(g)
  <2>1. needsNewline[g] => needsNewline'[g]
    BY <1>9 DEF Synced
  <2>2. CASE log'[g] = log[g]
    BY <1>3, <1>9, <2>1, <2>2
  <2>3. CASE log'[g] # log[g]
    <3>1. g = k /\ \E to \in Ats : Moved(g, "dirty", to)
      <4>1. log' # log
        BY <2>3
      <4>2. PICK to \in Ats : Moved(k, "dirty", to)
        BY <1>9, <4>1 DEF Synced
      <4>3. g = k
        BY <2>3, <4>2 DEF Moved
      <4> QED BY <4>2, <4>3
    <3> QED BY <1>4, <1>9, <2>1, <3>1
  <2> QED BY <2>2, <2>3
<1>10. ASSUME UNCHANGED <<log, up, needsNewline>>, NEW g \in Graphers PROVE Apart(g) /\ Closed(g)
  BY <1>3, <1>10
<1>11. ASSUME NEW k \in Graphers, WorkerStep(k), NEW g \in Graphers PROVE Apart(g) /\ Closed(g)
  <2>1. up' = up /\ up[k]
    BY <1>11, WorkerHand DEF Hand
  <2>2. CASE Take(k) \/ List(k) \/ (\E f \in File : Unlink(k, f)) \/ GiveUp(k)
    BY <1>10, <2>1, <2>2 DEF Take, List, Unlink, GiveUp
  <2>3. CASE Record(k)
    BY <1>8, <1>10, <2>1, <2>3 DEF Record
  <2>4. CASE Settle(k)
    BY <1>9, <2>1, <2>4 DEF Settle
  <2> QED BY <1>11, <2>2, <2>3, <2>4, WorkerEffect
<1>12. ASSUME NEW x \in DOMAIN home, StreamShape(x), NEW g \in Graphers PROVE Apart(g) /\ Closed(g)
  <2>1. up' = up /\ up[home[x]] /\ home[x] \in Graphers
    BY <1>12, StreamTypes, StreamTyped DEF Carried, Go
  <2>2. CASE Pick(x) \/ (\E f \in File : Publish(x, f)) \/ Fail(x) \/ Name(x) \/ Drop(x) \/ Report(x)
    BY <1>10, <2>1, <2>2 DEF Pick, Publish, Fail, Name, Drop, Report
  <2>3. CASE NotAppended(x)
    BY <1>8, <1>10, <2>1, <2>3 DEF NotAppended
  <2>4. CASE \E m \in Items : Append1(x, m)
    BY <1>8, <2>1, <2>4 DEF Append1
  <2>5. CASE Flush(x)
    BY <1>9, <2>1, <2>5 DEF Flush
  <2> QED BY <1>12, <2>2, <2>3, <2>4, <2>5 DEF StreamShape
<1>13. ASSUME NEW k \in Graphers, Crashed(k), NEW g \in Graphers PROVE Apart(g) /\ Closed(g)
  <2>1. log' = log /\ (g # k => up'[g] = up[g] /\ needsNewline'[g] = needsNewline[g]) /\ ~up'[k]
    BY <1>13 DEF Crashed, Away
  <2> QED BY <1>3, <2>1
<1>14. ASSUME NEW k \in Graphers, Opened(k), NEW g \in Graphers PROVE Apart(g) /\ Closed(g)
  <2>1. CASE g # k
    <3>1. log'[g] = log[g] /\ needsNewline'[g] = needsNewline[g] /\ up'[g] = up[g]
      BY <1>2, <1>14, <2>1 DEF Opened, Moved, Types, ProcessTypes
    <3> QED BY <1>3, <3>1
  <2> QED BY <1>7, <1>14, <2>1
<1>15. ASSUME NEW k \in Graphers, StoreStep(k) \/ (\E D, t : Arrival(k, D, t)) \/ Ended(k) PROVE UNCHANGED <<log, up, needsNewline>>
  BY <1>15 DEF StoreStep, StoreFrame, Arrival, ArrivalFrame, Ended
<1>16. ASSUME UNCHANGED vars \/ PlayerStep \/ (\E D : Sent(D)) \/ Elapsed PROVE UNCHANGED <<log, up, needsNewline>>
  <2>1. PlayerStep => PlayerFrame
    BY PlayerEffect
  <2> QED BY <1>16, <2>1 DEF vars, grapher, writer, disk, PlayerFrame, Sent, Elapsed
<1>17. ASSUME NEW g \in Graphers PROVE Apart(g) /\ Closed(g)
  BY <1>6, <1>10, <1>11, <1>12, <1>13, <1>14, <1>15, <1>16 DEF Shape
<1> QED BY <1>17 DEF Apart, Closed, LinesInv

-----------------------------------------------------------------------------
(* Files last                                                              *)

\* A stream goes on with the file it holds.
GoesOn(x) ==
  /\ stream[x].pc \in Holding /\ stream[x].pc # "remove"
  /\ stream'[x].chunk = stream[x].chunk /\ stream'[x].file = stream[x].file
  /\ \/ stream'[x].pc = "remove"
     \/ /\ stream[x].pc = "names" /\ stream'[x].pc = "append"
        /\ stream[x].file \in files => stream[x].file \in named'
     \/ \E m \in Items : Append1(x, m) /\ stream'[x].pc = "sync" /\ stream'[x].at = Len(log'[home[x]])
     \/ /\ stream[x].pc = "sync" /\ stream'[x].pc = "report" /\ stream'[x].at = stream[x].at
        /\ Moved(home[x], "dirty", "synced") /\ log[home[x]][stream[x].at].at # "doubt"

\* A stream that holds a file after its step wrote it or goes on with it.
LEMMA Onward ==
  ASSUME Types, NEW x \in DOMAIN home, StreamShape(x), stream'[x].pc \in Holding
  PROVE  \/ GoesOn(x)
         \/ \E f \in File : /\ Publish(x, f) /\ stream'[x].pc = "names" /\ stream'[x].chunk = stream[x].chunk
                            /\ stream'[x].file = f
<1>1. /\ x \in Streams /\ stream \in [Streams -> StreamStates] /\ \A v : Go(x, v) => stream'[x] = v
  BY StreamTyped DEF Go
<1>2. Idle.pc \notin Holding
  BY DEF Idle, Holding
<1>3. CASE Pick(x)
  <2> DEFINE u == [pc |-> "write", chunk |-> Head(extractionQueue[home[x]])]
  <2>1. u.pc \notin Holding
    BY DEF Holding
  <2>2. stream'[x] = Idle \/ stream'[x] = u
    BY <1>1, <1>3 DEF Pick
  <2> HIDE DEF u
  <2> QED BY <1>2, <2>1, <2>2
<1>4. ASSUME NEW f \in File, Publish(x, f)
      PROVE  stream'[x].pc = "names" /\ stream'[x].chunk = stream[x].chunk /\ stream'[x].file = f
  <2>1. stream'[x] = [pc |-> "names", chunk |-> stream[x].chunk, file |-> f]
    BY <1>1, <1>4 DEF Publish
  <2> QED BY <2>1
<1>5. CASE Fail(x) \/ Drop(x) \/ Report(x)
  BY <1>1, <1>2, <1>5 DEF Fail, Drop, Report
<1>6. CASE Name(x)
  <2>1. /\ stream[x].pc = "names" /\ stream'[x] = [stream[x] EXCEPT !.pc = "append"]
        /\ named' = named \cup ({stream[x].file} \cap files)
    BY <1>1, <1>2, <1>6 DEF Name
  <2>2. stream'[x].pc = "append" /\ stream'[x].chunk = stream[x].chunk /\ stream'[x].file = stream[x].file
    BY <2>1, GoState
  <2> QED BY <2>1, <2>2 DEF GoesOn, Holding
<1>7. CASE NotAppended(x)
  <2>1. stream[x].pc = "append" /\ stream'[x] = [stream[x] EXCEPT !.pc = "remove"]
    BY <1>1, <1>7 DEF NotAppended
  <2>2. stream'[x].pc = "remove" /\ stream'[x].chunk = stream[x].chunk /\ stream'[x].file = stream[x].file
    BY <2>1, GoState
  <2> QED BY <2>1, <2>2 DEF GoesOn, Holding
<1>8. ASSUME NEW m \in Items, Append1(x, m) PROVE GoesOn(x)
  <2>1. /\ stream[x].pc = "append"
        /\ stream'[x] = [pc |-> "sync", chunk |-> stream[x].chunk, file |-> stream[x].file, at |-> Len(log'[home[x]])]
    BY <1>1, <1>8 DEF Append1
  <2>2. /\ stream'[x].pc = "sync" /\ stream'[x].chunk = stream[x].chunk /\ stream'[x].file = stream[x].file
        /\ stream'[x].at = Len(log'[home[x]])
    BY <2>1
  <2> QED BY <1>8, <2>1, <2>2 DEF GoesOn, Holding
<1>9. CASE Flush(x)
  <2>1. /\ stream[x].pc = "sync"
        /\ \/ stream'[x] = [stream[x] EXCEPT !.pc = "remove"]
           \/ /\ stream'[x] = [stream[x] EXCEPT !.pc = "report"]
              /\ Moved(home[x], "dirty", "synced") /\ log[home[x]][stream[x].at].at # "doubt"
    BY <1>1, <1>9 DEF Flush
  <2>2. \A pc \in {"report", "remove"} : stream'[x] = [stream[x] EXCEPT !.pc = pc] =>
          /\ stream'[x].pc = pc /\ stream'[x].chunk = stream[x].chunk /\ stream'[x].file = stream[x].file
          /\ stream'[x].at = stream[x].at
    BY <2>1, GoState
  <2> QED BY <2>1, <2>2 DEF GoesOn, Holding
<1> QED BY <1>3, <1>4, <1>5, <1>6, <1>7, <1>8, <1>9 DEF StreamShape

\* A stream moves by its own steps or with its process.
LEMMA StreamMoves ==
  ASSUME Types, Shape, NEW x \in DOMAIN home
  PROVE  home' = home /\ (stream'[x] = stream[x] \/ stream'[x] = Idle \/ StreamShape(x))
<1>1. x \in Streams /\ home[x] \in Graphers /\ stream \in [Streams -> StreamStates]
  BY StreamTyped
<1>2. CASE UNCHANGED vars
  BY <1>2 DEF vars, extraction
<1>3. ASSUME NEW g \in Graphers, StoreStep(g) \/ (\E D, t : Arrival(g, D, t)) \/ Opened(g) \/ Ended(g)
      PROVE  home' = home /\ stream' = stream
  BY <1>3 DEF StoreStep, StoreFrame, Arrival, ArrivalFrame, Opened, Ended
<1>4. ASSUME NEW g \in Graphers, WorkerStep(g) PROVE home' = home /\ stream' = stream
  BY <1>4, WorkerHand DEF Hand
<1>5. ASSUME NEW g \in Graphers, Crashed(g) PROVE home' = home /\ (stream'[x] = stream[x] \/ stream'[x] = Idle)
  <2>1. x \in StreamsOf(g) \/ x \in Streams \ StreamsOf(g)
    BY <1>1
  <2> QED BY <1>5, <2>1 DEF Crashed, Away
<1>6. ASSUME NEW y \in DOMAIN home, StreamShape(y) PROVE home' = home /\ (x # y => stream'[x] = stream[x])
  <2>1. PICK v : Go(y, v)
    BY <1>6, StreamTypes DEF Carried
  <2> QED BY <1>1, <2>1 DEF Go
<1>7. ASSUME PlayerStep PROVE home' = home /\ stream' = stream
  BY <1>7, PlayerEffect DEF PlayerFrame
<1>8. CASE (\E D : Sent(D)) \/ Elapsed
  BY <1>8 DEF Sent, Elapsed
<1>9. CASE Lost
  BY <1>1, <1>9 DEF Lost
<1> QED BY <1>2, <1>3, <1>4, <1>5, <1>6, <1>7, <1>8, <1>9 DEF Shape

\* A file that is spared stays, unless the stream that holds it fails; over a
\* power loss if its name is synced.
LEMMA FileKeeps ==
  ASSUME Types, Shape, NEW f, Spared(f), f \in files, Lost => f \in named,
         \A x \in DOMAIN home : stream[x].pc \in {"names", "remove"} /\ stream'[x] = Idle => stream[x].file # f
  PROVE  f \in files' /\ (f \in named => f \in named')
<1>1. ASSUME UNCHANGED <<files, named>> PROVE f \in files' /\ (f \in named => f \in named')
  BY <1>1
<1>2. CASE UNCHANGED vars
  BY <1>2 DEF vars, disk
<1>3. ASSUME NEW g \in Graphers, StoreStep(g) \/ (\E D, t : Arrival(g, D, t)) \/ Opened(g) \/ Ended(g) \/ Crashed(g)
      PROVE  UNCHANGED <<files, named>>
  BY <1>3 DEF StoreStep, StoreFrame, Arrival, ArrivalFrame, Opened, Ended, Crashed
<1>4. ASSUME PlayerStep PROVE UNCHANGED <<files, named>>
  BY <1>4, PlayerEffect DEF PlayerFrame
<1>5. CASE (\E D : Sent(D)) \/ Elapsed
  BY <1>5 DEF Sent, Elapsed
<1>6. CASE Lost
  BY <1>6 DEF Lost
<1>7. ASSUME NEW g \in Graphers, WorkerStep(g) PROVE f \in files' /\ (f \in named => f \in named')
  <2>1. CASE Take(g) \/ List(g) \/ GiveUp(g) \/ Record(g) \/ Settle(g)
    BY <2>1 DEF Take, List, GiveUp, Record, Settle
  <2>2. ASSUME NEW e, Unlink(g, e) PROVE f \in files' /\ (f \in named => f \in named')
    <3>1. e # f
      BY <2>2 DEF Unlink, Spared
    <3> QED BY <2>2, <3>1 DEF Unlink
  <2> QED BY <1>7, <2>1, <2>2, WorkerEffect
<1>8. ASSUME NEW x \in DOMAIN home, StreamShape(x) PROVE f \in files' /\ (f \in named => f \in named')
  <2>1. x \in Streams /\ stream \in [Streams -> StreamStates]
    BY StreamTyped
  <2>2. CASE Pick(x) \/ (\E e \in File : Publish(x, e)) \/ Fail(x)
    BY <2>2 DEF Pick, Publish, Fail
  <2>3. CASE NotAppended(x) \/ (\E m \in Items : Append1(x, m)) \/ Flush(x) \/ Report(x)
    BY <2>3 DEF NotAppended, Append1, Flush, Report
  <2>4. ASSUME Go(x, Idle), stream[x].pc \in {"names", "remove"} PROVE stream[x].file # f
    BY <2>1, <2>4 DEF Go
  <2>5. CASE Name(x)
    BY <2>4, <2>5 DEF Name
  <2>6. CASE Drop(x)
    BY <2>4, <2>6 DEF Drop
  <2> QED BY <1>8, <2>2, <2>3, <2>5, <2>6 DEF StreamShape
<1> QED BY <1>1, <1>2, <1>3, <1>4, <1>5, <1>6, <1>7, <1>8 DEF Shape

\* A file that no running grapher's destroys leave is covered by none when it is new.
LEMMA NewSpared ==
  ASSUME Types, NamesInv, TaskInv, BroadcastInv, NEW x \in DOMAIN home, NEW f \in File, Publish(x, f),
         stream[x].chunk.inc > doomed[home[x]][StoryOf[stream[x].chunk.w]]
  PROVE  Spared(f)'
<1>1. /\ home[x] \in Graphers /\ stream[x].chunk \in Chunk /\ up[home[x]]
      /\ UNCHANGED <<started, destroyQueue, worker, broadcast>>
  BY StreamTyped DEF Publish, Go
<1>2. /\ f.g = home[x] /\ f.start = started[home[x]] /\ f.inc = stream[x].chunk.inc /\ f.w = stream[x].chunk.w
      /\ f.n = sequence[home[x]] /\ f.mtime = now
  BY <1>1, NameTyped DEF Publish
<1>3. /\ now \in Nat /\ Margin \in Nat /\ f.inc \in Nat /\ StoryOf[f.w] \in Stories /\ sequence[home[x]] \in Nat
      /\ doomed[home[x]][StoryOf[f.w]] \in Nat /\ f.inc > doomed[home[x]][StoryOf[f.w]]
  BY <1>1, <1>2, ArchiveAssumption, SpanTyped DEF Types, ProcessTypes, File
<1>4. ASSUME NEW h \in Graphers, NEW t, Pending(h, t), StoryOf[f.w] \in t.stories PROVE ~coveredByDestroy(f, h, t)
  <2>1. t \in Tasks /\ t.requested <= now /\ t.bound <= doomed[h][StoryOf[f.w]]
    BY <1>4 DEF TaskInv
  <2>2. t.requested \in Nat /\ t.bound \in Nat
    BY <2>1 DEF Tasks
  <2>3. CASE h = f.g
    BY <1>2, <1>3, <2>1, <2>2, <2>3 DEF coveredByDestroy
  <2>4. CASE h # f.g
    <3>1. ~(f.mtime + Margin < t.requested)
      BY <1>2, <1>3, <2>1, <2>2
    <3> QED BY <2>4, <3>1 DEF coveredByDestroy
  <2> QED BY <2>3, <2>4
<1>5. ASSUME NEW h \in Graphers, worker[h].pc = "remove" PROVE f \notin worker[h].files
  <2>1. \A e \in worker[h].files : Known(e)
    BY <1>5 DEF NamesInv
  <2>2. ~Known(f)
    BY <1>1, <1>2, <1>3 DEF Known
  <2> QED BY <2>1, <2>2
<1>6. broadcast.at <= f.mtime
  BY <1>2 DEF BroadcastInv
<1>7. Spared(f)
  BY <1>4, <1>5, <1>6 DEF Spared
<1>8. \A h, t : (Pending(h, t)' <=> Pending(h, t)) /\ (coveredByDestroy(f, h, t)' <=> coveredByDestroy(f, h, t))
  BY <1>1 DEF Pending, coveredByDestroy
<1> QED BY <1>1, <1>7, <1>8 DEF Spared

-----------------------------------------------------------------------------
(* From the file to the report                                             *)

\* A chunk that a stream holds has a number of its grapher's pipelines, and the
\* grapher runs.
LEMMA ChunkNumbered ==
  ASSUME Types, CustodyInv, NEW x \in DOMAIN home, stream[x].pc # "idle"
  PROVE  /\ up[home[x]] /\ stream[x].chunk \in Chunk /\ StoryOf[stream[x].chunk.w] \in Stories
         /\ stream[x].chunk.inc <= incarnation[home[x]]
<1>1. home[x] \in Graphers /\ x \in StreamsOf(home[x]) /\ stream[x].chunk \in Chunk
  BY StreamTyped
<1>2. stream[x].chunk \in Held(home[x])
  BY <1>1 DEF Held, InStreams
<1>3. Numbered(home[x]) /\ Empties(home[x])
  BY <1>1 DEF CustodyInv, Custody
<1>4. up[home[x]]
  BY <1>1, <1>3 DEF Empties, Idle
<1>5. StoryOf[stream[x].chunk.w] \in Stories
  BY <1>1, ArchiveAssumption DEF Chunk
<1> QED BY <1>1, <1>2, <1>3, <1>4, <1>5 DEF Numbered

\* What is not doomed after the step was not before, and no destroy that is
\* sent or arrives in the step reaches it.
LEMMA NotDoomed ==
  ASSUME Types, Types', CustodyInv, BroadcastInv, Shape, NEW x \in DOMAIN home, stream[x].pc # "idle",
         NEW g, g = home[x], NEW s, s = StoryOf[stream[x].chunk.w], up'[g], stream[x].chunk.inc > doomed'[g][s]
  PROVE  /\ stream[x].chunk.inc > doomed[g][s]
         /\ \A D, t : Arrival(g, D, t) => s \notin D
         /\ \A D : Sent(D) => s \notin D
<1>1. /\ up[g] /\ stream[x].chunk \in Chunk /\ s \in Stories /\ stream[x].chunk.inc <= incarnation[g] /\ g \in Graphers
  BY ChunkNumbered, StreamTyped
<1>2. /\ stream[x].chunk.inc \in Nat /\ incarnation[g] \in Nat /\ doomed[g][s] \in Nat /\ doomed'[g][s] \in Nat
      /\ doomed \in [Graphers -> [Stories -> Nat]]
  BY <1>1 DEF Types, ProcessTypes, Chunk
<1>3. doomed[g][s] <= doomed'[g][s]
  BY <1>1, StepDoomed DEF Doomed
<1>4. stream[x].chunk.inc > doomed[g][s]
  BY <1>2, <1>3
<1>5. doomed'[g][s] # incarnation[g]
  BY <1>1, <1>2
<1>6. ASSUME NEW D, NEW t, Arrival(g, D, t) PROVE s \notin D
  BY <1>1, <1>2, <1>5, <1>6 DEF Arrival, Doom
<1>7. ASSUME NEW D, Sent(D) PROVE s \notin D
  BY <1>1, <1>5, <1>7 DEF Sent, Doom
<1> QED BY <1>4, <1>6, <1>7

\* A stream that keeps its file over a step
LEMMA KeptOn ==
  ASSUME Types, Types', CustodyInv, CustodyInv', NamesInv, TaskInv, BroadcastInv, StreamInv, Shape,
         NEW x \in DOMAIN home, NEW g, g = home[x], NEW f, f = stream[x].file, NEW s, s = StoryOf[stream[x].chunk.w],
         stream[x].pc \in Holding, stream[x].pc # "remove", stream'[x].pc \in Holding, stream'[x].chunk = stream[x].chunk,
         stream[x].chunk.inc > doomed'[g][s]
  PROVE  /\ Kept1(x) /\ Spared(f)' /\ f \in files' /\ (f \in named => f \in named')
         /\ \A i \in Nat : Recorded(g, i, f) => Recorded(g, i, f)' /\ (log[g][i].at = "synced" => log'[g][i].at = "synced")
<1>1. g \in Graphers /\ f \in File /\ x \in Streams /\ home' = home
  BY StreamTyped, StreamMoves
<1>2. stream[x].pc # "idle" /\ stream'[x].pc # "idle" /\ stream'[x] # Idle
  BY DEF Holding, Idle
<1>3. up'[g]
  <2>1. x \in StreamsOf(g)'
    BY <1>1 DEF StreamsOf
  <2> QED BY <1>1, <1>2, <2>1 DEF CustodyInv, Custody, Empties
<1>4. /\ stream[x].chunk.inc > doomed[g][s]
      /\ \A D, t : Arrival(g, D, t) => s \notin D
      /\ \A D : Sent(D) => s \notin D
  BY <1>2, <1>3, NotDoomed
<1>5. Kept1(x)
  BY <1>4 DEF StreamInv
<1>6. Spared(f) /\ f \in files
  BY <1>5 DEF Kept1
<1>7. f.g = g /\ StoryOf[f.w] = s
  BY DEF NamesInv, HoldsFile
<1>8. Spared(f)'
  <2>1. \A h \in Graphers : \A D, t : Arrival(h, D, t) /\ StoryOf[f.w] \in D => f.g # h
    BY <1>4, <1>7
  <2>2. \A D : Sent(D) => StoryOf[f.w] \notin D
    BY <1>4, <1>7
  <2> QED BY <1>1, <1>6, <2>1, <2>2, SparedKeeps
<1>9. ~Lost
  BY <1>1, <1>2 DEF Lost
<1>10. \A y \in DOMAIN home : stream[y].pc \in {"names", "remove"} /\ stream'[y] = Idle => stream[y].file # f
  <2>1. {"names", "remove"} \subseteq Holding
    BY DEF Holding
  <2> QED BY <1>2, <2>1 DEF NamesInv
<1>11. f \in files' /\ (f \in named => f \in named')
  BY <1>6, <1>9, <1>10, FileKeeps
<1>12. ASSUME NEW i \in Nat, Recorded(g, i, f)
       PROVE  Recorded(g, i, f)' /\ (log[g][i].at = "synced" => log'[g][i].at = "synced")
  BY <1>1, <1>6, <1>7, <1>9, <1>12, RecordedKeeps
<1> QED BY <1>5, <1>8, <1>11, <1>12

\* Every step keeps what streams hold of pipelines that are not doomed.
LEMMA StepStreams ==
  ASSUME Types, Types', CustodyInv, CustodyInv', NamesInv, TaskInv, BroadcastInv, StreamInv, Shape
  PROVE  StreamInv'
<1> SUFFICES ASSUME NEW x \in DOMAIN home', stream'[x].pc \in Holding, stream'[x].pc # "remove",
                    stream'[x].chunk.inc > doomed'[home'[x]][StoryOf[stream'[x].chunk.w]]
             PROVE  Kept1(x)'
  BY DEF StreamInv
<1>1. home' = home /\ x \in DOMAIN home
  <2>1. home' = home
    <3>1. CASE DOMAIN home = {}
      <4>1. \A h \in Graphers : StoreStep(h) \/ (\E D, t : Arrival(h, D, t)) \/ Crashed(h) \/ Opened(h) \/ Ended(h) => home' = home
        BY DEF StoreStep, StoreFrame, Arrival, ArrivalFrame, Crashed, Away, Opened, Ended
      <4>2. \A h \in Graphers : WorkerStep(h) => home' = home
        BY WorkerHand DEF Hand
      <4>3. PlayerStep => home' = home
        BY PlayerEffect DEF PlayerFrame
      <4>4. UNCHANGED vars \/ (\E D : Sent(D)) \/ Elapsed \/ Lost => home' = home
        BY DEF vars, Sent, Elapsed, Lost
      <4> QED BY <3>1, <4>1, <4>2, <4>3, <4>4 DEF Shape
    <3>2. CASE DOMAIN home # {}
      BY <3>2, StreamMoves
    <3> QED BY <3>1, <3>2
  <2> QED BY <2>1
<1>2. PICK g \in Graphers : g = home[x]
  BY <1>1, StreamTyped
<1>3. stream'[x] # Idle
  BY DEF Idle, Holding
<1>4. stream'[x] = stream[x] \/ StreamShape(x)
  BY <1>1, <1>3, StreamMoves
<1>5. CASE stream'[x] = stream[x]
  <2>1. PICK f \in File : f = stream[x].file
    BY <1>1, <1>5, StreamTyped
  <2>2. /\ Kept1(x) /\ Spared(f)' /\ f \in files' /\ (f \in named => f \in named')
        /\ \A i \in Nat : Recorded(g, i, f) => Recorded(g, i, f)' /\ (log[g][i].at = "synced" => log'[g][i].at = "synced")
    BY <1>1, <1>2, <1>5, <2>1, KeptOn
  <2>3. stream[x].pc \in {"sync", "report"} => stream[x].at \in Nat
    BY <1>1, StreamTyped, StreamStateOf DEF Syncing
  <2>4. stream[x].pc # "names" => f \in named'
    BY <2>1, <2>2 DEF Kept1
  <2>5. ASSUME stream[x].pc \in {"sync", "report"}, NEW i, i = stream[x].at
        PROVE  Recorded(g, i, f)' /\ (stream[x].pc = "report" => log'[g][i].at = "synced")
    BY <1>2, <2>1, <2>2, <2>3, <2>5 DEF Kept1
  <2>6. PICK i : i = stream[x].at
    OBVIOUS
  <2> QED BY <1>1, <1>2, <1>5, <2>1, <2>2, <2>4, <2>5, <2>6 DEF Kept1
<1>6. ASSUME NEW f \in File, Publish(x, f), stream'[x].pc = "names", stream'[x].chunk = stream[x].chunk, stream'[x].file = f
      PROVE  Kept1(x)'
  <2>1. doomed' = doomed /\ f \in files'
    BY <1>6 DEF Publish, Go
  <2>2. Spared(f)'
    BY <1>1, <1>6, <2>1, NewSpared
  <2> QED BY <1>6, <2>1, <2>2 DEF Kept1
<1>7. ASSUME GoesOn(x) PROVE Kept1(x)'
  <2>1. /\ stream[x].pc \in Holding /\ stream[x].pc # "remove"
        /\ stream'[x].chunk = stream[x].chunk /\ stream'[x].file = stream[x].file
    BY <1>7 DEF GoesOn
  <2>2. PICK f \in File : f = stream[x].file
    BY <1>1, <2>1, StreamTyped
  <2>3. /\ Kept1(x) /\ Spared(f)' /\ f \in files' /\ (f \in named => f \in named')
        /\ \A i \in Nat : Recorded(g, i, f) => Recorded(g, i, f)' /\ (log[g][i].at = "synced" => log'[g][i].at = "synced")
    BY <1>1, <1>2, <2>1, <2>2, KeptOn
  <2>4. CASE stream[x].pc = "names" /\ stream'[x].pc = "append" /\ (f \in files => f \in named')
    BY <2>1, <2>2, <2>3, <2>4 DEF Kept1
  <2>5. ASSUME NEW m \in Items, Append1(x, m), stream'[x].pc = "sync", stream'[x].at = Len(log'[home[x]]) PROVE Kept1(x)'
    <3>1. f \in named'
      BY <2>2, <2>3, <2>5 DEF Kept1, Append1
    <3>2. /\ OneMore(g, m) /\ m.rec = [op |-> "publish", file |-> f] /\ m.ended
      BY <1>2, <2>2, <2>5 DEF Append1, Wrote
    <3>3. PICK n : n = Len(log[g]) + 1
      OBVIOUS
    <3>4. /\ n \in DOMAIN log'[g] /\ log'[g][n] = m /\ stream'[x].at = n /\ \A j \in DOMAIN log'[g] : ~(j > n)
      BY <1>2, <2>5, <3>2, <3>3 DEF OneMore
    <3>5. Recorded(g, n, f)'
      BY <3>2, <3>4 DEF Recorded
    <3> QED BY <1>1, <1>2, <2>1, <2>2, <2>3, <2>5, <3>1, <3>4, <3>5 DEF Kept1
  <2>6. CASE /\ stream[x].pc = "sync" /\ stream'[x].pc = "report" /\ stream'[x].at = stream[x].at
             /\ Moved(home[x], "dirty", "synced") /\ log[home[x]][stream[x].at].at # "doubt"
    <3>1. PICK n \in Nat : n = stream[x].at
      BY <1>1, <2>6, StreamTyped, StreamStateOf DEF Syncing
    <3>2. f \in named' /\ Recorded(g, n, f)
      BY <1>2, <2>2, <2>3, <2>6, <3>1 DEF Kept1
    <3>3. Recorded(g, n, f)'
      BY <2>3, <3>2
    <3>4. log'[g][n].at = "synced"
      <4>1. n \in DOMAIN log[g] /\ log[g][n] \in Items
        BY <1>2, <3>2, LogTyped DEF Recorded
      <4>2. log[g][n].at \in {"dirty", "synced"}
        BY <1>2, <2>6, <3>1, <4>1 DEF Items, Ats
      <4> QED BY <1>2, <2>6, <4>1, <4>2 DEF Moved
    <3> QED BY <1>1, <1>2, <2>1, <2>2, <2>3, <2>6, <3>1, <3>2, <3>3, <3>4 DEF Kept1
  <2> QED BY <1>7, <2>2, <2>4, <2>5, <2>6 DEF GoesOn
<1>8. CASE StreamShape(x)
  BY <1>1, <1>6, <1>7, <1>8, Onward
<1> QED BY <1>4, <1>5, <1>8

-----------------------------------------------------------------------------
(* What was reported written stays found                                   *)

\* Reports come from streams and leave with a destroy of their story.
LEMMA StepLive ==
  ASSUME Types, Shape, NEW r \in live'
  PROVE  \/ r \in live /\ \A D : Sent(D) => StoryOf[r.w] \notin D
         \/ \E x \in DOMAIN home : /\ Report(x) /\ NotDestroyed(home[x], stream[x].chunk)
                                   /\ r = [g |-> home[x], w |-> stream[x].chunk.w]
<1>1. \A D : Sent(D) => r \in live /\ StoryOf[r.w] \notin D
  BY DEF Sent
<1>2. ASSUME NEW g \in Graphers, StoreStep(g) \/ (\E D, t : Arrival(g, D, t)) \/ Opened(g) \/ Ended(g) \/ Crashed(g)
      PROVE  live' = live
  BY <1>2 DEF StoreStep, StoreFrame, Arrival, ArrivalFrame, Opened, Ended, Crashed, Away
<1>3. ASSUME NEW g \in Graphers, WorkerStep(g) PROVE live' = live
  BY <1>3, WorkerHand DEF Hand
<1>4. ASSUME PlayerStep PROVE live' = live
  BY <1>4, PlayerEffect DEF PlayerFrame
<1>5. ASSUME UNCHANGED vars \/ Elapsed PROVE live' = live
  BY <1>5 DEF vars, Elapsed
<1>6. ASSUME NEW x \in DOMAIN home, StreamShape(x)
      PROVE  \/ r \in live
             \/ Report(x) /\ NotDestroyed(home[x], stream[x].chunk) /\ r = [g |-> home[x], w |-> stream[x].chunk.w]
  <2>1. CASE Pick(x) \/ (\E f \in File : Publish(x, f)) \/ Fail(x) \/ Name(x)
    BY <2>1 DEF Pick, Publish, Fail, Name
  <2>2. CASE NotAppended(x) \/ (\E m \in Items : Append1(x, m)) \/ Flush(x) \/ Drop(x)
    BY <2>2 DEF NotAppended, Append1, Flush, Drop
  <2>3. CASE Report(x)
    BY <2>3 DEF Report
  <2> QED BY <1>6, <2>1, <2>2, <2>3 DEF StreamShape
<1>7. Lost => live' = live
  BY DEF Lost
<1> QED BY <1>1, <1>2, <1>3, <1>4, <1>5, <1>6, <1>7 DEF Shape

\* Nobody begins to hold a file that is there.
LEMMA HeldByNone ==
  ASSUME Types, NamesInv, Shape, NEW f \in files, \A x \in DOMAIN home : stream[x].pc \in Holding => stream[x].file # f,
         NEW x \in DOMAIN home, stream'[x].pc \in Holding
  PROVE  stream'[x].file # f
<1>1. stream'[x] # Idle
  BY DEF Idle, Holding
<1>2. CASE stream'[x] = stream[x]
  BY <1>2
<1>3. CASE GoesOn(x)
  BY <1>3 DEF GoesOn
<1>4. ASSUME NEW e \in File, Publish(x, e), stream'[x].file = e PROVE e # f
  <2>1. home[x] \in Graphers /\ stream[x].chunk \in Chunk /\ up[home[x]]
    BY <1>4, StreamTyped DEF Publish, Go
  <2>2. e.g = home[x] /\ e.start = started[home[x]] /\ e.n = sequence[home[x]]
    BY <1>4, <2>1, NameTyped DEF Publish
  <2>3. sequence[home[x]] \in Nat
    BY <2>1 DEF Types, ProcessTypes
  <2>4. ~Known(e)
    BY <2>1, <2>2, <2>3 DEF Known
  <2> QED BY <2>4 DEF NamesInv
<1> QED BY <1>1, <1>2, <1>3, <1>4, Onward, StreamMoves

\* What a reader finds of a report stays, line and file, as long as the report
\* counts.
LEMMA EvidenceKeeps ==
  ASSUME Types, Types', CustodyInv, CustodyInv', NamesInv, TaskInv, BroadcastInv, Shape,
         NEW r \in live, \A D : Sent(D) => StoryOf[r.w] \notin D, NEW f \in File, NEW i \in Nat, Evidence(r, f, i)
  PROVE  Evidence(r, f, i)'
<1>1. /\ f.g = r.g /\ f.w = r.w /\ StreamsOf(r.g) # {} /\ Recorded(r.g, i, f) /\ log[r.g][i].at = "synced"
      /\ f \in named /\ f \in files /\ Spared(f)
      /\ \A x \in DOMAIN home : stream[x].pc \in Holding => stream[x].file # f
      /\ StoryOf[f.w] \in broadcast.stories => r.g \notin broadcast.to
  BY DEF Evidence
<1>2. r.g \in Graphers /\ broadcast \in Broadcasts
  BY DEF Types, DiskTypes, Reports, ProcessTypes
<1>3. StreamsOf(r.g)' = StreamsOf(r.g) /\ home' = home
  <2>1. PICK x : x \in StreamsOf(r.g)
    BY <1>1
  <2>2. home' = home
    BY <2>1, StreamMoves DEF StreamsOf
  <2> QED BY <2>2 DEF StreamsOf
<1>4. \A g \in Graphers : \A D, t : Arrival(g, D, t) /\ StoryOf[f.w] \in D => f.g # g
  BY <1>1 DEF Arrival
<1>5. Spared(f)'
  BY <1>1, <1>4, SparedKeeps
<1>6. Recorded(r.g, i, f)' /\ log'[r.g][i].at = "synced"
  BY <1>1, <1>2, RecordedKeeps
<1>7. f \in files' /\ f \in named'
  <2>1. {"names", "remove"} \subseteq Holding
    BY DEF Holding
  <2> QED BY <1>1, <2>1, FileKeeps
<1>8. \A x \in DOMAIN home : stream'[x].pc \in Holding => stream'[x].file # f
  BY <1>1, HeldByNone
<1>9. StoryOf[f.w] \in broadcast'.stories => r.g \notin broadcast'.to
  <2>1. CASE Fewer
    BY <1>1, <2>1 DEF Fewer
  <2>2. ASSUME NEW g \in Graphers, NEW D, NEW t, Arrival(g, D, t)
        PROVE  StoryOf[f.w] \in broadcast'.stories => r.g \notin broadcast'.to
    <3>1. broadcast'.stories = broadcast.stories /\ broadcast'.to \subseteq broadcast.to
      BY <1>2, <2>2 DEF Arrival, Broadcasts
    <3> QED BY <1>1, <3>1
  <2>3. ASSUME NEW D, Sent(D) PROVE StoryOf[f.w] \notin broadcast'.stories
    BY <1>1, <2>3 DEF Sent
  <2> QED BY <2>1, <2>2, <2>3, StepFewer
<1> QED BY <1>1, <1>3, <1>5, <1>6, <1>7, <1>8, <1>9 DEF Evidence

\* What a stream reports can be found.
LEMMA ReportedEvidence ==
  ASSUME Types, Types', NamesInv, StreamInv, CustodyInv, NEW x \in DOMAIN home, Report(x), NotDestroyed(home[x], stream[x].chunk),
         NEW r, r = [g |-> home[x], w |-> stream[x].chunk.w]
  PROVE  \E f \in File, i \in Nat : Evidence(r, f, i)'
<1>1. stream[x].pc = "report" /\ stream[x].pc \in Holding /\ stream[x].pc # "remove"
  BY DEF Report, Holding
<1>2. PICK g \in Graphers : g = home[x] /\ x \in StreamsOf(g) /\ x \in Streams
  BY StreamTyped
<1>3. PICK f \in File : f = stream[x].file
  BY <1>1, StreamTyped
<1>4. PICK i \in Nat : i = stream[x].at
  BY <1>1, StreamTyped, StreamStateOf DEF Syncing
<1>5. stream[x].chunk.inc > doomed[home[x]][StoryOf[stream[x].chunk.w]]
  BY DEF NotDestroyed
<1>6. Kept1(x)
  BY <1>1, <1>5 DEF StreamInv
<1>7. Recorded(g, i, f) /\ log[g][i].at = "synced" /\ f \in named /\ f \in files /\ Spared(f)
  BY <1>1, <1>2, <1>3, <1>4, <1>6 DEF Kept1
<1>8. /\ UNCHANGED <<home, started, destroyQueue, worker, broadcast, log, files, named>>
      /\ stream'[x] = Idle /\ \A y \in Streams \ {x} : stream'[y] = stream[y]
  BY <1>2, StreamTyped DEF Report, Go
<1>9. r.g = g /\ r.w = stream[x].chunk.w
  BY <1>2
<1>10. f.g = r.g /\ f.w = r.w
  BY <1>1, <1>2, <1>3, <1>9 DEF NamesInv, HoldsFile
<1>11. StreamsOf(r.g)' # {}
  BY <1>2, <1>8, <1>9 DEF StreamsOf
<1>12. Recorded(r.g, i, f)' /\ log'[r.g][i].at = "synced" /\ f \in named' /\ f \in files'
  BY <1>7, <1>8, <1>9 DEF Recorded
<1>13. Spared(f)'
  <2>1. \A h, t : (Pending(h, t)' <=> Pending(h, t)) /\ (coveredByDestroy(f, h, t)' <=> coveredByDestroy(f, h, t))
    BY <1>8 DEF Pending, coveredByDestroy
  <2> QED BY <1>7, <1>8, <2>1 DEF Spared
<1>14. ASSUME NEW y \in DOMAIN home, stream'[y].pc \in Holding PROVE stream'[y].file # f
  <2>1. y # x
    BY <1>8, <1>14 DEF Idle, Holding
  <2>2. stream'[y] = stream[y]
    BY <1>8, <1>14, <2>1, StreamTyped
  <2> QED BY <1>1, <1>3, <1>14, <2>1, <2>2 DEF NamesInv
<1>15. StoryOf[f.w] \in broadcast'.stories => r.g \notin broadcast'.to
  BY <1>2, <1>8, <1>9, <1>10 DEF NotDestroyed
<1> QED BY <1>8, <1>10, <1>11, <1>12, <1>13, <1>14, <1>15 DEF Evidence

\* Every step keeps the evidence of what was reported.
LEMMA StepReports ==
  ASSUME Types, Types', CustodyInv, CustodyInv', NamesInv, TaskInv, BroadcastInv, StreamInv, LiveInv, Shape
  PROVE  LiveInv'
<1> SUFFICES ASSUME NEW r \in live' PROVE \E f \in File, i \in Nat : Evidence(r, f, i)'
  BY DEF LiveInv
<1>1. CASE r \in live /\ \A D : Sent(D) => StoryOf[r.w] \notin D
  <2>1. PICK f \in File, i \in Nat : Evidence(r, f, i)
    BY <1>1 DEF LiveInv
  <2> QED BY <1>1, <2>1, EvidenceKeeps
<1>2. ASSUME NEW x \in DOMAIN home, Report(x), NotDestroyed(home[x], stream[x].chunk), r = [g |-> home[x], w |-> stream[x].chunk.w]
      PROVE  \E f \in File, i \in Nat : Evidence(r, f, i)'
  BY <1>2, ReportedEvidence
<1> QED BY <1>1, <1>2, StepLive

\* The inductive invariant
ReportInv == CustodyInv /\ NamesInv /\ TaskInv /\ BroadcastInv /\ LinesInv /\ StreamInv /\ LiveInv

\* It holds first.
LEMMA InitReports ==
  ASSUME Init
  PROVE  Types /\ ReportInv
<1>1. Types /\ CustodyInv /\ NamesInv
  BY InitTypes, InitCustody
<1>2. TaskInv
  <2>1. \A g \in Graphers : destroyQueue[g] = <<>> /\ worker[g] = Idle
    BY DEF Init
  <2>2. \A g \in Graphers : \A t : ~Pending(g, t)
    BY <2>1 DEF Pending, Range, Idle, TaskPcs
  <2> QED BY <2>2 DEF TaskInv
<1>3. BroadcastInv
  BY DEF Init, BroadcastInv
<1>4. LinesInv
  BY DEF Init, LinesInv
<1>5. StreamInv
  <2>1. \A x \in DOMAIN home : stream[x] = Idle
    BY <1>1 DEF Init, Types, ProcessTypes
  <2> QED BY <2>1 DEF StreamInv, Idle, Holding
<1>6. LiveInv
  BY DEF Init, LiveInv
<1> QED BY <1>1, <1>2, <1>3, <1>4, <1>5, <1>6 DEF ReportInv

\* Every step keeps it.
LEMMA StepReportInv ==
  ASSUME Types, ReportInv, [Next]_vars
  PROVE  Shape /\ Types' /\ ReportInv'
<1>1. CustodyInv /\ NamesInv /\ TaskInv /\ BroadcastInv /\ LinesInv /\ StreamInv /\ LiveInv
  BY DEF ReportInv
<1>2. Shape /\ Types'
  BY StepShape
<1>3. CustodyInv' /\ NamesInv'
  BY <1>1, <1>2, StepCustody, StepNames
<1>4. TaskInv' /\ BroadcastInv'
  BY <1>1, <1>2, <1>3, StepTasks, StepDoomed
<1>5. LinesInv'
  BY <1>1, <1>2, StepLines
<1>6. StreamInv' /\ LiveInv'
  BY <1>1, <1>2, <1>3, StepStreams, StepReports
<1> QED BY <1>2, <1>3, <1>4, <1>5, <1>6 DEF ReportInv

\* A record that is spared is found in the synced lines.
LEMMA EvidenceFound ==
  ASSUME Types, LinesInv, NEW r \in live, NEW f \in File, NEW i \in Nat, Evidence(r, f, i)
  PROVE  f \in Findable(r.g, {"synced"}) /\ f \in named /\ f.w = r.w
<1>1. r.g \in Graphers
  BY DEF Types, DiskTypes, Reports
<1>2. /\ f.w = r.w /\ f \in named /\ Recorded(r.g, i, f) /\ log[r.g][i].at = "synced"
  BY DEF Evidence
<1>3. /\ i \in DOMAIN log[r.g] /\ log[r.g][i].ended /\ log[r.g][i].rec = [op |-> "publish", file |-> f]
      /\ \A j \in DOMAIN log[r.g] : j > i /\ log[r.g][j].rec.op = "delete" => ~Covers(log[r.g][j].rec, f)
  BY <1>2 DEF Recorded
<1>4. log[r.g][i].rec.op = "publish" /\ log[r.g][i].rec.file = f
  BY <1>3
<1>5. parseManifestLine(log[r.g], i)
  BY <1>1, <1>3, <1>4 DEF parseManifestLine, StartsLine, EndsLine, LinesInv
<1>6. Len(log[r.g]) \in Nat /\ DOMAIN log[r.g] = 1 .. Len(log[r.g])
  BY <1>1, LogTyped
<1>7. \A j \in i + 1 .. Len(log[r.g]) : j \in DOMAIN log[r.g] /\ j > i
  BY <1>3, <1>6
<1> QED BY <1>2, <1>3, <1>4, <1>5, <1>7 DEF Findable

\* A window that process_chunk reported written (advancePersisted), and whose
\* story was not destroyed since, is found by every later reader: a synced and
\* parsable record names a file that is there under a synced name, whatever
\* crashes, power losses, failed syncs and destroys came between, for any
\* graphers, streams, windows and budgets.
THEOREM PersistedStaysFindable == Spec => []PersistedIsFindable
<1>1. Init => Types /\ ReportInv
  BY InitReports
<1>2. Types /\ ReportInv /\ [Next]_vars => (Types /\ ReportInv)'
  BY StepReportInv
<1>3. Types /\ ReportInv => PersistedIsFindable
  <2> SUFFICES ASSUME Types, ReportInv, NEW r \in live
               PROVE  \E f \in Findable(r.g, {"synced"}) \cap named : f.w = r.w
    BY DEF PersistedIsFindable
  <2>1. PICK f \in File, i \in Nat : Evidence(r, f, i)
    BY DEF ReportInv, LiveInv
  <2>2. f \in Findable(r.g, {"synced"}) /\ f \in named /\ f.w = r.w
    BY <2>1, EvidenceFound DEF ReportInv
  <2> QED BY <2>2
<1> QED BY <1>1, <1>2, <1>3, PTL DEF Spec

-----------------------------------------------------------------------------
(* A replay that succeeds is complete                                      *)

\* The player has indexed what is recorded in the lines it has read, and knows
\* a span no shorter than any indexed file's.
Indexed(g) ==
  /\ tail[g] <= Len(log[g])
  /\ \A i \in 1 .. tail[g], f \in File : Recorded(g, i, f) => [file |-> f, log |-> g] \in index
Spans == \A e \in index : To[e.file.w] - From[e.file.w] <= maxSpan[StoryOf[e.file.w]]
IndexInv == Spans /\ \A g \in Graphers : Indexed(g)

\* Each due window was read, or its evidence is still to be met: its line once
\* the log is refreshed, its file once the files are selected.
Awaits(r, f, i) ==
  /\ Evidence(r, f, i) /\ (reader.pc = "refresh" /\ r.g \notin reader.logs => i <= tail[r.g])
  /\ reader.pc = "read" => f \in reader.files
Due(w) ==
  \/ reader.pc = "read" /\ w \in reader.got
  \/ \E r \in live : r.w = w /\ \E f \in File, i \in Nat : Awaits(r, f, i)
DueInv == reader.pc # "idle" /\ reader.ok => \A w \in reader.due : Overlaps(w, reader.query) /\ Due(w)

\* the steps of others, as the player sees them
Unread == tail' = tail /\ index' = index /\ maxSpan' = maxSpan

\* Every step is one of these, the player's or a power loss.
LEMMA StepReader ==
  ASSUME Types, Shape
  PROVE  Lost \/ PlayerStep \/ (Unread /\ ((reader' = reader /\ live \subseteq live') \/ \E D : Sent(D)))
<1>1. CASE UNCHANGED vars
  BY <1>1 DEF vars, player, Unread
<1>2. ASSUME NEW g \in Graphers, StoreStep(g) \/ (\E D, t : Arrival(g, D, t)) \/ Opened(g) \/ Ended(g) \/ Crashed(g)
      PROVE  Unread /\ reader' = reader /\ live' = live
  BY <1>2 DEF StoreStep, StoreFrame, Arrival, ArrivalFrame, Opened, Ended, Crashed, Away, Unread
<1>3. ASSUME NEW g \in Graphers, WorkerStep(g) PROVE Unread /\ reader' = reader /\ live' = live
  BY <1>3, WorkerHand DEF Hand, Unread
<1>4. ASSUME NEW x \in DOMAIN home, StreamShape(x) PROVE Unread /\ reader' = reader /\ live \subseteq live'
  <2>1. Unread /\ reader' = reader
    BY <1>4, StreamTypes DEF Carried, Go, Unread
  <2>2. CASE Pick(x) \/ (\E f \in File : Publish(x, f)) \/ Fail(x) \/ Name(x)
    BY <2>1, <2>2 DEF Pick, Publish, Fail, Name
  <2>3. CASE NotAppended(x) \/ (\E m \in Items : Append1(x, m)) \/ Flush(x) \/ Drop(x)
    BY <2>1, <2>3 DEF NotAppended, Append1, Flush, Drop
  <2>4. CASE Report(x)
    BY <2>1, <2>4 DEF Report
  <2> QED BY <1>4, <2>2, <2>3, <2>4 DEF StreamShape
<1>5. CASE Elapsed
  BY <1>5 DEF Elapsed, Unread
<1>6. ASSUME NEW D, Sent(D) PROVE Unread
  BY <1>6 DEF Sent, Unread
<1> QED BY <1>1, <1>2, <1>3, <1>4, <1>5, <1>6 DEF Shape

\* What is recorded in an old line was recorded before.
LEMMA RecordedBefore ==
  ASSUME NEW g, Extends(g), NEW i \in DOMAIN log[g], NEW f, Recorded(g, i, f)'
  PROVE  Recorded(g, i, f)
<1>1. log[g][i].ended /\ log[g][i].rec = [op |-> "publish", file |-> f]
  BY DEF Extends, Recorded
<1>2. \A j \in DOMAIN log[g] : j > i /\ log[g][j].rec.op = "delete" => ~Covers(log[g][j].rec, f)
  BY DEF Extends, Recorded
<1> QED BY <1>1, <1>2 DEF Recorded

\* Every step keeps the index complete.
LEMMA StepIndex ==
  ASSUME Types, Types', LinesInv, IndexInv, Shape
  PROVE  IndexInv'
<1>1. \A g \in Graphers : /\ tail[g] \in Nat /\ tail'[g] \in Nat /\ Len(log[g]) \in Nat /\ DOMAIN log[g] = 1 .. Len(log[g])
                          /\ Len(log'[g]) \in Nat /\ DOMAIN log'[g] = 1 .. Len(log'[g]) /\ tail[g] <= Len(log[g])
  BY LogTyped, LenProperties DEF Types, DiskTypes, PlayerTypes, IndexInv, Indexed
<1>2. CASE Lost
  <2>1. \A g \in Graphers : tail'[g] = 0
    BY <1>2 DEF Lost
  <2>2. \A g \in Graphers : tail'[g] <= Len(log'[g]) /\ \A i : i \notin 1 .. tail'[g]
    BY <1>1, <2>1
  <2>3. index' = {}
    BY <1>2 DEF Lost
  <2> QED BY <2>2, <2>3 DEF IndexInv, Indexed, Spans
<1>3. ASSUME ~Lost, Unread PROVE IndexInv'
  <2>1. Spans'
    BY <1>3 DEF IndexInv, Spans, Unread
  <2>2. ASSUME NEW g \in Graphers PROVE Indexed(g)'
    <3>1. Extends(g)
      BY <1>3, StepAppends DEF Appends
    <3>2. tail'[g] = tail[g] /\ index' = index
      BY <1>3 DEF Unread
    <3>3. tail'[g] <= Len(log'[g])
      <4>1. CASE Len(log[g]) = 0
        BY <1>1, <3>2, <4>1
      <4>2. CASE Len(log[g]) # 0
        <5>1. Len(log[g]) \in DOMAIN log'[g]
          BY <1>1, <3>1, <4>2 DEF Extends
        <5> QED BY <1>1, <3>2, <5>1
      <4> QED BY <4>1, <4>2
    <3>4. ASSUME NEW i \in 1 .. tail'[g], NEW f \in File, Recorded(g, i, f)' PROVE [file |-> f, log |-> g] \in index'
      <4>1. i \in DOMAIN log[g] /\ i \in 1 .. tail[g]
        BY <1>1, <3>2
      <4>2. Recorded(g, i, f)
        BY <3>1, <3>4, <4>1, RecordedBefore
      <4> QED BY <3>2, <4>1, <4>2 DEF IndexInv, Indexed
    <3> QED BY <3>3, <3>4 DEF Indexed
  <2> QED BY <2>1, <2>2 DEF IndexInv
<1>4. ASSUME NEW g \in Graphers, refreshFromManifest(g) PROVE IndexInv'
  <2>1. Ahead(g)
    BY <1>4, RefreshEffect DEF Skip, Learn, Forget
  <2>2. /\ log' = log /\ tail'[g] = tail[g] + 1 /\ (\A h \in Graphers \ {g} : tail'[h] = tail[h])
        /\ tail[g] + 1 \in DOMAIN log[g]
    BY <2>1 DEF Ahead, PlayerFrame, Types, PlayerTypes
  <2>3. \A h, i, f : Recorded(h, i, f)' <=> Recorded(h, i, f)
    BY <2>2 DEF Recorded
  <2>4. ASSUME NEW e \in index, e \in Entries
        PROVE  StoryOf[e.file.w] \in Stories /\ To[e.file.w] - From[e.file.w] \in Nat /\ maxSpan[StoryOf[e.file.w]] \in Nat
    <3>1. e.file \in File
      BY <2>4 DEF Entries
    <3> QED BY <3>1, SpanTyped DEF Types, PlayerTypes
  <2>5. index \subseteq Entries /\ maxSpan \in [Stories -> Nat]
    BY DEF Types, PlayerTypes
  \* the lines read before, and the one now read
  <2>6. ASSUME Spans',
               \A h \in Graphers : \A i \in 1 .. tail[h], f \in File : Recorded(h, i, f) => [file |-> f, log |-> h] \in index',
               \A f \in File : Recorded(g, tail[g] + 1, f) => [file |-> f, log |-> g] \in index'
        PROVE  IndexInv'
    <3>1. ASSUME NEW h \in Graphers PROVE Indexed(h)'
      <4>1. tail'[h] <= Len(log'[h])
        BY <1>1, <2>2
      <4>2. ASSUME NEW i \in 1 .. tail'[h], NEW f \in File, Recorded(h, i, f) PROVE [file |-> f, log |-> h] \in index'
        <5>1. i \in 1 .. tail[h] \/ (h = g /\ i = tail[g] + 1)
          BY <1>1, <2>2, <4>2
        <5> QED BY <2>6, <4>2, <5>1
      <4> QED BY <2>3, <4>1, <4>2 DEF Indexed
    <3> QED BY <2>6, <3>1 DEF IndexInv
  <2>7. ASSUME Skip(g) PROVE IndexInv'
    <3>1. index' = index /\ maxSpan' = maxSpan /\ ~parseManifestLine(log[g], tail[g] + 1)
      BY <2>7 DEF Skip
    <3>2. ASSUME NEW f, Recorded(g, tail[g] + 1, f) PROVE FALSE
      <4>1. log[g][tail[g] + 1].ended /\ log[g][tail[g] + 1].rec.op = "publish"
        BY <3>2 DEF Recorded
      <4> QED BY <2>2, <3>1, <4>1 DEF parseManifestLine, StartsLine, EndsLine, LinesInv
    <3>3. Spans'
      BY <3>1 DEF IndexInv, Spans
    <3> QED BY <2>6, <3>1, <3>2, <3>3 DEF IndexInv, Indexed
  <2>8. ASSUME NEW f \in File, Learn(g, f) PROVE IndexInv'
    <3> DEFINE d == To[f.w] - From[f.w]
               s == StoryOf[f.w]
    <3>1. /\ index' = index \cup {[file |-> f, log |-> g]} /\ log[g][tail[g] + 1].rec = [op |-> "publish", file |-> f]
          /\ maxSpan' = [maxSpan EXCEPT ![s] = Longest(@, d)]
      BY <2>8 DEF Learn
    <3>2. s \in Stories /\ d \in Nat /\ maxSpan[s] \in Nat
      BY <2>5, SpanTyped
    <3>3. /\ maxSpan'[s] \in Nat /\ maxSpan[s] <= maxSpan'[s] /\ d <= maxSpan'[s]
          /\ \A u \in Stories \ {s} : maxSpan'[u] = maxSpan[u]
      BY <2>5, <3>1, <3>2 DEF Longest
    <3>4. ASSUME NEW e \in index' PROVE To[e.file.w] - From[e.file.w] <= maxSpan'[StoryOf[e.file.w]]
      <4>1. CASE e \in index
        <5>1. /\ StoryOf[e.file.w] \in Stories /\ To[e.file.w] - From[e.file.w] \in Nat
              /\ maxSpan[StoryOf[e.file.w]] \in Nat /\ To[e.file.w] - From[e.file.w] <= maxSpan[StoryOf[e.file.w]]
          BY <2>4, <2>5, <4>1 DEF IndexInv, Spans
        <5> HIDE DEF d, s
        <5>2. CASE StoryOf[e.file.w] = s
          BY <3>2, <3>3, <5>1, <5>2
        <5>3. CASE StoryOf[e.file.w] # s
          BY <3>3, <5>1, <5>3
        <5> QED BY <5>2, <5>3
      <4>2. CASE e = [file |-> f, log |-> g]
        BY <3>3, <4>2
      <4> QED BY <3>1, <4>1, <4>2
    <3>5. Spans'
      BY <3>4 DEF Spans
    <3>6. \A e : Recorded(g, tail[g] + 1, e) => e = f
      BY <3>1 DEF Recorded
    <3> QED BY <2>6, <3>1, <3>5, <3>6 DEF IndexInv, Indexed
  <2>9. ASSUME NEW rec \in Deletes, Forget(g, rec) PROVE IndexInv'
    <3>1. /\ log[g][tail[g] + 1].rec = rec /\ index' = {e \in index : ~(e.log = g /\ Covers(rec, e.file))}
          /\ maxSpan' = [s \in Stories |-> IF \E e \in index' : StoryOf[e.file.w] = s THEN maxSpan[s] ELSE 0]
      BY <2>9 DEF Forget
    <3>2. rec.op = "delete"
      BY DEF Deletes
    <3>3. ASSUME NEW e \in index' PROVE To[e.file.w] - From[e.file.w] <= maxSpan'[StoryOf[e.file.w]]
      <4>1. e \in index /\ StoryOf[e.file.w] \in Stories
        BY <2>4, <2>5, <3>1
      <4>2. maxSpan'[StoryOf[e.file.w]] = maxSpan[StoryOf[e.file.w]]
        BY <3>1, <3>3, <4>1
      <4> QED BY <4>1, <4>2 DEF IndexInv, Spans
    <3>4. Spans'
      BY <3>3 DEF Spans
    <3>5. ASSUME NEW h \in Graphers, NEW i \in 1 .. tail[h], NEW f \in File, Recorded(h, i, f)
          PROVE  [file |-> f, log |-> h] \in index'
      <4>1. [file |-> f, log |-> h] \in index
        BY <3>5 DEF IndexInv, Indexed
      <4>2. h = g => ~Covers(rec, f)
        <5>1. h = g => tail[g] + 1 > i
          BY <1>1, <3>5
        <5> QED BY <2>2, <3>1, <3>2, <3>5, <5>1 DEF Recorded
      <4>3. [file |-> f, log |-> h].file = f /\ [file |-> f, log |-> h].log = h
        OBVIOUS
      <4> QED BY <3>1, <4>1, <4>2, <4>3
    <3>6. \A f : ~Recorded(g, tail[g] + 1, f)
      BY <3>1, <3>2 DEF Recorded
    <3> QED BY <2>6, <3>4, <3>5, <3>6
  <2> QED BY <1>4, <2>7, <2>8, <2>9, RefreshEffect
<1>5. ASSUME PlayerStep, ~Lost PROVE IndexInv'
  <2>1. Reads => Unread
    BY DEF Reads, Unread
  <2> QED BY <1>3, <1>4, <1>5, <2>1, PlayerEffect
<1> QED BY <1>2, <1>3, <1>5, StepReader

\* A due window stays so while its replay is where it was and logs are read on.
LEMMA DueKeeps ==
  ASSUME Types, Types', CustodyInv, CustodyInv', NamesInv, TaskInv, BroadcastInv, Shape, NEW w, Due(w),
         reader'.pc = reader.pc, reader'.logs = reader.logs, reader'.files = reader.files, reader'.got = reader.got,
         \A g \in Graphers : tail[g] <= tail'[g],
         \A r \in live : r.w = w => r \in live' /\ \A D : Sent(D) => StoryOf[r.w] \notin D
  PROVE  Due(w)'
<1>1. CASE reader.pc = "read" /\ w \in reader.got
  BY <1>1 DEF Due
<1>2. ASSUME NEW r \in live, r.w = w, NEW f \in File, NEW i \in Nat, Awaits(r, f, i) PROVE Awaits(r, f, i)'
  <2>1. Evidence(r, f, i)'
    BY <1>2, EvidenceKeeps DEF Awaits
  <2>2. r.g \in Graphers
    BY DEF Types, DiskTypes, Reports
  <2>3. reader'.pc = "refresh" /\ r.g \notin reader'.logs => i <= tail'[r.g]
    <3>1. tail[r.g] \in Nat /\ tail'[r.g] \in Nat /\ tail[r.g] <= tail'[r.g]
      BY <2>2 DEF Types, PlayerTypes
    <3>2. reader.pc = "refresh" /\ r.g \notin reader.logs => i <= tail[r.g]
      BY <1>2 DEF Awaits
    <3> QED BY <3>1, <3>2
  <2> QED BY <1>2, <2>1, <2>3 DEF Awaits
<1> QED BY <1>1, <1>2 DEF Due

\* A due window whose file is selected: the index holds it within the longest
\* span before the range.
LEMMA SelectsDue ==
  ASSUME Types, IndexInv, reader.pc = "refresh", reader.logs = {}, NEW w, Overlaps(w, reader.query),
         NEW r \in live, r.w = w, NEW f \in File, NEW i \in Nat, Awaits(r, f, i)
  PROVE  f \in Selected(reader.query)
<1> DEFINE q == reader.query
<1>1. q \in Queries
  BY ReaderStateOf DEF Types, PlayerTypes, Replaying
<1>2. q.story \in Stories /\ q.from \in Nat /\ q.to \in Nat
  BY <1>1, ArchiveAssumption
<1>3. f.g = r.g /\ f.w = w /\ Recorded(r.g, i, f) /\ i <= tail[r.g] /\ r.g \in Graphers
  BY DEF Awaits, Evidence, Types, DiskTypes, Reports
<1>4. i \in 1 .. tail[r.g]
  <2>1. i \in DOMAIN log[r.g] /\ DOMAIN log[r.g] = 1 .. Len(log[r.g]) /\ Len(log[r.g]) \in Nat /\ tail[r.g] \in Nat
    BY <1>3, LogTyped DEF Recorded, Types, PlayerTypes
  <2> QED BY <1>3, <2>1
<1>5. [file |-> f, log |-> r.g] \in index
  BY <1>3, <1>4 DEF IndexInv, Indexed
<1>6. To[f.w] - From[f.w] <= maxSpan[StoryOf[f.w]]
  BY <1>5 DEF IndexInv, Spans
<1>7. /\ f.w \in Windows /\ StoryOf[f.w] \in Stories /\ From[f.w] \in Nat /\ To[f.w] \in Nat
      /\ maxSpan[StoryOf[f.w]] \in Nat
  BY SpanTyped DEF Types, PlayerTypes
<1>8. StoryOf[f.w] = q.story /\ From[f.w] < q.to /\ q.from < To[f.w] /\ Overlaps(f.w, q)
  BY <1>3 DEF Overlaps
<1> HIDE DEF q
<1>9. FirstStart(q) <= From[f.w]
  <2>1. maxSpan[q.story] \in Nat /\ To[f.w] - From[f.w] <= maxSpan[q.story]
    BY <1>6, <1>7, <1>8
  <2>2. CASE q.from > maxSpan[q.story]
    <3>1. q.from - maxSpan[q.story] <= From[f.w]
      BY <1>2, <1>7, <1>8, <2>1
    <3> QED BY <2>2, <3>1 DEF FirstStart
  <2>3. CASE ~(q.from > maxSpan[q.story])
    BY <1>7, <2>3 DEF FirstStart
  <2> QED BY <2>2, <2>3
<1>10. f \in Selected(q)
  <2> DEFINE e == [file |-> f, log |-> r.g]
  <2>1. e.file = f /\ e \in index
    BY <1>5
  <2> HIDE DEF e
  <2>2. StoryOf[e.file.w] = q.story /\ FirstStart(q) <= From[e.file.w] /\ Overlaps(e.file.w, q)
    BY <1>8, <1>9, <2>1
  <2> QED BY <2>1, <2>2 DEF Selected
<1> QED BY <1>10 DEF q

\* A line that is recorded is read before its log counts as refreshed.
LEMMA RefreshedPast ==
  ASSUME Types, NEW g \in Graphers, RefreshedLog(g), NEW i \in Nat, NEW f, Recorded(g, i, f)
  PROVE  i <= tail[g]
<1>1. tail[g] \in Nat /\ Len(log[g]) \in Nat /\ i \in 1 .. Len(log[g]) /\ log[g][i].ended
  BY LogTyped DEF Recorded, Types, PlayerTypes
<1>2. EndsLine(log[g], i)
  BY <1>1 DEF EndsLine
<1>3. ~readNew(log[g], tail[g])
  BY DEF RefreshedLog
<1>4. i \notin tail[g] + 1 .. Len(log[g])
  BY <1>2, <1>3 DEF readNew
<1> QED BY <1>1, <1>4

\* One selected file is read, found gone, or cannot be read.
LEMMA ReadsOne ==
  ASSUME readStoryChunkFile
  PROVE  \E f \in reader.files :
           \/ reader' = [reader EXCEPT !.files = @ \ {f}, !.got = IF f \in files THEN @ \cup {f.w} ELSE @]
           \/ reader' = [reader EXCEPT !.files = @ \ {f}, !.ok = FALSE]
BY DEF readStoryChunkFile

\* Every step of the player keeps what is due.
LEMMA PlayerDue ==
  ASSUME Types, Types', CustodyInv, CustodyInv', NamesInv, TaskInv, BroadcastInv, LiveInv, IndexInv, DueInv, Shape,
         PlayerStep, \A D : ~Sent(D), reader'.pc # "idle", reader'.ok, NEW w \in reader'.due
  PROVE  Overlaps(w, reader'.query) /\ Due(w)'
<1>1. PlayerFrame
  BY PlayerEffect
<1>2. live' = live /\ log' = log /\ files' = files /\ home' = home
  BY <1>1 DEF PlayerFrame
<1>3. \A g \in Graphers : tail[g] \in Nat /\ tail[g] <= tail[g]
  BY DEF Types, PlayerTypes
<1>4. ASSUME NEW r \in live, NEW f \in File, NEW i \in Nat, Evidence(r, f, i) PROVE Evidence(r, f, i)'
  BY <1>4, EvidenceKeeps
<1>5. reader.pc # "idle" => reader \in Replaying
  BY ReaderStateOf DEF Types, PlayerTypes
<1>6. ASSUME NEW q \in Queries, BeginRead(q) PROVE Overlaps(w, reader'.query) /\ Due(w)'
  <2>1. /\ reader'.query = q /\ reader'.pc = "refresh" /\ reader'.logs = {g \in Graphers : StreamsOf(g) # {}}
        /\ Overlaps(w, q) /\ \E r \in live : r.w = w
    BY <1>6 DEF BeginRead
  <2>2. PICK r \in live : r.w = w
    BY <2>1
  <2>3. PICK f \in File, i \in Nat : Evidence(r, f, i)
    BY DEF LiveInv
  <2>4. r.g \in reader'.logs
    BY <2>1, <2>3 DEF Evidence, Types, DiskTypes, Reports
  <2>5. Evidence(r, f, i)'
    BY <1>4, <2>3
  <2>6. Awaits(r, f, i)'
    BY <2>1, <2>4, <2>5 DEF Awaits
  <2> QED BY <1>2, <2>1, <2>2, <2>6 DEF Due
<1>7. ASSUME NEW g \in Graphers, refreshFromManifest(g) PROVE Overlaps(w, reader'.query) /\ Due(w)'
  <2>1. Ahead(g)
    BY <1>7, RefreshEffect DEF Skip, Learn, Forget
  <2>2. reader' = reader /\ \A h \in Graphers : tail[h] <= tail'[h]
    BY <1>3, <2>1 DEF Ahead, Types, PlayerTypes
  <2>3. Overlaps(w, reader.query) /\ Due(w)
    BY <2>2 DEF DueInv
  <2>4. Due(w)'
    BY <1>2, <2>2, <2>3, DueKeeps
  <2> QED BY <2>2, <2>3, <2>4
<1>8. ASSUME NEW g \in Graphers, RefreshedLog(g) PROVE Overlaps(w, reader'.query) /\ Due(w)'
  <2>1. reader.pc = "refresh" /\ reader \in Replaying /\ reader' = [reader EXCEPT !.logs = reader.logs \ {g}] /\ tail' = tail
    BY <1>5, <1>8 DEF RefreshedLog
  <2>2. /\ reader'.pc = "refresh" /\ reader'.logs = reader.logs \ {g} /\ reader'.ok = reader.ok /\ reader'.due = reader.due
        /\ reader'.query = reader.query
    BY <2>1 DEF Replaying
  <2>3. Overlaps(w, reader.query) /\ Due(w)
    BY <2>1, <2>2 DEF DueInv
  <2>4. PICK r \in live : r.w = w /\ \E f \in File, i \in Nat : Awaits(r, f, i)
    BY <2>1, <2>3 DEF Due
  <2>5. PICK f \in File, i \in Nat : Awaits(r, f, i)
    BY <2>4
  <2>6. Evidence(r, f, i) /\ (r.g \notin reader.logs => i <= tail[r.g])
    BY <2>1, <2>5 DEF Awaits
  <2>7. r.g = g => i <= tail[r.g]
    BY <1>8, <2>6, RefreshedPast DEF Evidence
  <2>8. Awaits(r, f, i)'
    BY <1>4, <2>1, <2>2, <2>6, <2>7 DEF Awaits
  <2> QED BY <1>2, <2>2, <2>3, <2>4, <2>8 DEF Due
<1>9. ASSUME NEW g \in Graphers, RefreshFails(g) PROVE FALSE
  <2>1. reader \in Replaying /\ reader' = [reader EXCEPT !.logs = reader.logs \ {g}, !.ok = FALSE]
    BY <1>5, <1>9 DEF RefreshFails
  <2> QED BY <2>1 DEF Replaying
<1>10. ASSUME SelectFiles PROVE Overlaps(w, reader'.query) /\ Due(w)'
  <2>1. /\ reader.pc = "refresh" /\ reader.logs = {} /\ reader \in Replaying
        /\ reader' = [reader EXCEPT !.pc = "read", !.files = Selected(reader.query)]
    BY <1>5, <1>10 DEF SelectFiles
  <2>2. /\ reader'.pc = "read" /\ reader'.files = Selected(reader.query) /\ reader'.ok = reader.ok /\ reader'.due = reader.due
        /\ reader'.query = reader.query
    BY <2>1 DEF Replaying
  <2>3. Overlaps(w, reader.query) /\ Due(w)
    BY <2>1, <2>2 DEF DueInv
  <2>4. PICK r \in live : r.w = w /\ \E f \in File, i \in Nat : Awaits(r, f, i)
    BY <2>1, <2>3 DEF Due
  <2>5. PICK f \in File, i \in Nat : Awaits(r, f, i)
    BY <2>4
  <2>6. f \in Selected(reader.query)
    BY <2>1, <2>3, <2>4, <2>5, SelectsDue
  <2>7. Evidence(r, f, i)'
    BY <1>4, <2>5 DEF Awaits
  <2>8. Awaits(r, f, i)'
    BY <2>2, <2>6, <2>7 DEF Awaits
  <2> QED BY <1>2, <2>2, <2>3, <2>4, <2>8 DEF Due
<1>11. ASSUME readStoryChunkFile PROVE Overlaps(w, reader'.query) /\ Due(w)'
  <2>1. reader.pc = "read" /\ reader \in Replaying
    BY <1>5, <1>11 DEF readStoryChunkFile
  <2>2. PICK f \in reader.files :
          \/ reader' = [reader EXCEPT !.files = @ \ {f}, !.got = IF f \in files THEN @ \cup {f.w} ELSE @]
          \/ reader' = [reader EXCEPT !.files = @ \ {f}, !.ok = FALSE]
    BY <1>11, ReadsOne
  <2> DEFINE got == IF f \in files THEN reader.got \cup {f.w} ELSE reader.got
  <2>3. /\ reader'.pc = "read" /\ reader'.files = reader.files \ {f} /\ reader'.got = got
        /\ reader'.ok = reader.ok /\ reader'.due = reader.due /\ reader'.query = reader.query
    <3> HIDE DEF got
    <3>1. CASE reader' = [reader EXCEPT !.files = @ \ {f}, !.ok = FALSE]
      BY <2>1, <3>1 DEF Replaying
    <3>2. CASE reader' = [reader EXCEPT !.files = @ \ {f}, !.got = got]
      BY <2>1, <3>2 DEF Replaying
    <3> QED BY <2>2, <3>1, <3>2 DEF got
  <2>4. Overlaps(w, reader.query) /\ Due(w)
    BY <2>1, <2>3 DEF DueInv
  <2>5. CASE w \in reader.got
    BY <2>3, <2>4, <2>5 DEF Due
  <2>6. ASSUME NEW r \in live, r.w = w, NEW e \in File, NEW i \in Nat, Awaits(r, e, i) PROVE Due(w)'
    <3>1. Evidence(r, e, i) /\ e \in reader.files /\ e.w = w /\ e \in files
      BY <2>1, <2>6 DEF Awaits, Evidence
    <3>2. CASE e = f
      BY <2>3, <3>1, <3>2 DEF Due
    <3>3. CASE e # f
      <4>1. Awaits(r, e, i)'
        BY <1>4, <2>3, <3>1, <3>3 DEF Awaits
      <4> QED BY <1>2, <2>6, <4>1 DEF Due
    <3> QED BY <3>2, <3>3
  <2> QED BY <2>3, <2>4, <2>5, <2>6 DEF Due
<1>12. ASSUME FinishRead PROVE FALSE
  BY <1>12 DEF FinishRead, Idle
<1> QED BY <1>6, <1>7, <1>8, <1>9, <1>10, <1>11, <1>12 DEF PlayerStep

\* Every step keeps what is due.
LEMMA StepDue ==
  ASSUME Types, Types', CustodyInv, CustodyInv', NamesInv, TaskInv, BroadcastInv, LiveInv, IndexInv, DueInv, Shape
  PROVE  DueInv'
<1> SUFFICES ASSUME reader'.pc # "idle", reader'.ok, NEW w \in reader'.due PROVE Overlaps(w, reader'.query) /\ Due(w)'
  BY DEF DueInv, Overlaps
<1>1. \A g \in Graphers : tail[g] <= tail[g]
  BY DEF Types, PlayerTypes
<1>2. ASSUME NEW D, Sent(D) PROVE Overlaps(w, reader'.query) /\ Due(w)'
  <2>1. reader.pc # "idle" /\ reader' = [reader EXCEPT !.due = {v \in @ : StoryOf[v] \notin D}]
    BY <1>2 DEF Sent
  <2>2. reader \in Replaying
    BY <2>1, ReaderStateOf DEF Types, PlayerTypes
  <2>3. /\ reader'.pc = reader.pc /\ reader'.logs = reader.logs /\ reader'.files = reader.files /\ reader'.got = reader.got
        /\ reader'.ok = reader.ok /\ reader'.query = reader.query /\ reader'.due = {v \in reader.due : StoryOf[v] \notin D}
    BY <2>1, <2>2 DEF Replaying
  <2>4. Overlaps(w, reader.query) /\ Due(w) /\ StoryOf[w] \notin D
    BY <2>1, <2>3 DEF DueInv
  <2>5. \A E : Sent(E) => E = D
    BY <1>2 DEF Sent
  <2>6. \A r \in live : r.w = w => r \in live' /\ \A E : Sent(E) => StoryOf[r.w] \notin E
    BY <1>2, <2>4, <2>5 DEF Sent
  <2>7. tail' = tail
    BY <1>2 DEF Sent
  <2>8. Due(w)'
    BY <1>1, <2>3, <2>4, <2>6, <2>7, DueKeeps
  <2> QED BY <2>3, <2>4, <2>8
<1>3. ASSUME \A D : ~Sent(D), Unread, reader' = reader, live \subseteq live' PROVE Overlaps(w, reader'.query) /\ Due(w)'
  <2>1. Overlaps(w, reader.query) /\ Due(w) /\ tail' = tail
    BY <1>3 DEF DueInv, Unread
  <2>2. Due(w)'
    BY <1>1, <1>3, <2>1, DueKeeps
  <2> QED BY <1>3, <2>1, <2>2
<1>4. ASSUME Lost PROVE FALSE
  BY <1>4 DEF Lost, Idle
<1> QED BY <1>2, <1>3, <1>4, PlayerDue, StepReader

\* readArchivedStory answers CL_SUCCESS only when it returned every window of
\* the range that was reported written before it began, whatever graphers
\* appended, destroyed or lost meanwhile, unless the story was destroyed: for
\* any graphers, windows, spans and ranges.
THEOREM ReadsAreComplete == Spec => []ReadComplete
<1> DEFINE I == Types /\ ReportInv /\ IndexInv /\ DueInv
<1>1. Init => I
  <2> SUFFICES ASSUME Init PROVE IndexInv /\ DueInv
    BY InitReports
  <2>1. Spans /\ DueInv
    BY DEF Init, Spans, DueInv, Idle
  <2>2. ASSUME NEW g \in Graphers PROVE Indexed(g)
    <3>1. tail[g] = 0 /\ log[g] = <<>>
      BY DEF Init
    <3> QED BY <3>1 DEF Indexed
  <2> QED BY <2>1, <2>2 DEF IndexInv
<1>2. I /\ [Next]_vars => I'
  <2> SUFFICES ASSUME I, [Next]_vars PROVE I'
    OBVIOUS
  <2>1. Shape /\ Types' /\ ReportInv'
    BY StepReportInv
  <2>2. CustodyInv /\ CustodyInv' /\ NamesInv /\ TaskInv /\ BroadcastInv /\ LinesInv /\ LiveInv
    BY <2>1 DEF ReportInv
  <2>3. IndexInv'
    BY <2>1, <2>2, StepIndex
  <2>4. DueInv'
    BY <2>1, <2>2, StepDue
  <2> QED BY <2>1, <2>3, <2>4
<1>3. I => ReadComplete
  <2> SUFFICES ASSUME I, reader.pc = "read", reader.files = {}, reader.ok, NEW w \in reader.due PROVE w \in reader.got
    BY DEF ReadComplete
  <2> QED BY DEF DueInv, Due, Awaits
<1> HIDE DEF I
<1> QED BY <1>1, <1>2, <1>3, PTL DEF Spec
=============================================================================
