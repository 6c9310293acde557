------------------------------ MODULE KeeperWal ------------------------------
(***************************************************************************)
(* The keeper's write-ahead log: the group committer, the failure latch,   *)
(* the deletion of released segments, the crash of the keeper or of its    *)
(* node, and the recovery that reads the directory back.                   *)
(*                                                                         *)
(* A segment is a row of SegSlots slots, one per record after its header;  *)
(* a slot of zeros ends the data.  The medium is modelled in two layers:   *)
(* `cache` is what a reader of this boot sees and `disk` what survives a   *)
(* power loss; `dirty` is what the next data sync writes.  The directory   *)
(* has the same two layers.  A data sync that fails may write some of the  *)
(* dirty slots and leaves none dirty, as KeeperWal.h says Linux does.      *)
(***************************************************************************)
EXTENDS Integers, Sequences, FiniteSets

CONSTANTS
  Events,     \* identities of durable events (time, client, index)
  Stories,
  StoryOf,    \* the story each event is written to
  SegSlots,   \* records a segment holds after its header
  MaxSeg,     \* bound: highest segment number a behaviour may use
  MaxAppends, \* bound: appendDurable calls that queue a record
  MaxDrops,   \* bound: storyDropped calls
  Scenarios   \* the group size, and what the environment may do, per behaviour

FaultKinds == {"write", "sync", "erase", "spare", "dirsync", "remove", "dropsfile"}

ASSUME ConstantsAssumption ==
  /\ StoryOf \in [Events -> Stories]
  /\ SegSlots \in Nat /\ MaxSeg \in Nat \ {0} /\ MaxAppends \in Nat /\ MaxDrops \in Nat
  /\ Scenarios \subseteq [GroupMax : Nat \ {0}, Faults : SUBSET FaultKinds, MaxFaults : Nat,
                          MaxCrashes : Nat, Recreate : BOOLEAN]
  /\ \A s \in Scenarios : 1 + 2 * s.GroupMax <= SegSlots    \* a group fits a segment of its own

VARIABLES
  scenario,               \* the behaviour's scenario: never changes
  \* the medium
  cache, disk, dirty,     \* per segment: visible slots, durable slots, slots to sync
  dirCache, dirDisk,      \* the directory: its segments and its unlogged-drops file
  \* the keeper
  state,                  \* "down", "recovering", "running", "stopped"
  pc,                     \* where the committer, or recovery, stands
  failed,                 \* the failure latch
  queue, group,           \* queued entries, and the group being committed
  pending,                \* WalReleaseTracker: the segments holding a copy of each event
  active, writeOffset, named,   \* the active segment, its next slot, its N records
  listed, spare,          \* segments() of the segment manager, and its spare
  dropsBySegment,         \* the stories each live segment holds a D record for
  syncOwed,               \* directorySyncOwed
  toDelete,               \* released segments the running pass still deletes
  \* history
  owed,                   \* acknowledged durable, and neither confirmed nor destroyed since
  suspect,                \* in a group whose write or sync failed, and not erased
  buried,                 \* of a destroyed story whose destroy was recorded
  budget                  \* what the environment has used of its bounds

medium == <<cache, disk, dirty, dirCache, dirDisk>>
history == <<owed, suspect, buried>>
files == <<active, writeOffset, named, listed, spare, dropsBySegment>>
moving == <<cache, disk, dirty, dirCache, dirDisk, state, pc, failed, queue, group, pending,
            active, writeOffset, named, listed, spare, dropsBySegment, syncOwed, toDelete,
            owed, suspect, buried, budget>>
vars == <<scenario, moving>>

GroupMax == scenario.GroupMax       \* entries of one group (group_commit_max_bytes)
Faults == scenario.Faults           \* the I/O faults that may happen
MaxFaults == scenario.MaxFaults     \* bound: faults in a behaviour
MaxCrashes == scenario.MaxCrashes   \* bound: crashes in a behaviour
Recreate == scenario.Recreate       \* whether a destroyed story may be written to again

-----------------------------------------------------------------------------
(* Records, slots and log entries.                                          *)

Segments == 1..MaxSeg
Slots == 1..SegSlots
Zero == <<"zero">>
Bad == <<"bad">>             \* a frame whose CRC does not match: partly written
G(n) == <<"G", n>>           \* n slots, itself included
N(s) == <<"N", s>>
E(e) == <<"E", e>>
D(s) == <<"D", s>>
Records == {G(n) : n \in Slots} \cup {N(s) : s \in Stories} \cup {E(e) : e \in Events}
             \cup {D(s) : s \in Stories}
SlotValues == Records \cup {Zero, Bad}
Entries == {E(e) : e \in Events} \cup {D(s) : s \in Stories}
EmptySegment == [i \in Slots |-> Zero]
EntryStory(entry) == IF entry[1] = "E" THEN StoryOf[entry[2]] ELSE entry[2]

InSeq(x, seq) == \E i \in DOMAIN seq : seq[i] = x
\* what KeeperWal::inFlight holds: every queued E and the E records being committed
InFlight(e) == InSeq(E(e), queue) \/ InSeq(E(e), group)

Least(S) == CHOOSE x \in S : \A y \in S : x <= y
Greatest(S) == CHOOSE x \in S : \A y \in S : x >= y

\* The frames of a group: its G, then each entry, with the story's N before
\* its first E in the segment.
NeedsName(g, names, i) ==
  /\ g[i][1] = "E"
  /\ EntryStory(g[i]) \notin names
  /\ \A j \in 1..(i - 1) : g[j][1] = "E" => EntryStory(g[j]) # EntryStory(g[i])
NamesNeeded(g, names) == {i \in DOMAIN g : NeedsName(g, names, i)}
GroupSlots(g, names) == 1 + Len(g) + Cardinality(NamesNeeded(g, names))
\* where entry i of the group lies, counted from the group's G
EntryPos(g, names, i) == 1 + i + Cardinality({j \in NamesNeeded(g, names) : j <= i})
GroupFrame(g, names, k) ==
  CASE k = 1 -> G(GroupSlots(g, names))
    [] \E i \in DOMAIN g : EntryPos(g, names, i) = k ->
         g[CHOOSE i \in DOMAIN g : EntryPos(g, names, i) = k]
    [] OTHER -> N(EntryStory(g[CHOOSE i \in DOMAIN g : EntryPos(g, names, i) = k + 1]))

-----------------------------------------------------------------------------
(* What recovery makes of a directory: WalFormat's scan and WalRecovery's   *)
(* rules, for the segments `segs` with contents `c`.                        *)

\* the first slot that is not a whole record
DataEnd(row) == Least({i \in Slots : row[i] \in {Zero, Bad}} \cup {SegSlots + 1})
Holds(row, rec) == \E i \in 1..(DataEnd(row) - 1) : row[i] = rec
AfterEnd(row) == \E i \in DataEnd(row)..SegSlots : row[i] # Zero
DataAfterHeader(row) == DataEnd(row) > 1 \/ AfterEnd(row)
GroupStarts(row) == {i \in 1..(DataEnd(row) - 1) : row[i][1] = "G"}
GroupEnd(row) == LET i == Greatest(GroupStarts(row)) IN i + row[i][2]

WithData(segs, c) == {g \in segs : DataAfterHeader(c[g])}
\* Mutant of Torn: recovery zeroes no tail.
MutTorn(segs, c) == WithData(segs, c) \cap {}

\* the segment whose tail recovery zeroes, as a set of at most one
Torn(segs, c) == {g \in WithData(segs, c) :
                    g = Greatest(WithData(segs, c)) /\ AfterEnd(c[g])}
\* recovery refuses: bytes after the data of a segment that is not the newest
\* with data, or after the group the newest one's data ends in
Damaged(segs, c) ==
  \/ \E g \in WithData(segs, c) : g # Greatest(WithData(segs, c)) /\ AfterEnd(c[g])
  \/ \E g \in Torn(segs, c) :
       /\ GroupStarts(c[g]) # {}
       /\ \/ DataEnd(c[g]) > GroupEnd(c[g])
          \/ /\ DataEnd(c[g]) < GroupEnd(c[g])
             /\ \E i \in GroupEnd(c[g])..SegSlots : c[g][i] # Zero

\* Mutant of LiveCopies: a D record erases the events after it in its segment too.
MutLiveCopies(segs, c, e) ==
  {g \in segs : /\ Holds(c[g], E(e))
                /\ ~ \E h \in segs : h >= g /\ Holds(c[h], D(StoryOf[e]))}

\* segments with a copy of e that no later D record of its story erased
LiveCopies(segs, c, e) ==
  {g \in segs : \E i \in 1..(DataEnd(c[g]) - 1) :
     /\ c[g][i] = E(e)
     /\ ~ \E h \in segs : h >= g /\ \E j \in 1..(DataEnd(c[h]) - 1) :
            c[h][j] = D(StoryOf[e]) /\ (h > g \/ j > i)}

\* a line <<s, n>> drops the story's events whose every copy lies in 1..n
Dropped(lines, copies, s) == \E n \in Segments : <<s, n>> \in lines /\ \A g \in copies : g <= n
Recovered(segs, c, lines, e) ==
  LET copies == LiveCopies(segs, c, e)
  IN IF \/ Dropped(lines, copies, StoryOf[e])
        \/ \A g \in segs : ~ Holds(c[g], N(StoryOf[e]))
     THEN {} ELSE copies

-----------------------------------------------------------------------------
(* The medium's operations (external: the file system under WalFileSink).   *)

Fault(kind) == kind \in Faults /\ budget.faults < MaxFaults
UseFault == budget' = [budget EXCEPT !.faults = @ + 1]

WriteSlots(g, frames) ==
  /\ cache' = [cache EXCEPT ![g] = [i \in Slots |-> IF i \in DOMAIN frames THEN frames[i] ELSE @[i]]]
  /\ dirty' = [dirty EXCEPT ![g] = @ \cup DOMAIN frames]

SyncSlots(g, c) ==
  /\ disk' = [disk EXCEPT ![g] = [i \in Slots |-> IF i \in dirty[g] THEN c[g][i] ELSE @[i]]]
  /\ dirty' = [dirty EXCEPT ![g] = {}]

\* a failed data sync: some dirty slots reach the disk, none stays dirty
SyncSlotsFails(g) ==
  \E done \in SUBSET dirty[g] :
    /\ disk' = [disk EXCEPT ![g] = [i \in Slots |-> IF i \in done THEN cache[g][i] ELSE @[i]]]
    /\ dirty' = [dirty EXCEPT ![g] = {}]

DirWith(segs, lines) == [segs |-> segs, lines |-> lines]
SyncDirectory == dirDisk' = dirCache'

\* writeUnloggedDrops: the file is replaced whole and the directory synced; a
\* failure before the rename changes nothing, one after it leaves the new file
WriteDrops(lines, ok) ==
  \/ /\ ok /\ dirCache' = DirWith(dirCache.segs, lines)
     /\ SyncDirectory
     /\ UNCHANGED budget
  \/ /\ ~ ok /\ Fault("dropsfile") /\ UseFault
     /\ dirCache' \in {dirCache, DirWith(dirCache.segs, lines)}
     /\ UNCHANGED dirDisk

-----------------------------------------------------------------------------
(* The initial state: an empty directory and no keeper.                     *)

NoKeeper ==
  /\ pc' = "idle" /\ failed' = FALSE
  /\ queue' = <<>> /\ group' = <<>>
  /\ pending' = [e \in Events |-> {}]
  /\ active' = 0 /\ writeOffset' = 1 /\ named' = {}
  /\ listed' = {} /\ spare' = {}
  /\ dropsBySegment' = [g \in Segments |-> {}]
  /\ syncOwed' = FALSE /\ toDelete' = {}

Init ==
  /\ scenario \in Scenarios
  /\ cache = [g \in Segments |-> EmptySegment]
  /\ disk = [g \in Segments |-> EmptySegment]
  /\ dirty = [g \in Segments |-> {}]
  /\ dirCache = DirWith({}, {}) /\ dirDisk = DirWith({}, {})
  /\ state = "down" /\ pc = "idle" /\ failed = FALSE
  /\ queue = <<>> /\ group = <<>>
  /\ pending = [e \in Events |-> {}]
  /\ active = 0 /\ writeOffset = 1 /\ named = {}
  /\ listed = {} /\ spare = {}
  /\ dropsBySegment = [g \in Segments |-> {}]
  /\ syncOwed = FALSE /\ toDelete = {}
  /\ owed = {} /\ suspect = {} /\ buried = {}
  /\ budget = [faults |-> 0, crashes |-> 0, appends |-> 0, drops |-> 0, destroyed |-> {}]

-----------------------------------------------------------------------------
(* Recovery and start.  Each step may be the last before another crash.     *)

Down == state' = "down" /\ NoKeeper
KeepKeeper == UNCHANGED <<failed, queue, group, pending, active, writeOffset, named, listed,
                          spare, dropsBySegment, syncOwed, toDelete>>
TornNow == Torn(dirCache.segs, cache)

\* The checks of every segment, then a data sync of each but the torn one.
RecoverSync ==
  /\ state = "down"
  /\ ~ Damaged(dirCache.segs, cache)
  /\ state' = "recovering"
  /\ LET clean == dirCache.segs \ TornNow
     IN /\ disk' = [g \in Segments |-> [i \in Slots |->
                      IF g \in clean /\ i \in dirty[g] THEN cache[g][i] ELSE disk[g][i]]]
        /\ dirty' = [g \in Segments |-> IF g \in clean THEN {} ELSE dirty[g]]
  /\ pc' = IF TornNow = {} THEN "rec_dir" ELSE "rec_zero"
  /\ KeepKeeper
  /\ UNCHANGED <<cache, dirCache, dirDisk, history, budget>>

\* zeroTail: everything from the end of the data, then its data sync
RecoverZero ==
  /\ state = "recovering" /\ pc = "rec_zero"
  /\ \E g \in TornNow :
       WriteSlots(g, [i \in DataEnd(cache[g])..SegSlots |-> Zero])
  /\ pc' = "rec_zerosync"
  /\ KeepKeeper
  /\ UNCHANGED <<disk, dirCache, dirDisk, state, history, budget>>

RecoverZeroSync ==
  /\ state = "recovering" /\ pc = "rec_zerosync"
  /\ \E g \in {h \in dirCache.segs : dirty[h] # {}} : SyncSlots(g, cache)
  /\ pc' = "rec_dir"
  /\ KeepKeeper
  /\ UNCHANGED <<cache, dirCache, dirDisk, state, history, budget>>

\* A failed sync refuses the start: of an untorn segment, of the zeros, or of
\* the directory.
RecoverFails ==
  /\ Fault("sync") /\ UseFault
  /\ \/ /\ state = "down" /\ ~ Damaged(dirCache.segs, cache)
        /\ \E g \in dirCache.segs \ TornNow :
             /\ SyncSlotsFails(g)
             /\ suspect' = suspect \cup {e \in Events : \E i \in dirty[g] : cache[g][i] = E(e)}
     \/ /\ state = "recovering" /\ pc = "rec_zerosync"
        /\ \E g \in {h \in dirCache.segs : dirty[h] # {}} : SyncSlotsFails(g)
        /\ UNCHANGED suspect
     \/ /\ state = "recovering" /\ pc = "rec_dir"
        /\ UNCHANGED <<disk, dirty, suspect>>
  /\ Down
  /\ UNCHANGED <<cache, dirCache, dirDisk, owed, buried>>

\* The newest segment when it holds only its header, as a set of at most one.
ReusableSpare(segs, c) == {g \in segs : g = Greatest(segs) /\ ~ DataAfterHeader(c[g])}

\* The directory sync and the unlogged drops, then KeeperWal::start: it adopts
\* the header-only segment or prepares a new one, and makes the recovered
\* copies pending.
RecoverStart ==
  /\ state = "recovering" /\ pc = "rec_dir"
  /\ LET segs == dirCache.segs
         reuse == ReusableSpare(segs, cache)
         first == IF segs = {} THEN 1 ELSE Greatest(segs) + 1
         lines == {l \in dirCache.lines : \E g \in segs : g <= l[2]}
     IN /\ reuse # {} \/ first <= MaxSeg
        /\ active' = IF reuse # {} THEN Greatest(segs) ELSE first
        /\ listed' = segs \cup {active'}
        /\ dirCache' = DirWith(listed', lines)
        /\ SyncDirectory
        /\ pending' = [e \in Events |-> Recovered(segs, cache, dirCache.lines, e)]
        /\ dropsBySegment' = [g \in Segments |->
                                IF g \in segs THEN {s \in Stories : Holds(cache[g], D(s))} ELSE {}]
        /\ cache' = IF reuse # {} THEN cache ELSE [cache EXCEPT ![first] = EmptySegment]
        /\ disk' = IF reuse # {} THEN disk ELSE [disk EXCEPT ![first] = EmptySegment]
        /\ dirty' = IF reuse # {} THEN dirty ELSE [dirty EXCEPT ![first] = {}]
  /\ state' = "running" /\ pc' = "delete"
  /\ writeOffset' = 1 /\ named' = {}
  /\ UNCHANGED <<failed, queue, group, spare, syncOwed, toDelete, history, budget>>

-----------------------------------------------------------------------------
(* Requests: appendDurable and the observer calls of the retention store.   *)

Running == state = "running"

\* Queued only when no attempt with the identity is in flight or pending;
\* such a retry is answered by the first attempt.
AppendDurable(e) ==
  /\ Running /\ ~ failed
  /\ ~ InFlight(e) /\ pending[e] = {}
  /\ budget.appends < MaxAppends
  /\ Recreate \/ StoryOf[e] \notin budget.destroyed
  /\ queue' = Append(queue, E(e))
  /\ buried' = buried \ {e}
  /\ budget' = [budget EXCEPT !.appends = @ + 1]
  /\ UNCHANGED <<medium, state, pc, failed, group, pending, files, syncOwed, toDelete,
                 owed, suspect>>

\* A retry of a durable, pending event is answered CL_SUCCESS at once.
RetryDurable(e) ==
  /\ state \in {"running", "stopped"} /\ pending[e] # {} /\ ~ InFlight(e)
  /\ owed' = IF InSeq(D(StoryOf[e]), queue) \/ InSeq(D(StoryOf[e]), group) THEN owed
              ELSE owed \cup {e}
  /\ UNCHANGED <<medium, state, pc, failed, queue, group, pending, files, syncOwed, toDelete,
                 suspect, buried, budget>>

\* chunkWritten, chunkDiscarded and eventDiscarded: the event's copies are released
Release(e) ==
  /\ state \in {"running", "stopped"} /\ pending[e] # {}
  /\ pending' = [pending EXCEPT ![e] = {}]
  /\ owed' = owed \ {e}
  /\ UNCHANGED <<medium, state, pc, failed, queue, group, files, syncOwed, toDelete,
                 suspect, buried, budget>>

\* A stopped WAL takes nothing more; a failed one still takes the destroy.
StoryDropped(s) ==
  /\ state \in {"running", "stopped"} /\ budget.drops < MaxDrops
  /\ queue' = IF Running THEN Append(queue, D(s)) ELSE queue
  /\ owed' = {e \in owed : StoryOf[e] # s}
  /\ budget' = [budget EXCEPT !.drops = @ + 1, !.destroyed = @ \cup {s}]
  /\ UNCHANGED <<medium, state, pc, failed, group, pending, files, syncOwed, toDelete,
                 suspect, buried>>

-----------------------------------------------------------------------------
(* The committer.                                                           *)

TakeGroup ==
  /\ Running /\ pc = "idle" /\ queue # <<>>
  /\ LET n == IF Len(queue) < GroupMax THEN Len(queue) ELSE GroupMax
     IN /\ group' = SubSeq(queue, 1, n)
        /\ queue' = SubSeq(queue, n + 1, Len(queue))
  /\ pc' = IF failed THEN "latched" ELSE "commit"
  /\ UNCHANGED <<medium, state, failed, pending, files, syncOwed, toDelete, history, budget>>

GroupEvents == {e \in Events : InSeq(E(e), group)}
GroupDrops == {s \in Stories : InSeq(D(s), group)}
\* entry i of the group has a D of story s after it
DroppedLater(i, s) == \E j \in DOMAIN group : j > i /\ group[j] = D(s)
\* events of the group that stand at its end: no later D in it erases them
Standing == {e \in Events : \E i \in DOMAIN group :
               group[i] = E(e) /\ ~ DroppedLater(i, StoryOf[e])}
\* a destroy reaches the events already in the log or in the group before it
Reached == {e \in Events : StoryOf[e] \in GroupDrops /\ e \notin Standing
                             /\ ~ InSeq(E(e), queue)}

Fits == writeOffset + GroupSlots(group, named) - 1 <= SegSlots
GroupFrames == [i \in writeOffset..(writeOffset + GroupSlots(group, named) - 1) |->
                  GroupFrame(group, named, i - writeOffset + 1)]

\* commitGroup: one writev of the whole group
CommitWrite ==
  /\ Running /\ pc = "commit" /\ Fits
  /\ WriteSlots(active, GroupFrames)
  /\ pc' = "sync"
  /\ UNCHANGED <<disk, dirCache, dirDisk, state, failed, queue, group, pending, files,
                 syncOwed, toDelete, history, budget>>

\* a write that fails partway leaves a prefix of the group in the segment
CommitWriteFails ==
  /\ Running /\ pc = "commit" /\ Fits /\ Fault("write") /\ UseFault
  /\ \E n \in 0..GroupSlots(group, named) :
       WriteSlots(active, [i \in writeOffset..(writeOffset + n - 1) |-> GroupFrames[i]])
  /\ pc' = "fail_written"
  /\ suspect' = suspect \cup GroupEvents
  /\ UNCHANGED <<disk, dirCache, dirDisk, state, failed, queue, group, pending, files,
                 syncOwed, toDelete, owed, buried>>

\* The data sync returned: the group is registered in log order, each D
\* dropping the copies before it, and answered CL_SUCCESS.
CommitSync ==
  /\ Running /\ pc = "sync"
  /\ SyncSlots(active, cache)
  /\ writeOffset' = writeOffset + GroupSlots(group, named)
  /\ named' = named \cup {StoryOf[e] : e \in GroupEvents}
  /\ pending' = [e \in Events |-> IF e \in Standing THEN pending[e] \cup {active}
                                  ELSE IF StoryOf[e] \in GroupDrops THEN {} ELSE pending[e]]
  /\ dropsBySegment' = [dropsBySegment EXCEPT ![active] = @ \cup GroupDrops]
  /\ owed' = owed \cup {e \in Standing : ~ InSeq(D(StoryOf[e]), queue)}
  /\ buried' = buried \cup Reached
  /\ suspect' = suspect \ Standing
  /\ group' = <<>> /\ pc' = "delete"
  /\ UNCHANGED <<cache, dirCache, dirDisk, state, failed, queue, active, listed, spare,
                 syncOwed, toDelete, budget>>

CommitSyncFails ==
  /\ Running /\ pc = "sync" /\ Fault("sync") /\ UseFault
  /\ SyncSlotsFails(active)
  /\ pc' = "fail_written"
  /\ suspect' = suspect \cup GroupEvents
  /\ UNCHANGED <<cache, dirCache, dirDisk, state, failed, queue, group, pending, files,
                 syncOwed, toDelete, owed, buried>>

\* rotate: the group does not fit; the active segment is synced and the spare
\* becomes active
Rotate ==
  /\ Running /\ pc = "commit" /\ ~ Fits
  /\ spare # {} /\ spare \subseteq dirDisk.segs
  /\ SyncSlots(active, cache)
  /\ active' = Greatest(spare) /\ listed' = listed \cup spare /\ spare' = {}
  /\ writeOffset' = 1 /\ named' = {}
  /\ UNCHANGED <<cache, dirCache, dirDisk, state, pc, failed, queue, group, pending,
                 dropsBySegment, syncOwed, toDelete, history, budget>>

\* the sync before the switch, or the preparation of a spare, failed:
\* nothing of the group was written
RotateFails ==
  /\ Running /\ pc = "commit" /\ ~ Fits
  /\ \/ Fault("sync")
     \/ Fault("spare") /\ spare = {}
  /\ UseFault
  /\ pc' = "fail_unwritten"
  /\ UNCHANGED <<medium, state, failed, queue, group, pending, files, syncOwed, toDelete, history>>

\* recordUnloggedDrops: the destroys of a group that is not in the log go to
\* the unlogged-drops file, naming the active segment; the copies go either way
RecordUnloggedDrops ==
  /\ pending' = [e \in Events |-> IF StoryOf[e] \in GroupDrops THEN {} ELSE pending[e]]
  /\ IF GroupDrops = {} THEN UNCHANGED <<dirCache, dirDisk, buried, budget>>
     ELSE \E ok \in BOOLEAN :
            /\ WriteDrops(dirCache.lines \cup {<<s, active>> : s \in GroupDrops}, ok)
            /\ buried' = IF ok THEN buried \cup Reached ELSE buried

\* finishGroup of a failed group: nothing registered, every waiter answered
FinishFailed == group' = <<>> /\ pc' = "delete"

\* a group taken after the latch
LatchedGroup ==
  /\ Running /\ pc = "latched"
  /\ RecordUnloggedDrops
  /\ FinishFailed
  /\ UNCHANGED <<cache, disk, dirty, state, failed, queue, files, syncOwed, toDelete, owed, suspect>>

\* failGroup: the latch, the destroys, then the erase of what was written
FailGroup ==
  /\ Running /\ pc \in {"fail_written", "fail_unwritten"}
  /\ failed' = TRUE
  /\ RecordUnloggedDrops
  /\ IF pc = "fail_unwritten" THEN FinishFailed ELSE pc' = "erase" /\ UNCHANGED group
  /\ UNCHANGED <<cache, disk, dirty, state, queue, files, syncOwed, toDelete, owed, suspect>>

GroupRange == writeOffset..(writeOffset + GroupSlots(group, named) - 1)

Erase ==
  /\ Running /\ pc = "erase"
  /\ WriteSlots(active, [i \in GroupRange |-> Zero])
  /\ pc' = "erase_sync"
  /\ UNCHANGED <<disk, dirCache, dirDisk, state, failed, queue, group, pending, files, syncOwed,
                 toDelete, history, budget>>

\* zeros synced: the group is known not to be on disk (CL_ERR_DURABILITY_UNAVAILABLE)
EraseSync ==
  /\ Running /\ pc = "erase_sync"
  /\ SyncSlots(active, cache)
  /\ suspect' = suspect \ GroupEvents
  /\ FinishFailed
  /\ UNCHANGED <<cache, dirCache, dirDisk, state, failed, queue, pending, files, syncOwed,
                 toDelete, owed, buried, budget>>

\* zeros written in part or not synced: CL_ERR_DURABILITY_UNKNOWN
EraseFails ==
  /\ Running /\ pc \in {"erase", "erase_sync"} /\ Fault("erase") /\ UseFault
  /\ \/ /\ pc = "erase" /\ UNCHANGED disk
        /\ \E n \in 0..(GroupSlots(group, named) - 1) :
             WriteSlots(active, [i \in writeOffset..(writeOffset + n - 1) |-> Zero])
     \/ pc = "erase_sync" /\ SyncSlotsFails(active) /\ UNCHANGED cache
  /\ FinishFailed
  /\ UNCHANGED <<dirCache, dirDisk, state, failed, queue, pending, files, syncOwed,
                 toDelete, history>>

-----------------------------------------------------------------------------
(* Segments: the preparer, the deletion of released ones, idle rotation.    *)

\* Mutant of Outstanding: only the active segment counts as still needed.
MutOutstanding(g) == g = active

Outstanding(g) == \E e \in Events : g \in pending[e]
Deletable == {g \in listed : g # active /\ ~ Outstanding(g)}

\* WalSegmentManager::prepare: the file renamed into place, then its directory sync
NextSegment == Greatest(dirCache.segs \cup listed) + 1
PrepareSpare ==
  /\ Running /\ spare = {} /\ NextSegment <= MaxSeg
  /\ spare' = {NextSegment}
  /\ dirCache' = DirWith(dirCache.segs \cup spare', dirCache.lines)
  /\ cache' = [cache EXCEPT ![NextSegment] = EmptySegment]
  /\ disk' = [disk EXCEPT ![NextSegment] = EmptySegment]
  /\ dirty' = [dirty EXCEPT ![NextSegment] = {}]
  /\ UNCHANGED <<dirDisk, state, pc, failed, queue, group, pending, active, writeOffset, named,
                 listed, dropsBySegment, syncOwed, toDelete, history, budget>>

SyncSpare ==
  /\ Running /\ spare # {} /\ ~ (spare \subseteq dirDisk.segs)
  /\ UNCHANGED dirCache /\ SyncDirectory
  /\ UNCHANGED <<cache, disk, dirty, state, pc, failed, queue, group, pending, files, syncOwed,
                 toDelete, history, budget>>

\* Mutant of CarriedBy: no destroy is kept for the segments that stay.
MutCarriedBy(released) == released \cap {}

\* the destroys of released segments that go before an older one that stays
CarriedBy(released) ==
  LET kept == listed \ released
  IN {g \in released : kept # {} /\ g > Least(kept) /\ dropsBySegment[g] # {}}

\* deleteReleasedSegments: a directory sync that is owed comes first
DeleteOwedSync ==
  /\ Running /\ pc = "delete" /\ syncOwed
  /\ UNCHANGED dirCache /\ SyncDirectory
  /\ syncOwed' = FALSE
  /\ UNCHANGED <<cache, disk, dirty, state, pc, failed, queue, group, pending, files, toDelete,
                 history, budget>>

\* the released segments, after keepDropsOfSegmentsDeletedAhead
DeleteBegin ==
  /\ Running /\ pc = "delete" /\ ~ syncOwed
  /\ LET carrying == CarriedBy(Deletable)
         carried == {l \in Stories \X Segments : l[2] \in carrying /\ l[1] \in dropsBySegment[l[2]]}
         lines == {l \in dirCache.lines : l[2] >= Least(listed)} \cup carried
     IN IF carrying = {}
        THEN /\ toDelete' = Deletable
             /\ UNCHANGED <<dirCache, dirDisk, budget>>
        ELSE \E ok \in BOOLEAN :
               /\ WriteDrops(lines, ok)
               /\ toDelete' = IF ok THEN Deletable ELSE Deletable \ carrying
  /\ pc' = "remove"
  /\ UNCHANGED <<cache, disk, dirty, state, failed, queue, group, pending, files, syncOwed, history>>

\* the owed directory sync failed again: nothing is deleted
DeleteStillOwed ==
  /\ Running /\ pc = "delete" /\ syncOwed /\ Fault("dirsync") /\ UseFault
  /\ pc' = "idle"
  /\ UNCHANGED <<medium, state, failed, queue, group, pending, files, syncOwed, toDelete, history>>

\* deleteSegment, oldest first: the removal, then its directory sync
RemoveSegment ==
  /\ Running /\ pc = "remove" /\ toDelete # {}
  /\ LET g == Least(toDelete)
     IN /\ dirCache' = DirWith(dirCache.segs \ {g}, dirCache.lines)
        /\ listed' = listed \ {g}
        /\ toDelete' = toDelete \ {g}
        /\ dropsBySegment' = [dropsBySegment EXCEPT ![g] = {}]
  /\ pc' = "remove_sync"
  /\ UNCHANGED <<cache, disk, dirty, dirDisk, state, failed, queue, group, pending, active,
                 writeOffset, named, spare, syncOwed, history, budget>>

RemoveSync ==
  /\ Running /\ pc = "remove_sync"
  /\ UNCHANGED dirCache /\ SyncDirectory
  /\ pc' = "remove"
  /\ UNCHANGED <<cache, disk, dirty, state, failed, queue, group, pending, files, syncOwed,
                 toDelete, history, budget>>

\* A removal that failed, or whose directory sync failed, ends the pass; in
\* the second case nothing more is deleted until a directory sync succeeds.
RemoveFails ==
  /\ Running
  /\ \/ pc = "remove" /\ toDelete # {} /\ Fault("remove") /\ UNCHANGED syncOwed
     \/ pc = "remove_sync" /\ Fault("dirsync") /\ syncOwed' = TRUE
  /\ UseFault
  /\ pc' = "idle" /\ toDelete' = {}
  /\ UNCHANGED <<medium, state, failed, queue, group, pending, files, history>>

RemoveDone ==
  /\ Running /\ pc = "remove" /\ toDelete = {}
  /\ pc' = "idle"
  /\ UNCHANGED <<medium, state, failed, queue, group, pending, files, syncOwed, toDelete, history,
                 budget>>

\* the periodic pass over the released segments
PeriodicDelete ==
  /\ Running /\ pc = "idle"
  /\ syncOwed \/ Deletable # {}
  /\ pc' = "delete"
  /\ UNCHANGED <<medium, state, failed, queue, group, pending, files, syncOwed, toDelete, history,
                 budget>>

\* the active segment is replaced once everything in it was released
IdleRotate ==
  /\ Running /\ pc = "idle" /\ queue = <<>> /\ ~ failed
  /\ writeOffset > 1 /\ ~ Outstanding(active)
  /\ \/ /\ spare # {} /\ spare \subseteq dirDisk.segs
        /\ active' = Greatest(spare) /\ listed' = listed \cup spare /\ spare' = {}
        /\ writeOffset' = 1 /\ named' = {} /\ pc' = "delete"
        /\ UNCHANGED <<failed, budget>>
     \/ /\ Fault("sync") /\ UseFault /\ failed' = TRUE
        /\ UNCHANGED <<active, writeOffset, named, listed, spare, pc>>
  /\ UNCHANGED <<medium, state, queue, group, pending, dropsBySegment, syncOwed, toDelete, history>>

-----------------------------------------------------------------------------
(* Stopping and crashing.                                                   *)

\* stop(): the committer drains the queue, then ends
Stop ==
  /\ Running /\ pc = "idle" /\ queue = <<>>
  /\ state' = "stopped"
  /\ UNCHANGED <<medium, pc, failed, queue, group, pending, files, syncOwed, toDelete, history,
                 budget>>

UseCrash == budget.crashes < MaxCrashes /\ budget' = [budget EXCEPT !.crashes = @ + 1]

\* the keeper process dies; the page cache stays
ProcessCrash ==
  /\ state # "down" /\ UseCrash
  /\ Down
  /\ UNCHANGED <<medium, history>>

\* The node loses power: each dirty slot is on disk, not on disk, or partly
\* written, and each change of the directory since its last sync kept or lost.
PowerLoss ==
  /\ UseCrash
  /\ \E g \in Segments :
       /\ \A h \in Segments \ {g} : dirty[h] = {}
       /\ \E row \in [dirty[g] -> {"old", "new", "bad"}] :
            disk' = [disk EXCEPT ![g] = [i \in Slots |->
                       IF i \notin dirty[g] \/ row[i] = "old" THEN @[i]
                       ELSE IF row[i] = "new" \/ @[i] = cache[g][i] THEN cache[g][i] ELSE Bad]]
  /\ cache' = disk' /\ dirty' = [g \in Segments |-> {}]
  /\ \E gone \in SUBSET (dirDisk.segs \ dirCache.segs), made \in SUBSET (dirCache.segs \ dirDisk.segs) :
       \E lines \in {dirCache.lines, dirDisk.lines} :
         dirCache' = DirWith((dirDisk.segs \ gone) \cup made, lines)
  /\ SyncDirectory
  /\ Down
  /\ UNCHANGED history

-----------------------------------------------------------------------------
Requests ==
  \/ \E e \in Events : AppendDurable(e) \/ RetryDurable(e) \/ Release(e)
  \/ \E s \in Stories : StoryDropped(s)
Committer ==
  \/ TakeGroup \/ CommitWrite \/ CommitSync \/ Rotate
  \/ LatchedGroup \/ FailGroup \/ Erase \/ EraseSync
  \/ DeleteOwedSync \/ DeleteBegin \/ RemoveSegment \/ RemoveSync \/ RemoveDone
IoFaults ==
  \/ RecoverFails \/ CommitWriteFails \/ CommitSyncFails \/ RotateFails \/ EraseFails
  \/ DeleteStillOwed \/ RemoveFails
Recovery == RecoverSync \/ RecoverZero \/ RecoverZeroSync \/ RecoverStart
Background == PeriodicDelete \/ IdleRotate \/ PrepareSpare \/ SyncSpare
Next == /\ UNCHANGED scenario
        /\ \/ Requests \/ Committer \/ IoFaults \/ Recovery \/ Background
           \/ Stop \/ ProcessCrash \/ PowerLoss

Spec == Init /\ [][Next]_vars

\* The committer and the preparer run on streams of their own and never wait
\* for a request, so each of their steps is taken once it stays possible.
FairSpec == Spec /\ WF_moving(Committer) /\ WF_moving(PrepareSpare) /\ WF_moving(SyncSpare)

-----------------------------------------------------------------------------
(* Properties.                                                              *)

TypeOK ==
  /\ cache \in [Segments -> [Slots -> SlotValues]] /\ disk \in [Segments -> [Slots -> SlotValues]]
  /\ dirty \in [Segments -> SUBSET Slots]
  /\ \A d \in {dirCache, dirDisk} : d.segs \subseteq Segments /\ d.lines \subseteq Stories \X Segments
  /\ state \in {"down", "recovering", "running", "stopped"}
  /\ failed \in BOOLEAN /\ syncOwed \in BOOLEAN
  /\ queue \in Seq(Entries) /\ group \in Seq(Entries)
  /\ pending \in [Events -> SUBSET Segments]
  /\ active \in Nat /\ writeOffset \in 1..(SegSlots + 1) /\ named \subseteq Stories
  /\ listed \subseteq Segments /\ spare \subseteq Segments /\ toDelete \subseteq listed
  /\ dropsBySegment \in [Segments -> SUBSET Stories]
  /\ owed \subseteq Events /\ suspect \subseteq Events /\ buried \subseteq Events

\* Every event acknowledged durable, and neither confirmed by the grapher nor
\* destroyed since, is pending in a running keeper, whatever crashes came
\* between.  Events of a group whose sync failed and which was not erased are
\* the exception.
DurableSurvives == Running => \A e \in owed \ suspect : pending[e] # {}

\* The same without the exception: what a CL_SUCCESS answer promises.
EveryAnswerSurvives == Running => \A e \in owed : pending[e] # {}

\* An event of a destroyed story whose destroy is on disk, as a D record or a
\* line of the unlogged-drops file, never comes back unless it is sent again.
NoResurrection == Running => \A e \in buried : pending[e] = {}

\* A pending copy is on disk in a segment whose directory entry is durable, so
\* no segment is removed while it holds one.
PendingCopiesOnDisk ==
  state \in {"running", "stopped"} => \A e \in Events \ suspect : \A g \in pending[e] :
    g \in listed /\ g \in dirDisk.segs /\ Holds(disk[g], E(e))

\* Whatever a crash, a power loss or a failed write, erase or sync leaves, it is
\* not a directory that recovery takes for damaged (readSegment, recoverWal):
\* the torn group is always the last one.
RecoveryAdmits == state = "down" => ~ Damaged(dirCache.segs, cache)

\* Every queued request is answered, or the keeper dies first.
EveryRequestAnswered ==
  \A e \in Events : (Running /\ InFlight(e)) ~> (~ InFlight(e))

=============================================================================
