--------------------------- MODULE KeeperProcess ----------------------------
(***************************************************************************)
(* The main functions of keeper processes started one after another, or    *)
(* too early, on one WAL directory: the directory's lock, the recovery,    *)
(* the services, the registration with the visor, the main loop, and the   *)
(* shutdown that ends in the exit summary, the file a stop script reads    *)
(* to learn how many durable events the grapher had not confirmed.         *)
(*                                                                         *)
(* One process at a time gets past the lock, so what it has in memory is   *)
(* kept once (alive).  How an event is written, collected and delivered is *)
(* in the other modules: here it is in the WAL, or also in a sealed chunk  *)
(* of the retention store, until the grapher confirms it.  A segment may   *)
(* hold confirmed events beside others, and recovery takes all of them for *)
(* outstanding again.                                                      *)
(***************************************************************************)
EXTENDS Naturals, FiniteSets

CONSTANTS
  Processes,
  DurableEvents,
  Nobody,                \* not a process: the lock is free
  RegistrationAttempts,  \* max_registration_attempts
  MaxStarts,             \* bound: starts of processes
  MaxCallsFailed,        \* bound: file system calls that fail
  MaxKills,              \* bound: processes killed
  MaxLosses              \* bound: losses of power

ASSUME ProcessAssumption ==
  /\ Nobody \notin Processes /\ IsFiniteSet(DurableEvents)
  /\ RegistrationAttempts \in Nat \ {0} /\ {MaxStarts, MaxCallsFailed, MaxKills, MaxLosses} \subseteq Nat

VARIABLES
  place,                 \* where each process is in main
  keepRunning,           \* per process
  holder,                \* who has the lock of the WAL directory
  attempts,              \* registration attempts made
  alive,                 \* the holder's recording service, gate, data admin service and WAL
  inside,                \* events whose handler runs
  everLogged,            \* events that were written to a segment, deleted since or not
  outstanding, sealed,   \* events pending in the WAL (of its last holder, when it is gone); those in sealed chunks
  unconfirmed,           \* history: events in the WAL that the grapher has not confirmed to any keeper
  summary, onDisk,       \* the exit summary a reader finds; the one a power loss leaves
  partial,               \* its .partial file
  lastEnd,               \* history: how the last holder ended
  staleKept,             \* history: a keeper could not remove the summary it found, and none has since
  starts, faults, kills, losses

bounds == <<starts, faults, kills, losses>>
file == <<summary, onDisk, partial>>
durable == <<everLogged, outstanding, unconfirmed>>
writes == <<inside, durable, sealed>>
processVars == <<place, keepRunning, holder, attempts, alive, writes, file, lastEnd, staleKept, bounds>>

\* A file with the line that counts n events; whether its data is on disk.
\* A line that a power loss cut short counts TornCount.
Line(n, isSynced) == [there |-> TRUE, count |-> n, synced |-> isSynced]
NoFile == [there |-> FALSE, count |-> 0, synced |-> TRUE]
TornCount == Cardinality(DurableEvents) + 1
NothingUp == [service |-> FALSE, gate |-> FALSE, admin |-> FALSE, wal |-> FALSE]

ProcessInit ==
  /\ place = [p \in Processes |-> "off"] /\ keepRunning = [p \in Processes |-> TRUE]
  /\ holder = Nobody /\ attempts = 0 /\ alive = NothingUp
  /\ inside = {} /\ everLogged = {} /\ outstanding = {} /\ sealed = {} /\ unconfirmed = {}
  /\ summary = NoFile /\ onDisk = NoFile /\ partial = NoFile
  /\ lastEnd = "none" /\ staleKept = FALSE
  /\ starts = 0 /\ faults = 0 /\ kills = 0 /\ losses = 0

Go(p, from, to) == place[p] = from /\ place' = [place EXCEPT ![p] = to]
CallFails == faults < MaxCallsFailed /\ faults' = faults + 1
CallSucceeds == UNCHANGED faults

\* the process is gone, and with it the lock, the services and the handlers
End(p, how) ==
  /\ place' = [place EXCEPT ![p] = "off"]
  /\ holder' = Nobody /\ alive' = NothingUp /\ inside' = {} /\ lastEnd' = how

-----------------------------------------------------------------------------
(* The start: start_keeper_wal, the services, the registration             *)

openDirectory(p) ==
  /\ starts < MaxStarts /\ starts' = starts + 1 /\ keepRunning' = [keepRunning EXCEPT ![p] = TRUE]
  /\ place[p] = "off"
  /\ \/ Go(p, "off", "opened") /\ CallSucceeds
     \/ CallFails /\ UNCHANGED place
  /\ UNCHANGED <<holder, attempts, alive, writes, file, lastEnd, staleKept, kills, losses>>

\* recoverWal opens the segments, which takes the lock: a process that finds it
\* taken ends and touches nothing, as one that cannot list the directory does
lockDirectory(p) ==
  /\ place[p] = "opened"
  /\ \/ /\ Go(p, "opened", "off") /\ UNCHANGED <<holder, lastEnd>>
        /\ (holder # Nobody /\ CallSucceeds) \/ (holder = Nobody /\ CallFails)
     \/ /\ holder = Nobody /\ Go(p, "opened", "locked") /\ holder' = p /\ CallSucceeds
        /\ lastEnd' = "none"
  /\ UNCHANGED <<keepRunning, attempts, alive, writes, file, staleKept, starts, kills, losses>>

\* Mutant of RemoveSummary: the removal is left to the next clean exit.
MutRemoveSummary(p) ==
  /\ Go(p, "locked", "recovering") /\ CallSucceeds /\ UNCHANGED <<summary, onDisk, staleKept>>
  /\ UNCHANGED <<keepRunning, holder, attempts, alive, writes, partial, lastEnd, starts, kills, losses>>

\* the summary of the last clean exit goes, also where recovery will refuse; a
\* removal that fails, or is not synced, is logged and the keeper starts
RemoveSummary(p) ==
  /\ Go(p, "locked", "recovering")
  /\ \/ ~summary.there /\ CallSucceeds /\ UNCHANGED <<summary, onDisk, staleKept>>
     \/ summary.there /\ summary' = NoFile /\ onDisk' = NoFile /\ staleKept' = FALSE /\ CallSucceeds
     \/ /\ summary.there /\ CallFails /\ staleKept' = TRUE
        /\ summary' \in {summary, NoFile} /\ UNCHANGED onDisk
  /\ UNCHANGED <<keepRunning, holder, attempts, alive, writes, partial, lastEnd, starts, kills, losses>>

\* Recovery or the start of the WAL fails, and no summary is left; or all that
\* is left in the WAL becomes outstanding and sealed chunks: the segments that
\* held an outstanding event, the active one, and those whose deletion a power
\* loss undid, whatever else they hold
replayRecoveredEvents(p) ==
  /\ place[p] = "recovering"
  /\ \/ End(p, "refused") /\ CallFails /\ UNCHANGED <<outstanding, sealed>>
     \/ /\ Go(p, "recovering", "recovered") /\ CallSucceeds
        /\ \E confirmed \in SUBSET (everLogged \ outstanding) : outstanding' = outstanding \cup confirmed
        /\ sealed' = outstanding' /\ alive' = [alive EXCEPT !.wal = TRUE]
        /\ UNCHANGED <<holder, inside, lastEnd>>
  /\ UNCHANGED <<keepRunning, attempts, everLogged, unconfirmed, file, staleKept, starts, kills, losses>>

\* the data admin service, then the recording service, which takes writes of
\* clients that know the keeper from before; without one the process ends
CreateServices(p) ==
  /\ \/ Go(p, "recovered", "serving") /\ alive' = [alive EXCEPT !.admin = TRUE, !.service = TRUE, !.gate = TRUE]
     \/ Go(p, "recovered", "stopping wal") /\ UNCHANGED alive
  /\ attempts' = 0
  /\ UNCHANGED <<keepRunning, holder, writes, file, lastEnd, staleKept, bounds>>

send_register_msg(p) ==
  /\ attempts < RegistrationAttempts
  /\ \/ Go(p, "serving", "running")
     \/ place[p] = "serving" /\ UNCHANGED place
  /\ attempts' = attempts + 1
  /\ UNCHANGED <<keepRunning, holder, alive, writes, file, lastEnd, staleKept, bounds>>

\* The visor never answered: the services are deleted before the WAL is
\* stopped.  A handler that still runs then may crash the process.
GiveUpRegistration(p) ==
  /\ place[p] = "serving" /\ attempts = RegistrationAttempts
  /\ \/ /\ Go(p, "serving", "stopping wal") /\ alive' = [alive EXCEPT !.service = FALSE, !.admin = FALSE]
        /\ UNCHANGED <<holder, inside, lastEnd>>
     \/ inside # {} /\ End(p, "crashed")
  /\ UNCHANGED <<keepRunning, attempts, durable, sealed, file, staleKept, bounds>>

-----------------------------------------------------------------------------
(* What the services do meanwhile                                          *)

\* A retry of an event in the WAL is answered by lookupDurable.
EnterWrite(e) ==
  /\ alive.service /\ alive.gate /\ e \notin inside \cup everLogged
  /\ inside' = inside \cup {e}
  /\ UNCHANGED <<durable, sealed, alive>>

\* the committer writes the events of a group
Commit(group) ==
  /\ everLogged' = everLogged \cup group /\ outstanding' = outstanding \cup group
  /\ unconfirmed' = unconfirmed \cup group
appendDurable(e) ==
  /\ e \in inside \ everLogged /\ alive.wal
  /\ Commit({e}) /\ UNCHANGED <<inside, sealed, alive>>

\* an event of the WAL is collected while collection runs
collectEvent(e) ==
  /\ e \in outstanding \ sealed
  /\ \E p \in Processes : holder = p /\ place[p] \in {"running", "unregistered", "gate closed"}
  /\ sealed' = sealed \cup {e} /\ UNCHANGED <<inside, durable, alive>>

leaveWrite(e) ==
  /\ e \in inside /\ (e \in everLogged \/ ~alive.gate \/ ~alive.wal)
  /\ inside' = inside \ {e} /\ UNCHANGED <<durable, sealed, alive>>

\* a watermark report, which comes through the data admin service
applyReport(e) ==
  /\ e \in sealed /\ alive.admin /\ alive.wal
  /\ sealed' = sealed \ {e} /\ outstanding' = outstanding \ {e} /\ unconfirmed' = unconfirmed \ {e}
  /\ UNCHANGED <<inside, everLogged, alive>>

ServiceStep ==
  /\ \E e \in DurableEvents :
       EnterWrite(e) \/ appendDurable(e) \/ collectEvent(e) \/ leaveWrite(e) \/ applyReport(e)
  /\ UNCHANGED <<place, keepRunning, holder, attempts, file, lastEnd, staleKept, bounds>>

sigterm_handler(p) ==
  /\ place[p] # "off" /\ keepRunning[p] /\ keepRunning' = [keepRunning EXCEPT ![p] = FALSE]
  /\ UNCHANGED <<place, holder, attempts, alive, writes, file, lastEnd, staleKept, bounds>>

-----------------------------------------------------------------------------
(* The shutdown                                                            *)

\* only the main loop looks at the signal
send_unregister_msg(p) ==
  /\ ~keepRunning[p] /\ Go(p, "running", "unregistered")
  /\ UNCHANGED alive
stopAcceptingWrites(p) ==
  /\ Go(p, "unregistered", "gate closed")
  /\ alive' = [alive EXCEPT !.gate = FALSE]
shutdownDataCollection(p) ==
  /\ Go(p, "gate closed", "collected")
  /\ UNCHANGED alive

\* Mutant of waitUntilDurable: there is no deadline.
MutWaitUntilDurable(p) ==
  /\ sealed = {} /\ Go(p, "collected", "waited")
  /\ UNCHANGED alive

\* until every chunk is confirmed written, or the deadline
waitUntilDurable(p) ==
  /\ Go(p, "collected", "waited")
  /\ UNCHANGED alive
deleteDataAdminService(p) ==
  /\ Go(p, "waited", "stopping wal")
  /\ alive' = [alive EXCEPT !.admin = FALSE]
waitForWriteHandlers(p) ==
  /\ Go(p, "summarized", "handlers waited")
  /\ UNCHANGED alive
ShutdownStep(p) ==
  /\ \/ send_unregister_msg(p) \/ stopAcceptingWrites(p) \/ shutdownDataCollection(p)
     \/ waitUntilDurable(p) \/ deleteDataAdminService(p) \/ waitForWriteHandlers(p)
  /\ UNCHANGED <<keepRunning, holder, attempts, writes, file, lastEnd, staleKept, bounds>>

\* KeeperWal::stop commits what is queued: an event whose handler has queued it
\* is in the WAL, one whose handler comes later is refused
stop_keeper_wal(p) ==
  /\ Go(p, "stopping wal", "wal stopped")
  /\ \E queued \in SUBSET (inside \ everLogged) : Commit(queued)
  /\ alive' = [alive EXCEPT !.wal = FALSE]
  /\ UNCHANGED <<keepRunning, holder, attempts, inside, sealed, file, lastEnd, staleKept, bounds>>

\* The steps of write_wal_exit_summary; one that fails ends it
CreatePartial(p) ==
  /\ Go(p, "wal stopped", "created")
  /\ partial' = Line(Cardinality(outstanding), FALSE)
  /\ UNCHANGED <<summary, onDisk>>
SyncPartial(p) ==
  /\ Go(p, "created", "synced")
  /\ partial' = [partial EXCEPT !.synced = TRUE]
  /\ UNCHANGED <<summary, onDisk>>
RenamePartial(p) ==
  /\ Go(p, "synced", "renamed")
  /\ summary' = partial /\ partial' = NoFile
  /\ UNCHANGED onDisk
SyncSummaryName(p) ==
  /\ Go(p, "renamed", "summarized")
  /\ onDisk' = summary /\ staleKept' = FALSE
  /\ UNCHANGED <<summary, partial>>
write_wal_exit_summary(p) ==
  /\ \/ (CreatePartial(p) \/ SyncPartial(p) \/ RenamePartial(p)) /\ UNCHANGED staleKept
     \/ SyncSummaryName(p)
  /\ CallSucceeds /\ UNCHANGED <<keepRunning, holder, attempts, alive, writes, lastEnd, starts, kills, losses>>
SummaryFails(p) ==
  /\ place[p] \in {"wal stopped", "created", "synced", "renamed"} /\ CallFails
  /\ place' = [place EXCEPT ![p] = "unsummarized"]
  /\ UNCHANGED <<keepRunning, holder, attempts, alive, writes, file, lastEnd, staleKept, starts, kills, losses>>

\* The recording service goes, if it has not, then extraction and the WAL
\* with its lock; a handler that still ran may have crashed the process, with
\* the same effect
EndMain(p) ==
  /\ place[p] \in {"unsummarized", "handlers waited"} \/ (place[p] = "summarized" /\ ~alive.service)
  /\ End(p, IF place[p] = "unsummarized" THEN "unsummarized" ELSE "clean")
  /\ UNCHANGED <<keepRunning, attempts, durable, sealed, file, staleKept, bounds>>

-----------------------------------------------------------------------------
(* Crashes                                                                 *)

Kill(p) ==
  /\ kills < MaxKills /\ kills' = kills + 1
  /\ \/ holder = p /\ End(p, "crashed")
     \/ Go(p, "opened", "off") /\ UNCHANGED <<holder, alive, inside, lastEnd>>
  /\ UNCHANGED <<keepRunning, attempts, durable, sealed, file, staleKept, starts, faults, losses>>

\* of the names since the last sync of the directory any may be gone, and a
\* line whose data was not synced may be short
LosePower ==
  /\ losses < MaxLosses /\ losses' = losses + 1
  /\ place' = [p \in Processes |-> "off"] /\ holder' = Nobody /\ alive' = NothingUp /\ inside' = {}
  /\ lastEnd' = IF holder = Nobody THEN lastEnd ELSE "crashed"
  /\ \E kept \in {summary, onDisk}, whole \in BOOLEAN :
       /\ summary' = IF kept.synced \/ whole THEN kept ELSE Line(TornCount, TRUE)
       /\ onDisk' = summary' /\ partial' = NoFile
  /\ UNCHANGED <<keepRunning, attempts, durable, sealed, staleKept, starts, faults, kills>>

StartStep(p) ==
  \/ lockDirectory(p) \/ RemoveSummary(p) \/ replayRecoveredEvents(p) \/ CreateServices(p)
  \/ send_register_msg(p) \/ GiveUpRegistration(p)
MainStep(p) ==
  \/ StartStep(p) \/ ShutdownStep(p)
  \/ stop_keeper_wal(p) \/ write_wal_exit_summary(p) \/ SummaryFails(p) \/ EndMain(p)

ProcessNext ==
  \/ \E p \in Processes : openDirectory(p) \/ MainStep(p) \/ sigterm_handler(p) \/ Kill(p)
  \/ ServiceStep \/ LosePower

ProcessSpec == ProcessInit /\ [][ProcessNext]_processVars

\* The main thread goes on: its sleeps end, its waits have deadlines, and an
\* RPC to the visor is answered or fails
FairProcessSpec == ProcessSpec /\ \A p \in Processes : WF_processVars(MainStep(p))

-----------------------------------------------------------------------------
(* Properties                                                              *)

\* The summary counts the events outstanding in the WAL when it was stopped,
\* with every event the grapher has not confirmed among them.
CountsWal == summary.count = Cardinality(outstanding) /\ unconfirmed \subseteq outstanding

\* What a stop script reads when no keeper has the directory is the truth: an
\* exit summary (write_wal_exit_summary) is whole and counts what the last
\* keeper's WAL had outstanding, so no durable event that the grapher has not
\* confirmed is left out and a count of 0 means there is none, whatever killed,
\* refused or interrupted the processes since, unless a keeper logged that it
\* could not remove an old one and none has since; and a keeper that ended with
\* its summary written left it.  Events confirmed to an earlier keeper may be
\* counted: recovery has taken them for outstanding again.
SummaryIsTrue ==
  holder = Nobody =>
    /\ summary.there /\ ~staleKept => CountsWal
    /\ lastEnd = "clean" => summary.there /\ CountsWal

\* A keeper that got SIGTERM ends, whether or not the visor registers it, the
\* grapher confirms anything or the file system lets it write the summary.
StopEnds ==
  \A p \in Processes : (place[p] # "off" /\ ~keepRunning[p]) ~> place[p] = "off"
=============================================================================
