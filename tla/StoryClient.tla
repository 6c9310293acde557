---------------------------- MODULE StoryClient -----------------------------
(***************************************************************************)
(* The client library of one process: its session with the visor, the      *)
(* handle of a story, which all its threads share, and what the handle     *)
(* offers: log_event, accepted or durable, and playback, the tail read of  *)
(* module TailRead.                                                        *)
(*                                                                         *)
(* ChronologClientImpl holds its mutex during a request to the visor, so a *)
(* session request is one step here; the RPC in it may be lost, or run and *)
(* its answer be lost.  What the visor does with it is in VisorStories:    *)
(* here it keeps whether it has a record of the client and whether it      *)
(* lists the client as an acquirer of the story.  A behaviour is about one *)
(* of four uses (Scenarios): sessions of several threads; several threads  *)
(* that write; a durable write; and a tail read.                           *)
(*                                                                         *)
(* chooseKeeper depends on the timestamp only and nothing in the library   *)
(* changes a handle's keepers, so all attempts of a write go to one        *)
(* keeper.  A thread that uses a handle another thread has released reads  *)
(* freed memory; the threads modelled here do not.                         *)
(***************************************************************************)
EXTENDS TailRead, Integers

CONSTANTS
  Threads,
  Scenarios,       \* of "session", "writing", "durable" and "tailing"
  MaxRequests,     \* bound: session requests
  MaxLost,         \* bound: session RPCs that fail
  MaxIndex,        \* INT_MAX
  Writes,          \* bound: events a thread logs
  Attempts,        \* LogEventOptions::attempts
  MaxDeaths        \* bound: deaths of the keeper a durable write goes to

ASSUME ClientAssumption ==
  /\ Scenarios \subseteq {"session", "writing", "durable", "tailing"}
  /\ {MaxRequests, MaxLost, Writes, MaxDeaths} \subseteq Nat
  /\ {MaxIndex, Attempts} \subseteq Nat \ {0}

VARIABLES
  scenario,
  clientState, handle, reader,            \* the session; whether there is a handle and a reader of the story
  registered, holds,                      \* the visor: the client's record, and its acquisition
  releasing,                              \* threads in ReleaseStory before they take the mutex
  acquired,                               \* AcquireStory's answer, when it was the last request
  outlived,                               \* history: the handle was kept over a disconnect or a destroy
  requests, lost,
  atomicIndex, locked, writer,            \* atomic_index, recordingClientMapMutex, each thread in log_event
  issued, logged,                         \* history: the indices given to events, and how many events
  keeper,                                 \* the keeper of the durable write
  inflight, answers,                      \* attempts on their way to it, and its answers to them
  answeredDurable                         \* KeeperRecordingClient: it has answered a durable write

session == <<clientState, handle, reader, registered, holds, releasing, acquired, outlived, requests, lost>>
stamping == <<atomicIndex, locked, issued, logged>>
durable == <<keeper, inflight, answers, answeredDurable>>
vars == <<scenario, session, stamping, writer, durable, tailVars>>

Connected == clientState = "CONNECTED"
MinIndex == -MaxIndex - 1
Idle == [at |-> "idle", left |-> IF scenario = "writing" THEN Writes ELSE 1, attempt |-> 0, mayBeStored |-> FALSE, code |-> "none", time |-> FALSE]

Init ==
  /\ TailInit /\ scenario \in Scenarios
  /\ clientState = IF scenario = "session" THEN "UNKNOWN" ELSE "CONNECTED"
  /\ handle = Connected /\ reader = Connected /\ registered = Connected /\ holds = Connected
  /\ releasing = {} /\ acquired = "none" /\ outlived = FALSE /\ requests = 0 /\ lost = 0
  /\ atomicIndex = (IF scenario = "writing" THEN MaxIndex - 2 ELSE 0) /\ locked = FALSE /\ issued = {} /\ logged = 0
  /\ writer = [t \in Threads |-> Idle]
  /\ keeper = [up |-> TRUE, defines |-> TRUE, wal |-> "ok", stored |-> "no", deaths |-> 0]
  /\ inflight = {} /\ answers = {}
  /\ answeredDurable \in IF scenario = "durable" THEN BOOLEAN ELSE {FALSE}   \* by an earlier write

-----------------------------------------------------------------------------
(* The session                                                             *)

\* A session RPC: whether the visor ran it and whether the client was told
Rpc(ran, told) ==
  /\ told => ran
  /\ lost' = IF told THEN lost ELSE lost + 1
  /\ lost' <= MaxLost

\* A client with a record is refused, by the guard against equal ids
Connect(t) ==
  /\ ~Connected
  /\ \E ran, told \in BOOLEAN :
       /\ Rpc(ran, told)
       /\ registered' = (registered \/ ran)
       /\ clientState' = IF told /\ ~registered THEN "CONNECTED" ELSE clientState
  /\ acquired' = "none" /\ UNCHANGED <<handle, reader, holds, releasing, outlived>>

\* The visor releases what the client holds; the client is shut down whatever
\* the answer, and keeps its handles
Disconnect(t) ==
  /\ Connected
  /\ \E ran, told \in BOOLEAN :
       /\ Rpc(ran, told)
       /\ registered' = (registered /\ ~ran)
       /\ holds' = (holds /\ ~ran)
  /\ clientState' = "SHUTTING_DOWN"
  /\ outlived' = (outlived \/ handle)
  /\ acquired' = "none" /\ UNCHANGED <<handle, reader, releasing>>

\* A handle the process already has is handed out without a request.  The
\* visor answers an acquisition it already has with CL_ERR_ACQUIRED.
AcquireStory(t) ==
  \/ /\ ~Connected /\ acquired' = "CL_ERR_NO_CONNECTION"
     /\ UNCHANGED <<handle, reader, holds, lost>>
  \/ /\ Connected /\ handle /\ acquired' = "CL_SUCCESS"
     /\ UNCHANGED <<handle, reader, holds, lost>>
  \/ /\ Connected /\ ~handle
     /\ \E ran, told \in BOOLEAN :
          LET granted == registered /\ ~holds IN
          /\ Rpc(ran, told)
          /\ holds' = (holds \/ (ran /\ registered))
          /\ handle' = (told /\ granted)
          /\ reader' = (reader \/ (told /\ granted))
          /\ acquired' = IF ~told \/ ~registered THEN "CL_ERR_UNKNOWN"
                         ELSE IF granted THEN "CL_SUCCESS" ELSE "CL_ERR_ACQUIRED"

\* ReleaseStory removes the story reader before it takes the mutex
removeStoryReader(t) ==
  /\ t \notin releasing
  /\ reader' = FALSE /\ releasing' = releasing \cup {t}
  /\ acquired' = "none" /\ UNCHANGED <<clientState, handle, registered, holds, outlived, lost>>

\* Mutant of ReleaseStory: the handle goes only when the visor has answered.
MutReleaseStory(t) ==
  /\ t \in releasing /\ releasing' = releasing \ {t}
  /\ IF ~handle \/ ~Connected THEN handle' = FALSE /\ UNCHANGED <<holds, lost>>
     ELSE \E ran, told \in BOOLEAN : /\ Rpc(ran, told) /\ holds' = (holds /\ ~ran)
                                     /\ handle' = ~told
  /\ outlived' = (outlived /\ handle')
  /\ acquired' = "none" /\ UNCHANGED <<clientState, reader, registered>>

\* the handle is deleted whatever the visor answers
ReleaseStory(t) ==
  /\ t \in releasing /\ releasing' = releasing \ {t}
  /\ handle' = FALSE /\ outlived' = FALSE
  /\ IF ~handle \/ ~Connected THEN UNCHANGED <<holds, lost>>
     ELSE \E ran, told \in BOOLEAN : Rpc(ran, told) /\ holds' = (holds /\ ~ran)
  /\ acquired' = "none" /\ UNCHANGED <<clientState, reader, registered>>

\* DestroyStory, DestroyChronicle: the visor releases the acquisition of the
\* client that asks; the client keeps its handle
DestroyStory(t) ==
  /\ Connected
  /\ \E ran, told \in BOOLEAN : Rpc(ran, told) /\ holds' = (holds /\ ~ran)
  /\ outlived' = (outlived \/ handle)
  /\ acquired' = "none" /\ UNCHANGED <<clientState, handle, reader, registered, releasing>>

SessionStep ==
  /\ scenario = "session"
  /\ \E t \in Threads :
       \/ /\ t \notin releasing /\ requests < MaxRequests /\ requests' = requests + 1
          /\ \/ Connect(t) \/ Disconnect(t) \/ DestroyStory(t) \/ removeStoryReader(t)
             \/ AcquireStory(t) /\ UNCHANGED <<clientState, registered, releasing, outlived>>
       \/ ReleaseStory(t) /\ UNCHANGED requests
  /\ UNCHANGED <<scenario, stamping, writer, durable, tailVars>>

-----------------------------------------------------------------------------
(* The identity of an event                                                *)

\* Every thread logs in the same tick of the clock, the worst case: what tells
\* their events apart is the index.  get_event_index reads the atomic counter,
\* takes the mutex only where it has reached INT_MAX, and looks again.
Move(t, w) == writer' = [writer EXCEPT ![t] = w]
To(t, place) == Move(t, [writer[t] EXCEPT !.at = place])

log_event(t) ==
  /\ writer[t].at = "idle" /\ writer[t].left > 0
  /\ Move(t, [writer[t] EXCEPT !.left = @ - 1, !.at = IF atomicIndex = MaxIndex THEN "full" ELSE "increment"])
  /\ UNCHANGED stamping

\* Mutant of LockIndex: the counter is not read again under the mutex.
MutLockIndex(t) ==
  /\ writer[t].at = "full" /\ ~locked
  /\ To(t, "reset") /\ locked' = TRUE
  /\ UNCHANGED <<atomicIndex, issued, logged>>

LockIndex(t) ==
  /\ writer[t].at = "full" /\ ~locked
  /\ To(t, IF atomicIndex = MaxIndex THEN "reset" ELSE "increment")
  /\ locked' = (atomicIndex = MaxIndex)
  /\ UNCHANGED <<atomicIndex, issued, logged>>

ResetIndex(t) ==
  /\ writer[t].at = "reset"
  /\ To(t, "increment") /\ atomicIndex' = 0 /\ locked' = FALSE
  /\ UNCHANGED <<issued, logged>>

\* a thread that read the counter before it was full makes it wrap
IncrementIndex(t) ==
  /\ writer[t].at = "increment"
  /\ atomicIndex' = IF atomicIndex = MaxIndex THEN MinIndex ELSE atomicIndex + 1
  /\ issued' = issued \cup {atomicIndex'} /\ logged' = logged + 1
  /\ Move(t, IF scenario = "durable" THEN [writer[t] EXCEPT !.at = "send", !.attempt = 1]
             ELSE [writer[t] EXCEPT !.at = "accept"])
  /\ UNCHANGED locked

\* An accepted write: one RPC, and its code is what the caller gets
send_event_msg(t) ==
  /\ writer[t].at = "accept"
  /\ \E code \in {"CL_SUCCESS", "CL_ERR_UNKNOWN"} :
       Move(t, [writer[t] EXCEPT !.at = "idle", !.code = code, !.time = (code = "CL_SUCCESS")])
  /\ UNCHANGED <<stamping, durable>>

-----------------------------------------------------------------------------
(* log_durable_event: attempts of one event, with one identity             *)

Return(t, code) ==
  Move(t, [writer[t] EXCEPT !.at = "returned", !.code = code,
                            !.time = code \in {"CL_SUCCESS", "CL_ERR_DURABILITY_UNKNOWN"}])

\* Mutant of AnsweredCode: the last answer is taken at its word.
MutAnsweredCode(code, mayBeStored) == code

\* A refusal says nothing of an earlier attempt that was not answered
AnsweredCode(code, mayBeStored) ==
  IF mayBeStored /\ code \in {"CL_ERR_DURABILITY_UNAVAILABLE", "CL_ERR_DURABILITY_FULL"}
  THEN "CL_ERR_DURABILITY_UNKNOWN" ELSE code

\* TimedOut or TransportError: the attempt may have stored the event
Unanswered(t) ==
  LET w == writer[t] IN
  IF w.attempt < Attempts
  THEN Move(t, [w EXCEPT !.at = "send", !.attempt = @ + 1, !.mayBeStored = TRUE])
  ELSE Return(t, "CL_ERR_DURABILITY_UNKNOWN")

\* NotRegistered: a keeper without the RPC stored nothing now
NotRegistered(t) ==
  Return(t, AnsweredCode("CL_ERR_DURABILITY_UNAVAILABLE", writer[t].mayBeStored))

\* A forward to a dead keeper fails at once, as if the RPC was not defined or
\* with another error.  HG_NO_MATCH from a keeper that never answered is looked
\* into with keeperIsAlive.
NoMatch(t) ==
  IF answeredDurable THEN Unanswered(t) ELSE To(t, "probe")

SendAttempt(t) ==
  /\ writer[t].at = "send"
  /\ IF keeper.up THEN inflight' = inflight \cup {writer[t].attempt} /\ To(t, "waiting")
     ELSE (NoMatch(t) \/ Unanswered(t)) /\ UNCHANGED inflight
  /\ UNCHANGED <<stamping, keeper, answers, answeredDurable>>

ReceiveAnswer(t) ==
  /\ writer[t].at = "waiting"
  /\ \E a \in answers :
       /\ a.attempt = writer[t].attempt
       /\ IF a.code = "HG_NO_MATCH" THEN NoMatch(t) /\ UNCHANGED answeredDurable
          ELSE /\ answeredDurable' = TRUE
               /\ Return(t, AnsweredCode(a.code, writer[t].mayBeStored))
  /\ UNCHANGED <<stamping, keeper, inflight, answers>>

\* the attempt's deadline, at any time; or the connection breaks
GiveUpAttempt(t) ==
  /\ writer[t].at = "waiting" /\ Unanswered(t)
  /\ UNCHANGED <<stamping, durable>>

\* a keeper that answers the probe is taken for one without the RPC, though it
\* may have restarted since the forward failed
keeperIsAlive(t) ==
  /\ writer[t].at = "probe"
  /\ \/ keeper.up /\ NotRegistered(t)
     \/ Unanswered(t)
  /\ UNCHANGED <<stamping, durable>>

-----------------------------------------------------------------------------
(* The keeper of the durable write, as modules DurableWrite and KeeperWal  *)
(* have it: the event is looked up first, whatever the state of the WAL    *)

Answer(a, code) == answers' = answers \cup {[attempt |-> a, code |-> code]}

Refuse(a, code) == Answer(a, code) /\ UNCHANGED keeper

record_event_durable(a) ==
  LET unsettled == keeper.stored # "yes"   \* the lookup finds nothing
  IN
  /\ a \in inflight /\ keeper.up
  /\ inflight' = inflight \ {a}
  /\ IF ~keeper.defines THEN Refuse(a, "HG_NO_MATCH")
     ELSE \/ keeper.wal = "off" /\ Refuse(a, "CL_ERR_DURABILITY_UNAVAILABLE")
          \/ keeper.wal # "off" /\ ~unsettled /\ Answer(a, "CL_SUCCESS") /\ UNCHANGED keeper
          \/ keeper.wal = "failed" /\ unsettled /\ Refuse(a, "CL_ERR_DURABILITY_UNAVAILABLE")
          \/ keeper.wal = "full" /\ unsettled /\ Refuse(a, "CL_ERR_DURABILITY_FULL")
          \/ /\ keeper.wal = "ok" /\ unsettled
             /\ \/ Answer(a, "CL_SUCCESS") /\ keeper' = [keeper EXCEPT !.stored = "yes"]
                \/ \* the group failed and was erased
                   Answer(a, "CL_ERR_DURABILITY_UNAVAILABLE") /\ keeper' = [keeper EXCEPT !.wal = "failed"]
                \/ \* or could not be: a recovery may find it
                   /\ Answer(a, "CL_ERR_DURABILITY_UNKNOWN")
                   /\ keeper' = [keeper EXCEPT !.wal = "failed", !.stored = "maybe"]
  /\ UNCHANGED <<stamping, writer, answeredDurable>>

\* The cap is reached, or the keeper holds less again; or it shuts its write
\* gate, and refuses before it looks the event up, as without a WAL
ChangeWal ==
  /\ keeper.up
  /\ \E to \in {"ok", "full", "off"} :
       /\ keeper.wal \in {"ok", "full"} \/ to = "off"
       /\ keeper' = [keeper EXCEPT !.wal = to]
  /\ UNCHANGED <<stamping, writer, inflight, answers, answeredDurable>>

\* The keeper dies with the requests it has; another version of it may start
\* in its place, with or without a WAL
KillKeeper ==
  /\ keeper.up /\ keeper.deaths < MaxDeaths
  /\ keeper' = [keeper EXCEPT !.up = FALSE, !.deaths = @ + 1]
  /\ inflight' = {} /\ answers' = {}
  /\ UNCHANGED <<stamping, writer, answeredDurable>>
StartKeeper ==
  /\ ~keeper.up
  /\ \E defines \in BOOLEAN, wal \in {"ok", "full", "off"}, found \in {"yes", "no"} :
       keeper' = [keeper EXCEPT !.up = TRUE, !.defines = defines, !.wal = wal,
                                !.stored = IF @ = "maybe" THEN found ELSE @]
  /\ UNCHANGED <<stamping, writer, inflight, answers, answeredDurable>>

WritingStep ==
  /\ scenario = "writing" \/ (scenario = "durable" /\ logged = 0)
  /\ \E t \in Threads :
       \/ /\ log_event(t) \/ LockIndex(t) \/ ResetIndex(t) \/ IncrementIndex(t)
          /\ UNCHANGED durable
       \/ send_event_msg(t)
  /\ UNCHANGED <<scenario, session, tailVars>>

DurableStep ==
  /\ scenario = "durable"
  /\ \/ \E t \in Threads : SendAttempt(t) \/ ReceiveAnswer(t) \/ GiveUpAttempt(t) \/ keeperIsAlive(t)
     \/ \E a \in 1 .. Attempts : record_event_durable(a)
     \/ ChangeWal \/ KillKeeper \/ StartKeeper
  /\ UNCHANGED <<scenario, session, tailVars>>

-----------------------------------------------------------------------------
(* playback, and the whole client                                          *)

TailingStep ==
  /\ scenario = "tailing"
  /\ TailStep \/ (BeginTailRead /\ Observe /\ UNCHANGED live)
  /\ UNCHANGED <<scenario, session, stamping, writer, durable>>

\* every use ends: the bounds are reached
Next == SessionStep \/ WritingStep \/ DurableStep \/ TailingStep
Spec == Init /\ [][Next]_vars

-----------------------------------------------------------------------------
(* Properties                                                              *)

\* AcquireStory answers CL_SUCCESS only when the visor lists the client as an
\* acquirer of the story, so that the story is recorded: the handle found in
\* acquiredStoryHandles, which no request backs, is one the visor still knows
\* of, whatever was lost of the requests before and whichever threads sent
\* them.  The exception: a handle the process kept over a Disconnect or a
\* destroy of its own, until it calls ReleaseStory.
AcquireMeansHeld == acquired = "CL_SUCCESS" /\ ~outlived => holds

\* AcquireStory's CL_SUCCESS means that the story was opened for this client,
\* which is to say that the visor granted it and has not taken it back, with no
\* exception: the handles found in the map are "already granted to the process".
\* The code keeps them over Disconnect, which releases the stories at the visor.
AcquireOpensStory == acquired = "CL_SUCCESS" => holds

\* No two events the process logs in one tick of its clock have the same
\* index, also where get_event_index passes INT_MAX with several threads in it:
\* the keepers, the WAL and the readers take events of one sequence for one.
UniqueIdentity == Cardinality(issued) = logged

\* What a durable log_event returned is true and stays true: CL_SUCCESS means
\* the event is in a keeper's WAL, a refusal that no attempt stored it or ever
\* will, however attempts, time-outs, deaths and restarts of the keeper came;
\* event_time is set exactly when the event is or may be stored.
DurableStatusIsTrue ==
  \A t \in Threads : writer[t].at = "returned" =>
    /\ writer[t].code = "CL_SUCCESS" => keeper.stored = "yes"
    /\ writer[t].code \in {"CL_ERR_DURABILITY_UNAVAILABLE", "CL_ERR_DURABILITY_FULL"} =>
         keeper.stored = "no" /\ inflight = {} /\ ~writer[t].time
    /\ writer[t].code = "CL_ERR_DURABILITY_UNKNOWN" => writer[t].time
=============================================================================
