------------------------------ MODULE TailRead ------------------------------
(***************************************************************************)
(* The tail of a story in the keepers' memory and the read that gathers    *)
(* it.  A keeper merges events into the active timeline of the story's     *)
(* pipeline, takes a decayed chunk out of the timeline, and only then      *)
(* hands it to the retention store, whose index is bounded.  A read asks   *)
(* every keeper for the sequences of its newest events, picks the newest   *)
(* of all and fetches these; it holds no lock across the two phases, and   *)
(* no keeper holds one across the two halves of an answer.                 *)
(*                                                                         *)
(* An event is its EventSequence, a number: a larger one is newer.  The    *)
(* payload, which the retained chunk holds once, goes where the sequence   *)
(* goes.                                                                   *)
(***************************************************************************)
EXTENDS Naturals, FiniteSetsExt

CONSTANTS
  Keepers, Events, KeeperOf,   \* the keeper each event was written to
  Wanted,                      \* n, the number of events a read asks for
  TailCapacity,                \* the events a keeper's index may hold
  LiveModes,                   \* the settings of live_tail_read to consider
  MaxSilent,                   \* bound: RPCs that fail though the keeper runs
  MaxRestarts                  \* bound: restarts of keepers

ASSUME TailAssumption ==
  /\ Keepers # {}   \* gather_story_tail refuses a story without keepers
  /\ Events \subseteq Nat \ {0} /\ IsFiniteSet(Events) /\ KeeperOf \in [Events -> Keepers]
  /\ {Wanted, TailCapacity} \subseteq Nat \ {0} /\ LiveModes \subseteq BOOLEAN
  /\ {MaxSilent, MaxRestarts} \subseteq Nat

VARIABLES
  live,                        \* live_tail_read
  merged,                      \* the events that were ever merged into a timeline
  active, taken, index,        \* per keeper: timeline, chunk on its way to the store, tail index
  pipeline,                    \* per keeper: "open", "closing" (unregistered) or "gone"
  phase, call,                 \* the read, and its RPC to each keeper
  selected, result,            \* the sequences chosen after phase 1; what the read returned
  silent, restarts,
  stable, failed               \* history: see Observe

keeperTail == <<merged, active, taken, index, pipeline, restarts>>
read == <<phase, call, selected, result>>
tailVars == <<live, keeperTail, read, silent, stable, failed>>

Newest(S, n) == {e \in S : Cardinality({f \in S : f > e}) < n}

NoCall == [at |-> "none", got |-> {}, todo |-> {}]
NoResult == [code |-> "none", events |-> {}]

TailInit ==
  /\ live \in LiveModes /\ merged = {} /\ silent = 0 /\ restarts = 0
  /\ active = [k \in Keepers |-> {}] /\ taken = [k \in Keepers |-> {}]
  /\ index = [k \in Keepers |-> {}] /\ pipeline = [k \in Keepers |-> "open"]
  /\ phase = "idle" /\ call = [k \in Keepers |-> NoCall]
  /\ selected = {} /\ result = NoResult /\ stable = {} /\ failed = {}

\* What an observer of the read knows: the events that were in a keeper's tail
\* index all the time since it began, and the keepers whose RPC failed
Observe ==
  /\ stable' = LET indexed == UNION {index'[k] : k \in Keepers} IN
               IF phase = "idle" THEN indexed ELSE stable \cap indexed
  /\ failed' = IF phase = "idle" THEN {}
               ELSE failed \cup {k \in Keepers : call'[k].at \in {"timeout", "error"}}

-----------------------------------------------------------------------------
(* The keeper's side of the tail                                           *)

mergeEvents(e) ==
  LET k == KeeperOf[e] IN
  /\ e \notin merged /\ pipeline[k] = "open"
  /\ merged' = merged \cup {e}
  /\ active' = [active EXCEPT ![k] = @ \cup {e}]
  /\ UNCHANGED <<taken, index, pipeline, restarts>>

\* the oldest chunk leaves the timeline under sequencingMutex
extractDecayedStoryChunks(k) ==
  /\ pipeline[k] = "open" /\ taken[k] = {} /\ active[k] # {}
  /\ \E last \in active[k] :
       LET chunk == {e \in active[k] : e <= last} IN
       /\ taken' = [taken EXCEPT ![k] = chunk]
       /\ active' = [active EXCEPT ![k] = @ \ chunk]
  /\ UNCHANGED <<merged, index, pipeline, restarts>>

enforceCapacity(entries) == Newest(entries, TailCapacity)

\* and enters the index, from which the oldest entries make room for it
ingestSealedChunk(k) ==
  /\ taken[k] # {}
  /\ index' = [index EXCEPT ![k] = enforceCapacity(@ \cup taken[k])]
  /\ taken' = [taken EXCEPT ![k] = {}]
  /\ UNCHANGED <<merged, active, pipeline, restarts>>

\* The pipeline is deleted: unregisterActiveSource, then finalize, which seals
\* what is left, then releaseStoryTail; reads come in between
unregisterActiveSource(k) ==
  /\ pipeline[k] = "open" /\ taken[k] = {}
  /\ pipeline' = [pipeline EXCEPT ![k] = "closing"]
  /\ UNCHANGED <<merged, active, taken, index, restarts>>
finalize(k) ==
  /\ pipeline[k] = "closing" /\ active[k] # {}
  /\ index' = [index EXCEPT ![k] = enforceCapacity(@ \cup active[k])]
  /\ active' = [active EXCEPT ![k] = {}]
  /\ UNCHANGED <<merged, taken, pipeline, restarts>>
releaseStoryTail(k) ==
  /\ pipeline[k] = "closing" /\ active[k] = {}
  /\ index' = [index EXCEPT ![k] = {}]
  /\ pipeline' = [pipeline EXCEPT ![k] = "gone"]
  /\ UNCHANGED <<merged, active, taken, restarts>>

\* A keeper that restarts has an empty tail, whatever its WAL recovers; the
\* story is started on it again.  RPCs it had not answered fail.
RestartKeeper(k) ==
  /\ restarts < MaxRestarts /\ restarts' = restarts + 1
  /\ active' = [active EXCEPT ![k] = {}] /\ taken' = [taken EXCEPT ![k] = {}]
  /\ index' = [index EXCEPT ![k] = {}] /\ pipeline' = [pipeline EXCEPT ![k] = "open"]
  /\ \E how \in {"timeout", "error"} :
       call' = IF call[k].at \in {"sealed", "active"} THEN [call EXCEPT ![k].at = how] ELSE call
  /\ UNCHANGED <<merged, phase, selected, result, silent>>

KeeperTailStep ==
  \/ /\ \/ \E e \in Events : mergeEvents(e)
        \/ \E k \in Keepers :
             \/ extractDecayedStoryChunks(k) \/ ingestSealedChunk(k)
             \/ unregisterActiveSource(k) \/ finalize(k) \/ releaseStoryTail(k)
     /\ UNCHANGED <<read, silent>>
  \/ \E k \in Keepers : RestartKeeper(k)

-----------------------------------------------------------------------------
(* The handlers of tail_get_sequences and tail_get_events at a keeper      *)

Halfway(k, got, todo) == [at |-> IF live THEN "active" ELSE "answered", got |-> got, todo |-> todo]

getSealedTailSequences(k) ==
  /\ phase = "sequences" /\ call[k].at = "sealed"
  /\ call' = [call EXCEPT ![k] = Halfway(k, Newest(index[k], Wanted), {})]

\* a pipeline that has unregistered has no active half
ActiveTail(k) == IF pipeline[k] = "open" THEN active[k] ELSE {}

getActiveTailSequences(k) ==
  /\ phase = "sequences" /\ call[k].at = "active"
  /\ call' = [call EXCEPT ![k].at = "answered",
                          ![k].got = Newest(@ \cup Newest(ActiveTail(k), Wanted), Wanted)]

\* phase 2: first the index, then the timeline for each sequence it has not
getTailEvents(k) ==
  /\ phase = "events" /\ call[k].at = "sealed"
  /\ LET misses == call[k].todo \ index[k]
         found == call[k].todo \cap index[k] IN
     call' = [call EXCEPT ![k] = IF misses = {} THEN [at |-> "answered", got |-> found, todo |-> {}]
                                 ELSE Halfway(k, found, misses)]

\* one lookup, in the order the client sent the sequences, newest first
findActiveEvent(k) ==
  /\ phase = "events" /\ call[k].at = "active"
  /\ LET e == Max(call[k].todo)
         left == call[k].todo \ {e} IN
     call' = [call EXCEPT ![k] = [at |-> IF left = {} THEN "answered" ELSE "active",
                                  got |-> @.got \cup ({e} \cap ActiveTail(k)), todo |-> left]]

HandlerStep ==
  /\ \E k \in Keepers : \/ getSealedTailSequences(k) \/ getActiveTailSequences(k)
                        \/ getTailEvents(k) \/ findActiveEvent(k)
  /\ UNCHANGED <<keeperTail, phase, selected, result, silent>>

\* the RPC times out at the client, or fails, though the keeper runs
FailCall ==
  /\ silent < MaxSilent /\ silent' = silent + 1
  /\ \E k \in Keepers, how \in {"timeout", "error"} :
       /\ call[k].at \in {"sealed", "active"}
       /\ call' = [call EXCEPT ![k].at = how]
  /\ UNCHANGED <<keeperTail, phase, selected, result>>

-----------------------------------------------------------------------------
(* gather_story_tail at the client                                         *)

Ask(what) == [k \in Keepers |-> IF k \in DOMAIN what
                                THEN [at |-> "sealed", got |-> {}, todo |-> what[k]] ELSE NoCall]
Responded == {k \in Keepers : call[k].at = "answered"}
TimedOut == {k \in Keepers : call[k].at = "timeout"}
Errors == {k \in Keepers : call[k].at = "error"}
AllEnded == \A k \in Keepers : call[k].at \notin {"sealed", "active"}
Received == UNION {call[k].got : k \in Responded}

BeginTailRead ==
  /\ phase = "idle"
  /\ phase' = "sequences" /\ call' = Ask([k \in Keepers |-> {}])
  /\ UNCHANGED <<keeperTail, selected, result, silent>>

Finish(code, events) ==
  /\ phase' = "done" /\ result' = [code |-> code, events |-> events]
  /\ UNCHANGED call

\* no keeper answered: the tail is unknown, not empty
NobodyAnswered == Responded = {} /\ TimedOut \cup Errors # {}
OutageCode == IF TimedOut # {} THEN "CL_ERR_QUERY_TIMED_OUT" ELSE "CL_ERR_UNKNOWN"

\* Mutant of SelectNewest: the oldest of the reported sequences are picked.
MutSelectNewest(seqs) == {e \in seqs : Cardinality({f \in seqs : f < e}) < Wanted}

SelectNewest(seqs) == Newest(seqs, Wanted)

SelectSequences ==
  /\ phase = "sequences" /\ AllEnded
  /\ selected' = IF NobodyAnswered THEN {} ELSE SelectNewest(Received)
  /\ IF NobodyAnswered THEN Finish(OutageCode, {})
     ELSE IF Received = {} THEN Finish("CL_SUCCESS", {})
     ELSE /\ phase' = "events" /\ UNCHANGED result
          /\ call' = Ask([k \in {KeeperOf[e] : e \in selected'} |->
                            {e \in selected' : KeeperOf[e] = k}])
  /\ UNCHANGED <<keeperTail, silent>>

\* fewer events than phase 1 named, though every keeper answered
AssembleEvents ==
  /\ phase = "events" /\ AllEnded
  /\ IF NobodyAnswered THEN Finish(OutageCode, {})
     ELSE Finish(IF TimedOut \cup Errors = {} /\ Received # selected
                 THEN "CL_ERR_PARTIAL_RESULT" ELSE "CL_SUCCESS", Received)
  /\ UNCHANGED <<keeperTail, selected, silent>>

\* The model stops when the read has returned
TailStep ==
  /\ phase # "done"
  /\ KeeperTailStep \/ HandlerStep \/ FailCall \/ SelectSequences \/ AssembleEvents
  /\ Observe /\ UNCHANGED live

-----------------------------------------------------------------------------
(* What a tail read promises                                               *)

\* A read is whole except for the keepers that failed it: an event that was in
\* the tail index of another keeper all the time since the read began is
\* returned, or the read picked as many newer ones as it was asked for
\* (gather_story_tail, getTailSequences, enforceCapacity).  A read no keeper
\* failed that returns fewer events than it picked says so, and a read that
\* succeeds had a keeper that answered it throughout.
TailReadIsWhole ==
  phase = "done" =>
    /\ \A e \in stable : KeeperOf[e] \in failed \/ e \in result.events
                        \/ Cardinality({f \in selected : f > e}) >= Wanted
    /\ failed = {} => result.code = IF result.events = selected THEN "CL_SUCCESS"
                                    ELSE "CL_ERR_PARTIAL_RESULT"
    /\ result.code = "CL_SUCCESS" => failed # Keepers
=============================================================================
