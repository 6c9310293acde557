-------------------------- MODULE StoryClientProofs --------------------------
(***************************************************************************)
(* Proofs about the client library, for any number of threads, requests,   *)
(* attempts, keepers and events.  The four uses of the library share no    *)
(* state, so each result has an inductive invariant of its own.            *)
(***************************************************************************)
EXTENDS StoryClient, FiniteSetTheorems, WellFoundedInduction, NaturalsInduction, TLAPS

-----------------------------------------------------------------------------
(* The session: a handle is backed by an acquisition at the visor.         *)

SessionInv == (handle /\ ~outlived => holds) /\ AcquireMeansHeld

\* Every session request keeps SessionInv.
LEMMA SessionStepInv ==
  ASSUME SessionInv, SessionStep PROVE SessionInv'
<1> USE DEF SessionInv, AcquireMeansHeld
<1>1. PICK t \in Threads :
        \/ Connect(t) \/ Disconnect(t) \/ DestroyStory(t) \/ removeStoryReader(t)
        \/ AcquireStory(t) /\ UNCHANGED outlived
        \/ ReleaseStory(t)
  BY DEF SessionStep
<1>2. CASE Connect(t) \/ removeStoryReader(t)
  BY <1>2 DEF Connect, removeStoryReader
<1>3. CASE Disconnect(t) \/ DestroyStory(t)
  <2>1. outlived' = (outlived \/ handle) /\ handle' = handle /\ acquired' = "none"
    BY <1>3 DEF Disconnect, DestroyStory
  <2>2. handle' => outlived'
    BY <2>1, Zenon
  <2>3. acquired' # "CL_SUCCESS"
    BY <2>1
  <2> QED
    BY <2>2, <2>3
<1>4. CASE AcquireStory(t) /\ UNCHANGED outlived
  BY <1>4 DEF AcquireStory, Rpc
<1>5. CASE ReleaseStory(t)
  BY <1>5 DEF ReleaseStory
<1> QED
  BY <1>1, <1>2, <1>3, <1>4, <1>5

\* AcquireStory answers CL_SUCCESS only to a client the visor lists as an
\* acquirer, whatever RPCs were lost and however the threads' requests came,
\* unless the handle it found was kept over a Disconnect or a destroy.
THEOREM AcquireHeld == Spec => []AcquireMeansHeld
<1>1. Init => SessionInv
  BY DEF Init, SessionInv, AcquireMeansHeld
<1>2. SessionInv /\ [Next]_vars => SessionInv'
  <2> SUFFICES ASSUME SessionInv, [Next]_vars PROVE SessionInv'
    OBVIOUS
  <2>1. CASE SessionStep
    BY <2>1, SessionStepInv
  <2>2. CASE UNCHANGED session
    BY <2>2 DEF SessionInv, AcquireMeansHeld, session
  <2> QED
    BY <2>1, <2>2 DEF Next, vars, WritingStep, DurableStep, TailingStep
<1>3. SessionInv => AcquireMeansHeld
  BY DEF SessionInv
<1> QED
  BY <1>1, <1>2, <1>3, PTL DEF Spec

-----------------------------------------------------------------------------
(* The threads in log_event                                                *)

Places == {"idle", "full", "reset", "increment", "accept", "send", "waiting", "probe", "returned"}
Refusals == {"CL_ERR_DURABILITY_UNAVAILABLE", "CL_ERR_DURABILITY_FULL"}
Codes == Refusals \cup {"none", "CL_SUCCESS", "CL_ERR_UNKNOWN", "CL_ERR_DURABILITY_UNKNOWN", "HG_NO_MATCH"}
Writer == [at : Places, left : Int, attempt : Int, mayBeStored : BOOLEAN, code : Codes, time : BOOLEAN]
WriterInv == writer \in [Threads -> Writer]

\* What Places and Codes hold, for proofs that keep them unexpanded.
LEMMA InPlaces ==
  /\ "idle" \in Places /\ "full" \in Places /\ "reset" \in Places /\ "increment" \in Places
  /\ "accept" \in Places /\ "send" \in Places /\ "waiting" \in Places /\ "probe" \in Places
  /\ "returned" \in Places
BY DEF Places

\* The codes a call may return.
LEMMA InCodes ==
  /\ "none" \in Codes /\ "CL_SUCCESS" \in Codes /\ "CL_ERR_UNKNOWN" \in Codes
  /\ "CL_ERR_DURABILITY_UNKNOWN" \in Codes /\ "HG_NO_MATCH" \in Codes
  /\ "CL_ERR_DURABILITY_UNAVAILABLE" \in Codes /\ "CL_ERR_DURABILITY_FULL" \in Codes
BY DEF Codes, Refusals

\* A thread's state after the changes log_event makes to it
LEMMA UpdatePlace ==
  ASSUME NEW w \in Writer, NEW p \in Places
  PROVE LET v == [w EXCEPT !.at = p] IN
        v \in Writer /\ v.at = p /\ v.attempt = w.attempt /\ v.mayBeStored = w.mayBeStored
BY DEF Writer

\* log_event sets what is left of the index and goes on.
LEMMA UpdateLeft ==
  ASSUME NEW w \in Writer, NEW p \in Places, NEW i \in Int
  PROVE LET v == [w EXCEPT !.left = i, !.at = p] IN
        v \in Writer /\ v.at = p /\ v.mayBeStored = w.mayBeStored
BY DEF Writer

\* One thread moves, and the others stay where they are.
LEMMA Moves ==
  ASSUME WriterInv, NEW t \in Threads, NEW w \in Writer, Move(t, w)
  PROVE WriterInv' /\ writer'[t] = w /\ \A u \in Threads : u # t => writer'[u] = writer[u]
BY DEF WriterInv, Move

-----------------------------------------------------------------------------
(* The identity of an event                                                *)

ResetAlone ==
  /\ \A t \in Threads : writer[t].at = "reset" => locked
  /\ \A t, u \in Threads : writer[t].at = "reset" /\ writer[u].at = "reset" => t = u

\* The counter on its way to INT_MAX; after a thread that had read it before
\* made it wrap; and after the reset
Rising ==
  /\ atomicIndex \in (MaxIndex - 2) .. MaxIndex /\ logged = atomicIndex - (MaxIndex - 2)
  /\ \A i \in issued : MaxIndex - 1 <= i /\ i <= atomicIndex
  /\ \A t \in Threads : writer[t].at = "reset" => atomicIndex = MaxIndex
Wrapped ==
  /\ MinIndex <= atomicIndex /\ logged = atomicIndex - MinIndex + 3
  /\ \A i \in issued : i <= atomicIndex \/ MaxIndex - 1 <= i
Again ==
  /\ 0 <= atomicIndex /\ atomicIndex + 2 <= logged
  /\ \A i \in issued : i <= atomicIndex \/ MaxIndex - 1 <= i
  /\ \A t \in Threads : writer[t].at # "reset"

IndexInv ==
  /\ atomicIndex \in Int /\ logged \in Nat /\ issued \subseteq Int /\ IsFiniteSet(issued)
  /\ locked \in BOOLEAN /\ ResetAlone
  /\ logged <= MaxIndex => Cardinality(issued) = logged
  /\ scenario = "writing" /\ logged <= MaxIndex => Rising \/ Wrapped \/ Again
  /\ scenario # "writing" /\ logged = 0 => issued = {}

\* There is an index to give out.
LEMMA IndexBound == MaxIndex \in Nat /\ MaxIndex > 0
BY ClientAssumption

\* One more event has an index no event had, while the process has logged at
\* most INT_MAX events in the tick.
LEMMA FreshIndex ==
  ASSUME WriterInv, IndexInv, NEW t \in Threads, IncrementIndex(t), WritingStep, logged' <= MaxIndex
  PROVE atomicIndex' \notin issued /\ atomicIndex' \in Int
<1> USE IndexBound DEF IncrementIndex, MinIndex
<1>1. logged' = logged + 1 /\ logged \in Nat /\ atomicIndex \in Int
  BY DEF IndexInv
<1>2. atomicIndex' \in Int
  BY <1>1
<1>3. CASE scenario # "writing"
  BY <1>2, <1>3 DEF WritingStep, IndexInv
<1>4. CASE scenario = "writing"
  <2>1. CASE Rising
    BY <1>1, <2>1 DEF Rising, IndexInv
  <2>2. CASE Wrapped
    BY <1>1, <2>2 DEF Wrapped, IndexInv
  <2>3. CASE Again
    BY <1>1, <2>3 DEF Again, IndexInv
  <2> QED
    BY <1>1, <1>2, <1>4, <2>1, <2>2, <2>3 DEF IndexInv
<1> QED
  BY <1>3, <1>4


\* A thread that passes the counter's check and one that resets it
LEMMA LogEventMoves ==
  ASSUME WriterInv, NEW t \in Threads,
         log_event(t) \/ LockIndex(t) \/ ResetIndex(t) \/ IncrementIndex(t) \/ send_event_msg(t)
  PROVE /\ WriterInv'
        /\ \A u \in Threads : u # t => writer'[u] = writer[u]
        /\ writer'[t].at = "reset" => LockIndex(t) /\ atomicIndex = MaxIndex /\ locked'
        /\ writer'[t].at \in {"waiting", "probe", "returned"} => FALSE
        /\ writer'[t].at = "send" => IncrementIndex(t) /\ scenario = "durable" /\ writer'[t].attempt = 1
        /\ writer'[t].mayBeStored = writer[t].mayBeStored
<1> USE InPlaces, InCodes
<1>0. writer[t] \in Writer
  BY DEF WriterInv
<1>1. CASE log_event(t)
  <2> DEFINE place == IF atomicIndex = MaxIndex THEN "full" ELSE "increment"
             left == writer[t].left - 1
             w == [writer[t] EXCEPT !.left = left, !.at = place]
  <2>1. Move(t, w)
    BY <1>1 DEF log_event
  <2>2. place \in Places /\ place \in {"full", "increment"} /\ left \in Int
    BY <1>0 DEF Writer
  <2>3. w \in Writer /\ w.at = place /\ w.mayBeStored = writer[t].mayBeStored
    <3> HIDE DEF place, left
    <3> QED
      BY <1>0, <2>2, UpdateLeft
  <2> HIDE DEF w, place
  <2> QED
    BY <2>1, <2>2, <2>3, Moves
<1>2. CASE LockIndex(t)
  <2> DEFINE place == IF atomicIndex = MaxIndex THEN "reset" ELSE "increment"
             w == [writer[t] EXCEPT !.at = place]
  <2>1. Move(t, w) /\ (place = "reset" => atomicIndex = MaxIndex /\ locked')
    BY <1>2 DEF LockIndex, To
  <2>2. place \in Places /\ place \in {"reset", "increment"}
    OBVIOUS
  <2>3. w \in Writer /\ w.at = place /\ w.mayBeStored = writer[t].mayBeStored
    <3> HIDE DEF place
    <3> QED
      BY <1>0, <2>2, UpdatePlace
  <2> HIDE DEF w, place
  <2> QED
    BY <1>2, <2>1, <2>2, <2>3, Moves
<1>3. CASE ResetIndex(t)
  <2> DEFINE w == [writer[t] EXCEPT !.at = "increment"]
  <2>1. w \in Writer /\ Move(t, w) /\ w.at = "increment" /\ w.mayBeStored = writer[t].mayBeStored
    BY <1>0, <1>3 DEF Writer, ResetIndex, To
  <2> QED
    BY <2>1, Moves
<1>4. CASE IncrementIndex(t)
  <2>1. CASE scenario = "durable"
    <3> DEFINE first == 1
               w == [writer[t] EXCEPT !.at = "send", !.attempt = first]
    <3>1. Move(t, w) /\ first = 1
      BY <1>4, <2>1 DEF IncrementIndex
    <3>2. first \in Int
      OBVIOUS
    <3> HIDE DEF first
    <3>3. w \in Writer /\ w.at = "send" /\ w.attempt = first /\ w.mayBeStored = writer[t].mayBeStored
      BY <1>0, <3>2, "send" \in Places DEF Writer
    <3> QED
      BY <1>4, <2>1, <3>1, <3>3, Moves
  <2>2. CASE scenario # "durable"
    <3> DEFINE w == [writer[t] EXCEPT !.at = "accept"]
    <3>1. w \in Writer /\ Move(t, w) /\ w.at = "accept" /\ w.mayBeStored = writer[t].mayBeStored
      BY <1>0, <1>4, <2>2 DEF Writer, IncrementIndex
    <3> QED
      BY <3>1, Moves
  <2> QED
    BY <2>1, <2>2
<1>5. CASE send_event_msg(t)
  <2>1. PICK code \in {"CL_SUCCESS", "CL_ERR_UNKNOWN"} :
          Move(t, [writer[t] EXCEPT !.at = "idle", !.code = code, !.time = (code = "CL_SUCCESS")])
    BY <1>5 DEF send_event_msg
  <2> DEFINE w == [writer[t] EXCEPT !.at = "idle", !.code = code, !.time = (code = "CL_SUCCESS")]
  <2>2. w \in Writer /\ w.at = "idle" /\ w.mayBeStored = writer[t].mayBeStored
    BY <1>0 DEF Writer
  <2> QED
    BY <2>1, <2>2, Moves
<1> QED
  BY <1>1, <1>2, <1>3, <1>4, <1>5

\* Logging an event keeps the identities apart.
LEMMA WritingIndexInv ==
  ASSUME WriterInv, IndexInv, WritingStep PROVE WriterInv' /\ IndexInv'
<1> USE IndexBound
<1>0. UNCHANGED scenario
  BY DEF WritingStep
<1>1. PICK t \in Threads :
        log_event(t) \/ LockIndex(t) \/ ResetIndex(t) \/ IncrementIndex(t) \/ send_event_msg(t)
  BY DEF WritingStep
<1>2. /\ WriterInv'
      /\ \A u \in Threads : u # t => writer'[u] = writer[u]
      /\ writer'[t].at = "reset" => LockIndex(t) /\ atomicIndex = MaxIndex /\ locked'
  BY <1>1, LogEventMoves
<1>3. CASE log_event(t) \/ send_event_msg(t)
  <2>1. UNCHANGED stamping /\ writer'[t].at # "reset"
    BY <1>2, <1>3 DEF log_event, send_event_msg, LockIndex
  <2> QED
    BY <1>0, <1>2, <2>1 DEF stamping, IndexInv, ResetAlone, Rising, Wrapped, Again
<1>4. CASE LockIndex(t)
  <2>1. UNCHANGED <<atomicIndex, issued, logged>> /\ ~locked /\ locked' \in BOOLEAN
    BY <1>4 DEF LockIndex
  <2>2. ResetAlone'
    BY <1>2, <2>1 DEF ResetAlone, IndexInv
  <2>3. Rising => Rising'
    BY <1>2, <2>1 DEF Rising
  <2>4. Wrapped => Wrapped'
    BY <2>1 DEF Wrapped
  <2>5. logged <= MaxIndex /\ Again => Again'
    BY <1>2, <2>1 DEF Again, IndexInv
  <2> QED
    BY <1>0, <1>2, <2>1, <2>2, <2>3, <2>4, <2>5 DEF IndexInv
<1>5. CASE ResetIndex(t)
  <2>1. UNCHANGED <<issued, logged>> /\ atomicIndex' = 0 /\ locked' = FALSE /\ writer[t].at = "reset"
    BY <1>5 DEF ResetIndex
  <2>2. \A u \in Threads : writer'[u].at # "reset"
    BY <1>2, <1>5, <2>1 DEF ResetAlone, IndexInv, LockIndex
  <2>3. scenario = "writing" /\ logged <= MaxIndex => Again'
    BY <1>0, <2>1, <2>2 DEF IndexInv, Rising, Wrapped, Again, MinIndex
  <2>4. ResetAlone' /\ locked' \in BOOLEAN
    BY <2>1, <2>2 DEF ResetAlone
  <2> QED
    BY <1>0, <1>2, <2>1, <2>3, <2>4 DEF IndexInv
<1>6. CASE IncrementIndex(t)
  <2>1. /\ UNCHANGED locked /\ logged' = logged + 1 /\ issued' = issued \cup {atomicIndex'}
        /\ atomicIndex' = IF atomicIndex = MaxIndex THEN MinIndex ELSE atomicIndex + 1
    BY <1>6 DEF IncrementIndex
  <2>2. writer'[t].at # "reset"
    BY <1>2, <1>6 DEF IncrementIndex, LockIndex
  <2>3. ResetAlone'
    BY <1>2, <2>1, <2>2 DEF ResetAlone, IndexInv
  <2>4. atomicIndex' \in Int /\ logged' \in Nat /\ issued' \subseteq Int
    BY <2>1 DEF IndexInv, MinIndex
  <2>5. IsFiniteSet(issued')
    BY <2>1, FS_AddElement DEF IndexInv
  <2>6. ASSUME logged' <= MaxIndex PROVE Cardinality(issued') = logged'
    <3>1. atomicIndex' \notin issued
      BY <1>6, <2>6, FreshIndex
    <3>2. Cardinality(issued') = Cardinality(issued) + 1
      BY <2>1, <3>1, FS_AddElement DEF IndexInv
    <3> QED
      BY <2>1, <2>6, <3>2 DEF IndexInv
  <2>7. ASSUME scenario = "writing", logged' <= MaxIndex PROVE (Rising \/ Wrapped \/ Again)'
    <3>0. Rising \/ Wrapped \/ Again
      BY <2>1, <2>7 DEF IndexInv
    <3>1. CASE Rising /\ atomicIndex # MaxIndex
      <4>1. Rising'
        BY <1>2, <2>1, <2>2, <3>1 DEF Rising, IndexInv
      <4> QED
        BY <4>1
    <3>2. CASE Rising /\ atomicIndex = MaxIndex
      <4>1. Wrapped'
        BY <2>1, <3>2 DEF Rising, Wrapped, IndexInv, MinIndex
      <4> QED
        BY <4>1
    <3>3. CASE Wrapped
      <4>1. Wrapped'
        BY <2>1, <2>7, <3>3 DEF Wrapped, IndexInv, MinIndex
      <4> QED
        BY <4>1
    <3>4. CASE Again
      <4>1. Again'
        BY <1>2, <2>1, <2>2, <2>7, <3>4 DEF Again, IndexInv
      <4> QED
        BY <4>1
    <3> QED
      BY <3>0, <3>1, <3>2, <3>3, <3>4
  <2> QED
    BY <1>0, <1>2, <2>1, <2>3, <2>4, <2>5, <2>6, <2>7 DEF IndexInv
<1> QED
  BY <1>1, <1>3, <1>4, <1>5, <1>6

-----------------------------------------------------------------------------
(* log_durable_event                                                       *)

Sent(t) == writer[t].at \in {"send", "waiting", "probe", "returned"}

DurableType ==
  /\ keeper \in [up : BOOLEAN, defines : BOOLEAN, wal : {"ok", "full", "off", "failed"},
                 stored : {"yes", "no", "maybe"}, deaths : Nat]
  /\ inflight \subseteq Int /\ answers \subseteq [attempt : Int, code : Codes]

\* One durable write: before it nothing is stored or on its way.
OneWrite ==
  /\ \A t \in Threads : Sent(t) => logged > 0
  /\ \A t, u \in Threads : Sent(t) /\ Sent(u) => t = u
  /\ (\A t \in Threads : ~Sent(t)) => keeper.stored = "no" /\ inflight = {} /\ answers = {}
  /\ \A t \in Threads : ~Sent(t) => ~writer[t].mayBeStored

\* While no attempt went unanswered there was one: until it is answered nothing
\* is stored, and a refusal, or a keeper without the RPC, left nothing behind.
FirstAttempt(t) ==
  /\ writer[t].attempt = 1 /\ inflight \subseteq {1}
  /\ inflight # {} => answers = {} /\ keeper.stored = "no"
  /\ writer[t].at = "send" => inflight = {} /\ answers = {} /\ keeper.stored = "no"
  /\ writer[t].at = "probe" => inflight = {} /\ keeper.stored = "no"
  /\ \A a \in answers : a.code \in Refusals \cup {"HG_NO_MATCH"} => keeper.stored = "no"

StatusInv ==
  /\ DurableType /\ OneWrite
  /\ \A t \in Threads : Sent(t) /\ ~writer[t].mayBeStored => FirstAttempt(t)
  /\ \A a \in answers : a.code = "CL_SUCCESS" => keeper.stored = "yes"
  /\ DurableStatusIsTrue

\* A thread goes on to another place
LEMMA ToMoves ==
  ASSUME WriterInv, NEW t \in Threads, NEW p \in Places, To(t, p)
  PROVE /\ WriterInv' /\ \A u \in Threads : u # t => writer'[u] = writer[u]
        /\ writer'[t].at = p /\ writer'[t].attempt = writer[t].attempt
        /\ writer'[t].mayBeStored = writer[t].mayBeStored
<1> DEFINE w == [writer[t] EXCEPT !.at = p]
<1>1. w \in Writer /\ w.at = p /\ w.attempt = writer[t].attempt /\ w.mayBeStored = writer[t].mayBeStored
  BY UpdatePlace DEF WriterInv
<1>2. Move(t, w)
  BY DEF To
<1> HIDE DEF w
<1> QED
  BY <1>1, <1>2, Moves

\* or returns,
LEMMA ReturnMoves ==
  ASSUME WriterInv, NEW t \in Threads, NEW c \in Codes, Return(t, c)
  PROVE /\ WriterInv' /\ \A u \in Threads : u # t => writer'[u] = writer[u]
        /\ writer'[t].at = "returned" /\ writer'[t].code = c
        /\ writer'[t].time = (c \in {"CL_SUCCESS", "CL_ERR_DURABILITY_UNKNOWN"})
        /\ writer'[t].attempt = writer[t].attempt /\ writer'[t].mayBeStored = writer[t].mayBeStored
<1> DEFINE stored == c \in {"CL_SUCCESS", "CL_ERR_DURABILITY_UNKNOWN"}
           w == [writer[t] EXCEPT !.at = "returned", !.code = c, !.time = stored]
<1>1. stored \in BOOLEAN /\ "returned" \in Places /\ writer[t] \in Writer
  BY InPlaces DEF WriterInv
<1>2. Move(t, w)
  BY DEF Return
<1>3. /\ w \in Writer /\ w.at = "returned" /\ w.code = c /\ w.time = stored
      /\ w.attempt = writer[t].attempt /\ w.mayBeStored = writer[t].mayBeStored
  <2> HIDE DEF stored
  <2> QED
    BY <1>1 DEF Writer
<1> HIDE DEF w
<1> QED
  BY <1>2, <1>3, Moves

\* or has no answer, and tries again if it may.
LEMMA UnansweredMoves ==
  ASSUME WriterInv, NEW t \in Threads, Unanswered(t)
  PROVE /\ WriterInv' /\ \A u \in Threads : u # t => writer'[u] = writer[u]
        /\ \/ writer'[t].at = "send" /\ writer'[t].mayBeStored
           \/ /\ writer'[t].at = "returned" /\ writer'[t].code = "CL_ERR_DURABILITY_UNKNOWN"
              /\ writer'[t].time /\ writer'[t].attempt = writer[t].attempt
              /\ writer'[t].mayBeStored = writer[t].mayBeStored
<1>1. CASE writer[t].attempt < Attempts
  <2> DEFINE next == writer[t].attempt + 1
             w == [writer[t] EXCEPT !.at = "send", !.attempt = next, !.mayBeStored = TRUE]
  <2>1. next \in Int /\ writer[t] \in Writer /\ "send" \in Places
    BY InPlaces DEF WriterInv, Writer
  <2>2. Move(t, w)
    BY <1>1 DEF Unanswered
  <2>3. w \in Writer /\ w.at = "send" /\ w.mayBeStored
    <3> HIDE DEF next
    <3> QED
      BY <2>1 DEF Writer
  <2> HIDE DEF w
  <2> QED
    BY <2>2, <2>3, Moves
<1>2. CASE ~(writer[t].attempt < Attempts)
  <2>1. Return(t, "CL_ERR_DURABILITY_UNKNOWN")
    BY <1>2 DEF Unanswered
  <2> QED
    BY <2>1, InCodes, ReturnMoves
<1> QED
  BY <1>1, <1>2

\* What a return of thread t says is true
TrueStatus(t) ==
  writer[t].at = "returned" =>
    /\ writer[t].code = "CL_SUCCESS" => keeper.stored = "yes"
    /\ writer[t].code \in Refusals => keeper.stored = "no" /\ inflight = {} /\ ~writer[t].time
    /\ writer[t].code = "CL_ERR_DURABILITY_UNKNOWN" => writer[t].time

\* and no thread is now where it resets the counter.
NoNewReset == \A u \in Threads : writer'[u].at = "reset" => writer[u].at = "reset"

\* A step of the thread that writes is about that thread.
LEMMA WriterStepInv ==
  ASSUME WriterInv, StatusInv, NEW t \in Threads, Sent(t), Sent(t)', UNCHANGED logged,
         \A u \in Threads : u # t => writer'[u] = writer[u],
         DurableType', ~writer'[t].mayBeStored => FirstAttempt(t)', TrueStatus(t)',
         \A a \in answers' : a.code = "CL_SUCCESS" => keeper'.stored = "yes"
  PROVE StatusInv' /\ NoNewReset
<1>1. \A u \in Threads : u # t => ~Sent(u) /\ ~Sent(u)'
  BY DEF StatusInv, OneWrite, Sent
<1>2. OneWrite'
  BY <1>1 DEF StatusInv, OneWrite, Sent
<1>3. DurableStatusIsTrue'
  BY <1>1 DEF DurableStatusIsTrue, TrueStatus, Sent, Refusals
<1>4. NoNewReset
  BY DEF NoNewReset, Sent
<1> QED
  BY <1>1, <1>2, <1>3, <1>4 DEF StatusInv

\* The steps of a durable log call keep what each writer knows of its own call.
LEMMA DurableWriterInv ==
  ASSUME WriterInv, StatusInv, NEW t \in Threads,
         SendAttempt(t) \/ ReceiveAnswer(t) \/ GiveUpAttempt(t) \/ keeperIsAlive(t)
  PROVE WriterInv' /\ StatusInv' /\ NoNewReset
<1> USE InPlaces, InCodes
<1>0. /\ Sent(t) /\ (~writer[t].mayBeStored => FirstAttempt(t)) /\ UNCHANGED <<logged, keeper>>
      /\ \A a \in answers : a.code = "CL_SUCCESS" => keeper.stored = "yes"
  BY DEF SendAttempt, ReceiveAnswer, GiveUpAttempt, keeperIsAlive, Sent, StatusInv, stamping, durable
<1>1. ASSUME Unanswered(t), UNCHANGED <<inflight, answers, answeredDurable>> PROVE WriterInv' /\ StatusInv' /\ NoNewReset
  <2>1. Sent(t)' /\ TrueStatus(t)' /\ DurableType'
    BY <1>0, <1>1, UnansweredMoves DEF Sent, TrueStatus, DurableType, StatusInv, Refusals
  <2>2. ASSUME ~writer'[t].mayBeStored PROVE FirstAttempt(t)'
    BY <1>0, <1>1, <2>2, UnansweredMoves DEF FirstAttempt
  <2> QED
    BY <1>0, <1>1, <2>1, <2>2, UnansweredMoves, WriterStepInv
<1>2. ASSUME NEW p \in Places, To(t, p), UNCHANGED answers, p \in {"waiting", "probe"}, DurableType',
             ~writer[t].mayBeStored => FirstAttempt(t)'
      PROVE WriterInv' /\ StatusInv' /\ NoNewReset
  <2>1. Sent(t)' /\ TrueStatus(t)'
    BY <1>2, ToMoves DEF Sent, TrueStatus
  <2> QED
    BY <1>0, <1>2, <2>1, ToMoves, WriterStepInv
<1>3. ASSUME NEW c \in Codes, Return(t, AnsweredCode(c, writer[t].mayBeStored)),
             UNCHANGED <<inflight, answers>>,
             c = "CL_SUCCESS" => keeper.stored = "yes",
             c \in Refusals /\ ~writer[t].mayBeStored => keeper.stored = "no" /\ inflight = {}
      PROVE WriterInv' /\ StatusInv' /\ NoNewReset
  <2> DEFINE code == AnsweredCode(c, writer[t].mayBeStored)
  <2>1. code \in Codes /\ (code = c \/ code = "CL_ERR_DURABILITY_UNKNOWN")
    BY <1>3 DEF AnsweredCode
  <2>2. code \in Refusals => c \in Refusals /\ ~writer[t].mayBeStored
    BY DEF AnsweredCode, Refusals
  <2>3. code = "CL_SUCCESS" => c = "CL_SUCCESS"
    BY DEF AnsweredCode
  <2> HIDE DEF code
  <2>4. /\ WriterInv' /\ \A u \in Threads : u # t => writer'[u] = writer[u]
        /\ writer'[t].at = "returned" /\ writer'[t].code = code
        /\ writer'[t].time = (code \in {"CL_SUCCESS", "CL_ERR_DURABILITY_UNKNOWN"})
        /\ writer'[t].attempt = writer[t].attempt /\ writer'[t].mayBeStored = writer[t].mayBeStored
    BY <1>3, <2>1, ReturnMoves DEF code
  <2>5. Sent(t)' /\ TrueStatus(t)'
    BY <1>0, <1>3, <2>2, <2>3, <2>4 DEF Sent, TrueStatus, Refusals
  <2>6. DurableType' /\ (~writer'[t].mayBeStored => FirstAttempt(t)')
    BY <1>0, <1>3, <2>4 DEF DurableType, FirstAttempt, StatusInv
  <2> QED
    BY <1>0, <1>3, <2>4, <2>5, <2>6, WriterStepInv
<1>4. CASE SendAttempt(t)
  <2>1. CASE keeper.up
    <3>1. To(t, "waiting") /\ inflight' = inflight \cup {writer[t].attempt} /\ UNCHANGED answers
      BY <1>4, <2>1 DEF SendAttempt
    <3>2. DurableType'
      BY <1>0, <3>1 DEF DurableType, StatusInv, WriterInv, Writer
    <3>3. ~writer[t].mayBeStored => FirstAttempt(t)'
      BY <1>0, <1>4, <3>1, ToMoves DEF FirstAttempt, SendAttempt
    <3> QED
      BY <1>2, <3>1, <3>2, <3>3
  <2>2. CASE To(t, "probe") /\ UNCHANGED <<inflight, answers>>
    <3>1. DurableType'
      BY <1>0, <2>2 DEF DurableType, StatusInv
    <3>2. ~writer[t].mayBeStored => FirstAttempt(t)'
      BY <1>0, <1>4, <2>2, ToMoves DEF FirstAttempt, SendAttempt
    <3> QED
      BY <1>2, <2>2, <3>1, <3>2
  <2> QED
    BY <1>1, <1>4, <2>1, <2>2 DEF SendAttempt, NoMatch
<1>5. CASE ReceiveAnswer(t)
  <2>1. PICK a \in answers :
          IF a.code = "HG_NO_MATCH" THEN NoMatch(t) /\ UNCHANGED answeredDurable
          ELSE Return(t, AnsweredCode(a.code, writer[t].mayBeStored))
    BY <1>5 DEF ReceiveAnswer
  <2>2. UNCHANGED <<inflight, answers>> /\ a.code \in Codes
    BY <1>5, <2>1 DEF ReceiveAnswer, StatusInv, DurableType
  <2>3. CASE a.code = "HG_NO_MATCH" /\ To(t, "probe")
    <3>1. DurableType'
      BY <1>0, <2>2 DEF DurableType, StatusInv
    <3>2. ~writer[t].mayBeStored => FirstAttempt(t)'
      BY <1>0, <2>1, <2>2, <2>3, ToMoves DEF FirstAttempt
    <3> QED
      BY <1>2, <2>2, <2>3, <3>1, <3>2
  <2>4. CASE a.code # "HG_NO_MATCH"
    <3>1. a.code \in Refusals /\ ~writer[t].mayBeStored => keeper.stored = "no" /\ inflight = {}
      BY <1>0, <2>1 DEF FirstAttempt
    <3> QED
      BY <1>0, <1>3, <2>1, <2>2, <2>4, <3>1
  <2> QED
    BY <1>1, <2>1, <2>2, <2>3, <2>4 DEF NoMatch
<1>6. CASE GiveUpAttempt(t)
  BY <1>1, <1>6 DEF GiveUpAttempt, durable
<1>7. CASE keeperIsAlive(t)
  <2>1. UNCHANGED <<inflight, answers, answeredDurable>>
    BY <1>7 DEF keeperIsAlive, durable
  <2>2. CASE NotRegistered(t)
    BY <1>0, <1>3, <1>7, <2>1, <2>2 DEF NotRegistered, keeperIsAlive, FirstAttempt
  <2> QED
    BY <1>1, <1>7, <2>1, <2>2 DEF keeperIsAlive
<1> QED
  BY <1>4, <1>5, <1>6, <1>7

\* A step of the keeper leaves the thread where it is.
LEMMA DurableKeeperInv ==
  ASSUME WriterInv, StatusInv,
         (\E a \in 1 .. Attempts : record_event_durable(a)) \/ ChangeWal \/ KillKeeper \/ StartKeeper
  PROVE WriterInv' /\ StatusInv'
<1> USE InCodes
<1>0. UNCHANGED <<writer, logged>>
  BY DEF record_event_durable, ChangeWal, KillKeeper, StartKeeper, stamping
<1>1. ASSUME DurableType', \A a \in answers' : a.code = "CL_SUCCESS" => keeper'.stored = "yes",
             keeper.stored = "yes" => keeper'.stored = "yes",
             inflight' # {} => inflight # {}, inflight = {} /\ keeper.stored = "no" => keeper'.stored = "no",
             inflight = {} /\ answers = {} => answers' = {},
             \A t \in Threads : FirstAttempt(t) => FirstAttempt(t)'
      PROVE WriterInv' /\ StatusInv'
  <2>1. OneWrite'
    BY <1>0, <1>1 DEF OneWrite, StatusInv, Sent
  <2>2. DurableStatusIsTrue'
    BY <1>0, <1>1 DEF DurableStatusIsTrue, StatusInv
  <2>3. \A t \in Threads : (Sent(t) /\ ~writer[t].mayBeStored)' => FirstAttempt(t)'
    BY <1>0, <1>1 DEF StatusInv, Sent
  <2> QED
    BY <1>0, <1>1, <2>1, <2>2, <2>3 DEF StatusInv, WriterInv
<1>2. ASSUME NEW a \in 1 .. Attempts, record_event_durable(a) PROVE WriterInv' /\ StatusInv'
  <2>1. PICK code \in Codes :
          /\ answers' = answers \cup {[attempt |-> a, code |-> code]}
          /\ code = "CL_SUCCESS" => keeper'.stored = "yes"
          /\ code \in Refusals \cup {"HG_NO_MATCH"} => keeper'.stored = keeper.stored
          /\ keeper.stored = "yes" => keeper'.stored = "yes"
          /\ keeper' \in [up : BOOLEAN, defines : BOOLEAN, wal : {"ok", "full", "off", "failed"},
                          stored : {"yes", "no", "maybe"}, deaths : Nat]
    BY <1>2 DEF record_event_durable, Refuse, Answer, Refusals, StatusInv, DurableType
  <2>2. a \in inflight /\ inflight' = inflight \ {a}
    BY <1>2 DEF record_event_durable
  <2>3. DurableType'
    BY <2>1, <2>2 DEF DurableType, StatusInv
  <2>4. ASSUME NEW t \in Threads, FirstAttempt(t) PROVE FirstAttempt(t)'
    <3>1. inflight' = {} /\ answers = {} /\ keeper.stored = "no" /\ writer[t].at \notin {"send", "probe"}
      BY <2>2, <2>4 DEF FirstAttempt
    <3>2. \A r \in answers' : r.code = code
      BY <2>1, <3>1
    <3> QED
      BY <1>0, <2>1, <2>4, <3>1, <3>2 DEF FirstAttempt
  <2>5. \A r \in answers' : r.code = "CL_SUCCESS" => keeper'.stored = "yes"
    BY <2>1 DEF StatusInv
  <2> QED
    BY <1>1, <2>1, <2>2, <2>3, <2>4, <2>5
<1>3. CASE ChangeWal \/ KillKeeper \/ StartKeeper
  <2>1. /\ inflight' \subseteq inflight /\ answers' \subseteq answers
        /\ keeper.stored # "maybe" => keeper'.stored = keeper.stored
        /\ DurableType'
    <3>1. CASE ChangeWal
      BY <3>1 DEF ChangeWal, StatusInv, DurableType
    <3>2. CASE KillKeeper
      <4> DEFINE deaths == keeper.deaths + 1
      <4>1. deaths \in Nat
        BY DEF StatusInv, DurableType
      <4>2. /\ keeper' = [keeper EXCEPT !.up = FALSE, !.deaths = deaths]
            /\ inflight' = {} /\ answers' = {}
        BY <3>2 DEF KillKeeper
      <4> HIDE DEF deaths
      <4> QED
        BY <4>1, <4>2 DEF StatusInv, DurableType
    <3>3. CASE StartKeeper
      BY <3>3 DEF StartKeeper, StatusInv, DurableType
    <3> QED
      BY <1>3, <3>1, <3>2, <3>3
  <2>2. \A t \in Threads : FirstAttempt(t) => FirstAttempt(t)'
    BY <1>0, <2>1 DEF FirstAttempt
  <2> QED
    BY <1>1, <2>1, <2>2 DEF StatusInv
<1> QED
  BY <1>2, <1>3

\* The steps that write keep every status true of what the keepers hold.
LEMMA WritingStatusInv ==
  ASSUME WriterInv, IndexInv, StatusInv, WritingStep PROVE StatusInv'
<1>1. PICK t \in Threads :
        log_event(t) \/ LockIndex(t) \/ ResetIndex(t) \/ IncrementIndex(t) \/ send_event_msg(t)
  BY DEF WritingStep
<1>2. /\ ~Sent(t) /\ UNCHANGED <<keeper, inflight, answers>>
      /\ logged \in Nat /\ (UNCHANGED logged \/ logged' = logged + 1)
  BY <1>1 DEF WritingStep, log_event, LockIndex, ResetIndex, IncrementIndex, send_event_msg, durable,
              stamping, Sent, IndexInv
<1>3. /\ \A u \in Threads : u # t => writer'[u] = writer[u]
      /\ Sent(t)' => writer'[t].at = "send" /\ IncrementIndex(t) /\ scenario = "durable" /\ writer'[t].attempt = 1
      /\ ~writer'[t].mayBeStored
  BY <1>1, <1>2, LogEventMoves DEF Sent, StatusInv, OneWrite
<1>4. DurableType'
  BY <1>2 DEF StatusInv, DurableType
<1>5. CASE ~Sent(t)'
  <2>1. OneWrite'
    BY <1>2, <1>3, <1>5 DEF StatusInv, OneWrite, Sent
  <2>2. DurableStatusIsTrue'
    BY <1>2, <1>3, <1>5 DEF StatusInv, DurableStatusIsTrue, Sent
  <2>3. \A u \in Threads : (Sent(u) /\ ~writer[u].mayBeStored)' => FirstAttempt(u)'
    BY <1>2, <1>3, <1>5 DEF StatusInv, Sent, FirstAttempt
  <2> QED
    BY <1>2, <1>4, <2>1, <2>2, <2>3 DEF StatusInv
<1>6. CASE Sent(t)'
  <2>1. logged = 0 /\ logged' = 1
    BY <1>2, <1>3, <1>6 DEF WritingStep, IncrementIndex
  <2>2. /\ \A u \in Threads : ~Sent(u) /\ (u # t => ~Sent(u)')
        /\ keeper.stored = "no" /\ inflight = {} /\ answers = {}
    BY <1>3, <2>1 DEF StatusInv, OneWrite, Sent
  <2>3. OneWrite'
    BY <1>2, <1>3, <1>6, <2>1, <2>2 DEF StatusInv, OneWrite, Sent
  <2>4. FirstAttempt(t)' /\ DurableStatusIsTrue'
    BY <1>2, <1>3, <1>6, <2>2 DEF FirstAttempt, DurableStatusIsTrue, Sent
  <2> QED
    BY <1>2, <1>4, <2>2, <2>3, <2>4 DEF StatusInv
<1> QED
  BY <1>5, <1>6

ClientInv == WriterInv /\ IndexInv /\ StatusInv

\* The first state satisfies the invariant of the client.
LEMMA ClientInit == Init => ClientInv
<1> SUFFICES ASSUME Init PROVE ClientInv
  OBVIOUS
<1> USE InPlaces, InCodes, IndexBound
<1>1. \A t \in Threads : writer[t].at = "idle" /\ ~writer[t].mayBeStored
  BY DEF Init, Idle
<1>2. WriterInv
  <2> DEFINE left == IF scenario = "writing" THEN Writes ELSE 1
  <2>1. left \in Int
    BY ClientAssumption
  <2>2. writer = [t \in Threads |-> [at |-> "idle", left |-> left, attempt |-> 0, mayBeStored |-> FALSE,
                                     code |-> "none", time |-> FALSE]]
    BY DEF Init, Idle
  <2> HIDE DEF left
  <2> QED
    BY <2>1, <2>2 DEF WriterInv, Writer
<1>3. IndexInv
  <2>1. IsFiniteSet(issued) /\ Cardinality(issued) = 0
    BY FS_EmptySet DEF Init
  <2>2. scenario = "writing" => Rising
    BY <1>1 DEF Init, Rising
  <2>3. ResetAlone /\ locked \in BOOLEAN
    BY <1>1 DEF Init, ResetAlone
  <2>4. atomicIndex \in Int /\ logged = 0 /\ issued = {}
    BY DEF Init
  <2> QED
    BY <2>1, <2>2, <2>3, <2>4 DEF IndexInv
<1>4. StatusInv
  BY <1>1 DEF Init, StatusInv, DurableType, OneWrite, Sent, DurableStatusIsTrue
<1> QED
  BY <1>2, <1>3, <1>4 DEF ClientInv

\* Every step keeps it.
LEMMA ClientStep == ClientInv /\ [Next]_vars => ClientInv'
<1> SUFFICES ASSUME ClientInv, [Next]_vars PROVE ClientInv'
  OBVIOUS
<1> USE DEF ClientInv
<1>1. CASE WritingStep
  BY <1>1, WritingIndexInv, WritingStatusInv
<1>2. CASE DurableStep
  <2>1. WriterInv' /\ StatusInv' /\ UNCHANGED <<scenario, stamping>>
    BY <1>2, DurableWriterInv, DurableKeeperInv
    DEF DurableStep, SendAttempt, ReceiveAnswer, GiveUpAttempt, keeperIsAlive, record_event_durable,
        ChangeWal, KillKeeper, StartKeeper
  <2>2. NoNewReset
    BY <1>2, DurableWriterInv
    DEF DurableStep, record_event_durable, ChangeWal, KillKeeper, StartKeeper, NoNewReset
  <2> QED
    BY <2>1, <2>2 DEF NoNewReset, IndexInv, ResetAlone, Rising, Wrapped, Again, stamping
<1>3. CASE UNCHANGED <<scenario, stamping, writer, durable>>
  <2>1. WriterInv' /\ IndexInv'
    BY <1>3 DEF WriterInv, IndexInv, ResetAlone, Rising, Wrapped, Again, stamping
  <2>2. StatusInv'
    BY <1>3 DEF StatusInv, DurableType, OneWrite, Sent, FirstAttempt, DurableStatusIsTrue, stamping, durable
  <2> QED
    BY <2>1, <2>2
<1> QED
  BY <1>1, <1>2, <1>3 DEF Next, vars, SessionStep, TailingStep

\* Every reachable state satisfies it.
LEMMA ClientInvariant == Spec => []ClientInv
BY ClientInit, ClientStep, PTL DEF Spec

\* No two events that the process logs in one tick of its clock have the same
\* index, however its threads interleave where the counter passes INT_MAX, up to
\* INT_MAX events; one more could repeat an index.
THEOREM IdentityUnique == Spec => [](logged <= MaxIndex => UniqueIdentity)
<1>1. ClientInv => (logged <= MaxIndex => UniqueIdentity)
  BY DEF ClientInv, IndexInv, UniqueIdentity
<1> QED
  BY <1>1, ClientInvariant, PTL

\* What a durable log_event returned is true and stays true, for any number of
\* attempts and of deaths and restarts of the keeper.
THEOREM DurableStatusTrue == Spec => []DurableStatusIsTrue
<1>1. ClientInv => DurableStatusIsTrue
  BY DEF ClientInv, StatusInv
<1> QED
  BY <1>1, ClientInvariant, PTL

-----------------------------------------------------------------------------
(* The tail read                                                           *)

\* A finite set of numbers has a largest element.
LEMMA LargestExists ==
  ASSUME NEW S, S \subseteq Nat, IsFiniteSet(S), S # {}
  PROVE \E m \in S : \A f \in S : f <= m
<1> DEFINE Above(m) == {f \in S : f > m}
           counts == {Cardinality(Above(m)) : m \in S}
<1>1. \A m \in S : IsFiniteSet(Above(m)) /\ Cardinality(Above(m)) \in Nat
  BY FS_Subset, FS_CardinalityType
<1>2. PICK n \in counts : \A i \in counts : ~(<<i, n>> \in OpToRel(<, Nat))
  <2> HIDE DEF Above
  <2>1. counts \subseteq Nat /\ counts # {}
    BY <1>1
  <2> HIDE DEF counts
  <2> QED
    BY <2>1, WFMin, NatLessThanWellFounded
<1>3. PICK m \in S : n = Cardinality(Above(m))
  OBVIOUS
<1>4. ASSUME NEW f \in S, f > m PROVE FALSE
  <2>1. Above(f) \in SUBSET Above(m) /\ f \in Above(m) /\ f \notin Above(f)
    <3>1. m \in Nat /\ f \in Nat /\ \A g \in Nat : g > f => g > m
      BY <1>4
    <3>2. ~(f > f)
      BY <3>1
    <3> QED
      BY <1>4, <3>1, <3>2
  <2>2. Cardinality(Above(f)) < Cardinality(Above(m))
    <3> HIDE DEF Above
    <3> QED
      BY <1>1, <2>1, FS_Subset
  <2>3. <<Cardinality(Above(f)), n>> \in OpToRel(<, Nat)
    <3> HIDE DEF Above
    <3> QED
      BY <1>1, <1>3, <2>2 DEF OpToRel
  <2> QED
    BY <1>2, <2>3
<1> QED
  BY <1>4

Newer(e, S) == {f \in S : f > e}
\* e is in S, or S has as many newer ones as a read asks for
Kept(e, S) == e \in S \/ Cardinality(Newer(e, S)) >= Wanted

\* What TailAssumption says of the events and the keepers.
LEMMA TailFacts ==
  /\ Events \subseteq Nat /\ IsFiniteSet(Events) /\ Keepers # {}
  /\ \A e \in Events : KeeperOf[e] \in Keepers
BY TailAssumption

\* A tail read asks for at least one event.
LEMMA WantedSome == Wanted \in Nat /\ Wanted > 0
BY TailAssumption

\* How many events of a set are newer than e is a number.
LEMMA NewerCount ==
  ASSUME NEW S \in SUBSET Events, NEW e
  PROVE IsFiniteSet(Newer(e, S)) /\ Cardinality(Newer(e, S)) \in Nat
<1>1. Newer(e, S) \in SUBSET Events
  BY DEF Newer
<1> QED
  BY <1>1, TailFacts, FS_Subset, FS_CardinalityType

\* Adding sequences keeps what was kept,
LEMMA MoreKeeps ==
  ASSUME NEW T \in SUBSET Events, NEW S \in SUBSET T, NEW e, Kept(e, S)
  PROVE Kept(e, T)
<1>1. Newer(e, S) \in SUBSET Newer(e, T)
  BY DEF Newer
<1>2. /\ IsFiniteSet(Newer(e, T)) /\ Cardinality(Newer(e, T)) \in Nat
      /\ Cardinality(Newer(e, S)) \in Nat
  BY NewerCount
<1>3. Cardinality(Newer(e, S)) <= Cardinality(Newer(e, T))
  BY <1>1, <1>2, FS_Subset
<1>4. CASE e \in S
  BY <1>4 DEF Kept
<1>5. CASE Cardinality(Newer(e, S)) >= Wanted
  BY <1>2, <1>3, <1>5, WantedSome DEF Kept
<1> QED
  BY <1>4, <1>5 DEF Kept

\* and so does dropping all but the newest.
LEMMA NewestKeeps ==
  ASSUME NEW S \in SUBSET Events, NEW e \in Events, Kept(e, S)
  PROVE Kept(e, Newest(S, Wanted))
<1> DEFINE top == Newest(S, Wanted)
           out == Newer(e, S) \ top
<1>1. top \in SUBSET S /\ top \in SUBSET Events
  BY DEF Newest
<1>0. top = {f \in S : Cardinality(Newer(f, S)) < Wanted}
  BY DEF Newest, Newer
<1> HIDE DEF top
<1>2. \A f \in S : f \notin top => Cardinality(Newer(f, S)) >= Wanted
  BY <1>0, NewerCount, WantedSome
<1>3. CASE Cardinality(Newer(e, S)) < Wanted
  <2>1. e \in S
    BY <1>3, NewerCount, WantedSome DEF Kept
  <2> QED
    BY <1>0, <1>3, <2>1 DEF Kept, top
<1>4. CASE Cardinality(Newer(e, S)) >= Wanted /\ out = {}
  <2>1. Newer(e, top) = Newer(e, S)
    BY <1>1, <1>4 DEF Newer
  <2> QED
    BY <1>4, <2>1 DEF Kept, top
<1>5. CASE out # {}
  <2>1. out \subseteq Nat /\ IsFiniteSet(out)
    <3>1. out \in SUBSET Events
      BY DEF Newer
    <3> QED
      BY <3>1, TailFacts, FS_Subset
  <2>2. PICK m \in out : \A f \in out : f <= m
    <3> HIDE DEF out
    <3> QED
      BY <1>5, <2>1, LargestExists
  <2>3. m \in S /\ m > e /\ m \notin top
    BY <2>2 DEF Newer
  <2>4. Newer(m, S) \in SUBSET Newer(e, top)
    <3> SUFFICES ASSUME NEW f \in S, f > m PROVE f \in top /\ f > e
      BY <1>1 DEF Newer
    <3>1. f > e /\ ~(f <= m)
      BY <2>3, TailFacts
    <3>2. f \in Newer(e, S)
      BY <3>1 DEF Newer
    <3> QED
      BY <2>2, <3>1, <3>2
  <2>5. Cardinality(Newer(m, S)) >= Wanted
    BY <1>2, <2>3
  <2>6. Cardinality(Newer(m, S)) <= Cardinality(Newer(e, top))
    BY <1>1, <2>4, NewerCount, FS_Subset
  <2>7. Cardinality(Newer(e, top)) >= Wanted
    BY <1>1, <2>3, <2>5, <2>6, NewerCount, WantedSome
  <2> QED
    BY <2>7 DEF Kept, top
<1> QED
  BY <1>3, <1>4, <1>5, NewerCount, WantedSome

\* Of some sequences the newest are some.
LEMMA NewestSome ==
  ASSUME NEW S \in SUBSET Events, S # {} PROVE Newest(S, Wanted) # {}
<1>1. S \subseteq Nat /\ IsFiniteSet(S)
  BY TailFacts, FS_Subset
<1>2. PICK m \in S : \A f \in S : f <= m
  BY <1>1, LargestExists
<1>3. \A f \in S : ~(f > m)
  BY <1>1, <1>2
<1>4. {f \in S : f > m} = {}
  BY <1>3
<1> QED
  BY <1>2, <1>4, WantedSome, FS_EmptySet DEF Newest

\* An RPC that runs, one that failed, and what each answered half holds
Running == {"sealed", "active"}
Failing == {"timeout", "error"}
Calls == [at : Running \cup Failing \cup {"none", "answered"}, got : SUBSET Events, todo : SUBSET Events]

TailType ==
  /\ active \in [Keepers -> SUBSET Events] /\ taken \in [Keepers -> SUBSET Events]
  /\ index \in [Keepers -> SUBSET Events] /\ call \in [Keepers -> Calls]
  /\ selected \subseteq Events /\ stable \subseteq Events /\ failed \subseteq Keepers
  /\ live \in BOOLEAN

\* Keepers hold, and answer with, the events written to them.
Owned ==
  \A k \in Keepers : \A e \in active[k] \cup taken[k] \cup index[k] \cup call[k].got : KeeperOf[e] = k

\* an event of stable is in its keeper's index
Indexed == \A e \in stable : e \in index[KeeperOf[e]]

\* Phase 1: a keeper that has answered its sealed half named each indexed event
\* or enough newer ones.
SequencesInv ==
  \A k \in Keepers :
    /\ call[k].at # "none" /\ (k \in failed <=> call[k].at \in Failing)
    /\ call[k].at \in {"active", "answered"} =>
         \A e \in stable : KeeperOf[e] = k => Kept(e, call[k].got)

\* Phase 2: the same holds of the selection, and a keeper that did not fail
\* still has the selected events that were indexed all the time.
EventsInv ==
  /\ selected # {}
  /\ \A e \in stable : KeeperOf[e] \in failed \/ Kept(e, selected)
  /\ \A k \in Keepers : /\ call[k].at \in Running \cup {"answered"} => k \notin failed
                        /\ call[k].at \in Failing => k \in failed
  /\ \A e \in selected : call[KeeperOf[e]].at # "none"
  /\ \A e \in selected \cap stable :
       /\ call[KeeperOf[e]].at = "sealed" => e \in call[KeeperOf[e]].todo
       /\ call[KeeperOf[e]].at \in {"active", "answered"} => e \in call[KeeperOf[e]].got

TailInv ==
  /\ TailType /\ Owned /\ Indexed /\ TailReadIsWhole
  /\ phase = "sequences" => SequencesInv
  /\ phase = "events" => EventsInv

-----------------------------------------------------------------------------

\* What Observe keeps: the history only shrinks during a read, and holds events
\* that are indexed now.
LEMMA Observed ==
  ASSUME TailInv, Observe, index' \in [Keepers -> SUBSET Events],
         \A k \in Keepers : \A e \in index'[k] : KeeperOf[e] = k
  PROVE /\ stable' \subseteq Events /\ failed' \subseteq Keepers /\ Indexed'
        /\ phase # "idle" => stable' \subseteq stable
        /\ phase # "idle" => failed' = failed \cup {k \in Keepers : call'[k].at \in Failing}
        /\ phase = "idle" => failed' = {}
<1>1. \A e \in stable' : \E k \in Keepers : e \in index'[k]
  BY DEF Observe
<1>2. stable' \subseteq Events /\ Indexed'
  BY <1>1 DEF Indexed
<1>3. phase # "idle" => stable' \subseteq stable
  BY DEF Observe
<1>4. /\ phase # "idle" => failed' = failed \cup {k \in Keepers : call'[k].at \in Failing}
      /\ phase = "idle" => failed' = {}
  BY DEF Observe, Failing
<1> QED
  BY <1>2, <1>3, <1>4 DEF TailInv, TailType

\* A step after which each RPC is where it was or has failed
LEMMA NoAnswerInv ==
  ASSUME TailInv, Observe, UNCHANGED <<phase, selected, result, live>>, phase # "done",
         active' \in [Keepers -> SUBSET Events], taken' \in [Keepers -> SUBSET Events],
         index' \in [Keepers -> SUBSET Events],
         \A k \in Keepers : \A e \in active'[k] \cup taken'[k] \cup index'[k] : KeeperOf[e] = k,
         call' \in [Keepers -> Calls],
         \A k \in Keepers :
           \/ call'[k] = call[k]
           \/ /\ call[k].at \in Running /\ call'[k].at \in Failing /\ call'[k].got = call[k].got
  PROVE TailInv'
<1>1. /\ stable' \subseteq Events /\ failed' \subseteq Keepers /\ Indexed'
      /\ phase # "idle" => stable' \subseteq stable
      /\ phase # "idle" => failed' = failed \cup {k \in Keepers : call'[k].at \in Failing}
  BY Observed
<1>2. TailType'
  BY <1>1 DEF TailInv, TailType
<1>3. Owned'
  BY DEF TailInv, Owned
<1>4. ASSUME phase = "sequences" PROVE SequencesInv'
  <2>1. ASSUME NEW k \in Keepers
        PROVE /\ call'[k].at # "none" /\ (k \in failed' <=> call'[k].at \in Failing)
              /\ call'[k].at \in {"active", "answered"} => call'[k] = call[k]
    BY <1>1, <1>4 DEF TailInv, SequencesInv, Running, Failing
  <2> QED
    BY <1>1, <1>4, <2>1 DEF TailInv, SequencesInv
<1>5. ASSUME phase = "events" PROVE EventsInv'
  <2>1. ASSUME NEW k \in Keepers
        PROVE /\ call'[k].at \in Running \cup {"answered"} => k \notin failed' /\ call'[k] = call[k]
              /\ call'[k].at \in Failing => k \in failed'
              /\ call[k].at # "none" => call'[k].at # "none"
    BY <1>1, <1>5 DEF TailInv, EventsInv, Running, Failing
  <2>2. \A e \in stable' : KeeperOf[e] \in failed' \/ Kept(e, selected)
    BY <1>1, <1>5 DEF TailInv, EventsInv
  <2>3. \A e \in selected : KeeperOf[e] \in Keepers
    BY TailFacts DEF TailInv, TailType
  <2> QED
    BY <1>1, <1>5, <2>1, <2>2, <2>3 DEF TailInv, EventsInv, Running
<1> QED
  BY <1>1, <1>2, <1>3, <1>4, <1>5 DEF TailInv, TailReadIsWhole

\* A keeper's own steps keep the invariant of a tail read.
LEMMA KeeperTailInv ==
  ASSUME TailInv, KeeperTailStep, Observe, UNCHANGED live, phase # "done" PROVE TailInv'
<1> DEFINE Holding(a, t, i) ==
             /\ a \in [Keepers -> SUBSET Events] /\ t \in [Keepers -> SUBSET Events]
             /\ i \in [Keepers -> SUBSET Events]
             /\ \A k \in Keepers : \A e \in a[k] \cup t[k] \cup i[k] : KeeperOf[e] = k
<1>0. Holding(active, taken, index) /\ call \in [Keepers -> Calls]
  BY DEF TailInv, TailType, Owned
<1>1. ASSUME NEW e \in Events, mergeEvents(e) PROVE Holding(active', taken', index')
  BY <1>0, <1>1, TailFacts DEF mergeEvents
<1>2. ASSUME NEW k \in Keepers, extractDecayedStoryChunks(k) PROVE Holding(active', taken', index')
  <2>1. PICK last \in active[k] :
          /\ taken' = [taken EXCEPT ![k] = {e \in active[k] : e <= last}]
          /\ active' = [active EXCEPT ![k] = @ \ {e \in active[k] : e <= last}]
          /\ UNCHANGED index
    BY <1>2 DEF extractDecayedStoryChunks
  <2> QED
    BY <1>0, <2>1
<1>3. ASSUME NEW S PROVE enforceCapacity(S) \subseteq S
  BY DEF enforceCapacity, Newest
<1>4. ASSUME NEW k \in Keepers,
             \/ ingestSealedChunk(k) \/ unregisterActiveSource(k) \/ finalize(k) \/ releaseStoryTail(k)
      PROVE Holding(active', taken', index')
  <2>1. CASE ingestSealedChunk(k)
    <3> DEFINE kept == enforceCapacity(index[k] \cup taken[k])
    <3>1. kept \subseteq index[k] \cup taken[k]
      BY <1>3
    <3>2. /\ index' = [index EXCEPT ![k] = kept] /\ taken' = [taken EXCEPT ![k] = {}] /\ UNCHANGED active
      BY <2>1 DEF ingestSealedChunk
    <3> HIDE DEF kept
    <3> QED
      BY <1>0, <3>1, <3>2
  <2>2. CASE finalize(k)
    <3> DEFINE kept == enforceCapacity(index[k] \cup active[k])
    <3>1. kept \subseteq index[k] \cup active[k]
      BY <1>3
    <3>2. /\ index' = [index EXCEPT ![k] = kept] /\ active' = [active EXCEPT ![k] = {}] /\ UNCHANGED taken
      BY <2>2 DEF finalize
    <3> HIDE DEF kept
    <3> QED
      BY <1>0, <3>1, <3>2
  <2>3. CASE unregisterActiveSource(k) \/ releaseStoryTail(k)
    BY <1>0, <2>3 DEF unregisterActiveSource, releaseStoryTail
  <2> QED
    BY <1>4, <2>1, <2>2, <2>3
<1>5. CASE /\ \/ \E e \in Events : mergeEvents(e)
              \/ \E k \in Keepers :
                   \/ extractDecayedStoryChunks(k) \/ ingestSealedChunk(k)
                   \/ unregisterActiveSource(k) \/ finalize(k) \/ releaseStoryTail(k)
           /\ UNCHANGED <<read, silent>>
  <2>1. Holding(active', taken', index')
    <3> HIDE DEF Holding
    <3> QED
      BY <1>1, <1>2, <1>4, <1>5
  <2>2. UNCHANGED <<phase, call, selected, result>>
    BY <1>5 DEF read
  <2> QED
    BY <1>0, <2>1, <2>2, NoAnswerInv
<1>6. ASSUME NEW k \in Keepers, RestartKeeper(k) PROVE TailInv'
  <2>1. Holding(active', taken', index')
    BY <1>0, <1>6 DEF RestartKeeper
  <2>2. PICK how \in Failing :
          call' = IF call[k].at \in Running THEN [call EXCEPT ![k].at = how] ELSE call
    BY <1>6 DEF RestartKeeper, Running, Failing
  <2>3. /\ call' \in [Keepers -> Calls]
        /\ \A j \in Keepers : \/ call'[j] = call[j]
                              \/ /\ call[j].at \in Running /\ call'[j].at \in Failing
                                 /\ call'[j].got = call[j].got
    BY <1>0, <2>2 DEF Calls
  <2>4. UNCHANGED <<phase, selected, result>>
    BY <1>6 DEF RestartKeeper
  <2> QED
    BY <2>1, <2>3, <2>4, NoAnswerInv
<1> QED
  BY <1>5, <1>6 DEF KeeperTailStep

\* A call to a keeper that fails keeps it.
LEMMA FailCallInv ==
  ASSUME TailInv, FailCall, Observe, UNCHANGED live, phase # "done" PROVE TailInv'
<1>0. call \in [Keepers -> Calls] /\ UNCHANGED <<phase, selected, result, active, taken, index>>
  BY DEF TailInv, TailType, FailCall, keeperTail
<1>1. PICK k \in Keepers, how \in Failing : call[k].at \in Running /\ call' = [call EXCEPT ![k].at = how]
  BY DEF FailCall, Running, Failing
<1>2. /\ call' \in [Keepers -> Calls]
      /\ \A j \in Keepers : \/ call'[j] = call[j]
                            \/ /\ call[j].at \in Running /\ call'[j].at \in Failing
                               /\ call'[j].got = call[j].got
  BY <1>0, <1>1 DEF Calls
<1> QED
  BY <1>0, <1>2, NoAnswerInv DEF TailInv, TailType, Owned

\* A step in which keeper k answers a half of an RPC
LEMMA AnswerInv ==
  ASSUME TailInv, Observe, UNCHANGED <<phase, selected, result, live, active, taken, index>>, phase # "done",
         NEW k \in Keepers, NEW c \in Calls, call[k].at \in Running, call' = [call EXCEPT ![k] = c],
         c.at \in {"active", "answered"}, \A e \in c.got : KeeperOf[e] = k,
         phase = "sequences" => \A e \in stable : KeeperOf[e] = k => Kept(e, c.got),
         phase = "events" => \A e \in selected \cap stable : KeeperOf[e] = k => e \in c.got
  PROVE TailInv'
<1>1. /\ stable' \subseteq Events /\ failed' \subseteq Keepers /\ Indexed'
      /\ phase # "idle" => stable' \subseteq stable
      /\ phase # "idle" => failed' = failed \cup {j \in Keepers : call'[j].at \in Failing}
  BY Observed DEF TailInv, TailType, Owned
<1>2. call' \in [Keepers -> Calls] /\ call'[k] = c /\ \A j \in Keepers : j # k => call'[j] = call[j]
  BY DEF TailInv, TailType
<1>3. TailType' /\ Owned'
  BY <1>1, <1>2 DEF TailInv, TailType, Owned
<1>4. ASSUME phase = "sequences" PROVE SequencesInv'
  <2>1. failed' = failed /\ k \notin failed /\ c.at \notin Failing
    BY <1>1, <1>2, <1>4 DEF TailInv, SequencesInv, Running, Failing
  <2> QED
    BY <1>1, <1>2, <1>4, <2>1 DEF TailInv, SequencesInv
<1>5. ASSUME phase = "events" PROVE EventsInv'
  <2>1. failed' = failed /\ k \notin failed /\ c.at \notin Failing
    BY <1>1, <1>2, <1>5 DEF TailInv, EventsInv, Running, Failing
  <2>2. \A e \in selected : KeeperOf[e] \in Keepers
    BY TailFacts DEF TailInv, TailType
  <2> QED
    BY <1>1, <1>2, <1>5, <2>1, <2>2 DEF TailInv, EventsInv
<1> QED
  BY <1>1, <1>3, <1>4, <1>5 DEF TailInv, TailReadIsWhole

\* Every step of a keeper's handler keeps it.
LEMMA HandlerInv ==
  ASSUME TailInv, HandlerStep, Observe, UNCHANGED live, phase # "done" PROVE TailInv'
<1>0. /\ UNCHANGED <<phase, selected, result, active, taken, index>>
      /\ call \in [Keepers -> Calls] /\ index \in [Keepers -> SUBSET Events]
      /\ active \in [Keepers -> SUBSET Events] /\ stable \subseteq Events
  BY DEF HandlerStep, keeperTail, TailInv, TailType
<1>1. ASSUME NEW S, NEW n PROVE Newest(S, n) \subseteq S
  BY DEF Newest
<1>2. ASSUME NEW k \in Keepers, getSealedTailSequences(k) PROVE TailInv'
  <2> DEFINE c == Halfway(k, Newest(index[k], Wanted), {})
  <2>1. Newest(index[k], Wanted) \in SUBSET Events /\ \A e \in Newest(index[k], Wanted) : KeeperOf[e] = k
    BY <1>0, <1>1 DEF TailInv, Owned
  <2>2. c \in Calls /\ c.got = Newest(index[k], Wanted) /\ c.at \in {"active", "answered"}
    BY <2>1 DEF Halfway, Calls, Running
  <2>3. ASSUME NEW e \in stable, KeeperOf[e] = k PROVE Kept(e, Newest(index[k], Wanted))
    <3>1. Kept(e, index[k])
      BY <2>3 DEF TailInv, Indexed, Kept
    <3> QED
      BY <1>0, <3>1, NewestKeeps
  <2>4. phase = "sequences" /\ call[k].at \in Running /\ call' = [call EXCEPT ![k] = c]
    BY <1>2 DEF getSealedTailSequences, Running
  <2> HIDE DEF c
  <2> QED
    BY <1>0, <2>1, <2>2, <2>3, <2>4, AnswerInv
<1>3. ASSUME NEW k \in Keepers, getActiveTailSequences(k) PROVE TailInv'
  <2> DEFINE tail == Newest(ActiveTail(k), Wanted)
             all == call[k].got \cup tail
             c == [call[k] EXCEPT !.at = "answered", !.got = Newest(all, Wanted)]
  <2>1. call[k] \in Calls /\ call[k].got \subseteq all /\ all \in SUBSET Events /\ \A e \in all : KeeperOf[e] = k
    <3>1. tail \subseteq active[k]
      BY <1>1 DEF ActiveTail
    <3> HIDE DEF tail
    <3> QED
      BY <1>0, <3>1 DEF TailInv, Owned, Calls
  <2>2. phase = "sequences" /\ call[k].at = "active" /\ call' = [call EXCEPT ![k] = c]
    BY <1>0, <1>3 DEF getActiveTailSequences
  <2> HIDE DEF all
  <2>3. c \in Calls /\ c.got = Newest(all, Wanted) /\ c.at = "answered"
    BY <1>1, <2>1 DEF Calls
  <2>4. ASSUME NEW e \in stable, KeeperOf[e] = k PROVE Kept(e, Newest(all, Wanted))
    <3>1. Kept(e, call[k].got)
      BY <2>2, <2>4 DEF TailInv, SequencesInv
    <3>2. Kept(e, all)
      BY <2>1, <3>1, MoreKeeps
    <3> QED
      BY <1>0, <2>1, <3>2, NewestKeeps
  <2>5. \A e \in Newest(all, Wanted) : KeeperOf[e] = k
    BY <1>1, <2>1
  <2> HIDE DEF c
  <2> QED
    BY <1>0, <2>2, <2>3, <2>4, <2>5, AnswerInv DEF Running
<1>4. ASSUME NEW k \in Keepers, getTailEvents(k) PROVE TailInv'
  <2> DEFINE misses == call[k].todo \ index[k]
             found == call[k].todo \cap index[k]
             c == IF misses = {} THEN [at |-> "answered", got |-> found, todo |-> {}]
                  ELSE Halfway(k, found, misses)
  <2>1. misses \in SUBSET Events /\ found \in SUBSET Events /\ \A e \in found : KeeperOf[e] = k
    BY <1>0 DEF TailInv, Owned, Calls
  <2>2. phase = "events" /\ call[k].at = "sealed" /\ call' = [call EXCEPT ![k] = c]
    BY <1>4 DEF getTailEvents
  <2>3. \A e \in selected \cap stable : KeeperOf[e] = k => e \in found
    BY <2>2 DEF TailInv, EventsInv, Indexed
  <2> HIDE DEF misses, found
  <2>4. c \in Calls /\ c.got = found /\ c.at \in {"active", "answered"}
    BY <2>1 DEF Calls, Halfway, Running
  <2> HIDE DEF c
  <2> QED
    BY <1>0, <2>1, <2>2, <2>3, <2>4, AnswerInv DEF Running
<1>5. ASSUME NEW k \in Keepers, findActiveEvent(k) PROVE TailInv'
  <2> DEFINE e == Max(call[k].todo)
             left == call[k].todo \ {e}
             more == {e} \cap ActiveTail(k)
             c == [at |-> IF left = {} THEN "answered" ELSE "active",
                   got |-> call[k].got \cup more, todo |-> left]
  <2>1. more \subseteq active[k] /\ call[k] \in Calls
    BY <1>0 DEF ActiveTail
  <2>2. phase = "events" /\ call[k].at = "active" /\ call' = [call EXCEPT ![k] = c]
    BY <1>0, <1>5 DEF findActiveEvent
  <2> HIDE DEF e, more
  <2>3. c \in Calls /\ c.got = call[k].got \cup more /\ c.at \in {"active", "answered"}
    BY <1>0, <2>1 DEF Calls, Running
  <2>4. \A f \in c.got : KeeperOf[f] = k
    BY <2>1, <2>3 DEF TailInv, Owned
  <2>5. \A f \in selected \cap stable : KeeperOf[f] = k => f \in c.got
    BY <2>2, <2>3 DEF TailInv, EventsInv
  <2> HIDE DEF c
  <2> QED
    BY <1>0, <2>2, <2>3, <2>4, <2>5, AnswerInv DEF Running
<1> QED
  BY <1>2, <1>3, <1>4, <1>5 DEF HandlerStep

\* The end of a phase: a keeper that was asked has answered or failed.
LEMMA Ended ==
  ASSUME TailInv, AllEnded, NEW k \in Keepers, call[k].at # "none"
  PROVE (call[k].at = "answered" /\ k \in Responded) \/ (call[k].at \in Failing /\ k \in TimedOut \cup Errors)
BY DEF TailInv, TailType, Calls, AllEnded, Running, Failing, Responded, TimedOut, Errors

\* What has been received is of keepers whose call was answered.
LEMMA ReceivedFacts ==
  ASSUME TailInv
  PROVE /\ Received \in SUBSET Events
        /\ \A k \in Keepers : call[k].at = "answered" => call[k].got \in SUBSET Received
        /\ \A e \in Received : call[KeeperOf[e]].at = "answered" /\ KeeperOf[e] \in Keepers
BY DEF TailInv, TailType, Owned, Calls, Received, Responded

\* gather_story_tail between its phases
LEMMA SelectInv ==
  ASSUME TailInv, SelectSequences, Observe, UNCHANGED live PROVE TailInv'
<1>0. phase = "sequences" /\ AllEnded /\ UNCHANGED <<active, taken, index>>
  BY DEF SelectSequences, keeperTail
<1>1. /\ stable' \subseteq Events /\ failed' \subseteq Keepers /\ Indexed' /\ stable' \subseteq stable
      /\ failed' = failed \cup {k \in Keepers : call'[k].at \in Failing}
  BY <1>0, Observed DEF TailInv, TailType, Owned
<1>2. \A k \in Keepers : \/ call[k].at = "answered" /\ k \in Responded /\ k \notin failed
                         \/ call[k].at \in Failing /\ k \in TimedOut \cup Errors /\ k \in failed
  BY <1>0, Ended DEF TailInv, SequencesInv, Failing
<1>3. \A e \in stable : KeeperOf[e] \in failed \/ Kept(e, Received)
  <2> SUFFICES ASSUME NEW e \in stable, KeeperOf[e] \notin failed PROVE Kept(e, Received)
    OBVIOUS
  <2>1. KeeperOf[e] \in Keepers /\ call[KeeperOf[e]].at = "answered"
    BY <1>2, TailFacts DEF TailInv, TailType
  <2>2. Kept(e, call[KeeperOf[e]].got)
    BY <1>0, <2>1 DEF TailInv, SequencesInv
  <2> QED
    BY <2>1, <2>2, ReceivedFacts, MoreKeeps
<1>4. \A k \in Keepers : call[k].at \in Failing => k \in failed
  BY <1>0 DEF TailInv, SequencesInv
<1>5. CASE NobodyAnswered
  <2>1. failed = Keepers /\ failed # {}
    BY <1>2, <1>5, TailFacts DEF NobodyAnswered, TailInv, TailType
  <2>2. phase' = "done" /\ UNCHANGED call /\ selected' = {} /\ result'.code # "CL_SUCCESS"
    BY <1>5 DEF SelectSequences, Finish, OutageCode
  <2>3. failed' = failed
    BY <1>1, <1>4, <2>2
  <2>4. TailType' /\ Owned'
    BY <1>0, <1>1, <2>2 DEF TailInv, TailType, Owned
  <2>5. TailReadIsWhole'
    BY <1>1, <2>1, <2>2, <2>3, TailFacts DEF TailReadIsWhole
  <2> QED
    BY <1>1, <2>2, <2>4, <2>5 DEF TailInv
<1>6. CASE ~NobodyAnswered /\ Received = {}
  <2>1. \E k \in Keepers : k \notin failed
    <3>1. CASE Responded = {}
      BY <1>2, <1>6, <3>1, TailFacts DEF NobodyAnswered
    <3>2. ASSUME NEW k \in Responded PROVE k \in Keepers /\ k \notin failed
      BY <1>2, <3>2 DEF Responded, Failing
    <3> QED
      BY <3>1, <3>2
  <2>2. /\ phase' = "done" /\ UNCHANGED call /\ selected' = {}
        /\ result'.code = "CL_SUCCESS" /\ result'.events = {}
    BY <1>6 DEF SelectSequences, Finish, SelectNewest, Newest
  <2>3. failed' = failed
    BY <1>1, <1>4, <2>2
  <2>4. \A e \in stable : ~Kept(e, {})
    <3>1. \A e : Newer(e, {}) = {}
      BY DEF Newer
    <3> QED
      BY <3>1, FS_EmptySet, WantedSome DEF Kept
  <2>5. TailType' /\ Owned'
    BY <1>0, <1>1, <2>2 DEF TailInv, TailType, Owned
  <2>6. TailReadIsWhole'
    BY <1>1, <1>3, <1>6, <2>1, <2>2, <2>3, <2>4 DEF TailReadIsWhole
  <2> QED
    BY <1>1, <2>2, <2>5, <2>6 DEF TailInv
<1>7. CASE ~NobodyAnswered /\ Received # {}
  <2> DEFINE todo == [k \in {KeeperOf[e] : e \in selected'} |-> {e \in selected' : KeeperOf[e] = k}]
  <2>1. /\ phase' = "events" /\ selected' = Newest(Received, Wanted) /\ call' = Ask(todo)
    BY <1>7 DEF SelectSequences, SelectNewest
  <2>2. selected' # {} /\ selected' \in SUBSET Received /\ selected' \in SUBSET Events
    BY <1>7, <2>1, ReceivedFacts, NewestSome DEF Newest
  <2>3. ASSUME NEW k \in Keepers
        PROVE /\ call'[k] \in Calls /\ call'[k].got = {} /\ call'[k].at \in {"sealed", "none"}
              /\ call'[k].at = "sealed" => k \notin failed
    <3>1. CASE k \in {KeeperOf[e] : e \in selected'}
      <4>1. call'[k] = [at |-> "sealed", got |-> {}, todo |-> {e \in selected' : KeeperOf[e] = k}]
        BY <2>1, <3>1 DEF Ask
      <4>2. k \notin failed
        BY <1>2, <2>2, <3>1, ReceivedFacts DEF Failing
      <4> QED
        BY <2>2, <4>1, <4>2 DEF Calls, Running
    <3>2. CASE k \notin {KeeperOf[e] : e \in selected'}
      <4>1. call'[k] = NoCall
        BY <2>1, <3>2 DEF Ask
      <4> QED
        BY <4>1 DEF Calls, NoCall
    <3> QED
      BY <3>1, <3>2
  <2>4. \A e \in selected' : call'[KeeperOf[e]].at = "sealed" /\ e \in call'[KeeperOf[e]].todo
    BY <2>1, <2>2, TailFacts DEF Ask
  <2>5. failed' = failed
    BY <1>1, <2>3 DEF Failing
  <2>6. \A e \in stable' : KeeperOf[e] \in failed' \/ Kept(e, selected')
    BY <1>1, <1>3, <2>1, <2>5, ReceivedFacts, NewestKeeps
  <2>7. call' \in [Keepers -> Calls]
    <3>1. call' = [k \in Keepers |-> call'[k]]
      BY <2>1 DEF Ask
    <3> QED
      BY <2>3, <3>1
  <2>8. EventsInv'
    BY <2>2, <2>3, <2>4, <2>5, <2>6 DEF EventsInv, Running, Failing
  <2>9. TailType' /\ Owned'
    BY <1>0, <1>1, <2>2, <2>3, <2>7 DEF TailInv, TailType, Owned
  <2> QED
    BY <1>1, <2>1, <2>8, <2>9 DEF TailInv, TailReadIsWhole
<1> QED
  BY <1>5, <1>6, <1>7

\* gather_story_tail after its second phase
LEMMA AssembleInv ==
  ASSUME TailInv, AssembleEvents, Observe, UNCHANGED live PROVE TailInv'
<1>0. /\ phase = "events" /\ AllEnded /\ UNCHANGED <<active, taken, index, selected, call>>
      /\ phase' = "done"
  BY DEF AssembleEvents, Finish, keeperTail
<1>1. /\ stable' \subseteq Events /\ failed' \subseteq Keepers /\ Indexed' /\ stable' \subseteq stable
      /\ failed' = failed \cup {k \in Keepers : call'[k].at \in Failing}
  BY <1>0, Observed DEF TailInv, TailType, Owned
<1>2. failed' = failed
  BY <1>0, <1>1 DEF TailInv, EventsInv
<1>3. TailType' /\ Owned'
  BY <1>0, <1>1 DEF TailInv, TailType, Owned
<1>4. \A e \in selected : \/ call[KeeperOf[e]].at = "answered" /\ KeeperOf[e] \in Responded
                          \/ KeeperOf[e] \in TimedOut \cup Errors /\ KeeperOf[e] \in failed
  BY <1>0, Ended, TailFacts DEF TailInv, TailType, EventsInv
<1>5. /\ \A k \in Responded : k \in Keepers /\ k \notin failed
      /\ TimedOut \cup Errors \subseteq failed /\ selected # {}
  BY <1>0 DEF TailInv, EventsInv, Responded, TimedOut, Errors, Failing, Running
<1>6. \A e \in stable : \/ KeeperOf[e] \in failed \/ Cardinality({f \in selected : f > e}) >= Wanted
                        \/ e \in Received /\ ~NobodyAnswered
  <2> SUFFICES ASSUME NEW e \in stable, KeeperOf[e] \notin failed, e \in selected
               PROVE e \in Received /\ ~NobodyAnswered
    BY <1>0 DEF TailInv, EventsInv, Kept, Newer
  <2>1. call[KeeperOf[e]].at = "answered" /\ KeeperOf[e] \in Responded
    BY <1>4
  <2>2. e \in call[KeeperOf[e]].got
    BY <1>0, <2>1 DEF TailInv, EventsInv
  <2> QED
    BY <2>1, <2>2 DEF NobodyAnswered, Received
<1>7. TailReadIsWhole'
  <2>1. CASE NobodyAnswered
    <3>1. result'.code # "CL_SUCCESS" /\ failed # {}
      BY <1>5, <2>1 DEF AssembleEvents, Finish, OutageCode, NobodyAnswered
    <3> QED
      BY <1>0, <1>1, <1>2, <1>6, <2>1, <3>1 DEF TailReadIsWhole
  <2>2. CASE ~NobodyAnswered
    <3>1. /\ result'.events = Received
          /\ result'.code = IF TimedOut \cup Errors = {} /\ Received # selected
                            THEN "CL_ERR_PARTIAL_RESULT" ELSE "CL_SUCCESS"
      BY <2>2 DEF AssembleEvents, Finish
    <3>2. \E k \in Keepers : k \notin failed
      BY <1>4, <1>5, <2>2 DEF NobodyAnswered
    <3>3. failed = {} => TimedOut \cup Errors = {}
      BY <1>5
    <3> QED
      BY <1>0, <1>1, <1>2, <1>6, <3>1, <3>2, <3>3 DEF TailReadIsWhole
  <2> QED
    BY <2>1, <2>2
<1> QED
  BY <1>0, <1>1, <1>3, <1>7 DEF TailInv

\* A tail read begins with the invariant.
LEMMA BeginInv ==
  ASSUME TailInv, BeginTailRead, Observe, UNCHANGED live PROVE TailInv'
<1>0. /\ phase = "idle" /\ phase' = "sequences" /\ UNCHANGED <<active, taken, index, selected>>
      /\ call' = [k \in Keepers |-> [at |-> "sealed", got |-> {}, todo |-> {}]]
  BY DEF BeginTailRead, Ask, keeperTail
<1>1. stable' \subseteq Events /\ failed' = {} /\ Indexed'
  BY <1>0, Observed DEF TailInv, TailType, Owned
<1>2. TailType' /\ Owned'
  BY <1>0, <1>1 DEF TailInv, TailType, Owned, Calls, Running
<1>3. SequencesInv'
  BY <1>0, <1>1 DEF SequencesInv, Failing
<1> QED
  BY <1>0, <1>1, <1>2, <1>3 DEF TailInv, TailReadIsWhole

\* A tail read returns every event that was indexed all the time by a keeper
\* that did not fail it, or enough newer ones, for any number of keepers and
\* events and whatever the keepers do between the two phases and the two halves
\* of an answer.
THEOREM TailReadWhole == Spec => []TailReadIsWhole
<1>1. Init => TailInv
  <2> SUFFICES ASSUME Init PROVE TailInv
    OBVIOUS
  <2>1. TailType
    BY TailAssumption DEF Init, TailInit, TailType, Calls, NoCall
  <2>2. Owned /\ Indexed
    BY DEF Init, TailInit, Owned, Indexed, NoCall
  <2> QED
    BY <2>1, <2>2 DEF Init, TailInit, TailInv, TailReadIsWhole
<1>2. TailInv /\ [Next]_vars => TailInv'
  <2> SUFFICES ASSUME TailInv, [Next]_vars PROVE TailInv'
    OBVIOUS
  <2>1. CASE TailingStep
    BY <2>1, KeeperTailInv, HandlerInv, FailCallInv, SelectInv, AssembleInv, BeginInv
    DEF TailingStep, TailStep
  <2>2. CASE UNCHANGED tailVars
    BY <2>2 DEF tailVars, keeperTail, read, TailInv, TailType, Owned, Indexed, SequencesInv, EventsInv,
                TailReadIsWhole
  <2> QED
    BY <2>1, <2>2 DEF Next, vars, SessionStep, WritingStep, DurableStep
<1>3. TailInv => TailReadIsWhole
  BY DEF TailInv
<1> QED
  BY <1>1, <1>2, <1>3, PTL DEF Spec

=============================================================================
