------------------------- MODULE DurableWriteProofs -------------------------
(***************************************************************************)
(* Proofs about DurableWrite, for any sets of attempts and events.         *)
(***************************************************************************)
EXTENDS DurableWrite, TLAPS

Kept == pending \cup confirmed \cup dropped
Owner(a) == a \in Durable /\ pc[a] = "wait" /\ joined[a] = a /\ result[a] = "none"

\* A queued attempt, or one of the group, owns its event's entry of inFlight,
\* and the event is not pending.
TableInv ==
  /\ \A a \in queue \cup group : Owner(a) /\ inFlight[EventOf[a]] = a
  /\ \A e \in Events : inFlight[e] # NoAttempt =>
       inFlight[e] \in queue \cup group /\ EventOf[inFlight[e]] = e /\ e \notin pending
  /\ queue \cap group = {}

\* A group has one status; a failed one latched the WAL.
GroupInv ==
  /\ groupStatus \in {"none", "SUCCESS", "UNAVAILABLE", "UNKNOWN"}
  /\ groupStatus \notin {"none", "SUCCESS"} => failed
  /\ failed /\ groupStatus = "none" => group = {}
  /\ registered # {} => groupStatus # "none"
  /\ group = {} /\ registered = {} => groupStatus = "none"
  /\ registered \cap (queue \cup group) = {}
  /\ \A a \in registered : Owner(a) /\ IF groupStatus = "SUCCESS" THEN EventOf[a] \in Kept
                                                                 ELSE EventOf[a] \notin pending

\* Handlers wait on a completion of their own event, and a completion that was
\* set to CL_SUCCESS belongs to an event the keeper has.
HandlerInv ==
  /\ \A a \in Attempts : pc[a] \in {"entered", "ingesting"} => a \notin Durable /\ a \in inside
  /\ \A a \in Attempts : pc[a] \in Locations \ {"new", "entered", "ingesting", "done"} => a \in Durable
  /\ \A a \in Attempts : pc[a] \in {"wait", "ingest"} =>
       joined[a] \in Attempts /\ EventOf[joined[a]] = EventOf[a]
  /\ \A a \in Attempts : pc[a] = "wait" /\ joined[a] = a /\ result[a] = "none" =>
       a \in queue \cup group \cup registered
  /\ \A a \in Attempts : pc[a] = "ingest" => result[a] = "SUCCESS"
  /\ \A a \in Attempts : result[a] # "none" => pc[a] \in {"wait", "ingest", "done"}
  /\ \A a \in Attempts : result[a] = "SUCCESS" => EventOf[a] \in Kept
  /\ \A a \in ingested \cup held : pc[a] = "done"
  /\ ingested \cap held = {}

\* The event of a carrier is in the table, or its group just failed.
CarrierInv ==
  \A a \in Attempts : Carries(a) /\ EventOf[a] \notin dropped =>
    \/ EventOf[a] \in pending
    \/ inFlight[EventOf[a]] = a
    \/ a \in registered /\ groupStatus # "SUCCESS"

\* The gate stays shut, and a write past it is counted.
ShutInv ==
  /\ shut # "up" => ~ open
  /\ shut \notin {"up", "closing"} /\ "gate" \notin timedOut =>
       \A a \in Attempts : pc[a] # "ingesting"

IInv ==
  /\ TypeOK /\ TableInv /\ GroupInv /\ HandlerInv /\ CarrierInv /\ ShutInv
  /\ IngestedOnce /\ PendingIsCarried /\ AcknowledgedIsKept
  /\ AcceptedIsCollected /\ NoHandlerAtDelete

-----------------------------------------------------------------------------
USE DurableWriteAssumption
USE DEF handlers, wal, gate, store, history, Go, Answer, Locations, Statuses, ShutSteps,
        Kept, Owner, Carries

\* A keeper that just started satisfies the invariant.
LEMMA InitInv == Init => IInv
<1> SUFFICES ASSUME Init PROVE IInv
  OBVIOUS
<1> USE DEF Init
<1>1. TypeOK /\ TableInv /\ ShutInv
  BY DEF TypeOK, TableInv, ShutInv
<1>2. GroupInv /\ HandlerInv
  BY DEF GroupInv, HandlerInv
<1>3. CarrierInv /\ IngestedOnce /\ PendingIsCarried
  BY DEF CarrierInv, IngestedOnce, PendingIsCarried
<1>4. AcknowledgedIsKept /\ AcceptedIsCollected /\ NoHandlerAtDelete
  BY DEF AcknowledgedIsKept, AcceptedIsCollected, NoHandlerAtDelete
<1> QED
  BY <1>1, <1>2, <1>3, <1>4 DEF IInv

\* Before it waits or ingests, a handler only moves on, answers, or joins the
\* attempt in flight; CL_SUCCESS it answers only for an event that is pending.
Before == {"gate", "lookup", "record", "cap", "pipeline", "append", "encode", "enqueue"}
Moves(a) ==
  /\ pc[a] \in Before
  /\ \/ /\ \E where \in Before \ {"gate"} : Go(a, where)
        /\ open \/ pc[a] # "gate"
        /\ UNCHANGED joined
     \/ /\ \E status \in Statuses : Answer(a, status) /\ (status = "SUCCESS" => EventOf[a] \in pending)
        /\ UNCHANGED joined
     \/ /\ inFlight[EventOf[a]] # NoAttempt /\ pc[a] # "gate"
        /\ joined' = [joined EXCEPT ![a] = inFlight[EventOf[a]]]
        /\ Go(a, "wait")
  /\ overCap' \in BOOLEAN
  /\ UNCHANGED <<wal, gate, store, shut, timedOut, history>>

\* The checks of KeeperDurableWriter::write and appendDurable before the record is
\* queued are such moves.
LEMMA MovesOnly ==
  ASSUME TypeOK, NEW a \in Attempts,
         \/ DurableGate(a) \/ LookupDurable(a) \/ Admit(a) \/ CheckCap(a)
         \/ EnsurePipeline(a) \/ AppendDurable(a) \/ Encode(a)
         \/ (pc[a] = "enqueue" /\ Settled(a)
             /\ UNCHANGED <<wal, overCap, gate, store, shut, timedOut, history>>)
  PROVE Moves(a)
<1> USE DEF Moves, Before, TypeOK
<1>1. CASE DurableGate(a)
  BY <1>1 DEF DurableGate
<1>2. CASE LookupDurable(a)
  BY <1>2 DEF LookupDurable, AnsweredByFirst
<1>3. CASE Admit(a)
  BY <1>3 DEF Admit
<1>4. CASE CheckCap(a)
  BY <1>4 DEF CheckCap
<1>5. CASE EnsurePipeline(a)
  BY <1>5 DEF EnsurePipeline
<1>6. CASE AppendDurable(a)
  BY <1>6 DEF AppendDurable, Settled, AnsweredByFirst
<1>7. CASE Encode(a)
  BY <1>7 DEF Encode
<1>8. CASE pc[a] = "enqueue" /\ Settled(a)
             /\ UNCHANGED <<wal, overCap, gate, store, shut, timedOut, history>>
  BY <1>8 DEF Settled, AnsweredByFirst
<1> QED
  BY <1>1, <1>2, <1>3, <1>4, <1>5, <1>6, <1>7, <1>8

\* A handler on its way through the checks keeps the invariant.
LEMMA MovesInv ==
  ASSUME IInv, NEW a \in Attempts, Moves(a)
  PROVE IInv'
<1> USE DEF IInv, Moves, Before
<1>1. TypeOK' /\ ShutInv' /\ AcceptedIsCollected' /\ NoHandlerAtDelete'
  BY DEF TypeOK, ShutInv, AcceptedIsCollected, NoHandlerAtDelete, HandlerInv
<1>2. TableInv' /\ GroupInv'
  BY DEF TypeOK, TableInv, GroupInv, HandlerInv
<1>3. HandlerInv'
  BY DEF TypeOK, TableInv, GroupInv, HandlerInv, AcknowledgedIsKept
<1>4. CarrierInv'
  BY DEF TypeOK, TableInv, GroupInv, HandlerInv, CarrierInv, IngestedOnce
<1>5. IngestedOnce'
  BY DEF TypeOK, TableInv, GroupInv, HandlerInv, CarrierInv, IngestedOnce
<1>6. PendingIsCarried'
  BY DEF TypeOK, TableInv, GroupInv, HandlerInv, PendingIsCarried, IngestedOnce
<1>7. AcknowledgedIsKept'
  BY DEF TypeOK, GroupInv, HandlerInv, AcknowledgedIsKept
<1> QED
  BY <1>1, <1>2, <1>3, <1>4, <1>5, <1>6, <1>7

\* The attempt that queues the record: no other carries the event.
Writes(a) ==
  /\ pc[a] = "enqueue" /\ Unsettled(a)
  /\ inFlight' = [inFlight EXCEPT ![EventOf[a]] = a]
  /\ queue' = queue \cup {a}
  /\ joined' = [joined EXCEPT ![a] = a]
  /\ Go(a, "wait")
  /\ UNCHANGED <<result, pending, group, registered, groupStatus, failed, walState, overCap,
                 gate, store, shut, timedOut, history>>

\* Queueing the record keeps the invariant.
LEMMA WriteInv ==
  ASSUME IInv, NEW a \in Attempts, Writes(a)
  PROVE IInv'
<1> USE DEF IInv, Writes, Unsettled, NotFound
<1>1. TypeOK' /\ ShutInv' /\ AcceptedIsCollected' /\ NoHandlerAtDelete'
  BY DEF TypeOK, ShutInv, AcceptedIsCollected, NoHandlerAtDelete, HandlerInv
<1>2. TableInv' /\ GroupInv'
  <2>1. a \notin queue \cup group \cup registered /\ result[a] = "none" /\ a \in Durable
    BY DEF TypeOK, TableInv, GroupInv, HandlerInv
  <2>2. \A b \in queue \cup group : EventOf[b] # EventOf[a]
    BY DEF TypeOK, TableInv
  <2>3. TableInv'
    BY <2>1, <2>2 DEF TypeOK, TableInv
  <2>4. GroupInv'
    BY <2>1 DEF TypeOK, GroupInv
  <2> QED
    BY <2>3, <2>4
<1>3. HandlerInv'
  BY DEF TypeOK, TableInv, GroupInv, HandlerInv, AcknowledgedIsKept
<1>4. CarrierInv'
  BY DEF TypeOK, TableInv, GroupInv, HandlerInv, CarrierInv, IngestedOnce
<1>5. IngestedOnce'
  BY DEF TypeOK, TableInv, GroupInv, HandlerInv, CarrierInv, IngestedOnce
<1>6. PendingIsCarried'
  BY DEF TypeOK, TableInv, GroupInv, HandlerInv, PendingIsCarried, IngestedOnce
<1>7. AcknowledgedIsKept'
  BY DEF TypeOK, GroupInv, HandlerInv, AcknowledgedIsKept
<1> QED
  BY <1>1, <1>2, <1>3, <1>4, <1>5, <1>6, <1>7

\* appendDurable's second look-up keeps the invariant, whichever way it goes.
LEMMA EnqueueInv ==
  ASSUME IInv, NEW a \in Attempts, Enqueue(a)
  PROVE IInv'
<1>1. CASE Settled(a) /\ UNCHANGED <<inFlight, queue>>
  <2>1. Moves(a)
    BY <1>1, MovesOnly DEF Enqueue, IInv
  <2> QED
    BY <2>1, MovesInv
<1>2. CASE Unsettled(a) /\ inFlight' = [inFlight EXCEPT ![EventOf[a]] = a]
           /\ queue' = queue \cup {a} /\ joined' = [joined EXCEPT ![a] = a] /\ Go(a, "wait")
  <2>1. Writes(a)
    BY <1>2 DEF Enqueue, Writes
  <2> QED
    BY <2>1, WriteInv
<1> QED
  BY <1>1, <1>2 DEF Enqueue

\* An arriving request keeps the invariant.
LEMMA ArriveInv ==
  ASSUME IInv, NEW a \in Attempts, Arrive(a)
  PROVE IInv'
<1> USE DEF IInv, Arrive
<1>1. TypeOK' /\ ShutInv' /\ AcceptedIsCollected' /\ NoHandlerAtDelete'
  BY DEF TypeOK, ShutInv, AcceptedIsCollected, NoHandlerAtDelete, HandlerInv
<1>2. TableInv' /\ GroupInv'
  BY DEF TypeOK, TableInv, GroupInv, HandlerInv
<1>3. HandlerInv'
  BY DEF TypeOK, TableInv, GroupInv, HandlerInv, AcknowledgedIsKept
<1>4. CarrierInv'
  BY DEF TypeOK, TableInv, GroupInv, HandlerInv, CarrierInv, IngestedOnce
<1>5. IngestedOnce'
  BY DEF TypeOK, TableInv, GroupInv, HandlerInv, CarrierInv, IngestedOnce
<1>6. PendingIsCarried'
  BY DEF TypeOK, TableInv, GroupInv, HandlerInv, PendingIsCarried, IngestedOnce
<1>7. AcknowledgedIsKept'
  BY DEF TypeOK, GroupInv, HandlerInv, AcknowledgedIsKept
<1> QED
  BY <1>1, <1>2, <1>3, <1>4, <1>5, <1>6, <1>7

\* KeeperWriteGate::enter keeps the invariant.
LEMMA EnterInv ==
  ASSUME IInv, NEW a \in Attempts, Enter(a)
  PROVE IInv'
<1> USE DEF IInv, Enter
<1>1. TypeOK' /\ ShutInv' /\ AcceptedIsCollected' /\ NoHandlerAtDelete'
  BY DEF TypeOK, ShutInv, AcceptedIsCollected, NoHandlerAtDelete, HandlerInv
<1>2. TableInv' /\ GroupInv'
  BY DEF TypeOK, TableInv, GroupInv, HandlerInv
<1>3. HandlerInv'
  BY DEF TypeOK, TableInv, GroupInv, HandlerInv, AcknowledgedIsKept
<1>4. CarrierInv'
  BY DEF TypeOK, TableInv, GroupInv, HandlerInv, CarrierInv, IngestedOnce
<1>5. IngestedOnce'
  BY DEF TypeOK, TableInv, GroupInv, HandlerInv, CarrierInv, IngestedOnce
<1>6. PendingIsCarried'
  BY DEF TypeOK, TableInv, GroupInv, HandlerInv, PendingIsCarried, IngestedOnce
<1>7. AcknowledgedIsKept'
  BY DEF TypeOK, GroupInv, HandlerInv, AcknowledgedIsKept
<1> QED
  BY <1>1, <1>2, <1>3, <1>4, <1>5, <1>6, <1>7

\* An accepted write's ingest keeps the invariant.
LEMMA RecordEventInv ==
  ASSUME IInv, NEW a \in Attempts, RecordEvent(a)
  PROVE IInv'
<1> USE DEF IInv, RecordEvent
<1>1. TypeOK' /\ ShutInv' /\ AcceptedIsCollected' /\ NoHandlerAtDelete'
  BY DEF TypeOK, ShutInv, AcceptedIsCollected, NoHandlerAtDelete, HandlerInv
<1>2. TableInv' /\ GroupInv'
  BY DEF TypeOK, TableInv, GroupInv, HandlerInv
<1>3. HandlerInv'
  BY DEF TypeOK, TableInv, GroupInv, HandlerInv, AcknowledgedIsKept
<1>4. CarrierInv'
  BY DEF TypeOK, TableInv, GroupInv, HandlerInv, CarrierInv, IngestedOnce
<1>5. IngestedOnce'
  BY DEF TypeOK, TableInv, GroupInv, HandlerInv, CarrierInv, IngestedOnce
<1>6. PendingIsCarried'
  BY DEF TypeOK, TableInv, GroupInv, HandlerInv, PendingIsCarried, IngestedOnce
<1>7. AcknowledgedIsKept'
  BY DEF TypeOK, GroupInv, HandlerInv, AcknowledgedIsKept
<1> QED
  BY <1>1, <1>2, <1>3, <1>4, <1>5, <1>6, <1>7

\* A handler woken by its completion keeps the invariant.
LEMMA WokenInv ==
  ASSUME IInv, NEW a \in Attempts, Woken(a)
  PROVE IInv'
<1> USE DEF IInv, Woken
<1>1. TypeOK' /\ ShutInv' /\ AcceptedIsCollected' /\ NoHandlerAtDelete'
  BY DEF TypeOK, ShutInv, AcceptedIsCollected, NoHandlerAtDelete, HandlerInv
<1>2. TableInv' /\ GroupInv'
  BY DEF TypeOK, TableInv, GroupInv, HandlerInv
<1>3. HandlerInv'
  BY DEF TypeOK, TableInv, GroupInv, HandlerInv, AcknowledgedIsKept
<1>4. CarrierInv'
  BY DEF TypeOK, TableInv, GroupInv, HandlerInv, CarrierInv, IngestedOnce
<1>5. IngestedOnce'
  BY DEF TypeOK, TableInv, GroupInv, HandlerInv, CarrierInv, IngestedOnce
<1>6. PendingIsCarried'
  BY DEF TypeOK, TableInv, GroupInv, HandlerInv, PendingIsCarried, IngestedOnce
<1>7. AcknowledgedIsKept'
  BY DEF TypeOK, GroupInv, HandlerInv, AcknowledgedIsKept
<1> QED
  BY <1>1, <1>2, <1>3, <1>4, <1>5, <1>6, <1>7

\* A durable write's ingest keeps the invariant.
LEMMA IngestDurableInv ==
  ASSUME IInv, NEW a \in Attempts, IngestDurable(a)
  PROVE IInv'
<1> USE DEF IInv, IngestDurable
<1>1. TypeOK' /\ ShutInv' /\ AcceptedIsCollected' /\ NoHandlerAtDelete'
  BY DEF TypeOK, ShutInv, AcceptedIsCollected, NoHandlerAtDelete, HandlerInv
<1>2. TableInv' /\ GroupInv'
  BY DEF TypeOK, TableInv, GroupInv, HandlerInv
<1>3. HandlerInv'
  BY DEF TypeOK, TableInv, GroupInv, HandlerInv, AcknowledgedIsKept
<1>4. CarrierInv'
  BY DEF TypeOK, TableInv, GroupInv, HandlerInv, CarrierInv, IngestedOnce
<1>5. IngestedOnce'
  BY DEF TypeOK, TableInv, GroupInv, HandlerInv, CarrierInv, IngestedOnce
<1>6. PendingIsCarried'
  BY DEF TypeOK, TableInv, GroupInv, HandlerInv, PendingIsCarried, IngestedOnce
<1>7. AcknowledgedIsKept'
  BY DEF TypeOK, GroupInv, HandlerInv, AcknowledgedIsKept
<1> QED
  BY <1>1, <1>2, <1>3, <1>4, <1>5, <1>6, <1>7

\* Taking a group keeps the invariant.
LEMMA TakeGroupInv ==
  ASSUME IInv, TakeGroup
  PROVE IInv'
<1> USE DEF IInv, TakeGroup
<1>1. TypeOK' /\ ShutInv' /\ AcceptedIsCollected' /\ NoHandlerAtDelete'
  BY DEF TypeOK, ShutInv, AcceptedIsCollected, NoHandlerAtDelete, HandlerInv
<1>2. TableInv' /\ GroupInv'
  BY DEF TypeOK, TableInv, GroupInv, HandlerInv
<1>3. HandlerInv'
  BY DEF TypeOK, TableInv, GroupInv, HandlerInv, AcknowledgedIsKept
<1>4. CarrierInv'
  BY DEF TypeOK, TableInv, GroupInv, HandlerInv, CarrierInv, IngestedOnce
<1>5. IngestedOnce'
  BY DEF TypeOK, TableInv, GroupInv, HandlerInv, CarrierInv, IngestedOnce
<1>6. PendingIsCarried'
  BY DEF TypeOK, TableInv, GroupInv, HandlerInv, PendingIsCarried, IngestedOnce
<1>7. AcknowledgedIsKept'
  BY DEF TypeOK, GroupInv, HandlerInv, AcknowledgedIsKept
<1> QED
  BY <1>1, <1>2, <1>3, <1>4, <1>5, <1>6, <1>7

\* The end of a group's write and sync keeps the invariant.
LEMMA EndGroupInv ==
  ASSUME IInv, EndGroup
  PROVE IInv'
<1> USE DEF IInv, EndGroup
<1>1. TypeOK' /\ ShutInv' /\ AcceptedIsCollected' /\ NoHandlerAtDelete'
  BY DEF TypeOK, ShutInv, AcceptedIsCollected, NoHandlerAtDelete, HandlerInv
<1>2. TableInv' /\ GroupInv'
  BY DEF TypeOK, TableInv, GroupInv, HandlerInv
<1>3. HandlerInv'
  BY DEF TypeOK, TableInv, GroupInv, HandlerInv, AcknowledgedIsKept
<1>4. CarrierInv'
  BY DEF TypeOK, TableInv, GroupInv, HandlerInv, CarrierInv, IngestedOnce
<1>5. IngestedOnce'
  BY DEF TypeOK, TableInv, GroupInv, HandlerInv, CarrierInv, IngestedOnce
<1>6. PendingIsCarried'
  BY DEF TypeOK, TableInv, GroupInv, HandlerInv, PendingIsCarried, IngestedOnce
<1>7. AcknowledgedIsKept'
  BY DEF TypeOK, GroupInv, HandlerInv, AcknowledgedIsKept
<1> QED
  BY <1>1, <1>2, <1>3, <1>4, <1>5, <1>6, <1>7

\* Registering an entry of the group keeps the invariant.
LEMMA RegisterInv ==
  ASSUME IInv, NEW a \in Attempts, Register(a)
  PROVE IInv'
<1> USE DEF IInv, Register
<1>1. TypeOK' /\ ShutInv' /\ AcceptedIsCollected' /\ NoHandlerAtDelete'
  BY DEF TypeOK, ShutInv, AcceptedIsCollected, NoHandlerAtDelete, HandlerInv
<1>2. TableInv' /\ GroupInv'
  BY DEF TypeOK, TableInv, GroupInv, HandlerInv
<1>3. HandlerInv'
  BY DEF TypeOK, TableInv, GroupInv, HandlerInv, AcknowledgedIsKept
<1>4. CarrierInv'
  BY DEF TypeOK, TableInv, GroupInv, HandlerInv, CarrierInv, IngestedOnce
<1>5. IngestedOnce'
  BY DEF TypeOK, TableInv, GroupInv, HandlerInv, CarrierInv, IngestedOnce
<1>6. PendingIsCarried'
  BY DEF TypeOK, TableInv, GroupInv, HandlerInv, PendingIsCarried, IngestedOnce
<1>7. AcknowledgedIsKept'
  BY DEF TypeOK, GroupInv, HandlerInv, AcknowledgedIsKept
<1> QED
  BY <1>1, <1>2, <1>3, <1>4, <1>5, <1>6, <1>7

\* Setting the completions keeps the invariant.
LEMMA AnswerGroupInv ==
  ASSUME IInv, AnswerGroup
  PROVE IInv'
<1> USE DEF IInv, AnswerGroup
<1>1. TypeOK' /\ ShutInv' /\ AcceptedIsCollected' /\ NoHandlerAtDelete'
  BY DEF TypeOK, ShutInv, AcceptedIsCollected, NoHandlerAtDelete, HandlerInv
<1>2. TableInv' /\ GroupInv'
  BY DEF TypeOK, TableInv, GroupInv, HandlerInv
<1>3. HandlerInv'
  BY DEF TypeOK, TableInv, GroupInv, HandlerInv, AcknowledgedIsKept
<1>4. CarrierInv'
  BY DEF TypeOK, TableInv, GroupInv, HandlerInv, CarrierInv, IngestedOnce
<1>5. IngestedOnce'
  BY DEF TypeOK, TableInv, GroupInv, HandlerInv, CarrierInv, IngestedOnce
<1>6. PendingIsCarried'
  <2>1. CASE groupStatus = "SUCCESS"
    <3>1. \A a \in Attempts : Carries(a) => Carries(a)'
      BY <2>1 DEF TypeOK
    <3> QED
      BY <3>1 DEF PendingIsCarried
  <2>2. CASE groupStatus # "SUCCESS"
    <3>1. SUFFICES ASSUME NEW e \in pending' \ dropped'
                   PROVE  \E b \in Attempts : EventOf[b] = e /\ Carries(b)'
      BY DEF PendingIsCarried
    <3>2. PICK b \in Attempts : EventOf[b] = e /\ Carries(b)
      BY DEF PendingIsCarried
    <3>3. b \notin registered
      BY <2>2, <3>2 DEF GroupInv
    <3> QED
      BY <3>2, <3>3 DEF TypeOK
  <2> QED
    BY <2>1, <2>2
<1>7. AcknowledgedIsKept'
  BY DEF TypeOK, GroupInv, HandlerInv, AcknowledgedIsKept
<1> QED
  BY <1>1, <1>2, <1>3, <1>4, <1>5, <1>6, <1>7

\* Dropping a destroyed story's copies keeps the invariant.
LEMMA DropStoryInv ==
  ASSUME IInv, DropStory
  PROVE IInv'
<1> USE DEF IInv, DropStory
<1>1. TypeOK' /\ ShutInv' /\ AcceptedIsCollected' /\ NoHandlerAtDelete'
  BY DEF TypeOK, ShutInv, AcceptedIsCollected, NoHandlerAtDelete, HandlerInv
<1>2. TableInv' /\ GroupInv'
  BY DEF TypeOK, TableInv, GroupInv, HandlerInv
<1>3. HandlerInv'
  BY DEF TypeOK, TableInv, GroupInv, HandlerInv, AcknowledgedIsKept
<1>4. CarrierInv'
  BY DEF TypeOK, TableInv, GroupInv, HandlerInv, CarrierInv, IngestedOnce
<1>5. IngestedOnce'
  BY DEF TypeOK, TableInv, GroupInv, HandlerInv, CarrierInv, IngestedOnce
<1>6. PendingIsCarried'
  BY DEF TypeOK, TableInv, GroupInv, HandlerInv, PendingIsCarried, IngestedOnce
<1>7. AcknowledgedIsKept'
  BY DEF TypeOK, GroupInv, HandlerInv, AcknowledgedIsKept
<1> QED
  BY <1>1, <1>2, <1>3, <1>4, <1>5, <1>6, <1>7

\* Collecting an event keeps the invariant.
LEMMA CollectInv ==
  ASSUME IInv, NEW a \in Attempts, Collect(a)
  PROVE IInv'
<1> USE DEF IInv, Collect
<1>1. TypeOK' /\ ShutInv' /\ AcceptedIsCollected' /\ NoHandlerAtDelete'
  BY DEF TypeOK, ShutInv, AcceptedIsCollected, NoHandlerAtDelete, HandlerInv
<1>2. TableInv' /\ GroupInv'
  BY DEF TypeOK, TableInv, GroupInv, HandlerInv
<1>3. HandlerInv'
  BY DEF TypeOK, TableInv, GroupInv, HandlerInv, AcknowledgedIsKept
<1>4. CarrierInv'
  BY DEF TypeOK, TableInv, GroupInv, HandlerInv, CarrierInv, IngestedOnce
<1>5. IngestedOnce'
  BY DEF TypeOK, TableInv, GroupInv, HandlerInv, CarrierInv, IngestedOnce
<1>6. PendingIsCarried'
  BY DEF TypeOK, TableInv, GroupInv, HandlerInv, PendingIsCarried, IngestedOnce
<1>7. AcknowledgedIsKept'
  BY DEF TypeOK, GroupInv, HandlerInv, AcknowledgedIsKept
<1> QED
  BY <1>1, <1>2, <1>3, <1>4, <1>5, <1>6, <1>7

\* A confirmation keeps the invariant: the confirmed event had no other carrier.
LEMMA ConfirmInv ==
  ASSUME IInv, NEW a \in Attempts, Confirm(a)
  PROVE IInv'
<1> USE DEF IInv, Confirm
<1>1. TypeOK' /\ ShutInv' /\ AcceptedIsCollected' /\ NoHandlerAtDelete'
  BY DEF TypeOK, ShutInv, AcceptedIsCollected, NoHandlerAtDelete, HandlerInv
<1>2. TableInv' /\ GroupInv'
  BY DEF TypeOK, TableInv, GroupInv, HandlerInv
<1>3. HandlerInv'
  BY DEF TypeOK, TableInv, GroupInv, HandlerInv, AcknowledgedIsKept
<1>4. CarrierInv'
  <2> SUFFICES ASSUME NEW b \in Attempts, Carries(b)', EventOf[b] \notin dropped
               PROVE  \/ EventOf[b] \in pending'
                      \/ inFlight[EventOf[b]] = b
                      \/ b \in registered /\ groupStatus # "SUCCESS"
    BY DEF CarrierInv
  <2>1. Carries(b) /\ b # a
    BY DEF TypeOK, HandlerInv
  <2>2. EventOf[b] # EventOf[a]
    BY <2>1 DEF TypeOK, IngestedOnce
  <2> QED
    BY <2>1, <2>2 DEF CarrierInv
<1>5. IngestedOnce'
  BY DEF TypeOK, TableInv, GroupInv, HandlerInv, CarrierInv, IngestedOnce
<1>6. PendingIsCarried'
  BY DEF TypeOK, TableInv, GroupInv, HandlerInv, PendingIsCarried, IngestedOnce
<1>7. AcknowledgedIsKept'
  BY DEF TypeOK, GroupInv, HandlerInv, AcknowledgedIsKept
<1> QED
  BY <1>1, <1>2, <1>3, <1>4, <1>5, <1>6, <1>7

\* The steps of the shutdown keep the invariant.
LEMMA ShutdownInv ==
  ASSUME IInv, Shutdown
  PROVE IInv'
<1> USE DEF IInv, Shutdown, CloseGate, GateClosed, ShutdownDataCollection, StopWal, WalStopped, HandlersQuiet, DeleteService, Active
<1>0. TypeOK'
  BY DEF TypeOK
<1>1. ShutInv' /\ AcceptedIsCollected'
  BY DEF TypeOK, ShutInv, AcceptedIsCollected, HandlerInv
<1>8. NoHandlerAtDelete'
  BY DEF TypeOK, NoHandlerAtDelete
<1>2. TableInv' /\ GroupInv'
  BY DEF TypeOK, TableInv, GroupInv, HandlerInv
<1>3. HandlerInv'
  BY DEF TypeOK, TableInv, GroupInv, HandlerInv, AcknowledgedIsKept
<1>4. CarrierInv'
  BY DEF TypeOK, TableInv, GroupInv, HandlerInv, CarrierInv, IngestedOnce
<1>5. IngestedOnce'
  BY DEF TypeOK, TableInv, GroupInv, HandlerInv, CarrierInv, IngestedOnce
<1>6. PendingIsCarried'
  BY DEF TypeOK, TableInv, GroupInv, HandlerInv, PendingIsCarried, IngestedOnce
<1>7. AcknowledgedIsKept'
  BY DEF TypeOK, GroupInv, HandlerInv, AcknowledgedIsKept
<1> QED
  BY <1>0, <1>8, <1>1, <1>2, <1>3, <1>4, <1>5, <1>6, <1>7

\* Every step keeps the invariant.
LEMMA NextInv == IInv /\ [Next]_vars => IInv'
<1> SUFFICES ASSUME IInv, [Next]_vars PROVE IInv'
  OBVIOUS
<1>1. CASE \E a \in Attempts : Arrive(a) \/ Handler(a) \/ Collect(a) \/ Confirm(a)
  <2>1. PICK a \in Attempts : Arrive(a) \/ Handler(a) \/ Collect(a) \/ Confirm(a)
    BY <1>1
  <2>2. CASE Handler(a)
    <3>1. TypeOK
      BY DEF IInv
    <3> QED
      BY <2>2, <3>1, MovesOnly, MovesInv, EnqueueInv, EnterInv, RecordEventInv, WokenInv,
         IngestDurableInv DEF Handler
  <2> QED
    BY <2>1, <2>2, ArriveInv, CollectInv, ConfirmInv
<1>2. CASE Committer
  BY <1>2, TakeGroupInv, EndGroupInv, RegisterInv, AnswerGroupInv DEF Committer
<1>3. CASE DropStory \/ Shutdown
  BY <1>3, DropStoryInv, ShutdownInv
<1>4. CASE UNCHANGED vars
  BY <1>4 DEF vars, IInv, TypeOK, TableInv, GroupInv, HandlerInv, CarrierInv, ShutInv, IngestedOnce,
     PendingIsCarried, AcknowledgedIsKept, AcceptedIsCollected, NoHandlerAtDelete
<1> QED
  BY <1>1, <1>2, <1>3, <1>4 DEF Next

\* The invariant holds of every behaviour.
LEMMA Inductive == Spec => []IInv
<1> QED
  BY InitInv, NextInv, PTL DEF Spec

\* Whatever attempts run, every variable keeps its type and a handler has an
\* answer exactly when it is done.
THEOREM TypeCorrect == Spec => []TypeOK
  BY Inductive, PTL DEF IInv

\* However many retries of however many events run, no event has two carriers:
\* what KeeperDurableWriter::write needs so that copies are not shipped twice.
THEOREM AtMostOneCarrier == Spec => []IngestedOnce
  BY Inductive, PTL DEF IInv

\* Every event the WAL keeps will be ingested by an attempt or already was.
THEOREM EveryPendingCarried == Spec => []PendingIsCarried
  BY Inductive, PTL DEF IInv

\* A durable answer is kept until confirmation or destroy, through shutdown.
THEOREM DurableAnswerKept == Spec => []AcknowledgedIsKept
  BY Inductive, PTL DEF IInv

\* The gate's promise: what it let in is collected before collection stops.
THEOREM GateCollects == Spec => []AcceptedIsCollected
  BY Inductive, PTL DEF IInv

\* After a quiet wait no handler past the gate meets the deleted service.
THEOREM QuietDelete == Spec => []NoHandlerAtDelete
  BY Inductive, PTL DEF IInv

\* appendDurable refuses no attempt whose event is in flight or pending, at
\* either of its look-ups.
THEOREM AppendNeverRefuses == Spec => AppendHonoursFirst
<1> DEFINE Honours == \A a \in Attempts :
              /\ pc[a] \in {"append", "enqueue"} /\ pc'[a] = "done" /\ answer'[a] # "SUCCESS"
              => inFlight[EventOf[a]] = NoAttempt /\ EventOf[a] \notin pending
<1>1. ASSUME TypeOK, [Next]_vars PROVE [Honours]_vars
  <2> SUFFICES ASSUME NEW a \in Attempts, pc[a] \in {"append", "enqueue"}, pc'[a] = "done",
                      answer'[a] # "SUCCESS", Next
               PROVE  inFlight[EventOf[a]] = NoAttempt /\ EventOf[a] \notin pending
    BY <1>1 DEF vars
  <2>1. AppendDurable(a) \/ Enqueue(a)
    BY <1>1 DEF TypeOK, Next, Arrive, Handler, Committer, Shutdown, Enter, RecordEvent, DurableGate,
       LookupDurable, AnsweredByFirst, Admit, CheckCap, EnsurePipeline, AppendDurable, Settled,
       Encode, Enqueue, Woken, IngestDurable, TakeGroup, EndGroup, Register, AnswerGroup, DropStory,
       Collect, Confirm, CloseGate, GateClosed, ShutdownDataCollection, StopWal, WalStopped,
       HandlersQuiet, DeleteService
  <2> QED
    BY <1>1, <2>1 DEF TypeOK, AppendDurable, Enqueue, Settled, AnsweredByFirst, NotFound
<1> QED
  BY <1>1, TypeCorrect, PTL DEF Spec, AppendHonoursFirst

=============================================================================
