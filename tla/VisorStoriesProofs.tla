------------------------- MODULE VisorStoriesProofs -------------------------
(***************************************************************************)
(* Proofs about VisorStories, for any number of clients, stories, groups,  *)
(* keepers and restarts: no held story is removed from the directory;      *)
(* between requests no story is listed or recorded that nobody holds; and, *)
(* while requests did not overlap and no RPC failed, a held one is.        *)
(*                                                                         *)
(* The second rests on what each request owes.  ListedInv: an entry of a   *)
(* story nobody holds has a request that is to erase it.  RecordedInv: a   *)
(* pipeline of a registered keeper has an entry, or a request that is to   *)
(* stop it, or the registration that started it and is to look again.      *)
(*                                                                         *)
(* The third rests on what an entry promises.  HeldInv: each registered    *)
(* keeper of the group an entry names records the story, or its            *)
(* registration or the acquire that made the entry is still to start it.   *)
(***************************************************************************)
EXTENDS VisorStories, FiniteSetTheorems, WellFoundedInduction, NaturalsInduction, TLAPS

Request == [op : Ops, at : Places, subject : Stories \cup Chronicles \cup {None},
            todo : SUBSET Stories, stops : SUBSET Stories, story : Stories \cup {None},
            group : Groups \cup {None}, targets : SUBSET Keepers, started : BOOLEAN]
Registration == [at : {"none", "check", "start", "recheck", "stop"}, todo : SUBSET Stories,
                 story : Stories \cup {None}]

\* Where an acquire stands before it stops anything, where it has chosen a
\* group, and where a request is told to stop keepers
AcquirePlaces == {"choose", "startGrapher", "listKeepers", "startKeepers", "startPlayer", "forget", "rollback"}
GroupPlaces == {"startGrapher", "listKeepers", "startKeepers", "startPlayer", "forget"}
StartPlaces == {"startGrapher", "listKeepers", "startKeepers"}
StopPlaces == {"copyKeepers", "stopKeepers"}

TypeInv ==
  /\ acquirers \in [Stories -> SUBSET Clients] /\ count \in [Stories -> Int]
  /\ activeStories \in [Stories -> Groups \cup {None}]
  /\ request \in [Clients -> Request]

\* What the record r of a request of client c says of the acquirers acq
RequestOK(c, r, acq) ==
  /\ r.op = "none" \/ r.at = "idle" => r = NoRequest
  /\ r.op = "acquire" => r.story \in Stories /\ r.todo = {} /\ r.stops = {}
  /\ r.op = "acquire" => r.at \in AcquirePlaces \cup StopPlaces
  /\ r.op = "acquire" => c \in acq[r.story]
  /\ r.at \in AcquirePlaces => r.op = "acquire"
  /\ r.at \in StopPlaces => r.story \in Stories
  /\ r.at \in GroupPlaces => r.group \in Groups
  /\ r.at = "startKeepers" => \A k \in r.targets : GroupOf[k] = r.group
  /\ \A s \in r.todo : c \in acq[s]
  /\ r.at = "remove" \/ r.at = "broadcast" => r.stops = {}
  /\ r.op # "disconnect" /\ r.at # "erase" => r.stops = {}
  /\ r.op # "disconnect" /\ r.at = "erase" => \E s \in Stories : r.stops = {s}

RequestInv == \A c \in Clients : RequestOK(c, request[c], acquirers)

CountInv == \A s \in Stories : count[s] = Cardinality(acquirers[s])

AloneInv ==
  ~overlap => /\ rolledBack = {}
              /\ \A c, d \in Clients : request[c] # NoRequest /\ request[d] # NoRequest => c = d

ListedInv ==
  \A s \in Stories : activeStories[s] # None =>
    acquirers[s] # {} \/ s \in astray \cup rolledBack \/ \E c \in Clients : s \in request[c].stops

RollBackInv ==
  ~overlap => \A c \in Clients : LET r == request[c] IN r.op = "acquire" =>
    \/ activeStories[r.story] = None \/ r.story \in astray
    \/ \E d \in Clients : d # c /\ d \in acquirers[r.story]
    \/ r.at \in GroupPlaces /\ activeStories[r.story] = r.group

DirectoryInv == TypeInv /\ RequestInv /\ CountInv /\ AloneInv /\ ListedInv /\ RollBackInv

KeeperTypeInv ==
  /\ adminClient \in [Keepers -> 0 .. MaxStarts] /\ starts \in [Keepers -> 1 .. MaxStarts]
  /\ process \in [Keepers -> {"down", "booting", "joined", "leaving"}]
  /\ pipelines \in [Keepers -> SUBSET Stories]
  /\ registration \in [Keepers -> [1 .. MaxStarts -> Registration]]

KeeperInv ==
  \A k \in Keepers :
    /\ process[k] = "joined" => adminClient[k] = starts[k]
    /\ process[k] = "down" => pipelines[k] = {}
    /\ process[k] = "booting" => pipelines[k] \subseteq astray
    /\ \A n \in 1 .. MaxStarts :
         /\ registration[k][n].at \in {"start", "recheck", "stop"} => registration[k][n].story \in Stories
         /\ registration[k][n].at \in {"start", "stop"} /\ process[k] = "joined" => n = adminClient[k]

StartInv ==
  \A c \in Clients : LET r == request[c] IN
    r.at \in StartPlaces => activeStories[r.story] = r.group \/ r.story \in undone

\* request c is to stop story s on keeper k; so is the registration of k
StopDue(c, k, s) == request[c].at \in StopPlaces /\ request[c].story = s /\ k \in request[c].targets
LookDue(k, s) ==
  LET r == registration[k][adminClient[k]] IN r.at \in {"recheck", "stop"} /\ r.story = s

RecordedInv ==
  \A k \in Keepers, s \in Stories : process[k] = "joined" /\ s \in pipelines[k] =>
    \/ s \in astray \cup undone \/ activeStories[s] = GroupOf[k]
    \/ \E c \in Clients : StopDue(c, k, s)
    \/ LookDue(k, s)

PipelineInv == KeeperTypeInv /\ KeeperInv /\ StartInv /\ RecordedInv

-----------------------------------------------------------------------------
(* The record of a request                                                 *)

\* No request is under way: the fields of its record.
LEMMA IdleFields ==
  /\ NoRequest \in Request
  /\ NoRequest.op = "none" /\ NoRequest.at = "idle" /\ NoRequest.subject = None
  /\ NoRequest.todo = {} /\ NoRequest.stops = {} /\ NoRequest.story = None
  /\ NoRequest.group = None /\ NoRequest.targets = {} /\ NoRequest.started = FALSE
BY DEF NoRequest, Request, Ops, Places

\* The request moves to place p and nothing else of its record changes.
LEMMA AtFields ==
  ASSUME NEW r \in Request, NEW p \in Places, NEW q, q = [r EXCEPT !.at = p]
  PROVE  /\ q \in Request
         /\ q.op = r.op /\ q.at = p /\ q.subject = r.subject /\ q.todo = r.todo /\ q.stops = r.stops
         /\ q.story = r.story /\ q.group = r.group /\ q.targets = r.targets /\ q.started = r.started
BY DEF Request

\* The request moves on with other stories to release and to stop.
LEMMA TodoFields ==
  ASSUME NEW r \in Request, NEW todo \in SUBSET Stories, NEW stops \in SUBSET Stories,
         NEW q, q = [r EXCEPT !.todo = todo, !.stops = stops]
  PROVE  /\ q \in Request
         /\ q.op = r.op /\ q.at = r.at /\ q.subject = r.subject /\ q.todo = todo /\ q.stops = stops
         /\ q.story = r.story /\ q.group = r.group /\ q.targets = r.targets /\ q.started = r.started
BY DEF Request

\* The request is to stop a story of group g on the keepers ks.
LEMMA StopFields ==
  ASSUME NEW r \in Request, NEW p \in Places, NEW s \in Stories \cup {None}, NEW g \in Groups \cup {None},
         NEW ks \in SUBSET Keepers,
         NEW q, q = [r EXCEPT !.at = p, !.story = s, !.group = g, !.targets = ks]
  PROVE  /\ q \in Request
         /\ q.op = r.op /\ q.at = p /\ q.subject = r.subject /\ q.todo = r.todo /\ q.stops = r.stops
         /\ q.story = s /\ q.group = g /\ q.targets = ks /\ q.started = r.started
BY DEF Request

\* The keepers still to be told change.
LEMMA TargetsFields ==
  ASSUME NEW r \in Request, NEW ks \in SUBSET Keepers, NEW q, q = [r EXCEPT !.targets = ks]
  PROVE  /\ q \in Request
         /\ q.op = r.op /\ q.at = r.at /\ q.subject = r.subject /\ q.todo = r.todo /\ q.stops = r.stops
         /\ q.story = r.story /\ q.group = r.group /\ q.targets = ks /\ q.started = r.started
BY DEF Request

\* The places a request passes through have these names and no other.
LEMMA PlaceFacts ==
  /\ AcquirePlaces \subseteq Places /\ GroupPlaces \subseteq AcquirePlaces /\ StartPlaces \subseteq GroupPlaces
  /\ StopPlaces \subseteq Places /\ AcquirePlaces \cap StopPlaces = {}
  /\ \A p \in AcquirePlaces \cup StopPlaces : p \notin {"idle", "remove", "broadcast", "erase", "release"}
  /\ {"idle", "remove", "broadcast", "erase", "release", "rollback", "choose"} \subseteq Places
  /\ {"idle", "remove", "broadcast", "erase", "release", "rollback", "choose"} \cap (GroupPlaces \cup StopPlaces) = {}
BY DEF AcquirePlaces, GroupPlaces, StartPlaces, StopPlaces, Places

\* What AfterStop makes of a request: it owes the stops that it owed.
LEMMA AfterStopFields ==
  ASSUME NEW c \in Clients, NEW acq, NEW r \in Request, NEW q, q = AfterStop(r),
         r.op # "none",
         r.op = "acquire" => r.story \in Stories /\ r.todo = {} /\ c \in acq[r.story],
         r.op # "disconnect" => r.stops = {},
         \A s \in r.todo : c \in acq[s]
  PROVE  /\ q \in Request /\ RequestOK(c, q, acq) /\ q.stops = r.stops
         /\ q.at \notin GroupPlaces \cup StopPlaces
         /\ q.op = "acquire" => r.op = "acquire" /\ q.story = r.story
<1> USE PlaceFacts
<1>1. CASE r.op = "acquire"
  <2> DEFINE a == [r EXCEPT !.at = "rollback"]
  <2>1. q = [a EXCEPT !.targets = {}]
    BY <1>1 DEF AfterStop, Request
  <2>2. /\ a \in Request
        /\ a.op = r.op /\ a.at = "rollback" /\ a.todo = r.todo /\ a.stops = r.stops /\ a.story = r.story
    BY AtFields
  <2> HIDE DEF a
  <2>3. /\ q \in Request
        /\ q.op = r.op /\ q.at = "rollback" /\ q.todo = r.todo /\ q.stops = r.stops /\ q.story = r.story
    BY <2>1, <2>2, TargetsFields
  <2> QED BY <1>1, <2>3 DEF RequestOK, AcquirePlaces, GroupPlaces
<1>2. CASE r.op = "release"
  <2>1. q = NoRequest
    BY <1>2 DEF AfterStop
  <2> QED BY <1>2, <2>1, IdleFields DEF RequestOK
<1>3. CASE r.op \notin {"acquire", "release"}
  <2> DEFINE p == IF r.op = "disconnect" THEN IF r.stops # {} THEN "erase" ELSE "remove"
                  ELSE IF r.todo # {} THEN "release" ELSE "remove"
             b == [r EXCEPT !.story = None, !.group = None, !.targets = {}]
  <2>1. q = [b EXCEPT !.at = p]
    BY <1>3 DEF AfterStop
  <2>2. /\ b \in Request
        /\ b.op = r.op /\ b.todo = r.todo /\ b.stops = r.stops
    BY DEF Request
  <2>3. /\ p \in Places
        /\ p = "erase" => r.op = "disconnect" /\ r.stops # {}
        /\ p = "remove" => r.stops = {}
        /\ p \notin AcquirePlaces \cup StopPlaces /\ p \notin {"idle", "broadcast", "startKeepers"}
    BY <1>3 DEF AcquirePlaces, StopPlaces
  <2> HIDE DEF b, p
  <2>4. /\ q \in Request
        /\ q.op = r.op /\ q.at = p /\ q.todo = r.todo /\ q.stops = r.stops
    BY <2>1, <2>2, <2>3, AtFields
  <2> QED BY <1>3, <2>3, <2>4 DEF RequestOK
<1> QED BY <1>1, <1>2, <1>3

-----------------------------------------------------------------------------
(* What every step of a client keeps                                       *)

\* The request of client c becomes q: those of the others stay.
LEMMA OtherRequests ==
  ASSUME TypeInv, NEW c \in Clients, NEW q \in Request, request' = [request EXCEPT ![c] = q]
  PROVE  /\ request' \in [Clients -> Request] /\ request'[c] = q
         /\ \A d \in Clients : d # c => request'[d] = request[d]
BY DEF TypeInv

\* A step of client c keeps what is known of the directory and the registry's
\* entries: if it releases a story for the last time or drops a stop it owes,
\* the entry is gone, the stop is owed now, or the history excuses the story.
LEMMA DirectoryStep ==
  ASSUME DirectoryInv, NEW c \in Clients, NEW q \in Request, request' = [request EXCEPT ![c] = q],
         acquirers' \in [Stories -> SUBSET Clients], count' \in [Stories -> Int],
         activeStories' \in [Stories -> Groups \cup {None}], CountInv',
         astray \subseteq astray', rolledBack \subseteq rolledBack',
         overlap => overlap', ~overlap' => rolledBack' = {},
         ~overlap' => \A d \in Clients : d # c => request[d] = NoRequest,
         RequestOK(c, q, acquirers'),
         \A s \in Stories, d \in Clients : d # c /\ d \in acquirers[s] => d \in acquirers'[s],
         \A s \in Stories : activeStories'[s] # None =>
           \/ acquirers'[s] # {} \/ s \in astray' \cup rolledBack' \/ s \in q.stops
           \/ activeStories[s] # None /\ acquirers[s] = {} /\ s \notin request[c].stops,
         ~overlap' /\ q.op = "acquire" =>
           \/ activeStories'[q.story] = None \/ q.story \in astray'
           \/ \E d \in Clients : d # c /\ d \in acquirers'[q.story]
           \/ q.at \in GroupPlaces /\ activeStories'[q.story] = q.group
  PROVE  DirectoryInv'
<1>1. /\ request' \in [Clients -> Request] /\ request'[c] = q
      /\ \A d \in Clients : d # c => request'[d] = request[d]
  BY OtherRequests DEF DirectoryInv
<1>2. TypeInv'
  BY <1>1 DEF TypeInv
<1>3. RequestInv'
  <2> SUFFICES ASSUME NEW d \in Clients
               PROVE  RequestOK(d, request'[d], acquirers')
    BY DEF RequestInv
  <2>1. CASE d = c
    BY <1>1, <2>1
  <2>2. CASE d # c
    <3> DEFINE r == request[d]
    <3>1. request'[d] = r /\ RequestOK(d, r, acquirers) /\ r \in Request
      BY <1>1, <2>2 DEF DirectoryInv, TypeInv, RequestInv
    <3>2. \A s \in Stories : d \in acquirers[s] => d \in acquirers'[s]
      BY <2>2
    <3>3. r.todo \subseteq Stories
      BY <3>1 DEF Request
    <3> HIDE DEF r
    <3> QED BY <3>1, <3>2, <3>3 DEF RequestOK
  <2> QED BY <2>1, <2>2
<1>4. AloneInv'
  <2> SUFFICES ASSUME ~overlap', NEW d \in Clients, NEW e \in Clients,
                      request'[d] # NoRequest, request'[e] # NoRequest
               PROVE  d = e
    BY DEF AloneInv
  <2> QED BY <1>1
<1>5. ListedInv'
  <2> SUFFICES ASSUME NEW s \in Stories, activeStories'[s] # None, acquirers'[s] = {},
                      s \notin astray' \cup rolledBack', s \notin q.stops
               PROVE  \E d \in Clients : s \in request'[d].stops
    BY <1>1 DEF ListedInv
  <2>1. activeStories[s] # None /\ acquirers[s] = {} /\ s \notin request[c].stops
    OBVIOUS
  <2>2. PICK d \in Clients : s \in request[d].stops
    BY <2>1 DEF DirectoryInv, ListedInv
  <2> QED BY <1>1, <2>1, <2>2
<1>6. RollBackInv'
  <2> SUFFICES ASSUME ~overlap', NEW d \in Clients, request'[d].op = "acquire"
               PROVE  \/ activeStories'[request'[d].story] = None \/ request'[d].story \in astray'
                      \/ \E e \in Clients : e # d /\ e \in acquirers'[request'[d].story]
                      \/ request'[d].at \in GroupPlaces
                         /\ activeStories'[request'[d].story] = request'[d].group
    BY DEF RollBackInv
  <2>1. CASE d = c
    BY <1>1, <2>1
  <2>2. CASE d # c
    BY <1>1, <2>2, IdleFields
  <2> QED BY <2>1, <2>2
<1> QED BY <1>2, <1>3, <1>4, <1>5, <1>6 DEF DirectoryInv

\* A step of client c keeps what is known of the pipelines: if it erases an
\* entry or drops a stop it owes, the keeper's stop is owed now, the pipeline is
\* gone, or the history excuses the story.
LEMMA PipelineStep ==
  ASSUME TypeInv, PipelineInv, NEW c \in Clients, NEW q \in Request, request' = [request EXCEPT ![c] = q],
         UNCHANGED <<process, starts, adminClient, registration>>,
         pipelines' \in [Keepers -> SUBSET Stories],
         astray \subseteq astray', undone \subseteq undone',
         \A k \in Keepers : process[k] = "down" => pipelines'[k] = {},
         \A k \in Keepers : process[k] = "booting" => pipelines'[k] \subseteq pipelines[k] \cup astray',
         q.at \in StartPlaces => activeStories'[q.story] = q.group \/ q.story \in undone',
         \A d \in Clients : d # c /\ request[d].at \in StartPlaces =>
           activeStories'[request[d].story] = activeStories[request[d].story] \/ request[d].story \in undone',
         \A k \in Keepers, s \in Stories : process[k] = "joined" /\ s \in pipelines'[k] =>
           \/ s \in astray' \cup undone' \/ activeStories'[s] = GroupOf[k]
           \/ q.at \in StopPlaces /\ q.story = s /\ k \in q.targets
           \/ s \in pipelines[k] /\ activeStories[s] # GroupOf[k] /\ ~StopDue(c, k, s)
  PROVE  PipelineInv'
<1>1. /\ request' \in [Clients -> Request] /\ request'[c] = q
      /\ \A d \in Clients : d # c => request'[d] = request[d]
  BY OtherRequests
<1>2. KeeperTypeInv'
  BY DEF PipelineInv, KeeperTypeInv
<1>3. KeeperInv'
  BY DEF PipelineInv, KeeperInv
<1>4. StartInv'
  <2> SUFFICES ASSUME NEW d \in Clients, request'[d].at \in StartPlaces
               PROVE  activeStories'[request'[d].story] = request'[d].group \/ request'[d].story \in undone'
    BY DEF StartInv
  <2>1. CASE d = c
    BY <1>1, <2>1
  <2>2. CASE d # c
    BY <1>1, <2>2 DEF PipelineInv, StartInv
  <2> QED BY <2>1, <2>2
<1>5. RecordedInv'
  <2> SUFFICES ASSUME NEW k \in Keepers, NEW s \in Stories, process[k] = "joined", s \in pipelines'[k],
                      s \notin astray' \cup undone', activeStories'[s] # GroupOf[k],
                      \A d \in Clients : ~(StopDue(d, k, s)'), ~(LookDue(k, s)')
               PROVE  FALSE
    BY DEF RecordedInv
  <2>1. ~(q.at \in StopPlaces /\ q.story = s /\ k \in q.targets)
    BY <1>1 DEF StopDue
  <2>2. s \in pipelines[k] /\ activeStories[s] # GroupOf[k] /\ ~StopDue(c, k, s)
    BY <2>1
  <2>3. ~LookDue(k, s)
    BY DEF LookDue
  <2>4. PICK d \in Clients : StopDue(d, k, s)
    BY <2>2, <2>3 DEF PipelineInv, RecordedInv
  <2> QED BY <1>1, <2>2, <2>4 DEF StopDue
<1> QED BY <1>2, <1>3, <1>4, <1>5 DEF PipelineInv

\* What a step that is not a client's keeps: the history may only grow.
LEMMA DirectoryQuiet ==
  ASSUME DirectoryInv, UNCHANGED <<acquirers, count, activeStories, request, rolledBack>>,
         astray \subseteq astray', overlap => overlap'
  PROVE  DirectoryInv'
<1>1. TypeInv' /\ RequestInv' /\ CountInv'
  BY DEF DirectoryInv, TypeInv, RequestInv, CountInv
<1>2. AloneInv'
  BY DEF DirectoryInv, AloneInv
<1>3. ListedInv'
  BY DEF DirectoryInv, ListedInv
<1>4. RollBackInv'
  BY DEF DirectoryInv, RollBackInv
<1> QED BY <1>1, <1>2, <1>3, <1>4 DEF DirectoryInv

Inv == DirectoryInv /\ PipelineInv

\* A request moves on and changes nothing else that the invariant is about.
LEMMA MoveOn ==
  ASSUME Inv, NEW c \in Clients, NEW q \in Request, request' = [request EXCEPT ![c] = q],
         request[c].at # "idle",
         UNCHANGED <<acquirers, activeStories, overlap, rolledBack, undone, process, starts, adminClient,
                     registration, pipelines>>,
         count' \in [Stories -> Int], CountInv', astray \subseteq astray', RequestOK(c, q, acquirers),
         \A s \in request[c].stops : s \in q.stops \/ s \in astray' \/ activeStories[s] = None,
         q.op = "acquire" =>
           /\ request[c].op = "acquire" /\ q.story = request[c].story
           /\ \/ activeStories[q.story] # request[c].group \/ request[c].at \notin GroupPlaces
              \/ q.at \in GroupPlaces /\ q.group = request[c].group,
         q.at \in StartPlaces =>
           request[c].at \in StartPlaces /\ q.story = request[c].story /\ q.group = request[c].group,
         \A k \in Keepers, s \in Stories : process[k] = "joined" /\ StopDue(c, k, s) =>
           s \in astray' \/ (q.at \in StopPlaces /\ q.story = s /\ k \in q.targets)
  PROVE  Inv'
<1>1. request[c] # NoRequest
  BY IdleFields
<1>2. ~overlap => rolledBack = {} /\ \A d \in Clients : d # c => request[d] = NoRequest
  BY <1>1 DEF Inv, DirectoryInv, AloneInv
<1>3. ASSUME NEW s \in Stories, activeStories'[s] # None
      PROVE  \/ acquirers'[s] # {} \/ s \in astray' \cup rolledBack' \/ s \in q.stops
             \/ activeStories[s] # None /\ acquirers[s] = {} /\ s \notin request[c].stops
  BY <1>3
<1>4. ASSUME ~overlap', q.op = "acquire"
      PROVE  \/ activeStories'[q.story] = None \/ q.story \in astray'
             \/ \E d \in Clients : d # c /\ d \in acquirers'[q.story]
             \/ q.at \in GroupPlaces /\ activeStories'[q.story] = q.group
  BY <1>4 DEF Inv, DirectoryInv, RollBackInv
<1>5. DirectoryInv'
  <2>1. DirectoryInv /\ acquirers' \in [Stories -> SUBSET Clients]
        /\ activeStories' \in [Stories -> Groups \cup {None}] /\ RequestOK(c, q, acquirers')
    BY DEF Inv, DirectoryInv, TypeInv
  <2> QED BY <1>2, <1>3, <1>4, <2>1, DirectoryStep
<1>6. PipelineInv'
  <2>1. TypeInv /\ PipelineInv /\ pipelines' \in [Keepers -> SUBSET Stories]
    BY DEF Inv, DirectoryInv, PipelineInv, KeeperTypeInv
  <2>2. q.at \in StartPlaces => activeStories'[q.story] = q.group \/ q.story \in undone'
    BY <2>1 DEF PipelineInv, StartInv
  <2>3. \A k \in Keepers : process[k] = "down" => pipelines'[k] = {}
    BY <2>1 DEF PipelineInv, KeeperInv
  <2>4. ASSUME NEW k \in Keepers, NEW s \in Stories, process[k] = "joined", s \in pipelines'[k]
        PROVE  \/ s \in astray' \cup undone' \/ activeStories'[s] = GroupOf[k]
               \/ q.at \in StopPlaces /\ q.story = s /\ k \in q.targets
               \/ s \in pipelines[k] /\ activeStories[s] # GroupOf[k] /\ ~StopDue(c, k, s)
    BY <2>4
  <2> QED BY <2>1, <2>2, <2>3, <2>4, PipelineStep
<1> QED BY <1>5, <1>6 DEF Inv

\* What is known of the request of a client.
LEMMA RequestFacts ==
  ASSUME Inv, NEW c \in Clients
  PROVE  request[c] \in Request /\ RequestOK(c, request[c], acquirers) /\ CountInv
         /\ count \in [Stories -> Int]
BY DEF Inv, DirectoryInv, TypeInv, RequestInv

-----------------------------------------------------------------------------
(* The steps of a request, one by one                                      *)

\* The request is answered and owes nothing.
LEMMA AnswerInv ==
  ASSUME Inv, NEW c \in Clients, request' = [request EXCEPT ![c] = NoRequest],
         request[c].at # "idle", request[c].at \notin StopPlaces,
         UNCHANGED <<acquirers, activeStories, overlap, rolledBack, undone, process, starts, adminClient,
                     registration, pipelines>>,
         count' \in [Stories -> Int], CountInv', astray \subseteq astray',
         request[c].stops = {}
  PROVE  Inv'
<1> USE PlaceFacts
<1>1. RequestOK(c, NoRequest, acquirers)
  BY IdleFields DEF RequestOK
<1> QED BY <1>1, MoveOn, IdleFields DEF StopDue

\* The request moves to another place and changes nothing else.
LEMMA ToPlaceInv ==
  ASSUME Inv, NEW c \in Clients, NEW p \in Places, request' = [request EXCEPT ![c] = At(c, p)],
         request[c].at # "idle", request[c].at \notin StopPlaces, p \notin StopPlaces, p # "idle",
         UNCHANGED <<acquirers, activeStories, overlap, rolledBack, undone, process, starts, adminClient,
                     registration, pipelines>>,
         count' \in [Stories -> Int], CountInv', astray \subseteq astray',
         RequestOK(c, At(c, p), acquirers),
         p \in StartPlaces => request[c].at \in StartPlaces,
         \/ request[c].op # "acquire" \/ request[c].at \notin GroupPlaces \/ p \in GroupPlaces
  PROVE  Inv'
<1> DEFINE q == At(c, p)
<1>1. /\ q \in Request
      /\ q.op = request[c].op /\ q.at = p /\ q.stops = request[c].stops
      /\ q.story = request[c].story /\ q.group = request[c].group
  BY RequestFacts, AtFields DEF At
<1> HIDE DEF q
<1> QED BY <1>1, MoveOn DEF StopDue, q

\* The end of a disconnect, which leaves the stories alone, keeps the invariant.
LEMMA RemoveClientRecordInv ==
  ASSUME Inv, NEW c \in Clients, RemoveClientRecord(c)
  PROVE  Inv'
<1>1. request[c].stops = {}
  BY RequestFacts DEF RemoveClientRecord, RequestOK
<1>2. /\ request' = [request EXCEPT ![c] = NoRequest] /\ request[c].at = "remove"
      /\ UNCHANGED <<acquirers, count, activeStories, overlap, rolledBack, undone, process, starts, adminClient,
                     registration, pipelines, astray>>
  BY DEF RemoveClientRecord, Proceed, registry, keepers, history
<1>3. CountInv' /\ count' \in [Stories -> Int]
  BY <1>2, RequestFacts DEF CountInv
<1> QED BY <1>1, <1>2, <1>3, AnswerInv, PlaceFacts

\* So does the end of a destroy, which tells the graphers.
LEMMA BroadcastDestroyInv ==
  ASSUME Inv, NEW c \in Clients, BroadcastDestroy(c)
  PROVE  Inv'
<1>1. request[c].stops = {}
  BY RequestFacts DEF BroadcastDestroy, RequestOK
<1>2. /\ request' = [request EXCEPT ![c] = NoRequest] /\ request[c].at = "broadcast"
      /\ UNCHANGED <<acquirers, count, activeStories, overlap, rolledBack, undone, process, starts, adminClient,
                     registration, pipelines, astray>>
  BY DEF BroadcastDestroy, Proceed, registry, keepers, history, meta
<1>3. CountInv' /\ count' \in [Stories -> Int]
  BY <1>2, RequestFacts DEF CountInv
<1> QED BY <1>1, <1>2, <1>3, AnswerInv, PlaceFacts

\* The removal of a story or chronicle is done, or was refused.
LEMMA RemoveInv ==
  ASSUME Inv, NEW c \in Clients, request[c].at = "remove", request[c].op # "acquire",
         \/ request' = [request EXCEPT ![c] = NoRequest]
         \/ request' = [request EXCEPT ![c] = At(c, "broadcast")],
         UNCHANGED <<acquirers, activeStories, overlap, rolledBack, undone, process, starts, adminClient,
                     registration, pipelines, astray>>,
         count' \in [Stories -> Int], CountInv'
  PROVE  Inv'
<1> USE PlaceFacts
<1>1. request[c].stops = {}
  BY RequestFacts DEF RequestOK
<1>2. CASE request' = [request EXCEPT ![c] = NoRequest]
  BY <1>1, <1>2, AnswerInv
<1>3. CASE request' = [request EXCEPT ![c] = At(c, "broadcast")]
  <2> DEFINE q == At(c, "broadcast")
  <2>1. /\ q.op = request[c].op /\ q.at = "broadcast" /\ q.stops = request[c].stops /\ q.todo = request[c].todo
    BY RequestFacts, AtFields DEF At
  <2> HIDE DEF q
  <2>2. RequestOK(c, q, acquirers)
    BY <1>1, <2>1, RequestFacts, IdleFields DEF RequestOK
  <2> QED BY <1>3, <2>2, ToPlaceInv DEF q
<1> QED BY <1>2, <1>3

\* destroy_story, whether it deletes the story or finds it held again.
LEMMA DestroyStoryInv ==
  ASSUME Inv, NEW c \in Clients, destroy_story(c)
  PROVE  Inv'
<1>1. /\ request[c].at = "remove" /\ request[c].op # "acquire"
      /\ \/ request' = [request EXCEPT ![c] = NoRequest]
         \/ request' = [request EXCEPT ![c] = At(c, "broadcast")]
      /\ UNCHANGED <<acquirers, count, activeStories, overlap, rolledBack, undone, process, starts, adminClient,
                     registration, pipelines, astray>>
  BY DEF destroy_story, Proceed, registry, keepers, history
<1>2. CountInv' /\ count' \in [Stories -> Int]
  BY <1>1, RequestFacts DEF CountInv
<1> QED BY <1>1, <1>2, RemoveInv

\* destroy_chronicle: the counts it drops are of stories nobody holds.
LEMMA DestroyChronicleInv ==
  ASSUME Inv, NEW c \in Clients, destroy_chronicle(c)
  PROVE  Inv'
<1> DEFINE ch == request[c].subject
           free == ch \in chronicles /\ \A s \in StoriesIn(ch) : acquirers[s] = {}
<1>1. /\ request[c].at = "remove" /\ request[c].op # "acquire"
      /\ \/ request' = [request EXCEPT ![c] = NoRequest]
         \/ request' = [request EXCEPT ![c] = At(c, "broadcast")]
      /\ UNCHANGED <<acquirers, activeStories, overlap, rolledBack, undone, process, starts, adminClient,
                     registration, pipelines, astray>>
  BY DEF destroy_chronicle, Proceed, registry, keepers, history
<1>2. count' = IF free THEN [s \in Stories |-> IF s \in StoriesIn(ch) THEN 0 ELSE count[s]] ELSE count
  BY DEF destroy_chronicle
<1>3. CountInv /\ count \in [Stories -> Int]
  BY RequestFacts
<1>4. CountInv' /\ count' \in [Stories -> Int]
  BY <1>1, <1>2, <1>3, FS_EmptySet DEF CountInv
<1> QED BY <1>1, <1>4, RemoveInv

\* An acquire that has chosen a group moves on to another place of its start.
LEMMA StartMoveInv ==
  ASSUME Inv, NEW c \in Clients, NEW p \in GroupPlaces, request' = [request EXCEPT ![c] = At(c, p)],
         request[c].at \in GroupPlaces, p # "startKeepers",
         p \in StartPlaces => request[c].at \in StartPlaces,
         UNCHANGED <<acquirers, count, activeStories, overlap, rolledBack, undone, process, starts, adminClient,
                     registration, pipelines, astray>>
  PROVE  Inv'
<1> USE PlaceFacts
<1> DEFINE q == At(c, p)
<1>1. /\ q.op = request[c].op /\ q.at = p /\ q.stops = request[c].stops /\ q.todo = request[c].todo
      /\ q.story = request[c].story /\ q.group = request[c].group
  BY RequestFacts, AtFields DEF At
<1> HIDE DEF q
<1>2. RequestOK(c, q, acquirers)
  BY <1>1, RequestFacts DEF RequestOK
<1>3. CountInv' /\ count' \in [Stories -> Int]
  BY RequestFacts DEF CountInv
<1> QED BY <1>2, <1>3, ToPlaceInv DEF q

\* The grapher is told of the start, or the start is given up.
LEMMA StartGrapherInv ==
  ASSUME Inv, NEW c \in Clients, NEW told \in BOOLEAN, StartGrapher(c, told)
  PROVE  Inv'
<1> DEFINE p == IF told THEN "listKeepers" ELSE "forget"
<1>1. /\ request' = [request EXCEPT ![c] = At(c, p)] /\ request[c].at = "startGrapher"
      /\ UNCHANGED <<acquirers, count, activeStories, overlap, rolledBack, undone, process, starts, adminClient,
                     registration, pipelines, astray>>
  BY DEF StartGrapher, Proceed, registry, keepers, history, meta
<1>2. p \in GroupPlaces /\ p # "startKeepers" /\ request[c].at \in StartPlaces \cap GroupPlaces
  BY <1>1 DEF GroupPlaces, StartPlaces
<1> HIDE DEF p
<1> QED BY <1>1, <1>2, StartMoveInv

\* The player is told, and the acquire is answered or undone.
LEMMA StartPlayerInv ==
  ASSUME Inv, NEW c \in Clients, NEW told \in BOOLEAN, StartPlayer(c, told)
  PROVE  Inv'
<1>1. /\ request[c].at = "startPlayer"
      /\ \/ request' = [request EXCEPT ![c] = NoRequest]
         \/ request' = [request EXCEPT ![c] = At(c, "forget")]
      /\ UNCHANGED <<acquirers, count, activeStories, overlap, rolledBack, undone, process, starts, adminClient,
                     registration, pipelines, astray>>
  BY DEF StartPlayer, Proceed, registry, keepers, history, meta
<1>2. request[c].at \in GroupPlaces /\ "forget" \in GroupPlaces /\ "forget" \notin StartPlaces
      /\ request[c].at \notin StopPlaces /\ request[c].at \in AcquirePlaces /\ request[c].at # "idle"
  BY <1>1 DEF GroupPlaces, StartPlaces, StopPlaces, AcquirePlaces
<1>3. CountInv' /\ count' \in [Stories -> Int] /\ request[c].stops = {}
  BY <1>1, <1>2, RequestFacts DEF CountInv, RequestOK
<1>4. CASE request' = [request EXCEPT ![c] = NoRequest]
  BY <1>1, <1>2, <1>3, <1>4, AnswerInv
<1>5. CASE request' = [request EXCEPT ![c] = At(c, "forget")]
  BY <1>1, <1>2, <1>5, StartMoveInv
<1> QED BY <1>1, <1>4, <1>5

\* The keepers to start are listed; each is of the chosen group.
LEMMA ListKeepersInv ==
  ASSUME Inv, NEW c \in Clients, ListKeepers(c)
  PROVE  Inv'
<1> DEFINE listed == getActiveKeepers(request[c].group)
           a == At(c, "startKeepers")
           q == [a EXCEPT !.targets = listed]
<1>1. /\ request[c].at = "listKeepers"
      /\ request' = [request EXCEPT ![c] = q] \/ request' = [request EXCEPT ![c] = At(c, "forget")]
      /\ UNCHANGED <<acquirers, count, activeStories, overlap, rolledBack, undone, process, starts, adminClient,
                     registration, pipelines, astray>>
  BY DEF ListKeepers, Proceed, registry, keepers, history, meta
<1>2. request[c].at \in GroupPlaces /\ "forget" \in GroupPlaces /\ "forget" \notin StartPlaces
      /\ request[c].at \notin StopPlaces /\ request[c].at \in AcquirePlaces /\ request[c].at # "idle"
      /\ request[c].at \in StartPlaces /\ "startKeepers" \in StartPlaces \cap GroupPlaces \cap AcquirePlaces \cap Places
      /\ "startKeepers" \notin {"idle", "remove", "broadcast", "erase"} \cup StopPlaces
  BY <1>1 DEF GroupPlaces, StartPlaces, StopPlaces, AcquirePlaces, Places
<1>3. CASE request' = [request EXCEPT ![c] = At(c, "forget")]
  BY <1>1, <1>2, <1>3, StartMoveInv
<1>4. CASE request' = [request EXCEPT ![c] = q]
  <2>1. listed \in SUBSET Keepers /\ \A k \in listed : GroupOf[k] = request[c].group
    BY DEF getActiveKeepers
  <2>2. /\ a \in Request
        /\ a.op = request[c].op /\ a.at = "startKeepers" /\ a.stops = request[c].stops
        /\ a.todo = request[c].todo /\ a.story = request[c].story /\ a.group = request[c].group
    BY <1>2, RequestFacts, AtFields DEF At
  <2> HIDE DEF a, listed
  <2>3. /\ q \in Request
        /\ q.op = request[c].op /\ q.at = "startKeepers" /\ q.stops = request[c].stops
        /\ q.todo = request[c].todo /\ q.story = request[c].story /\ q.group = request[c].group
        /\ q.targets = listed
    BY <2>1, <2>2, TargetsFields
  <2> HIDE DEF q
  <2>4. RequestOK(c, q, acquirers)
    BY <1>2, <2>1, <2>3, RequestFacts DEF RequestOK
  <2>5. CountInv' /\ count' \in [Stories -> Int]
    BY <1>1, RequestFacts DEF CountInv
  <2> QED BY <1>1, <1>2, <1>4, <2>3, <2>4, <2>5, MoveOn DEF StopDue
<1> QED BY <1>1, <1>3, <1>4

-----------------------------------------------------------------------------
(* The choice of a group                                                   *)

\* group o comes before group g in the order of select_recording_group
Before(s, o, g) == Weight[s][o] > Weight[s][g] \/ (Weight[s][o] = Weight[s][g] /\ o < g)

\* The order select_recording_group looks for is total and transitive.
LEMMA BeforeOrders ==
  ASSUME NEW s \in Stories, NEW f \in Groups, NEW g \in Groups, NEW h \in Groups
  PROVE  /\ ~Before(s, g, g)
         /\ Before(s, f, g) /\ Before(s, g, h) => Before(s, f, h)
         /\ f # g => Before(s, f, g) \/ Before(s, g, f)
<1>1. f \in Nat /\ g \in Nat /\ h \in Nat
      /\ Weight[s][f] \in Nat /\ Weight[s][g] \in Nat /\ Weight[s][h] \in Nat
  BY VisorAssumption
<1> QED BY <1>1 DEF Before

\* Of a set of groups that is not empty, select_recording_group takes one.
LEMMA GroupChosen ==
  ASSUME NEW s \in Stories, NEW G \in SUBSET Groups, G # {}
  PROVE  select_recording_group(s, G) \in G
<1> DEFINE First(g) == {o \in G : Before(s, o, g)}
           counts == {Cardinality(First(g)) : g \in G}
<1>1. \A g \in G : IsFiniteSet(First(g)) /\ Cardinality(First(g)) \in Nat
  BY VisorAssumption, FS_Subset, FS_CardinalityType
<1>2. PICK n \in counts : \A i \in counts : ~(<<i, n>> \in OpToRel(<, Nat))
  <2> HIDE DEF First
  <2>1. counts \subseteq Nat /\ counts # {}
    BY <1>1
  <2> HIDE DEF counts
  <2> QED BY <2>1, WFMin, NatLessThanWellFounded
<1>3. PICK g \in G : n = Cardinality(First(g))
  OBVIOUS
<1>4. ASSUME NEW o \in G, Before(s, o, g) PROVE FALSE
  <2>1. First(o) \subseteq First(g) /\ o \in First(g) /\ o \notin First(o)
    BY <1>4, BeforeOrders
  <2>2. Cardinality(First(o)) < Cardinality(First(g))
    <3> HIDE DEF First
    <3> QED BY <1>1, <2>1, FS_Subset
  <2>3. <<Cardinality(First(o)), n>> \in OpToRel(<, Nat)
    <3> HIDE DEF First
    <3> QED BY <1>1, <1>3, <2>2 DEF OpToRel
  <2> QED BY <1>2, <2>3
<1>5. \A o \in G \ {g} : Before(s, g, o)
  BY <1>4, BeforeOrders
<1> QED BY <1>5 DEF select_recording_group, Before

\* The acquire lists its story for a group, finds it listed, or gives up.
LEMMA ChooseGroupInv ==
  ASSUME Inv, NEW c \in Clients, ChooseGroup(c)
  PROVE  Inv'
<1> USE PlaceFacts
<1> DEFINE s == request[c].story
           able == {g \in Groups : isActive(g)}
           g == select_recording_group(s, able)
           a == At(c, "startGrapher")
           q == [a EXCEPT !.group = g]
<1>1. /\ request[c].at = "choose"
      /\ UNCHANGED <<acquirers, count, overlap, rolledBack, undone, process, starts, adminClient, registration,
                     pipelines>>
      /\ astray \subseteq astray'
      /\ \/ request' = [request EXCEPT ![c] = NoRequest] /\ UNCHANGED activeStories
         \/ request' = [request EXCEPT ![c] = At(c, "rollback")] /\ UNCHANGED activeStories
         \/ /\ request' = [request EXCEPT ![c] = q] /\ able # {} /\ activeStories[s] = None
            /\ activeStories' = [activeStories EXCEPT ![s] = g]
  BY DEF ChooseGroup, Proceed, registry, keepers, meta
<1>2. /\ request[c] \in Request /\ request[c].op = "acquire" /\ s \in Stories /\ request[c].stops = {}
      /\ request[c].todo = {} /\ c \in acquirers[s]
      /\ "choose" \in AcquirePlaces /\ "choose" \notin GroupPlaces \cup StopPlaces
      /\ "rollback" \in AcquirePlaces /\ "rollback" \notin GroupPlaces \cup StopPlaces
      /\ "startGrapher" \in StartPlaces /\ "startGrapher" # "startKeepers"
  BY <1>1, RequestFacts DEF RequestOK, AcquirePlaces, GroupPlaces, StartPlaces, StopPlaces
<1>3. CountInv' /\ count' \in [Stories -> Int]
  BY <1>1, RequestFacts DEF CountInv
<1>4. CASE request' = [request EXCEPT ![c] = NoRequest] /\ UNCHANGED activeStories
  BY <1>1, <1>2, <1>3, <1>4, AnswerInv
<1>5. CASE request' = [request EXCEPT ![c] = At(c, "rollback")] /\ UNCHANGED activeStories
  <2> DEFINE b == At(c, "rollback")
  <2>1. /\ b.op = request[c].op /\ b.at = "rollback" /\ b.stops = {} /\ b.todo = {} /\ b.story = s
    BY <1>2, AtFields DEF At
  <2> HIDE DEF b
  <2>2. RequestOK(c, b, acquirers)
    BY <1>2, <2>1, IdleFields DEF RequestOK
  <2> QED BY <1>1, <1>2, <1>3, <1>5, <2>2, ToPlaceInv DEF b
<1>6. CASE /\ request' = [request EXCEPT ![c] = q] /\ able # {} /\ activeStories[s] = None
           /\ activeStories' = [activeStories EXCEPT ![s] = g]
  <2>1. g \in Groups /\ g # None
    <3>1. able \in SUBSET Groups /\ able # {} /\ s \in Stories
      BY <1>2, <1>6
    <3> HIDE DEF able, s
    <3>2. g \in able
      BY <3>1, GroupChosen
    <3> QED BY <3>1, <3>2, VisorAssumption
  <2>2. /\ a \in Request
        /\ a.op = "acquire" /\ a.at = "startGrapher" /\ a.stops = {} /\ a.todo = {} /\ a.story = s
    BY <1>2, AtFields DEF At
  <2> HIDE DEF a, g
  <2>3. /\ q \in Request
        /\ q.op = "acquire" /\ q.at = "startGrapher" /\ q.stops = {} /\ q.todo = {} /\ q.story = s
        /\ q.group = g
    BY <2>1, <2>2 DEF Request
  <2> HIDE DEF q, s
  <2>4. RequestOK(c, q, acquirers')
    BY <1>1, <1>2, <2>1, <2>3 DEF RequestOK
  <2>5. /\ activeStories \in [Stories -> Groups \cup {None}] /\ acquirers \in [Stories -> SUBSET Clients]
        /\ DirectoryInv /\ PipelineInv /\ TypeInv /\ KeeperInv /\ pipelines \in [Keepers -> SUBSET Stories]
    BY DEF Inv, DirectoryInv, PipelineInv, KeeperTypeInv, TypeInv
  <2>6. /\ activeStories' \in [Stories -> Groups \cup {None}] /\ activeStories'[s] = g
        /\ \A x \in Stories : x # s => activeStories'[x] = activeStories[x]
    BY <1>2, <1>6, <2>1, <2>5
  <2>7. ~overlap => rolledBack = {} /\ \A d \in Clients : d # c => request[d] = NoRequest
    BY <1>1, <2>5, IdleFields DEF DirectoryInv, AloneInv
  <2>8. \A x \in Stories : activeStories'[x] # None =>
           \/ acquirers'[x] # {} \/ x \in astray' \cup rolledBack' \/ x \in q.stops
           \/ activeStories[x] # None /\ acquirers[x] = {} /\ x \notin request[c].stops
    BY <1>1, <1>2, <2>6
  <2>9. DirectoryInv'
    <3>1. /\ acquirers' \in [Stories -> SUBSET Clients] /\ astray \subseteq astray'
          /\ rolledBack \subseteq rolledBack' /\ (overlap => overlap') /\ (~overlap' => rolledBack' = {})
          /\ ~overlap' => \A d \in Clients : d # c => request[d] = NoRequest
          /\ \A x \in Stories, d \in Clients : d # c /\ d \in acquirers[x] => d \in acquirers'[x]
      BY <1>1, <2>5, <2>7
    <3>2. q.at \in GroupPlaces /\ activeStories'[q.story] = q.group
      BY <1>2, <2>3, <2>6
    <3>3. request' = [request EXCEPT ![c] = q]
      BY <1>6
    <3> QED BY <1>3, <2>3, <2>4, <2>5, <2>6, <2>8, <3>1, <3>2, <3>3, DirectoryStep
  <2>10. \A d \in Clients : d # c /\ request[d].at \in StartPlaces =>
           activeStories'[request[d].story] = activeStories[request[d].story] \/ request[d].story \in undone'
    <3> SUFFICES ASSUME NEW d \in Clients, request[d].at \in StartPlaces, request[d].story = s
                 PROVE  s \in undone
      <4>1. \A d \in Clients : request[d].at \in StartPlaces => request[d].story \in Stories
        BY RequestFacts DEF RequestOK
      <4> QED BY <1>1, <2>6, <4>1
    <3>1. request[d].group \in Groups
      BY RequestFacts DEF RequestOK
    <3>2. activeStories[s] # request[d].group
      BY <1>6, <3>1, VisorAssumption DEF s
    <3> QED BY <2>5, <3>2 DEF PipelineInv, StartInv
  <2>11. \A k \in Keepers, x \in Stories : ~StopDue(c, k, x)
    BY <1>1, <1>2 DEF StopDue
  <2>12. \A k \in Keepers, x \in Stories : activeStories[x] = GroupOf[k] => activeStories'[x] = GroupOf[k]
    BY <1>6, <2>6, VisorAssumption DEF s
  <2>13. PipelineInv'
    <3>1. /\ UNCHANGED <<process, starts, adminClient, registration>>
          /\ pipelines' \in [Keepers -> SUBSET Stories]
          /\ astray \subseteq astray' /\ undone \subseteq undone'
          /\ \A k \in Keepers : process[k] = "down" => pipelines'[k] = {}
          /\ \A k \in Keepers : process[k] = "booting" => pipelines'[k] \subseteq pipelines[k] \cup astray'
      BY <1>1, <2>5 DEF KeeperInv
    <3>2. \A k \in Keepers, x \in Stories : process[k] = "joined" /\ x \in pipelines'[k] =>
           \/ x \in astray' \cup undone' \/ activeStories'[x] = GroupOf[k]
           \/ q.at \in StopPlaces /\ q.story = x /\ k \in q.targets
           \/ x \in pipelines[k] /\ activeStories[x] # GroupOf[k] /\ ~StopDue(c, k, x)
      BY <1>1, <2>11, <2>12
    <3>3. q.at \in StartPlaces => activeStories'[q.story] = q.group \/ q.story \in undone'
      BY <2>3, <2>6
    <3>4. request' = [request EXCEPT ![c] = q]
      BY <1>6
    <3> QED BY <2>3, <2>5, <2>10, <3>1, <3>2, <3>3, <3>4, PipelineStep
  <2> QED BY <2>9, <2>13 DEF Inv
<1> QED BY <1>1, <1>4, <1>5, <1>6

-----------------------------------------------------------------------------
(* Erasing an entry and stopping the keepers                               *)

\* The entry of story s is erased, and the request is to stop the keepers that
\* are active at the erase.
LEMMA EraseInv ==
  ASSUME Inv, NEW c \in Clients, NEW q \in Request, NEW s \in Stories, request' = [request EXCEPT ![c] = q],
         request[c].at # "idle", request[c].at \notin StopPlaces, activeStories[s] \in Groups,
         UNCHANGED <<acquirers, count, overlap, rolledBack, process, starts, adminClient, registration, pipelines>>,
         astray \subseteq astray', activeStories' = [activeStories EXCEPT ![s] = None], Erased(c, s),
         RequestOK(c, q, acquirers), q.at = "copyKeepers", q.story = s,
         q.targets = getActiveKeepers(activeStories[s]), request[c].stops \subseteq q.stops \cup {s}
  PROVE  Inv'
<1> USE PlaceFacts
<1>1. /\ activeStories \in [Stories -> Groups \cup {None}] /\ acquirers \in [Stories -> SUBSET Clients]
      /\ DirectoryInv /\ PipelineInv /\ TypeInv /\ KeeperInv /\ pipelines \in [Keepers -> SUBSET Stories]
      /\ CountInv /\ count \in [Stories -> Int] /\ starts \in [Keepers -> 1 .. MaxStarts]
  BY DEF Inv, DirectoryInv, PipelineInv, KeeperTypeInv, TypeInv
<1>2. /\ activeStories' \in [Stories -> Groups \cup {None}] /\ activeStories'[s] = None
      /\ \A x \in Stories : x # s => activeStories'[x] = activeStories[x]
  BY <1>1
<1>3. DirectoryInv'
  <2>1. ~overlap => rolledBack = {} /\ \A d \in Clients : d # c => request[d] = NoRequest
    BY <1>1, IdleFields DEF DirectoryInv, AloneInv
  <2>2. CountInv' /\ count' \in [Stories -> Int]
    BY <1>1 DEF CountInv
  <2>3. \A x \in Stories : activeStories'[x] # None =>
          \/ acquirers'[x] # {} \/ x \in astray' \cup rolledBack' \/ x \in q.stops
          \/ activeStories[x] # None /\ acquirers[x] = {} /\ x \notin request[c].stops
    BY <1>2
  <2>4. /\ acquirers' \in [Stories -> SUBSET Clients] /\ RequestOK(c, q, acquirers')
        /\ rolledBack \subseteq rolledBack' /\ (overlap => overlap') /\ (~overlap' => rolledBack' = {})
        /\ ~overlap' => \A d \in Clients : d # c => request[d] = NoRequest
        /\ \A x \in Stories, d \in Clients : d # c /\ d \in acquirers[x] => d \in acquirers'[x]
    BY <1>1, <2>1
  <2> QED BY <1>1, <1>2, <2>2, <2>3, <2>4, DirectoryStep
<1>4. PipelineInv'
  <2>1. /\ \A k \in Keepers : process[k] = "down" => pipelines'[k] = {}
        /\ pipelines' \in [Keepers -> SUBSET Stories] /\ undone \subseteq undone'
    BY <1>1 DEF KeeperInv, Erased
  <2>2. \A d \in Clients : d # c /\ request[d].at \in StartPlaces =>
          activeStories'[request[d].story] = activeStories[request[d].story] \/ request[d].story \in undone'
    <3> SUFFICES ASSUME NEW d \in Clients, d # c, request[d].at \in StartPlaces
                 PROVE  activeStories'[request[d].story] = activeStories[request[d].story]
                        \/ request[d].story \in undone'
      OBVIOUS
    <3>1. request[d].story \in Stories /\ request[d].op = "acquire"
      BY RequestFacts DEF RequestOK
    <3>2. CASE request[d].story = s
      BY <3>1, <3>2 DEF Erased, Starting, StartPlaces
    <3>3. CASE request[d].story # s
      BY <1>2, <3>1, <3>3
    <3> QED BY <3>2, <3>3
  <2>3. ASSUME NEW k \in Keepers, NEW x \in Stories, process[k] = "joined", x \in pipelines'[k]
        PROVE  \/ x \in astray' \cup undone' \/ activeStories'[x] = GroupOf[k]
               \/ q.at \in StopPlaces /\ q.story = x /\ k \in q.targets
               \/ x \in pipelines[k] /\ activeStories[x] # GroupOf[k] /\ ~StopDue(c, k, x)
    <3>1. ~StopDue(c, k, x)
      BY DEF StopDue
    <3>2. adminClient[k] # 0
      BY <1>1, <2>3 DEF KeeperInv
    <3>3. "copyKeepers" \in StopPlaces
      BY DEF StopPlaces
    <3>4. CASE x = s
      BY <2>3, <3>1, <3>2, <3>3, <3>4 DEF getActiveKeepers
    <3>5. CASE x # s
      BY <1>2, <2>3, <3>1, <3>5
    <3> QED BY <3>4, <3>5
  <2>4. q.at \notin StartPlaces
    BY DEF StopPlaces
  <2> QED BY <1>1, <2>1, <2>2, <2>3, <2>4, PipelineStep
<1> QED BY <1>3, <1>4 DEF Inv

\* The entry of a failed start is erased and the keepers to stop are listed.
LEMMA ForgetStoryInv ==
  ASSUME Inv, NEW c \in Clients, ForgetStory(c)
  PROVE  Inv'
<1> USE PlaceFacts
<1> DEFINE r == request[c]
           a == At(c, "copyKeepers")
           ks == getActiveKeepers(r.group)
           q == [a EXCEPT !.targets = ks]
<1>1. /\ r.at = "forget" /\ request' = [request EXCEPT ![c] = q]
      /\ UNCHANGED <<acquirers, count, overlap, rolledBack, process, starts, adminClient, registration, pipelines,
                     astray>>
      /\ IF activeStories[r.story] = r.group
         THEN activeStories' = [activeStories EXCEPT ![r.story] = None] /\ Erased(c, r.story)
         ELSE UNCHANGED <<activeStories, undone>>
  BY DEF ForgetStory, Proceed, registry, keepers, meta
<1>2. /\ r \in Request /\ r.op = "acquire" /\ r.story \in Stories /\ r.group \in Groups /\ r.stops = {}
      /\ r.todo = {} /\ c \in acquirers[r.story]
      /\ "forget" \in GroupPlaces /\ "copyKeepers" \in StopPlaces
      /\ ks \in SUBSET Keepers
  BY <1>1, RequestFacts DEF RequestOK, AcquirePlaces, GroupPlaces, StopPlaces, getActiveKeepers
<1>3. /\ a \in Request
      /\ a.op = "acquire" /\ a.at = "copyKeepers" /\ a.stops = {} /\ a.todo = {} /\ a.story = r.story
  BY <1>2, AtFields DEF At
<1> HIDE DEF a, ks
<1>4. /\ q \in Request
      /\ q.op = "acquire" /\ q.at = "copyKeepers" /\ q.stops = {} /\ q.todo = {} /\ q.story = r.story
      /\ q.targets = ks
  <2>1. ks \in SUBSET Keepers /\ q = [a EXCEPT !.targets = ks]
    BY <1>2
  <2> HIDE DEF q
  <2>2. /\ q \in Request /\ q.op = a.op /\ q.at = a.at /\ q.todo = a.todo /\ q.stops = a.stops
        /\ q.story = a.story /\ q.targets = ks
    <3>1. a \in Request
      BY <1>3
    <3> QED BY <2>1, <3>1 DEF Request
  <2> QED BY <1>3, <2>2
<1> HIDE DEF q, r
<1>5. RequestOK(c, q, acquirers)
  BY <1>2, <1>4 DEF RequestOK
<1>6. CASE activeStories[r.story] = r.group
  <2>1. Inv /\ request[c].at # "idle" /\ request[c].at \notin StopPlaces /\ request[c].stops = {}
    BY <1>1, <1>2 DEF r
  <2> QED BY <1>1, <1>2, <1>4, <1>5, <1>6, <2>1, EraseInv DEF ks
<1>7. CASE activeStories[r.story] # r.group
  <2>1. CountInv' /\ count' \in [Stories -> Int]
    BY <1>1, RequestFacts DEF CountInv
  <2>2. /\ r = request[c] /\ q.at \notin StartPlaces
        /\ \A k \in Keepers, s \in Stories : ~StopDue(c, k, s)
    BY <1>1, <1>2, <1>4 DEF r, StopDue
  <2> QED BY <1>1, <1>2, <1>4, <1>5, <1>7, <2>1, <2>2, MoveOn
<1> QED BY <1>6, <1>7

\* The entry of a released story is erased before any keeper is told.
LEMMA EraseStoryInv ==
  ASSUME Inv, NEW c \in Clients, NEW s \in Stories, EraseStory(c, s)
  PROVE  Inv'
<1> USE PlaceFacts
<1> DEFINE left == request[c].stops \ {s}
           r == [request[c] EXCEPT !.stops = left]
           g == activeStories[s]
           ks == getActiveKeepers(g)
           q == [r EXCEPT !.at = "copyKeepers", !.story = s, !.group = g, !.targets = ks]
<1>1. /\ request[c].at = "erase" /\ s \in request[c].stops
      /\ UNCHANGED <<acquirers, count, overlap, rolledBack, process, starts, adminClient, registration, pipelines>>
      /\ astray \subseteq astray'
      /\ \/ /\ request' = [request EXCEPT ![c] = q] /\ g # None
            /\ activeStories' = [activeStories EXCEPT ![s] = None] /\ Erased(c, s)
         \/ /\ request' = [request EXCEPT ![c] = AfterStop(r)] /\ UNCHANGED <<activeStories, undone>>
            /\ s \in astray' \/ activeStories[s] = None
  <2>1. request[c] \in Request
    BY RequestFacts
  <2>2. r.at = request[c].at
    BY <2>1 DEF Request
  <2> HIDE DEF q, ks
  <2> QED BY <2>2 DEF EraseStory, Proceed, registry, keepers, meta, q, ks
<1>2. /\ request[c] \in Request /\ request[c].op # "acquire" /\ request[c].op # "none"
      /\ (request[c].op # "disconnect" => left = {}) /\ left \in SUBSET Stories
      /\ \A x \in request[c].todo : c \in acquirers[x]
      /\ "erase" \notin AcquirePlaces \cup StopPlaces /\ "copyKeepers" \in StopPlaces \cap Places
      /\ "copyKeepers" \notin AcquirePlaces \cup {"idle", "erase", "remove", "broadcast", "startKeepers"}
  <2>1. request[c] \in Request /\ RequestOK(c, request[c], acquirers)
    BY RequestFacts
  <2>2. left \in SUBSET Stories
    BY <2>1 DEF Request
  <2>3. "erase" \notin AcquirePlaces \cup StopPlaces /\ "copyKeepers" \in StopPlaces \cap Places
      /\ "copyKeepers" \notin AcquirePlaces \cup {"idle", "erase", "remove", "broadcast", "startKeepers"}
    BY DEF AcquirePlaces, StopPlaces, Places
  <2>4. request[c].op # "disconnect" => left = {}
    BY <1>1, <2>1 DEF RequestOK
  <2> QED BY <1>1, <2>1, <2>2, <2>3, <2>4, IdleFields DEF RequestOK
<1>3. /\ r \in Request
      /\ r.op = request[c].op /\ r.todo = request[c].todo /\ r.stops = left
  BY <1>2 DEF Request
<1>4. CASE /\ request' = [request EXCEPT ![c] = q] /\ g # None
           /\ activeStories' = [activeStories EXCEPT ![s] = None] /\ Erased(c, s)
  <2>1. g \in Groups /\ ks \in SUBSET Keepers
    BY <1>4 DEF Inv, DirectoryInv, TypeInv, getActiveKeepers
  <2> HIDE DEF r, g, ks, left
  <2>2. /\ q \in Request
        /\ q.op = request[c].op /\ q.at = "copyKeepers" /\ q.stops = left /\ q.todo = request[c].todo
        /\ q.story = s /\ q.targets = ks
    <3>1. /\ "copyKeepers" \in Places /\ s \in Stories \cup {None} /\ g \in Groups \cup {None}
          /\ q = [r EXCEPT !.at = "copyKeepers", !.story = s, !.group = g, !.targets = ks]
      BY <1>2, <2>1
    <3> HIDE DEF q
    <3>2. /\ q \in Request /\ q.op = r.op /\ q.at = "copyKeepers" /\ q.stops = r.stops /\ q.todo = r.todo
          /\ q.story = s /\ q.targets = ks
      <4>1. r \in Request
        BY <1>3
      <4> QED BY <2>1, <3>1, <4>1 DEF Request
    <3> QED BY <1>3, <3>2
  <2> HIDE DEF q
  <2>3. RequestOK(c, q, acquirers)
    BY <1>2, <2>2 DEF RequestOK
  <2>4. request[c].stops \subseteq left \cup {s}
    BY DEF left
  <2> QED BY <1>1, <1>2, <1>4, <2>1, <2>2, <2>3, <2>4, EraseInv DEF g, ks
<1>5. CASE /\ request' = [request EXCEPT ![c] = AfterStop(r)] /\ UNCHANGED <<activeStories, undone>>
           /\ s \in astray' \/ activeStories[s] = None
  <2> DEFINE n == AfterStop(r)
  <2>1. /\ n \in Request /\ RequestOK(c, n, acquirers) /\ n.stops = left
        /\ n.at \notin GroupPlaces \cup StopPlaces /\ n.op # "acquire"
    <3> HIDE DEF r, q
    <3> QED BY <1>2, <1>3, AfterStopFields
  <2> HIDE DEF n, r, q
  <2>2. CountInv' /\ count' \in [Stories -> Int]
    BY <1>1, RequestFacts DEF CountInv
  <2>3. \A k \in Keepers, x \in Stories : ~StopDue(c, k, x)
    BY <1>1, <1>2 DEF StopDue
  <2>4. \A x \in request[c].stops : x \in n.stops \/ x \in astray' \/ activeStories[x] = None
    BY <1>5, <2>1
  <2>5. /\ request' = [request EXCEPT ![c] = n] /\ request[c].at # "idle"
        /\ UNCHANGED <<acquirers, activeStories, overlap, rolledBack, undone, process, starts, adminClient,
                     registration, pipelines>>
    BY <1>1, <1>5 DEF n
  <2> QED BY <1>1, <2>1, <2>2, <2>3, <2>4, <2>5, MoveOn
<1> QED BY <1>1, <1>4, <1>5

\* What is known of a request that is to stop keepers, whoever is still to be
\* told: it may go on with them or be done.
LEMMA StoppingFacts ==
  ASSUME Inv, NEW c \in Clients, request[c].at \in StopPlaces, NEW r \in Request, r.at = request[c].at,
         r.story = request[c].story, r.stops = request[c].stops, r.op = request[c].op, r.todo = request[c].todo
  PROVE  /\ RequestOK(c, r, acquirers) /\ r.story \in Stories
         /\ AfterStop(r) \in Request /\ RequestOK(c, AfterStop(r), acquirers) /\ AfterStop(r).stops = r.stops
         /\ AfterStop(r).at \notin GroupPlaces \cup StopPlaces
         /\ AfterStop(r).op = "acquire" => r.op = "acquire" /\ AfterStop(r).story = r.story
<1>1. request[c] \in Request /\ RequestOK(c, request[c], acquirers)
  BY RequestFacts
<1>2. /\ request[c].at \notin AcquirePlaces \cup {"idle", "erase", "remove", "broadcast", "startKeepers"}
      /\ request[c].op # "none"
  BY <1>1, IdleFields DEF AcquirePlaces, StopPlaces, RequestOK
<1>3. RequestOK(c, r, acquirers) /\ r.story \in Stories
  BY <1>1, <1>2, PlaceFacts DEF RequestOK
<1>4. /\ r.op = "acquire" => r.story \in Stories /\ r.todo = {} /\ c \in acquirers[r.story]
      /\ r.op # "disconnect" => r.stops = {}
      /\ \A s \in r.todo : c \in acquirers[s]
      /\ r.op # "none"
  BY <1>2, <1>3 DEF RequestOK
<1> DEFINE n == AfterStop(r)
<1>5. /\ n \in Request /\ RequestOK(c, n, acquirers) /\ n.stops = r.stops
      /\ n.at \notin GroupPlaces \cup StopPlaces
      /\ n.op = "acquire" => r.op = "acquire" /\ n.story = r.story
  BY <1>4, AfterStopFields
<1> QED BY <1>3, <1>5

\* The keepers to stop are copied; one without an admin client is left out.
LEMMA CopyKeepersInv ==
  ASSUME Inv, NEW c \in Clients, CopyKeepers(c)
  PROVE  Inv'
<1> DEFINE ks == {k \in request[c].targets : is_running /\ adminClient[k] # 0}
           r == [request[c] EXCEPT !.targets = ks]
           u == [r EXCEPT !.at = "stopKeepers"]
<1>1. request[c] \in Request
  BY RequestFacts
<1>2. ks \in SUBSET Keepers
  BY <1>1 DEF Request
<1>3. /\ r \in Request /\ r.at = request[c].at /\ r.targets = ks /\ r.story = request[c].story
      /\ r.stops = request[c].stops /\ r.op = request[c].op /\ r.todo = request[c].todo
  <2> HIDE DEF ks
  <2> QED BY <1>1, <1>2 DEF Request
<1>4. /\ request[c].at = "copyKeepers"
      /\ UNCHANGED <<acquirers, count, activeStories, overlap, rolledBack, undone, process, starts, adminClient,
                     registration, pipelines>>
      /\ request' = [request EXCEPT ![c] = IF ks # {} THEN u ELSE AfterStop(r)]
      /\ astray' = IF is_running THEN astray ELSE astray \cup {request[c].story}
  <2> HIDE DEF ks
  <2> QED BY <1>3 DEF CopyKeepers, Proceed, registry, keepers, meta, ks
<1>5. /\ RequestOK(c, r, acquirers) /\ r.story \in Stories
      /\ AfterStop(r) \in Request /\ RequestOK(c, AfterStop(r), acquirers) /\ AfterStop(r).stops = r.stops
      /\ AfterStop(r).at \notin GroupPlaces \cup StopPlaces
      /\ AfterStop(r).op = "acquire" => r.op = "acquire" /\ AfterStop(r).story = r.story
  <2> HIDE DEF ks
  <2>1. request[c].at \in StopPlaces
    BY <1>4 DEF StopPlaces
  <2> HIDE DEF r
  <2> QED BY <1>3, <2>1, StoppingFacts
<1>6. /\ "copyKeepers" \in StopPlaces /\ "stopKeepers" \in StopPlaces \cap Places
      /\ StopPlaces \cap (GroupPlaces \cup AcquirePlaces \cup {"idle", "erase", "remove", "broadcast"}) = {}
      /\ StartPlaces \subseteq GroupPlaces /\ "startKeepers" \notin StopPlaces
  BY DEF StopPlaces, GroupPlaces, AcquirePlaces, StartPlaces, Places
<1>7. CountInv' /\ count' \in [Stories -> Int]
  BY <1>4, RequestFacts DEF CountInv
<1>8. \A k \in Keepers, s \in Stories : process[k] = "joined" /\ StopDue(c, k, s) =>
        s \in astray' \/ (k \in ks /\ s = request[c].story)
  <2> SUFFICES ASSUME NEW k \in Keepers, NEW s \in Stories, process[k] = "joined", StopDue(c, k, s), is_running
               PROVE  k \in ks /\ s = request[c].story
    BY <1>4 DEF StopDue
  <2>1. adminClient[k] = starts[k] /\ starts[k] \in 1 .. MaxStarts
    BY DEF Inv, PipelineInv, KeeperInv, KeeperTypeInv
  <2>2. adminClient[k] # 0
    BY <2>1
  <2> QED BY <2>2 DEF StopDue
<1> HIDE DEF ks, r
<1>9. astray \subseteq astray' /\ request[c].at # "idle" /\ request[c].at \notin GroupPlaces
  BY <1>4, <1>6
<1>10. CASE ks # {}
  <2>1. /\ u \in Request
        /\ u.op = r.op /\ u.at = "stopKeepers" /\ u.stops = r.stops /\ u.todo = r.todo
        /\ u.story = r.story /\ u.targets = r.targets
    BY <1>3, <1>6, AtFields
  <2>2. request' = [request EXCEPT ![c] = u]
    BY <1>4, <1>10
  <2> HIDE DEF u
  <2>3. RequestOK(c, u, acquirers)
    BY <1>3, <1>4, <1>5, <1>6, <2>1, IdleFields DEF RequestOK
  <2>4. \A k \in Keepers, s \in Stories : process[k] = "joined" /\ StopDue(c, k, s) =>
          s \in astray' \/ (u.at \in StopPlaces /\ u.story = s /\ k \in u.targets)
    BY <1>3, <1>6, <1>8, <2>1
  <2> QED BY <1>3, <1>4, <1>5, <1>6, <1>7, <1>9, <2>1, <2>2, <2>3, <2>4, MoveOn
<1>11. CASE ks = {}
  <2> DEFINE n == AfterStop(r)
  <2>1. request' = [request EXCEPT ![c] = n]
    BY <1>4, <1>11
  <2>2. /\ n \in Request /\ RequestOK(c, n, acquirers) /\ n.stops = request[c].stops
        /\ n.at \notin GroupPlaces \cup StopPlaces
        /\ n.op = "acquire" => request[c].op = "acquire" /\ n.story = request[c].story
    BY <1>3, <1>5
  <2> HIDE DEF n
  <2>3. \A k \in Keepers, s \in Stories : process[k] = "joined" /\ StopDue(c, k, s) =>
          s \in astray' \/ (n.at \in StopPlaces /\ n.story = s /\ k \in n.targets)
    BY <1>8, <1>11
  <2> QED BY <1>4, <1>6, <1>7, <1>9, <2>1, <2>2, <2>3, MoveOn
<1> QED BY <1>10, <1>11

\* A step that runs an RPC on a keeper keeps the directory's invariant as any
\* other step does.
LEMMA RpcDirectory ==
  ASSUME Inv, NEW c \in Clients, NEW q \in Request, request' = [request EXCEPT ![c] = q],
         request[c].at # "idle",
         UNCHANGED <<acquirers, count, activeStories, overlap, rolledBack>>,
         astray \subseteq astray', RequestOK(c, q, acquirers), request[c].stops \subseteq q.stops,
         q.op = "acquire" =>
           /\ request[c].op = "acquire" /\ q.story = request[c].story
           /\ \/ activeStories[q.story] # request[c].group \/ request[c].at \notin GroupPlaces
              \/ q.at \in GroupPlaces /\ q.group = request[c].group
  PROVE  DirectoryInv'
<1>1. /\ DirectoryInv /\ acquirers' \in [Stories -> SUBSET Clients] /\ count' \in [Stories -> Int]
      /\ activeStories' \in [Stories -> Groups \cup {None}] /\ RequestOK(c, q, acquirers') /\ CountInv'
  BY DEF Inv, DirectoryInv, TypeInv, CountInv
<1>2. ~overlap => rolledBack = {} /\ \A d \in Clients : d # c => request[d] = NoRequest
  BY <1>1, IdleFields DEF DirectoryInv, AloneInv
<1>3. \A s \in Stories : activeStories'[s] # None =>
        \/ acquirers'[s] # {} \/ s \in astray' \cup rolledBack' \/ s \in q.stops
        \/ activeStories[s] # None /\ acquirers[s] = {} /\ s \notin request[c].stops
  OBVIOUS
<1>4. ASSUME ~overlap', q.op = "acquire"
      PROVE  \/ activeStories'[q.story] = None \/ q.story \in astray'
             \/ \E d \in Clients : d # c /\ d \in acquirers'[q.story]
             \/ q.at \in GroupPlaces /\ activeStories'[q.story] = q.group
  BY <1>1, <1>4 DEF DirectoryInv, RollBackInv
<1> QED BY <1>1, <1>2, <1>3, <1>4, DirectoryStep

\* One keeper is told to stop, or the stop goes astray.
LEMMA StopOnKeeperInv ==
  ASSUME Inv, NEW c \in Clients, NEW k \in Keepers, NEW ran \in BOOLEAN, NEW told \in BOOLEAN,
         StopOnKeeper(c, k, ran, told)
  PROVE  Inv'
<1> DEFINE ks == request[c].targets \ {k}
           r == [request[c] EXCEPT !.targets = ks]
           q == IF ks # {} THEN r ELSE AfterStop(r)
           s == request[c].story
<1>1. request[c] \in Request
  BY RequestFacts
<1>2. ks \in SUBSET Keepers
  BY <1>1 DEF Request
<1>3. /\ r \in Request /\ r.at = request[c].at /\ r.targets = ks /\ r.story = request[c].story
      /\ r.stops = request[c].stops /\ r.op = request[c].op /\ r.todo = request[c].todo
  <2> HIDE DEF ks
  <2> QED BY <1>1, <1>2 DEF Request
<1>4. /\ request[c].at = "stopKeepers" /\ request' = [request EXCEPT ![c] = q]
      /\ UNCHANGED <<acquirers, count, activeStories, overlap, rolledBack, undone, process, starts, adminClient,
                     registration>>
      /\ pipelines' = IF ran THEN [pipelines EXCEPT ![k] = @ \ {s}] ELSE pipelines
      /\ astray' = IF ran \/ process[k] = "down" THEN astray ELSE astray \cup {s}
  <2> HIDE DEF ks
  <2> QED BY <1>3 DEF StopOnKeeper, StopPipeline, Proceed, registry, keepers, meta, ks
<1>5. /\ "stopKeepers" \in StopPlaces
      /\ StopPlaces \cap (GroupPlaces \cup AcquirePlaces \cup {"idle", "erase", "remove", "broadcast"}) = {}
      /\ StartPlaces \subseteq GroupPlaces
  BY DEF StopPlaces, GroupPlaces, AcquirePlaces, StartPlaces
<1>6. /\ q \in Request /\ RequestOK(c, q, acquirers) /\ q.stops = request[c].stops /\ q.at \notin GroupPlaces
      /\ q.op = "acquire" => request[c].op = "acquire" /\ q.story = request[c].story
      /\ ks # {} => q.at \in StopPlaces /\ q.story = request[c].story /\ q.targets = ks
  <2> HIDE DEF ks
  <2>1. request[c].at \in StopPlaces
    BY <1>4, <1>5
  <2>2. /\ RequestOK(c, r, acquirers) /\ r.story \in Stories
        /\ AfterStop(r) \in Request /\ RequestOK(c, AfterStop(r), acquirers) /\ AfterStop(r).stops = r.stops
        /\ AfterStop(r).at \notin GroupPlaces \cup StopPlaces
        /\ AfterStop(r).op = "acquire" => r.op = "acquire" /\ AfterStop(r).story = r.story
    <3> HIDE DEF r
    <3> QED BY <1>3, <2>1, StoppingFacts
  <2> HIDE DEF r
  <2> QED BY <1>3, <1>4, <1>5, <2>2
<1>7. \A x \in Stories, l \in Keepers : StopDue(c, l, x) => x = s /\ (l = k \/ l \in ks)
  BY DEF StopDue
<1> HIDE DEF ks, r, q
<1>8. DirectoryInv'
  <2>1. astray \subseteq astray' /\ request[c].at # "idle" /\ request[c].at \notin GroupPlaces
    BY <1>4, <1>5
  <2> QED BY <1>4, <1>6, <2>1, RpcDirectory
<1>9. PipelineInv'
  <2>1. /\ TypeInv /\ PipelineInv /\ KeeperInv /\ pipelines \in [Keepers -> SUBSET Stories]
        /\ process \in [Keepers -> {"down", "booting", "joined", "leaving"}]
    BY DEF Inv, DirectoryInv, PipelineInv, KeeperTypeInv
  <2>2. /\ pipelines' \in [Keepers -> SUBSET Stories] /\ \A l \in Keepers : pipelines'[l] \subseteq pipelines[l]
        /\ ran => s \notin pipelines'[k]
    BY <1>4, <2>1
  <2>3. \A l \in Keepers : process[l] = "down" => pipelines'[l] = {}
    BY <2>1, <2>2 DEF KeeperInv
  <2>4. ASSUME NEW l \in Keepers, NEW x \in Stories, process[l] = "joined", x \in pipelines'[l]
        PROVE  \/ x \in astray' \cup undone' \/ activeStories'[x] = GroupOf[l]
               \/ q.at \in StopPlaces /\ q.story = x /\ l \in q.targets
               \/ x \in pipelines[l] /\ activeStories[x] # GroupOf[l] /\ ~StopDue(c, l, x)
    <3>1. CASE ~StopDue(c, l, x)
      BY <1>4, <2>2, <2>4, <3>1
    <3>2. CASE StopDue(c, l, x) /\ l = k
      <4>1. ~ran
        BY <1>7, <2>2, <2>4, <3>2
      <4> QED BY <1>4, <1>7, <2>4, <3>2, <4>1
    <3>3. CASE StopDue(c, l, x) /\ l \in ks
      BY <1>6, <1>7, <3>3
    <3> QED BY <1>7, <3>1, <3>2, <3>3
  <2>5. \A d \in Clients : d # c /\ request[d].at \in StartPlaces =>
          activeStories'[request[d].story] = activeStories[request[d].story] \/ request[d].story \in undone'
    BY <1>4
  <2>6. /\ astray \subseteq astray' /\ undone \subseteq undone' /\ q.at \notin StartPlaces
        /\ \A l \in Keepers : process[l] = "booting" => pipelines'[l] \subseteq pipelines[l] \cup astray'
    BY <1>4, <1>5, <1>6, <2>2
  <2> QED BY <1>4, <1>6, <2>1, <2>2, <2>3, <2>4, <2>5, <2>6, PipelineStep
<1> QED BY <1>8, <1>9 DEF Inv

\* One keeper is told to start, and may run the start without an answer.
LEMMA StartOnKeeperInv ==
  ASSUME Inv, NEW c \in Clients, NEW k \in Keepers, NEW ran \in BOOLEAN, NEW told \in BOOLEAN,
         StartOnKeeper(c, k, ran, told)
  PROVE  Inv'
<1> DEFINE ks == request[c].targets \ {k}
           b == request[c].started \/ told
           r == [request[c] EXCEPT !.targets = ks, !.started = b]
           p == IF r.started THEN "startPlayer" ELSE "forget"
           q == IF ks # {} THEN r ELSE [r EXCEPT !.at = p, !.started = FALSE]
           s == request[c].story
<1>1. request[c] \in Request /\ RequestOK(c, request[c], acquirers)
  BY RequestFacts
<1>2. ks \in SUBSET Keepers /\ b \in BOOLEAN
  BY <1>1 DEF Request
<1>3. /\ r \in Request /\ r.at = request[c].at /\ r.targets = ks /\ r.story = s
      /\ r.stops = request[c].stops /\ r.op = request[c].op /\ r.todo = request[c].todo
      /\ r.group = request[c].group
  <2> HIDE DEF ks, b
  <2> QED BY <1>1, <1>2 DEF Request
<1>4. /\ request[c].at = "startKeepers" /\ k \in request[c].targets /\ request' = [request EXCEPT ![c] = q]
      /\ UNCHANGED <<acquirers, count, activeStories, overlap, rolledBack, undone, process, starts, adminClient,
                     registration>>
      /\ ran => process[k] # "down"
      /\ pipelines' = IF ran THEN [pipelines EXCEPT ![k] = @ \cup {s}] ELSE pipelines
      /\ astray' = IF ran /\ process[k] = "booting" THEN astray \cup {s} ELSE astray
  <2> HIDE DEF ks, p
  <2> QED BY <1>3 DEF StartOnKeeper, StartPipeline, Rpc, Proceed, registry, keepers, meta, ks, p
<1>5. /\ "startKeepers" \in StartPlaces /\ p \in GroupPlaces \cap Places /\ p \notin StartPlaces /\ p # "startKeepers"
      /\ GroupPlaces \cap StopPlaces = {} /\ StartPlaces \subseteq GroupPlaces /\ GroupPlaces \subseteq AcquirePlaces
      /\ AcquirePlaces \cap {"idle", "erase", "remove", "broadcast"} = {}
  BY DEF StopPlaces, GroupPlaces, AcquirePlaces, StartPlaces, Places
<1>6. /\ request[c].op = "acquire" /\ s \in Stories /\ request[c].stops = {} /\ request[c].todo = {}
      /\ request[c].group \in Groups /\ GroupOf[k] = request[c].group /\ c \in acquirers[s]
      /\ \A l \in ks : GroupOf[l] = request[c].group
  <2> HIDE DEF r, p, q
  <2> QED BY <1>1, <1>4, <1>5 DEF RequestOK
<1>7. /\ q \in Request /\ q.op = "acquire" /\ q.story = s /\ q.stops = {} /\ q.todo = {}
      /\ q.group = request[c].group
      /\ (q.at = "startKeepers" /\ q.targets = ks) \/ q.at = p
  <2> HIDE DEF r, ks, p
  <2>1. CASE ks # {}
    BY <1>3, <1>4, <1>6, <2>1
  <2>2. CASE ks = {}
    BY <1>3, <1>5, <1>6, <2>2 DEF Request
  <2> QED BY <2>1, <2>2
<1> HIDE DEF ks, p, r, q, s
<1>8. RequestOK(c, q, acquirers)
  BY <1>5, <1>6, <1>7 DEF RequestOK
<1>9. DirectoryInv'
  <2>1. /\ astray \subseteq astray' /\ request[c].at # "idle" /\ request[c].stops \subseteq q.stops
        /\ q.at \in GroupPlaces /\ request[c].story = s
    BY <1>4, <1>5, <1>6, <1>7 DEF s
  <2> QED BY <1>4, <1>6, <1>7, <1>8, <2>1, RpcDirectory
<1>10. PipelineInv'
  <2>1. /\ TypeInv /\ PipelineInv /\ KeeperInv /\ StartInv /\ pipelines \in [Keepers -> SUBSET Stories]
    BY DEF Inv, DirectoryInv, PipelineInv, KeeperTypeInv
  <2>2. activeStories[s] = request[c].group \/ s \in undone
    BY <1>4, <1>5, <2>1 DEF StartInv, s
  <2>3. /\ pipelines' \in [Keepers -> SUBSET Stories]
        /\ \A l \in Keepers : l # k => pipelines'[l] = pipelines[l]
        /\ pipelines'[k] \subseteq pipelines[k] \cup {s} /\ (~ran => pipelines'[k] = pipelines[k])
    BY <1>4, <1>6, <2>1
  <2>4. \A l \in Keepers : process[l] = "down" => pipelines'[l] = {}
    BY <1>4, <2>1, <2>3 DEF KeeperInv
  <2>5. \A l \in Keepers : process[l] = "booting" => pipelines'[l] \subseteq pipelines[l] \cup astray'
    BY <1>4, <2>3
  <2>6. ASSUME NEW l \in Keepers, NEW x \in Stories, process[l] = "joined", x \in pipelines'[l]
        PROVE  \/ x \in astray' \cup undone' \/ activeStories'[x] = GroupOf[l]
               \/ q.at \in StopPlaces /\ q.story = x /\ l \in q.targets
               \/ x \in pipelines[l] /\ activeStories[x] # GroupOf[l] /\ ~StopDue(c, l, x)
    <3>1. ~StopDue(c, l, x)
      BY <1>4, <1>5 DEF StopDue
    <3>2. CASE x \in pipelines[l]
      BY <1>4, <3>1, <3>2
    <3>3. CASE l = k /\ x = s
      BY <1>4, <1>6, <2>2, <3>3
    <3> QED BY <2>3, <2>6, <3>2, <3>3
  <2>7. /\ \A d \in Clients : d # c /\ request[d].at \in StartPlaces =>
             activeStories'[request[d].story] = activeStories[request[d].story] \/ request[d].story \in undone'
        /\ q.at \in StartPlaces => activeStories'[q.story] = q.group \/ q.story \in undone'
        /\ astray \subseteq astray' /\ undone \subseteq undone'
    BY <1>4, <1>7, <2>2
  <2> QED BY <1>4, <1>7, <2>1, <2>3, <2>4, <2>5, <2>6, <2>7, PipelineStep
<1> QED BY <1>9, <1>10 DEF Inv

-----------------------------------------------------------------------------
(* Acquiring and releasing                                                 *)

\* Acquisition and release keep the count, and the count tells the last release.
LEMMA ReleaseFacts ==
  ASSUME Inv, NEW c \in Clients, NEW s \in Stories, c \in acquirers[s], release_story(c, s)
  PROVE  /\ acquirers' \in [Stories -> SUBSET Clients] /\ count' \in [Stories -> Int] /\ CountInv'
         /\ \A x \in Stories : x # s => acquirers'[x] = acquirers[x]
         /\ \A d \in Clients : d # c => (d \in acquirers'[s] <=> d \in acquirers[s])
         /\ c \notin acquirers'[s]
         /\ WasLastAcquirer(s) <=> acquirers'[s] = {}
<1>1. /\ acquirers \in [Stories -> SUBSET Clients] /\ count \in [Stories -> Int]
      /\ \A x \in Stories : count[x] = Cardinality(acquirers[x])
  BY DEF Inv, DirectoryInv, TypeInv, CountInv
<1>2. /\ acquirers' = [acquirers EXCEPT ![s] = @ \ {c}] /\ count' = [count EXCEPT ![s] = @ - 1]
  BY DEF release_story
<1>3. IsFiniteSet(acquirers[s]) /\ IsFiniteSet(acquirers[s] \ {c})
  BY <1>1, VisorAssumption, FS_Subset
<1>4. Cardinality(acquirers[s] \ {c}) = Cardinality(acquirers[s]) - 1
  BY <1>3, FS_RemoveElement
<1>5. Cardinality(acquirers[s]) \in Nat /\ Cardinality(acquirers[s] \ {c}) \in Nat
  BY <1>3, FS_CardinalityType
<1>6. (Cardinality(acquirers[s] \ {c}) = 0) <=> (acquirers[s] \ {c} = {})
  BY <1>3, FS_EmptySet
<1>7. /\ acquirers' \in [Stories -> SUBSET Clients] /\ acquirers'[s] = acquirers[s] \ {c}
      /\ \A x \in Stories : x # s => acquirers'[x] = acquirers[x]
  BY <1>1, <1>2
<1>8. /\ count' \in [Stories -> Int] /\ count'[s] = count[s] - 1
      /\ \A x \in Stories : x # s => count'[x] = count[x]
  BY <1>1, <1>2
<1>9. CountInv'
  BY <1>1, <1>4, <1>7, <1>8 DEF CountInv
<1>10. WasLastAcquirer(s) <=> acquirers'[s] = {}
  BY <1>1, <1>4, <1>5, <1>6, <1>7 DEF WasLastAcquirer
<1> QED BY <1>7, <1>8, <1>9, <1>10

\* A failed acquire takes its holder away and stops nothing.
LEMMA RollBackAcquireInv ==
  ASSUME Inv, NEW c \in Clients, RollBackAcquire(c)
  PROVE  Inv'
<1> DEFINE s == request[c].story
<1>1. /\ request[c].at = "rollback" /\ release_story(c, s)
      /\ request' = [request EXCEPT ![c] = NoRequest]
      /\ rolledBack' = IF overlap THEN rolledBack \cup {s} ELSE rolledBack
      /\ UNCHANGED <<activeStories, process, starts, adminClient, registration, pipelines, astray, overlap, undone>>
  BY DEF RollBackAcquire, Proceed, registry, keepers
<1>2. /\ "rollback" \in AcquirePlaces /\ "rollback" \notin GroupPlaces \cup StopPlaces
      /\ AcquirePlaces \cap StopPlaces = {}
  BY DEF AcquirePlaces, GroupPlaces, StopPlaces
<1>3. /\ request[c] \in Request /\ request[c].op = "acquire" /\ s \in Stories /\ request[c].stops = {}
      /\ c \in acquirers[s]
  BY <1>1, <1>2, RequestFacts DEF RequestOK
<1>4. /\ acquirers' \in [Stories -> SUBSET Clients] /\ count' \in [Stories -> Int] /\ CountInv'
      /\ \A x \in Stories : x # s => acquirers'[x] = acquirers[x]
      /\ \A d \in Clients : d # c => (d \in acquirers'[s] <=> d \in acquirers[s])
  BY <1>1, <1>3, ReleaseFacts
<1>5. /\ DirectoryInv /\ TypeInv /\ PipelineInv /\ KeeperInv /\ AloneInv /\ RollBackInv
      /\ pipelines \in [Keepers -> SUBSET Stories] /\ activeStories \in [Stories -> Groups \cup {None}]
  BY DEF Inv, DirectoryInv, TypeInv, PipelineInv, KeeperTypeInv
<1>6. ~overlap => rolledBack = {} /\ \A d \in Clients : d # c => request[d] = NoRequest
  BY <1>1, <1>5, IdleFields DEF AloneInv
<1>7. RequestOK(c, NoRequest, acquirers')
  BY IdleFields DEF RequestOK, AcquirePlaces, GroupPlaces, StopPlaces
<1>8. ASSUME NEW x \in Stories, activeStories'[x] # None
      PROVE  \/ acquirers'[x] # {} \/ x \in astray' \cup rolledBack' \/ x \in NoRequest.stops
             \/ activeStories[x] # None /\ acquirers[x] = {} /\ x \notin request[c].stops
  <2>1. CASE x # s
    BY <1>1, <1>3, <1>4, <1>8, <2>1
  <2>2. CASE x = s /\ overlap
    BY <1>1, <2>2
  <2>3. CASE x = s /\ ~overlap
    <3>1. s \in astray \/ \E d \in Clients : d # c /\ d \in acquirers[s]
      BY <1>1, <1>2, <1>3, <1>5, <1>8, <2>3 DEF RollBackInv
    <3> QED BY <1>1, <1>4, <2>3, <3>1
  <2> QED BY <2>1, <2>2, <2>3
<1> HIDE DEF s
<1>9. DirectoryInv'
  <2>1. /\ astray \subseteq astray' /\ rolledBack \subseteq rolledBack' /\ (overlap => overlap')
        /\ ~overlap' => rolledBack' = {}
        /\ ~overlap' => \A d \in Clients : d # c => request[d] = NoRequest
        /\ activeStories' \in [Stories -> Groups \cup {None}]
        /\ \A x \in Stories, d \in Clients : d # c /\ d \in acquirers[x] => d \in acquirers'[x]
    BY <1>1, <1>4, <1>5, <1>6
  <2> QED BY <1>1, <1>4, <1>5, <1>7, <1>8, <2>1, IdleFields, DirectoryStep
<1>10. PipelineInv'
  <2>1. /\ \A k \in Keepers : process[k] = "down" => pipelines'[k] = {}
        /\ pipelines' \in [Keepers -> SUBSET Stories]
        /\ \A k \in Keepers, x \in Stories : ~StopDue(c, k, x)
        /\ NoRequest.at \notin StartPlaces
    BY <1>1, <1>2, <1>5, IdleFields DEF KeeperInv, StopDue, StartPlaces
  <2>2. \A k \in Keepers, x \in Stories : process[k] = "joined" /\ x \in pipelines'[k] =>
          \/ x \in astray' \cup undone' \/ activeStories'[x] = GroupOf[k]
          \/ NoRequest.at \in StopPlaces /\ NoRequest.story = x /\ k \in NoRequest.targets
          \/ x \in pipelines[k] /\ activeStories[x] # GroupOf[k] /\ ~StopDue(c, k, x)
    BY <1>1, <2>1
  <2> QED BY <1>1, <1>5, <2>1, <2>2, IdleFields, PipelineStep
<1> QED BY <1>9, <1>10 DEF Inv

\* A step that leaves entries and pipelines alone, of a request that has nothing
\* to stop and is not starting keepers, keeps the pipelines' invariant.
LEMMA PipelineKept ==
  ASSUME TypeInv, PipelineInv, NEW c \in Clients, NEW q \in Request, request' = [request EXCEPT ![c] = q],
         UNCHANGED <<activeStories, process, starts, adminClient, registration, pipelines, astray, undone>>,
         request[c].at \notin StopPlaces, q.at \notin StartPlaces
  PROVE  PipelineInv'
<1>1. /\ \A k \in Keepers : process[k] = "down" => pipelines'[k] = {}
      /\ pipelines' \in [Keepers -> SUBSET Stories]
      /\ \A k \in Keepers, x \in Stories : ~StopDue(c, k, x)
  BY DEF PipelineInv, KeeperTypeInv, KeeperInv, StopDue
<1>2. \A k \in Keepers, x \in Stories : process[k] = "joined" /\ x \in pipelines'[k] =>
        \/ x \in astray' \cup undone' \/ activeStories'[x] = GroupOf[k]
        \/ q.at \in StopPlaces /\ q.story = x /\ k \in q.targets
        \/ x \in pipelines[k] /\ activeStories[x] # GroupOf[k] /\ ~StopDue(c, k, x)
  BY <1>1
<1> QED BY <1>1, <1>2, PipelineStep

\* A request begins.
LEMMA BeginInv ==
  ASSUME Inv, NEW c \in Clients, NEW q \in Request, BeginRequest(c, q),
         acquirers' \in [Stories -> SUBSET Clients], count' \in [Stories -> Int], CountInv',
         RequestOK(c, q, acquirers'), q.at \notin GroupPlaces \cup StopPlaces,
         \A s \in Stories, d \in Clients : d # c /\ d \in acquirers[s] => d \in acquirers'[s],
         \A s \in Stories : acquirers'[s] = {} => acquirers[s] = {} \/ s \in q.stops,
         q.op = "acquire" => q.story \in Stories /\ c \notin acquirers[q.story]
  PROVE  Inv'
<1>1. /\ request[c] = NoRequest /\ request' = [request EXCEPT ![c] = q]
      /\ overlap' = (overlap \/ \E d \in Clients \ {c} : request[d] # NoRequest)
      /\ UNCHANGED <<activeStories, process, starts, adminClient, registration, pipelines, astray, rolledBack, undone>>
  BY DEF BeginRequest, registry, keepers
<1>2. /\ DirectoryInv /\ TypeInv /\ PipelineInv /\ AloneInv /\ ListedInv
      /\ acquirers \in [Stories -> SUBSET Clients] /\ activeStories \in [Stories -> Groups \cup {None}]
  BY DEF Inv, DirectoryInv, TypeInv
<1>3. ~overlap' => ~overlap /\ rolledBack = {} /\ \A d \in Clients : request[d] = NoRequest
  BY <1>1, <1>2 DEF AloneInv
<1>4. ASSUME ~overlap', q.op = "acquire"
      PROVE  \/ activeStories'[q.story] = None \/ q.story \in astray'
             \/ \E d \in Clients : d # c /\ d \in acquirers'[q.story]
  <2>1. \A d \in Clients : request[d].stops = {}
    BY <1>3, <1>4, IdleFields
  <2>2. activeStories[q.story] = None \/ acquirers[q.story] # {} \/ q.story \in astray
    BY <1>2, <1>3, <1>4, <2>1 DEF ListedInv
  <2>3. CASE acquirers[q.story] # {}
    <3>1. PICK d \in Clients : d \in acquirers[q.story]
      BY <1>2, <1>4, <2>3
    <3> QED BY <1>4, <3>1
  <2> QED BY <1>1, <2>2, <2>3
<1>5. \A s \in Stories : activeStories'[s] # None =>
        \/ acquirers'[s] # {} \/ s \in astray' \cup rolledBack' \/ s \in q.stops
        \/ activeStories[s] # None /\ acquirers[s] = {} /\ s \notin request[c].stops
  BY <1>1, IdleFields
<1>6. /\ astray \subseteq astray' /\ rolledBack \subseteq rolledBack' /\ (overlap => overlap')
      /\ (~overlap' => rolledBack' = {})
      /\ ~overlap' => \A d \in Clients : d # c => request[d] = NoRequest
      /\ activeStories' \in [Stories -> Groups \cup {None}]
  BY <1>1, <1>2, <1>3
<1>7. DirectoryInv'
  BY <1>1, <1>2, <1>4, <1>5, <1>6, DirectoryStep
<1>8. PipelineInv'
  <2>1. request[c].at \notin StopPlaces /\ q.at \notin StartPlaces
    BY <1>1, IdleFields DEF StopPlaces, StartPlaces, GroupPlaces
  <2> QED BY <1>1, <1>2, <2>1, PipelineKept
<1> QED BY <1>7, <1>8 DEF Inv

\* A request that is answered within one critical section.
LEMMA AnsweredAtOnce ==
  ASSUME Inv, NEW c \in Clients, BeginRequest(c, NoRequest), UNCHANGED <<acquirers, count>>
  PROVE  Inv'
<1>1. RequestOK(c, NoRequest, acquirers') /\ NoRequest.at \notin GroupPlaces \cup StopPlaces
  BY IdleFields DEF RequestOK, AcquirePlaces, GroupPlaces, StopPlaces
<1>2. acquirers' \in [Stories -> SUBSET Clients] /\ count' \in [Stories -> Int] /\ CountInv'
  BY DEF Inv, DirectoryInv, TypeInv, CountInv
<1> QED BY <1>1, <1>2, IdleFields, BeginInv

\* An acquire adds a holder and begins.
LEMMA AcquireStoryInv ==
  ASSUME Inv, NEW c \in Clients, NEW s \in Stories, AcquireStory(c, s)
  PROVE  Inv'
<1> DEFINE q == [NoRequest EXCEPT !.op = "acquire", !.at = "choose", !.subject = s, !.story = s]
<1>1. /\ acquirers' = [acquirers EXCEPT ![s] = @ \cup {c}] /\ count' = [count EXCEPT ![s] = @ + 1]
      /\ c \notin acquirers[s] /\ BeginRequest(c, q)
  BY DEF AcquireStory
<1>2. /\ q \in Request /\ q.op = "acquire" /\ q.at = "choose" /\ q.story = s /\ q.todo = {} /\ q.stops = {}
  BY DEF NoRequest, Request, Ops, Places
<1> HIDE DEF q
<1>3. /\ acquirers \in [Stories -> SUBSET Clients] /\ count \in [Stories -> Int]
      /\ \A x \in Stories : count[x] = Cardinality(acquirers[x])
  BY DEF Inv, DirectoryInv, TypeInv, CountInv
<1>4. IsFiniteSet(acquirers[s]) /\ Cardinality(acquirers[s] \cup {c}) = Cardinality(acquirers[s]) + 1
  BY <1>1, <1>3, VisorAssumption, FS_Subset, FS_AddElement
<1>5. /\ acquirers' \in [Stories -> SUBSET Clients] /\ acquirers'[s] = acquirers[s] \cup {c}
      /\ \A x \in Stories : x # s => acquirers'[x] = acquirers[x]
  BY <1>1, <1>3
<1>6. /\ count' \in [Stories -> Int] /\ count'[s] = count[s] + 1
      /\ \A x \in Stories : x # s => count'[x] = count[x]
  BY <1>1, <1>3
<1>7. CountInv'
  BY <1>3, <1>4, <1>5, <1>6 DEF CountInv
<1>8. RequestOK(c, q, acquirers') /\ q.at \notin GroupPlaces \cup StopPlaces
  BY <1>2, <1>5 DEF RequestOK, AcquirePlaces, GroupPlaces, StopPlaces
<1>9. /\ \A x \in Stories, d \in Clients : d # c /\ d \in acquirers[x] => d \in acquirers'[x]
      /\ \A x \in Stories : acquirers'[x] = {} => acquirers[x] = {} \/ x \in q.stops
  BY <1>5
<1> QED BY <1>1, <1>2, <1>5, <1>6, <1>7, <1>8, <1>9, BeginInv

\* A release takes its holder away and begins the stop if it was the last.
LEMMA ReleaseStoryInv ==
  ASSUME Inv, NEW c \in Clients, NEW s \in Stories, ReleaseStory(c, s)
  PROVE  Inv'
<1> DEFINE one == {s}
           r == [NoRequest EXCEPT !.op = "release", !.at = "erase", !.subject = s, !.stops = one]
           q == IF WasLastAcquirer(s) THEN r ELSE NoRequest
<1>1. c \in acquirers[s] /\ release_story(c, s) /\ BeginRequest(c, q)
  BY DEF ReleaseStory
<1>2. /\ r \in Request /\ r.op = "release" /\ r.at = "erase" /\ r.todo = {} /\ r.stops = {s}
  BY DEF NoRequest, Request, Ops, Places
<1> HIDE DEF r
<1>3. /\ q \in Request /\ q.op # "acquire" /\ q.at \notin GroupPlaces \cup StopPlaces
      /\ WasLastAcquirer(s) => s \in q.stops
  BY <1>2, IdleFields DEF GroupPlaces, StopPlaces
<1>4. /\ acquirers' \in [Stories -> SUBSET Clients] /\ count' \in [Stories -> Int] /\ CountInv'
      /\ \A x \in Stories : x # s => acquirers'[x] = acquirers[x]
      /\ \A d \in Clients : d # c => (d \in acquirers'[s] <=> d \in acquirers[s])
      /\ WasLastAcquirer(s) <=> acquirers'[s] = {}
  BY <1>1, ReleaseFacts
<1>5. RequestOK(c, q, acquirers')
  <2>1. RequestOK(c, r, acquirers')
    BY <1>2 DEF RequestOK, AcquirePlaces, GroupPlaces, StopPlaces
  <2>2. RequestOK(c, NoRequest, acquirers')
    BY IdleFields DEF RequestOK, AcquirePlaces, GroupPlaces, StopPlaces
  <2> QED BY <2>1, <2>2
<1> HIDE DEF q
<1>6. /\ \A x \in Stories, d \in Clients : d # c /\ d \in acquirers[x] => d \in acquirers'[x]
      /\ \A x \in Stories : acquirers'[x] = {} => acquirers[x] = {} \/ x \in q.stops
  BY <1>3, <1>4
<1> QED BY <1>1, <1>3, <1>4, <1>5, <1>6, BeginInv

\* A request that has stories to release begins, and holds them all.
LEMMA BeginReleasesInv ==
  ASSUME Inv, NEW c \in Clients, NEW op \in Ops \ {"none", "acquire"},
         NEW held \in SUBSET Stories, \A s \in held : c \in acquirers[s], NEW q \in Request,
         q.op = op, q.todo = held, q.at = IF held = {} THEN "remove" ELSE "release", q.stops = {},
         BeginRequest(c, q), UNCHANGED <<acquirers, count>>
  PROVE  Inv'
<1> DEFINE p == IF held = {} THEN "remove" ELSE "release"
<1>1. p \in Places /\ p \notin AcquirePlaces \cup GroupPlaces \cup StopPlaces \cup {"idle", "erase", "startKeepers"}
  BY DEF Places, AcquirePlaces, GroupPlaces, StopPlaces
<1>2. q.at = p
  OBVIOUS
<1> HIDE DEF p
<1>3. RequestOK(c, q, acquirers')
  BY <1>1, <1>2 DEF RequestOK
<1>4. acquirers' \in [Stories -> SUBSET Clients] /\ count' \in [Stories -> Int] /\ CountInv'
  BY DEF Inv, DirectoryInv, TypeInv, CountInv
<1> QED BY <1>1, <1>2, <1>3, <1>4, BeginInv

\* A disconnect begins with the stories its client holds.
LEMMA ClientDisconnectInv ==
  ASSUME Inv, NEW c \in Clients, ClientDisconnect(c)
  PROVE  Inv'
<1> DEFINE held == Held(c)
           p == IF held = {} THEN "remove" ELSE "release"
           q == [NoRequest EXCEPT !.op = "disconnect", !.todo = held, !.at = p]
<1>1. held \in SUBSET Stories /\ \A s \in held : c \in acquirers[s]
  BY DEF Held
<1>2. BeginRequest(c, q) /\ UNCHANGED <<acquirers, count>>
  BY DEF ClientDisconnect, meta
<1>3. "disconnect" \in Ops \ {"none", "acquire"} /\ p \in Places
  BY DEF Ops, Places
<1>4. q \in Request /\ q.op = "disconnect" /\ q.todo = held /\ q.at = p /\ q.stops = {}
  <2> HIDE DEF held, p
  <2> QED BY <1>1, <1>3, IdleFields DEF Request
<1> HIDE DEF held, q
<1> QED BY <1>1, <1>2, <1>3, <1>4, BeginReleasesInv

\* A destroy begins with the stories its client holds.
LEMMA BeginDestroyInv ==
  ASSUME Inv, NEW c \in Clients, NEW op \in {"destroyStory", "destroyChronicle"},
         NEW subject \in Stories \cup Chronicles, NEW stories \in SUBSET Stories,
         BeginDestroy(c, op, subject, stories)
  PROVE  Inv'
<1> DEFINE held == {s \in stories : c \in acquirers[s]}
           p == IF held = {} THEN "remove" ELSE "release"
           q == [NoRequest EXCEPT !.op = op, !.subject = subject, !.todo = held, !.at = p]
<1>1. held \in SUBSET Stories /\ \A s \in held : c \in acquirers[s]
  OBVIOUS
<1>2. BeginRequest(c, q) /\ UNCHANGED <<acquirers, count>>
  BY DEF BeginDestroy, meta
<1>3. op \in Ops \ {"none", "acquire"} /\ p \in Places
  BY DEF Ops, Places
<1>4. q \in Request /\ q.op = op /\ q.todo = held /\ q.at = p /\ q.stops = {}
  <2> HIDE DEF held, p
  <2> QED BY <1>1, <1>3, IdleFields DEF Request
<1> HIDE DEF held, q
<1> QED BY <1>1, <1>2, <1>3, <1>4, BeginReleasesInv

\* A disconnect or a destroy releases one of its stories.
LEMMA AutoReleaseInv ==
  ASSUME Inv, NEW c \in Clients, NEW s \in Stories, AutoRelease(c, s)
  PROVE  Inv'
<1> DEFINE r == request[c]
           todo == r.todo \ {s}
           stops == IF WasLastAcquirer(s) THEN r.stops \cup {s} ELSE r.stops
           n == [r EXCEPT !.todo = todo, !.stops = stops]
           e == [n EXCEPT !.at = "erase"]
           q == IF r.op = "disconnect" THEN IF n.todo # {} THEN n ELSE AfterStop(n)
                ELSE IF n.stops # {} THEN e ELSE AfterStop(n)
<1>1. /\ r.at = "release" /\ s \in r.todo /\ release_story(c, s) /\ request' = [request EXCEPT ![c] = q]
      /\ UNCHANGED <<activeStories, process, starts, adminClient, registration, pipelines, astray, overlap, rolledBack,
                     undone>>
  <2> HIDE DEF AfterStop
  <2>1. n = [r EXCEPT !.todo = @ \ {s}, !.stops = IF WasLastAcquirer(s) THEN @ \cup {s} ELSE @]
    OBVIOUS
  <2> HIDE DEF n
  <2> QED BY <2>1 DEF AutoRelease, Proceed, registry, keepers, history
<1>2. /\ "release" \notin AcquirePlaces \cup GroupPlaces \cup StopPlaces
      /\ "erase" \notin AcquirePlaces \cup GroupPlaces \cup StopPlaces /\ "erase" \in Places
  BY DEF AcquirePlaces, GroupPlaces, StopPlaces, Places
<1>3. r \in Request /\ RequestOK(c, r, acquirers)
  BY RequestFacts
<1>4. /\ r.op # "acquire" /\ r.op # "none" /\ c \in acquirers[s] /\ (r.op # "disconnect" => r.stops = {})
      /\ \A x \in r.todo : c \in acquirers[x]
      /\ r.todo \subseteq Stories /\ r.stops \subseteq Stories
  <2>1. r.todo \subseteq Stories /\ r.stops \subseteq Stories
    BY <1>3 DEF Request
  <2> HIDE DEF n, q, r
  <2> QED BY <1>1, <1>2, <1>3, <2>1, IdleFields DEF RequestOK, AcquirePlaces, StopPlaces
<1>5. todo \in SUBSET Stories /\ stops \in SUBSET Stories
  BY <1>4
<1>6. /\ n \in Request /\ n.op = r.op /\ n.at = r.at /\ n.todo = todo /\ n.stops = stops
  <2> HIDE DEF r, todo, stops
  <2> QED BY <1>3, <1>5 DEF Request
<1>7. /\ acquirers' \in [Stories -> SUBSET Clients] /\ count' \in [Stories -> Int] /\ CountInv'
      /\ \A x \in Stories : x # s => acquirers'[x] = acquirers[x]
      /\ \A d \in Clients : d # c => (d \in acquirers'[s] <=> d \in acquirers[s])
      /\ WasLastAcquirer(s) <=> acquirers'[s] = {}
  <2> HIDE DEF q
  <2> QED BY <1>1, <1>4, ReleaseFacts
<1>8. /\ \A x \in todo : c \in acquirers'[x]
      /\ r.stops \subseteq stops /\ (acquirers'[s] = {} => s \in stops)
      /\ r.op # "disconnect" => stops = {} \/ stops = {s}
  <2> HIDE DEF q
  <2> QED BY <1>4, <1>7
<1> HIDE DEF r, todo, stops, n
<1>9. /\ q \in Request /\ RequestOK(c, q, acquirers') /\ q.stops = stops /\ q.op # "acquire"
      /\ q.at \notin GroupPlaces \cup StopPlaces
  <2>1. CASE r.op = "disconnect" /\ n.todo # {}
    <3>1. RequestOK(c, n, acquirers')
      BY <1>1, <1>2, <1>6, <1>8, <2>1 DEF RequestOK
    <3> QED BY <1>1, <1>2, <1>6, <2>1, <3>1
  <2>2. CASE r.op # "disconnect" /\ n.stops # {}
    <3>1. /\ e \in Request /\ e.op = r.op /\ e.at = "erase" /\ e.todo = todo /\ e.stops = stops
      BY <1>2, <1>6, AtFields
    <3> HIDE DEF e
    <3>2. RequestOK(c, e, acquirers')
      BY <1>2, <1>4, <1>6, <1>8, <2>2, <3>1 DEF RequestOK
    <3> QED BY <1>2, <1>4, <2>2, <3>1, <3>2
  <2>3. CASE IF r.op = "disconnect" THEN n.todo = {} ELSE n.stops = {}
    <3> DEFINE a == AfterStop(n)
    <3>1. /\ n.op # "none" /\ n.op # "acquire" /\ (n.op # "disconnect" => n.stops = {})
          /\ \A x \in n.todo : c \in acquirers'[x]
          /\ n.op = "acquire" => n.story \in Stories /\ n.todo = {} /\ c \in acquirers'[n.story]
      BY <1>4, <1>6, <1>8, <2>3
    <3>2. /\ a \in Request /\ RequestOK(c, a, acquirers') /\ a.stops = n.stops
          /\ a.at \notin GroupPlaces \cup StopPlaces
          /\ a.op = "acquire" => n.op = "acquire" /\ a.story = n.story
      <4>1. n \in Request
        BY <1>6
      <4> QED BY <3>1, <4>1, AfterStopFields
    <3>3. q = a
      BY <2>3
    <3> HIDE DEF a, q
    <3> QED BY <1>6, <3>1, <3>2, <3>3
  <2> QED BY <2>1, <2>2, <2>3
<1> HIDE DEF q
<1>10. /\ DirectoryInv /\ TypeInv /\ PipelineInv /\ AloneInv /\ r = request[c]
       /\ activeStories \in [Stories -> Groups \cup {None}]
  BY DEF Inv, DirectoryInv, TypeInv, r
<1>11. ~overlap => rolledBack = {} /\ \A d \in Clients : d # c => request[d] = NoRequest
  BY <1>1, <1>10, IdleFields DEF AloneInv
<1>12. \A x \in Stories : activeStories'[x] # None =>
         \/ acquirers'[x] # {} \/ x \in astray' \cup rolledBack' \/ x \in q.stops
         \/ activeStories[x] # None /\ acquirers[x] = {} /\ x \notin request[c].stops
  BY <1>1, <1>7, <1>8, <1>9, <1>10
<1>13. DirectoryInv'
  <2>1. /\ astray \subseteq astray' /\ rolledBack \subseteq rolledBack' /\ (overlap => overlap')
        /\ (~overlap' => rolledBack' = {})
        /\ ~overlap' => \A d \in Clients : d # c => request[d] = NoRequest
        /\ activeStories' \in [Stories -> Groups \cup {None}]
        /\ \A x \in Stories, d \in Clients : d # c /\ d \in acquirers[x] => d \in acquirers'[x]
    BY <1>1, <1>7, <1>10, <1>11
  <2> QED BY <1>1, <1>7, <1>9, <1>10, <1>12, <2>1, DirectoryStep
<1>14. PipelineInv'
  <2>1. request[c].at \notin StopPlaces /\ q.at \notin StartPlaces
    BY <1>1, <1>2, <1>9, <1>10, PlaceFacts
  <2> QED BY <1>1, <1>9, <1>10, <2>1, PipelineKept
<1> QED BY <1>13, <1>14 DEF Inv

-----------------------------------------------------------------------------
(* The steps of keepers and of their registrations                         *)

\* What is known of keepers, in the form their steps use it.
LEMMA KeeperFacts ==
  ASSUME Inv
  PROVE  /\ TypeInv /\ DirectoryInv /\ PipelineInv /\ KeeperTypeInv /\ KeeperInv /\ StartInv /\ RecordedInv
         /\ adminClient \in [Keepers -> 0 .. MaxStarts] /\ starts \in [Keepers -> 1 .. MaxStarts]
         /\ process \in [Keepers -> {"down", "booting", "joined", "leaving"}]
         /\ pipelines \in [Keepers -> SUBSET Stories]
         /\ registration \in [Keepers -> [1 .. MaxStarts -> Registration]]
         /\ \A k \in Keepers, n \in 1 .. MaxStarts : registration[k][n] \in Registration
BY DEF Inv, DirectoryInv, PipelineInv, KeeperTypeInv

\* What a registration that is not under way looks like.
LEMMA IdleRegistration ==
  /\ NoRegistration \in Registration /\ NoRegistration.at = "none"
BY DEF NoRegistration, Registration

\* A registration goes on, and may start or stop the story on its keeper.
LEMMA RegistrationStep ==
  ASSUME Inv, NEW k \in Keepers, NEW n \in 1 .. MaxStarts, NEW r \in Registration,
         registration' = [registration EXCEPT ![k][n] = r],
         UNCHANGED <<process, starts, adminClient, activeStories, request, undone>>,
         astray \subseteq astray', pipelines' \in [Keepers -> SUBSET Stories],
         \A l \in Keepers : l # k => pipelines'[l] = pipelines[l],
         process[k] = "down" => pipelines'[k] = {},
         process[k] = "booting" => pipelines'[k] \subseteq pipelines[k] \cup astray',
         r.at \in {"start", "recheck", "stop"} => r.story \in Stories,
         r.at \in {"start", "stop"} /\ process[k] = "joined" => n = adminClient[k],
         \A s \in Stories : process[k] = "joined" /\ s \in pipelines'[k] =>
           \/ s \in astray' \/ activeStories[s] = GroupOf[k]
           \/ n = adminClient[k] /\ r.at \in {"recheck", "stop"} /\ r.story = s
           \/ /\ s \in pipelines[k]
              /\ ~(n = adminClient[k] /\ registration[k][n].at \in {"recheck", "stop"}
                   /\ registration[k][n].story = s)
  PROVE  PipelineInv'
<1> USE KeeperFacts
<1>1. /\ registration' \in [Keepers -> [1 .. MaxStarts -> Registration]] /\ registration'[k][n] = r
      /\ \A l \in Keepers, m \in 1 .. MaxStarts : l # k \/ m # n => registration'[l][m] = registration[l][m]
  OBVIOUS
<1>2. KeeperTypeInv'
  BY <1>1 DEF KeeperTypeInv
<1>3. KeeperInv'
  <2> SUFFICES ASSUME NEW l \in Keepers
               PROVE  /\ process[l] = "joined" => adminClient[l] = starts[l]
                      /\ process[l] = "down" => pipelines'[l] = {}
                      /\ process[l] = "booting" => pipelines'[l] \subseteq astray'
                      /\ \A m \in 1 .. MaxStarts :
                           /\ registration'[l][m].at \in {"start", "recheck", "stop"}
                                => registration'[l][m].story \in Stories
                           /\ registration'[l][m].at \in {"start", "stop"} /\ process[l] = "joined"
                                => m = adminClient[l]
    BY DEF KeeperInv
  <2>1. /\ process[l] = "joined" => adminClient[l] = starts[l]
        /\ process[l] = "down" => pipelines'[l] = {}
        /\ process[l] = "booting" => pipelines'[l] \subseteq astray'
    BY DEF KeeperInv
  <2>2. ASSUME NEW m \in 1 .. MaxStarts
        PROVE  /\ registration'[l][m].at \in {"start", "recheck", "stop"} => registration'[l][m].story \in Stories
               /\ registration'[l][m].at \in {"start", "stop"} /\ process[l] = "joined" => m = adminClient[l]
    <3>1. CASE l = k /\ m = n
      BY <1>1, <3>1
    <3>2. CASE l # k \/ m # n
      BY <1>1, <3>2 DEF KeeperInv
    <3> QED BY <3>1, <3>2
  <2> QED BY <2>1, <2>2
<1>4. StartInv'
  BY DEF StartInv
<1>5. RecordedInv'
  <2> SUFFICES ASSUME NEW l \in Keepers, NEW s \in Stories, process[l] = "joined", s \in pipelines'[l],
                      s \notin astray' \cup undone, activeStories[s] # GroupOf[l],
                      \A d \in Clients : ~StopDue(d, l, s), ~(LookDue(l, s)')
               PROVE  FALSE
    BY DEF RecordedInv, StopDue
  <2>1. adminClient[l] \in 1 .. MaxStarts
    BY DEF KeeperInv
  <2>2. CASE l # k
    <3>1. LookDue(l, s)
      BY <2>2 DEF RecordedInv
    <3> QED BY <1>1, <2>1, <2>2, <3>1 DEF LookDue
  <2>3. CASE l = k
    <3>1. ~(n = adminClient[k] /\ r.at \in {"recheck", "stop"} /\ r.story = s)
      BY <1>1, <2>3 DEF LookDue
    <3>2. /\ s \in pipelines[k]
          /\ ~(n = adminClient[k] /\ registration[k][n].at \in {"recheck", "stop"}
               /\ registration[k][n].story = s)
      BY <2>3, <3>1
    <3>3. LookDue(k, s)
      BY <2>3, <3>2 DEF RecordedInv
    <3> QED BY <1>1, <2>1, <2>3, <3>2, <3>3 DEF LookDue
  <2> QED BY <2>2, <2>3
<1> QED BY <1>2, <1>3, <1>4, <1>5 DEF PipelineInv

\* The next story of a registration, or its end.
LEMMA NextHeldFacts ==
  ASSUME NEW r \in Registration, NEW s
  PROVE  NextHeld(r, s) \in Registration /\ NextHeld(r, s).at \in {"none", "check"}
<1>1. CASE r.todo = {s}
  BY <1>1, IdleRegistration DEF NextHeld
<1>2. CASE r.todo # {s}
  <2> DEFINE todo == r.todo \ {s}
             q == [r EXCEPT !.at = "check", !.todo = todo, !.story = None]
  <2>1. todo \in SUBSET Stories
    BY DEF Registration
  <2>2. NextHeld(r, s) = q
    BY <1>2 DEF NextHeld
  <2> HIDE DEF todo
  <2>3. q \in Registration /\ q.at = "check"
    BY <2>1 DEF Registration
  <2> QED BY <2>2, <2>3
<1> QED BY <1>1, <1>2

\* The first look of startHeldStoriesOnKeeper: start the story only if it is listed.
LEMMA CheckHeldInv ==
  ASSUME Inv, NEW k \in Keepers, NEW n \in 1 .. MaxStarts, NEW s \in Stories, CheckHeld(k, n, s)
  PROVE  Inv'
<1> DEFINE r == registration[k][n]
           b == [r EXCEPT !.at = "start", !.story = s]
           q == IF ~StillRegistered(k, n) THEN NoRegistration
                ELSE IF RecordedByGroup(k, s) THEN b ELSE NextHeld(r, s)
<1>1. /\ r.at = "check" /\ registration' = [registration EXCEPT ![k][n] = q]
      /\ UNCHANGED <<acquirers, count, activeStories, request, rolledBack, overlap, astray, undone, process, starts,
                     adminClient, pipelines>>
  BY DEF CheckHeld, GoOn, meta, registry, keepers, history
<1>2. r \in Registration
  BY KeeperFacts
<1>3. b \in Registration /\ b.at = "start" /\ b.story = s
  <2> HIDE DEF r
  <2> QED BY <1>2 DEF Registration
<1>4. NextHeld(r, s) \in Registration /\ NextHeld(r, s).at \in {"none", "check"}
  BY <1>2, NextHeldFacts
<1>5. /\ q \in Registration /\ (q.at \in {"start", "recheck", "stop"} => q.story \in Stories)
      /\ q.at \in {"start", "stop"} => n = adminClient[k]
  <2> HIDE DEF b, r
  <2> QED BY <1>3, <1>4, IdleRegistration DEF StillRegistered
<1> HIDE DEF q, b
<1>6. DirectoryInv'
  BY <1>1, DirectoryQuiet DEF Inv
<1>7. PipelineInv'
  <2>1. /\ pipelines' \in [Keepers -> SUBSET Stories] /\ (process[k] = "down" => pipelines'[k] = {})
        /\ registration[k][n].at \notin {"recheck", "stop"}
    BY <1>1, KeeperFacts DEF KeeperInv
  <2> QED BY <1>1, <1>5, <2>1, RegistrationStep
<1> QED BY <1>6, <1>7 DEF Inv

\* The second look: a story no longer listed is stopped again.
LEMMA RecheckHeldInv ==
  ASSUME Inv, NEW k \in Keepers, NEW n \in 1 .. MaxStarts, RecheckHeld(k, n)
  PROVE  Inv'
<1> DEFINE r == registration[k][n]
           gone == StillRegistered(k, n) /\ ~RecordedByGroup(k, r.story)
           b == [r EXCEPT !.at = "stop"]
           q == IF gone THEN b ELSE NextHeld(r, r.story)
<1>1. /\ r.at = "recheck" /\ registration' = [registration EXCEPT ![k][n] = q] /\ (overlap => overlap')
      /\ UNCHANGED <<acquirers, count, activeStories, request, rolledBack, astray, undone, process, starts,
                     adminClient, pipelines>>
  BY DEF RecheckHeld, GoOn, meta, registry, keepers
<1>2. r \in Registration /\ r.story \in Stories
  BY <1>1, KeeperFacts DEF KeeperInv
<1>3. b \in Registration /\ b.at = "stop" /\ b.story = r.story
  <2> HIDE DEF r
  <2> QED BY <1>2 DEF Registration
<1>4. NextHeld(r, r.story) \in Registration /\ NextHeld(r, r.story).at \in {"none", "check"}
  <2> HIDE DEF r
  <2> QED BY <1>2, NextHeldFacts
<1>5. /\ q \in Registration /\ (q.at \in {"start", "recheck", "stop"} => q.story \in Stories)
      /\ q.at \in {"start", "stop"} => n = adminClient[k]
      /\ \/ n # adminClient[k] \/ activeStories[r.story] = GroupOf[k]
         \/ q.at = "stop" /\ q.story = r.story
  <2> HIDE DEF b, r
  <2> QED BY <1>2, <1>3, <1>4 DEF StillRegistered, RecordedByGroup
<1> HIDE DEF q, b
<1>6. DirectoryInv'
  BY <1>1, DirectoryQuiet DEF Inv
<1>7. PipelineInv'
  <2>1. /\ pipelines' \in [Keepers -> SUBSET Stories] /\ (process[k] = "down" => pipelines'[k] = {})
    BY <1>1, KeeperFacts DEF KeeperInv
  <2>2. \A s \in Stories : process[k] = "joined" /\ s \in pipelines'[k] =>
          \/ s \in astray' \/ activeStories[s] = GroupOf[k]
          \/ n = adminClient[k] /\ q.at \in {"recheck", "stop"} /\ q.story = s
          \/ /\ s \in pipelines[k]
             /\ ~(n = adminClient[k] /\ registration[k][n].at \in {"recheck", "stop"}
                  /\ registration[k][n].story = s)
    BY <1>1, <1>5
  <2>3. /\ q \in Registration /\ (q.at \in {"start", "recheck", "stop"} => q.story \in Stories)
        /\ q.at \in {"start", "stop"} /\ process[k] = "joined" => n = adminClient[k]
    BY <1>5
  <2>4. /\ astray \subseteq astray' /\ \A l \in Keepers : l # k => pipelines'[l] = pipelines[l]
        /\ process[k] = "booting" => pipelines'[k] \subseteq pipelines[k] \cup astray'
    BY <1>1
  <2> HIDE DEF r
  <2> QED BY <1>1, <2>1, <2>2, <2>3, <2>4, RegistrationStep
<1> QED BY <1>6, <1>7 DEF Inv

\* The start between the two looks; the second look is then still due.
LEMMA StartHeldInv ==
  ASSUME Inv, NEW k \in Keepers, NEW n \in 1 .. MaxStarts, NEW ran \in BOOLEAN, NEW told \in BOOLEAN,
         StartHeld(k, n, ran, told)
  PROVE  Inv'
<1> DEFINE r == registration[k][n]
           q == [r EXCEPT !.at = "recheck"]
<1>1. /\ r.at = "start" /\ registration' = [registration EXCEPT ![k][n] = q]
      /\ UNCHANGED <<acquirers, count, activeStories, request, rolledBack, overlap, undone, process, starts, adminClient>>
      /\ ran => process[k] # "down"
      /\ pipelines' = IF ran THEN [pipelines EXCEPT ![k] = @ \cup {r.story}] ELSE pipelines
      /\ astray' = IF ran /\ process[k] = "booting" THEN astray \cup {r.story} ELSE astray
  BY DEF StartHeld, StartPipeline, Rpc, GoOn, meta, registry
<1>2. /\ r \in Registration /\ r.story \in Stories
      /\ process[k] = "joined" => n = adminClient[k]
  BY <1>1, KeeperFacts DEF KeeperInv
<1>3. q \in Registration /\ q.at = "recheck" /\ q.story = r.story
  <2> HIDE DEF r
  <2> QED BY <1>2 DEF Registration
<1> HIDE DEF q
<1>4. DirectoryInv'
  BY <1>1, DirectoryQuiet DEF Inv
<1>5. PipelineInv'
  <2> HIDE DEF r
  <2>1. /\ pipelines' \in [Keepers -> SUBSET Stories]
        /\ \A l \in Keepers : l # k => pipelines'[l] = pipelines[l]
        /\ pipelines'[k] \subseteq pipelines[k] \cup {r.story} /\ (~ran => pipelines'[k] = pipelines[k])
    BY <1>1, <1>2, KeeperFacts
  <2>2. /\ astray \subseteq astray' /\ (process[k] = "down" => pipelines'[k] = {})
        /\ process[k] = "booting" => pipelines'[k] \subseteq pipelines[k] \cup astray'
    BY <1>1, <2>1, KeeperFacts DEF KeeperInv
  <2>3. registration[k][n].at = "start"
    BY <1>1 DEF r
  <2>4. \A s \in Stories : process[k] = "joined" /\ s \in pipelines'[k] =>
          \/ s \in astray' \/ activeStories[s] = GroupOf[k]
          \/ n = adminClient[k] /\ q.at \in {"recheck", "stop"} /\ q.story = s
          \/ /\ s \in pipelines[k]
             /\ ~(n = adminClient[k] /\ registration[k][n].at \in {"recheck", "stop"}
                  /\ registration[k][n].story = s)
    BY <1>2, <1>3, <2>1, <2>3
  <2>5. /\ (q.at \in {"start", "recheck", "stop"} => q.story \in Stories) /\ q.at \notin {"start", "stop"}
    BY <1>2, <1>3
  <2> QED BY <1>1, <1>3, <2>1, <2>2, <2>4, <2>5, RegistrationStep
<1> QED BY <1>4, <1>5 DEF Inv

\* The stop after the second look, or the stop goes astray.
LEMMA StopHeldInv ==
  ASSUME Inv, NEW k \in Keepers, NEW n \in 1 .. MaxStarts, NEW ran \in BOOLEAN, NEW told \in BOOLEAN,
         StopHeld(k, n, ran, told)
  PROVE  Inv'
<1> DEFINE r == registration[k][n]
           q == NextHeld(r, r.story)
<1>1. /\ r.at = "stop" /\ registration' = [registration EXCEPT ![k][n] = q]
      /\ UNCHANGED <<acquirers, count, activeStories, request, rolledBack, overlap, undone, process, starts, adminClient>>
      /\ pipelines' = IF ran THEN [pipelines EXCEPT ![k] = @ \ {r.story}] ELSE pipelines
      /\ astray' = IF ran \/ process[k] = "down" THEN astray ELSE astray \cup {r.story}
  BY DEF StopHeld, StopPipeline, GoOn, meta, registry
<1>2. r \in Registration /\ r.story \in Stories
  BY <1>1, KeeperFacts DEF KeeperInv
<1>3. q \in Registration /\ q.at \in {"none", "check"}
  <2> HIDE DEF r
  <2> QED BY <1>2, NextHeldFacts
<1> HIDE DEF q
<1>4. DirectoryInv'
  BY <1>1, DirectoryQuiet DEF Inv
<1>5. PipelineInv'
  <2>1. /\ pipelines' \in [Keepers -> SUBSET Stories]
        /\ \A l \in Keepers : l # k => pipelines'[l] = pipelines[l]
        /\ pipelines'[k] \subseteq pipelines[k] /\ (ran => r.story \notin pipelines'[k])
    <3> HIDE DEF r
    <3> QED BY <1>1, <1>2, KeeperFacts
  <2>2. /\ astray \subseteq astray' /\ (process[k] = "down" => pipelines'[k] = {})
        /\ process[k] = "booting" => pipelines'[k] \subseteq pipelines[k] \cup astray'
    BY <1>1, <2>1, KeeperFacts DEF KeeperInv
  <2>3. ASSUME NEW s \in Stories, process[k] = "joined", s \in pipelines'[k]
        PROVE  \/ s \in astray' \/ activeStories[s] = GroupOf[k]
               \/ n = adminClient[k] /\ q.at \in {"recheck", "stop"} /\ q.story = s
               \/ /\ s \in pipelines[k]
                  /\ ~(n = adminClient[k] /\ registration[k][n].at \in {"recheck", "stop"}
                       /\ registration[k][n].story = s)
    <3>1. CASE s = r.story
      BY <1>1, <2>1, <2>3, <3>1
    <3>2. CASE s # r.story
      BY <2>1, <2>3, <3>2
    <3> QED BY <3>1, <3>2
  <2>4. q \in Registration /\ q.at \notin {"start", "recheck", "stop"}
    BY <1>3
  <2>5. /\ registration' = [registration EXCEPT ![k][n] = q]
        /\ UNCHANGED <<process, starts, adminClient, activeStories, request, undone>>
    BY <1>1
  <2>6. \A s \in Stories : process[k] = "joined" /\ s \in pipelines'[k] =>
          \/ s \in astray' \/ activeStories[s] = GroupOf[k]
          \/ n = adminClient[k] /\ q.at \in {"recheck", "stop"} /\ q.story = s
          \/ /\ s \in pipelines[k]
             /\ ~(n = adminClient[k] /\ registration[k][n].at \in {"recheck", "stop"}
                  /\ registration[k][n].story = s)
    BY <2>3
  <2> HIDE DEF r
  <2> QED BY <2>1, <2>2, <2>4, <2>5, <2>6, RegistrationStep
<1> QED BY <1>4, <1>5 DEF Inv

\* A step of keeper k that leaves requests, entries and history alone.
LEMMA KeeperStepInv ==
  ASSUME Inv, NEW k \in Keepers,
         UNCHANGED <<acquirers, count, activeStories, request, astray, overlap, rolledBack, undone>>,
         KeeperTypeInv',
         \A l \in Keepers : l # k => /\ process'[l] = process[l] /\ adminClient'[l] = adminClient[l]
                                     /\ starts'[l] = starts[l] /\ pipelines'[l] = pipelines[l]
                                     /\ registration'[l] = registration[l],
         /\ process'[k] = "joined" => adminClient'[k] = starts'[k]
         /\ process'[k] = "down" => pipelines'[k] = {}
         /\ process'[k] = "booting" => pipelines'[k] \subseteq astray,
         \A n \in 1 .. MaxStarts :
           /\ registration'[k][n].at \in {"start", "recheck", "stop"} => registration'[k][n].story \in Stories
           /\ registration'[k][n].at \in {"start", "stop"} /\ process'[k] = "joined" => n = adminClient'[k],
         process'[k] = "joined" => pipelines'[k] \subseteq astray
  PROVE  Inv'
<1> USE KeeperFacts
<1>1. DirectoryInv'
  BY DirectoryQuiet
<1>2. KeeperInv'
  <2> SUFFICES ASSUME NEW l \in Keepers
               PROVE  /\ process'[l] = "joined" => adminClient'[l] = starts'[l]
                      /\ process'[l] = "down" => pipelines'[l] = {}
                      /\ process'[l] = "booting" => pipelines'[l] \subseteq astray'
                      /\ \A m \in 1 .. MaxStarts :
                           /\ registration'[l][m].at \in {"start", "recheck", "stop"}
                                => registration'[l][m].story \in Stories
                           /\ registration'[l][m].at \in {"start", "stop"} /\ process'[l] = "joined"
                                => m = adminClient'[l]
    BY DEF KeeperInv
  <2>1. CASE l = k
    BY <2>1
  <2>2. CASE l # k
    BY <2>2 DEF KeeperInv
  <2> QED BY <2>1, <2>2
<1>3. StartInv'
  BY DEF StartInv
<1>4. RecordedInv'
  <2> SUFFICES ASSUME NEW l \in Keepers, NEW s \in Stories, process'[l] = "joined", s \in pipelines'[l],
                      s \notin astray \cup undone, activeStories[s] # GroupOf[l],
                      \A d \in Clients : ~StopDue(d, l, s)
               PROVE  LookDue(l, s)'
    BY DEF RecordedInv, StopDue
  <2>1. l # k
    OBVIOUS
  <2>2. LookDue(l, s)
    BY <2>1 DEF RecordedInv
  <2> QED BY <2>1, <2>2 DEF LookDue
<1> QED BY <1>1, <1>2, <1>3, <1>4 DEF Inv, PipelineInv

\* A keeper starts again, and is not registered yet.
LEMMA KeeperStartsInv ==
  ASSUME Inv, NEW k \in Keepers, KeeperStarts(k)
  PROVE  Inv'
<1> USE KeeperFacts
<1>1. /\ process[k] = "down" /\ starts[k] < MaxStarts
      /\ process' = [process EXCEPT ![k] = "booting"] /\ starts' = [starts EXCEPT ![k] = @ + 1]
      /\ UNCHANGED <<acquirers, count, activeStories, request, astray, overlap, rolledBack, undone, adminClient,
                     pipelines, registration>>
  BY DEF KeeperStarts, meta, registry, history
<1>2. starts[k] + 1 \in 1 .. MaxStarts
  BY <1>1, VisorAssumption
<1>3. KeeperTypeInv'
  BY <1>1, <1>2 DEF KeeperTypeInv
<1>4. process'[k] = "booting" /\ pipelines'[k] = {}
  BY <1>1 DEF KeeperInv
<1>5. \A n \in 1 .. MaxStarts :
        registration'[k][n].at \in {"start", "recheck", "stop"} => registration'[k][n].story \in Stories
  BY <1>1 DEF KeeperInv
<1>6. \A l \in Keepers : l # k => /\ process'[l] = process[l] /\ adminClient'[l] = adminClient[l]
                                  /\ starts'[l] = starts[l] /\ pipelines'[l] = pipelines[l]
                                  /\ registration'[l] = registration[l]
  BY <1>1
<1> QED BY <1>1, <1>3, <1>4, <1>5, <1>6, KeeperStepInv

\* A registration puts the new admin client in, once the old one is dismantled.
LEMMA RegisterKeeperInv ==
  ASSUME Inv, NEW k \in Keepers, registerKeeperProcess(k)
  PROVE  Inv'
<1> USE KeeperFacts
<1> DEFINE n == starts[k]
           held == HeldStories(k)
           r == [NoRegistration EXCEPT !.at = "check", !.todo = held]
<1>1. /\ process[k] = "booting"
      /\ UNCHANGED <<acquirers, count, activeStories, request, astray, overlap, rolledBack, undone, starts, pipelines>>
      /\ \/ /\ adminClient' = [adminClient EXCEPT ![k] = 0] /\ UNCHANGED <<process, registration>>
         \/ /\ Dismantled(k) /\ adminClient' = [adminClient EXCEPT ![k] = n]
            /\ process' = [process EXCEPT ![k] = "joined"]
            /\ \/ UNCHANGED registration
               \/ registration' = [registration EXCEPT ![k][n] = r]
  BY DEF registerKeeperProcess, meta, history
<1>2. n \in 1 .. MaxStarts /\ n \in 0 .. MaxStarts /\ 0 \in 0 .. MaxStarts /\ MaxStarts \in Nat
  BY VisorAssumption
<1>3. r \in Registration /\ r.at = "check"
  <2>1. held \in SUBSET Stories
    BY DEF HeldStories
  <2> HIDE DEF held
  <2> QED BY <2>1 DEF NoRegistration, Registration
<1> HIDE DEF r, n
<1>4. pipelines[k] \subseteq astray
  BY <1>1 DEF KeeperInv
<1>5. CASE adminClient' = [adminClient EXCEPT ![k] = 0] /\ UNCHANGED <<process, registration>>
  <2>1. KeeperTypeInv'
    BY <1>1, <1>2, <1>5 DEF KeeperTypeInv
  <2>2. \A m \in 1 .. MaxStarts :
          registration'[k][m].at \in {"start", "recheck", "stop"} => registration'[k][m].story \in Stories
    BY <1>5 DEF KeeperInv
  <2>3. \A l \in Keepers : l # k => /\ process'[l] = process[l] /\ adminClient'[l] = adminClient[l]
                                    /\ starts'[l] = starts[l] /\ pipelines'[l] = pipelines[l]
                                    /\ registration'[l] = registration[l]
    BY <1>1, <1>5
  <2>4. process'[k] = "booting" /\ pipelines'[k] \subseteq astray
    BY <1>1, <1>4, <1>5
  <2> QED BY <1>1, <2>1, <2>2, <2>3, <2>4, KeeperStepInv
<1>6. CASE /\ Dismantled(k) /\ adminClient' = [adminClient EXCEPT ![k] = n]
           /\ process' = [process EXCEPT ![k] = "joined"]
           /\ \/ UNCHANGED registration
              \/ registration' = [registration EXCEPT ![k][n] = r]
  <2>1. /\ registration' \in [Keepers -> [1 .. MaxStarts -> Registration]]
        /\ \A m \in 1 .. MaxStarts : registration'[k][m] = registration[k][m] \/ registration'[k][m] = r
        /\ \A l \in Keepers : l # k => registration'[l] = registration[l]
    <3>1. registration \in [Keepers -> [1 .. MaxStarts -> Registration]]
      BY DEF KeeperTypeInv
    <3>2. CASE UNCHANGED registration
      BY <3>1, <3>2
    <3>3. CASE registration' = [registration EXCEPT ![k][n] = r]
      BY <1>2, <1>3, <3>1, <3>3
    <3> QED BY <1>6, <3>2, <3>3
  <2>2. KeeperTypeInv'
    BY <1>1, <1>2, <1>6, <2>1 DEF KeeperTypeInv
  <2>3. \A m \in 1 .. MaxStarts :
          /\ registration'[k][m].at \in {"start", "recheck", "stop"} => registration'[k][m].story \in Stories
          /\ registration'[k][m].at \notin {"start", "stop"}
    BY <1>3, <1>6, <2>1 DEF KeeperInv, Dismantled
  <2>4. \A l \in Keepers : l # k => /\ process'[l] = process[l] /\ adminClient'[l] = adminClient[l]
                                    /\ starts'[l] = starts[l] /\ pipelines'[l] = pipelines[l]
                                    /\ registration'[l] = registration[l]
    BY <1>1, <1>6, <2>1
  <2>5. process'[k] = "joined" /\ pipelines'[k] \subseteq astray /\ adminClient'[k] = starts'[k]
    BY <1>1, <1>4, <1>6 DEF n
  <2> QED BY <1>1, <2>2, <2>3, <2>4, <2>5, KeeperStepInv
<1> QED BY <1>1, <1>5, <1>6

\* A keeper that unregisters is no longer looked at.
LEMMA UnregisterKeeperInv ==
  ASSUME Inv, NEW k \in Keepers, unregisterKeeperProcess(k)
  PROVE  Inv'
<1> USE KeeperFacts
<1>1. /\ adminClient' = [adminClient EXCEPT ![k] = 0] /\ process' = [process EXCEPT ![k] = "leaving"]
      /\ UNCHANGED <<acquirers, count, activeStories, request, astray, overlap, rolledBack, undone, starts, pipelines,
                     registration>>
  BY DEF unregisterKeeperProcess, meta, history
<1>2. KeeperTypeInv'
  <2>1. 0 \in 0 .. MaxStarts
    BY VisorAssumption
  <2> QED BY <1>1, <2>1 DEF KeeperTypeInv
<1>3. \A m \in 1 .. MaxStarts :
        registration'[k][m].at \in {"start", "recheck", "stop"} => registration'[k][m].story \in Stories
  BY <1>1 DEF KeeperInv
<1>4. \A l \in Keepers : l # k => /\ process'[l] = process[l] /\ adminClient'[l] = adminClient[l]
                                  /\ starts'[l] = starts[l] /\ pipelines'[l] = pipelines[l]
                                  /\ registration'[l] = registration[l]
  BY <1>1
<1>5. process'[k] = "leaving"
  BY <1>1
<1> QED BY <1>1, <1>2, <1>3, <1>4, <1>5, KeeperStepInv

\* A keeper that ends takes its pipelines with it.
LEMMA KeeperEndsInv ==
  ASSUME Inv, NEW k \in Keepers, KeeperEnds(k)
  PROVE  Inv'
<1> USE KeeperFacts
<1>1. /\ process' = [process EXCEPT ![k] = "down"] /\ pipelines' = [pipelines EXCEPT ![k] = {}]
      /\ UNCHANGED <<acquirers, count, activeStories, request, astray, overlap, rolledBack, undone, starts, adminClient,
                     registration>>
  BY DEF KeeperEnds, meta, registry, history
<1>2. KeeperTypeInv'
  BY <1>1 DEF KeeperTypeInv
<1>3. \A m \in 1 .. MaxStarts :
        registration'[k][m].at \in {"start", "recheck", "stop"} => registration'[k][m].story \in Stories
  BY <1>1 DEF KeeperInv
<1>4. \A l \in Keepers : l # k => /\ process'[l] = process[l] /\ adminClient'[l] = adminClient[l]
                                  /\ starts'[l] = starts[l] /\ pipelines'[l] = pipelines[l]
                                  /\ registration'[l] = registration[l]
  BY <1>1
<1>5. process'[k] = "down" /\ pipelines'[k] = {}
  BY <1>1
<1> QED BY <1>1, <1>2, <1>3, <1>4, <1>5, KeeperStepInv

-----------------------------------------------------------------------------
(* What is held exists                                                     *)

\* The directory deletes only what nobody holds; the stories in it are known.
ExistInv == existing \subseteq Stories /\ HeldExists

\* Whoever looks only at the acquirers, or takes one away, keeps it.
LEMMA FewerHolders ==
  ASSUME ExistInv, UNCHANGED <<chronicles, existing>>,
         \A s \in Stories : acquirers'[s] \subseteq acquirers[s]
  PROVE  ExistInv'
BY DEF ExistInv, HeldExists

\* A release takes one holder of one story away.
LEMMA ReleaseHolds ==
  ASSUME TypeInv, ExistInv, NEW c, NEW s, release_story(c, s)
  PROVE  ExistInv'
<1>1. acquirers \in [Stories -> SUBSET Clients]
  BY DEF TypeInv
<1>2. \A t \in Stories : acquirers'[t] \subseteq acquirers[t]
  BY <1>1 DEF release_story
<1> QED BY <1>2, FewerHolders DEF release_story

\* Every step of a client keeps what is held in the directory: destroy_story
\* and destroy_chronicle look at the acquirers in the step that deletes.
LEMMA ClientHolds ==
  ASSUME TypeInv, ExistInv, NEW c \in Clients, ClientStep(c)
  PROVE  ExistInv'
<1>1. acquirers \in [Stories -> SUBSET Clients]
  BY DEF TypeInv
<1>2. ASSUME NEW ch \in Chronicles, CreateChronicle(c, ch) PROVE ExistInv'
  BY <1>2 DEF CreateChronicle, ExistInv, HeldExists
<1>3. ASSUME NEW s \in Stories, AcquireStory(c, s) PROVE ExistInv'
  BY <1>1, <1>3 DEF AcquireStory, ExistInv, HeldExists
<1>4. ASSUME NEW s \in Stories, ReleaseStory(c, s) \/ AutoRelease(c, s) PROVE ExistInv'
  BY <1>4, ReleaseHolds DEF ReleaseStory, AutoRelease
<1>5. CASE RollBackAcquire(c)
  BY <1>5, ReleaseHolds DEF RollBackAcquire
<1>6. CASE destroy_story(c)
  BY <1>6 DEF destroy_story, ExistInv, HeldExists
<1>7. CASE destroy_chronicle(c)
  BY <1>7 DEF destroy_chronicle, StoriesIn, ExistInv, HeldExists
<1>8. CASE UNCHANGED <<chronicles, existing, acquirers>>
  BY <1>8, FewerHolders
<1>9. CASE ClientConnect(c) \/ ClientDisconnect(c) \/ RemoveClientRecord(c) \/ BroadcastDestroy(c)
  BY <1>8, <1>9 DEF ClientConnect, ClientDisconnect, RemoveClientRecord, BroadcastDestroy, meta
<1>10. ASSUME NEW ch \in Chronicles, DestroyChronicle(c, ch) PROVE ExistInv'
  BY <1>8, <1>10 DEF DestroyChronicle, BeginDestroy, meta
<1>11. ASSUME NEW s \in Stories, DestroyStory(c, s) \/ EraseStory(c, s) PROVE ExistInv'
  BY <1>8, <1>11 DEF DestroyStory, BeginDestroy, EraseStory, meta
<1>12. CASE ChooseGroup(c) \/ ListKeepers(c) \/ ForgetStory(c) \/ CopyKeepers(c)
  BY <1>8, <1>12 DEF ChooseGroup, ListKeepers, ForgetStory, CopyKeepers, meta
<1>13. ASSUME NEW told \in BOOLEAN, StartGrapher(c, told) \/ StartPlayer(c, told) PROVE ExistInv'
  BY <1>8, <1>13 DEF StartGrapher, StartPlayer, meta
<1>14. ASSUME NEW told \in BOOLEAN, NEW k \in Keepers, NEW ran \in BOOLEAN,
              StartOnKeeper(c, k, ran, told) \/ StopOnKeeper(c, k, ran, told)
       PROVE  ExistInv'
  BY <1>8, <1>14 DEF StartOnKeeper, StopOnKeeper, meta
<1> QED BY <1>2, <1>3, <1>4, <1>5, <1>6, <1>7, <1>9, <1>10, <1>11, <1>12, <1>13, <1>14 DEF ClientStep

\* Keepers, graphers and players do not touch the directory.
LEMMA ProcessesHold ==
  ASSUME ExistInv, (\E k \in Keepers : KeeperStep(k)) \/ (\E g \in Groups : GroupStep(g))
  PROVE  ExistInv'
<1>1. CASE UNCHANGED <<chronicles, existing, acquirers>>
  BY <1>1, FewerHolders
<1>2. ASSUME NEW k \in Keepers, KeeperStep(k) PROVE ExistInv'
  <2>1. CASE KeeperStarts(k) \/ registerKeeperProcess(k) \/ unregisterKeeperProcess(k) \/ KeeperEnds(k)
    BY <1>1, <2>1 DEF KeeperStarts, registerKeeperProcess, unregisterKeeperProcess, KeeperEnds, meta
  <2>2. ASSUME NEW n \in 1 .. MaxStarts, NEW s \in Stories, CheckHeld(k, n, s) PROVE ExistInv'
    BY <1>1, <2>2 DEF CheckHeld, meta
  <2>3. ASSUME NEW n \in 1 .. MaxStarts, RecheckHeld(k, n) PROVE ExistInv'
    BY <1>1, <2>3 DEF RecheckHeld, meta
  <2>4. ASSUME NEW n \in 1 .. MaxStarts, NEW ran \in BOOLEAN, NEW told \in BOOLEAN,
               StartHeld(k, n, ran, told) \/ StopHeld(k, n, ran, told)
        PROVE  ExistInv'
    BY <1>1, <2>4 DEF StartHeld, StopHeld, meta
  <2> QED BY <1>2, <2>1, <2>2, <2>3, <2>4 DEF KeeperStep
<1>3. ASSUME NEW g \in Groups, GroupStep(g) PROVE ExistInv'
  BY <1>1, <1>3 DEF GroupStep, registerGrapherProcess, unregisterGrapherProcess, registerPlayerProcess,
                    unregisterPlayerProcess, Move, meta
<1> QED BY <1>2, <1>3

\* Every step keeps what is held in the directory.
LEMMA NextHolds == Inv /\ ExistInv /\ [Next]_vars => ExistInv'
<1> SUFFICES ASSUME Inv, ExistInv, [Next]_vars PROVE ExistInv'
  OBVIOUS
<1>1. TypeInv
  BY DEF Inv, DirectoryInv
<1>2. CASE UNCHANGED vars
  BY <1>2, FewerHolders DEF vars, meta
<1> QED BY <1>1, <1>2, ClientHolds, ProcessesHold DEF Next

-----------------------------------------------------------------------------
(* The theorems                                                            *)

\* A deployment in use satisfies the invariant.
LEMMA InitInv == Init => Inv /\ ExistInv
<1> SUFFICES ASSUME Init PROVE Inv /\ ExistInv
  OBVIOUS
<1> USE DEF Init
<1>1. TypeInv
  BY IdleFields DEF TypeInv
<1>2. RequestInv
  BY IdleFields DEF RequestInv, RequestOK, AcquirePlaces, GroupPlaces, StopPlaces
<1>3. CountInv
  BY FS_EmptySet DEF CountInv
<1>4. AloneInv /\ ListedInv /\ RollBackInv
  BY IdleFields DEF AloneInv, ListedInv, RollBackInv
<1>5. KeeperTypeInv
  <2>1. MaxStarts \in Nat /\ MaxStarts # 0
    BY VisorAssumption
  <2>2. 1 \in 1 .. MaxStarts /\ 1 \in 0 .. MaxStarts
    BY <2>1
  <2> QED BY <2>2, IdleRegistration DEF KeeperTypeInv
<1>6. KeeperInv
  BY IdleRegistration DEF KeeperInv
<1>7. StartInv /\ RecordedInv
  BY IdleFields DEF StartInv, StartPlaces, RecordedInv
<1>8. ExistInv
  BY DEF ExistInv, HeldExists
<1> QED BY <1>1, <1>2, <1>3, <1>4, <1>5, <1>6, <1>7, <1>8 DEF Inv, DirectoryInv, PipelineInv

\* A step that touches nothing the invariant is about.
LEMMA ElsewhereInv ==
  ASSUME Inv, UNCHANGED <<acquirers, count, activeStories, request, astray, overlap, rolledBack, undone, process,
                          adminClient, starts, pipelines, registration>>
  PROVE  Inv'
<1>1. DirectoryInv'
  BY DirectoryQuiet DEF Inv
<1>2. KeeperTypeInv' /\ KeeperInv' /\ StartInv'
  BY KeeperFacts DEF KeeperTypeInv, KeeperInv, StartInv
<1>3. RecordedInv'
  BY KeeperFacts DEF RecordedInv, StopDue, LookDue
<1> QED BY <1>1, <1>2, <1>3 DEF Inv, PipelineInv

\* Every step keeps the invariant.
LEMMA NextInv == Inv /\ ExistInv /\ [Next]_vars => Inv'
<1> SUFFICES ASSUME Inv, ExistInv, [Next]_vars PROVE Inv'
  OBVIOUS
<1>1. ASSUME NEW c \in Clients, ClientStep(c) PROVE Inv'
  <2>1. CASE ClientConnect(c)
    BY <2>1, AnsweredAtOnce DEF ClientConnect
  <2>2. CASE ClientDisconnect(c)
    BY <2>2, ClientDisconnectInv
  <2>3. CASE RemoveClientRecord(c)
    BY <2>3, RemoveClientRecordInv
  <2>4. ASSUME NEW ch \in Chronicles, CreateChronicle(c, ch) PROVE Inv'
    BY <2>4, AnsweredAtOnce DEF CreateChronicle
  <2>5. ASSUME NEW ch \in Chronicles, DestroyChronicle(c, ch) PROVE Inv'
    <3>1. StoriesIn(ch) \in SUBSET Stories
      BY DEF StoriesIn, ExistInv
    <3> QED BY <2>5, <3>1, BeginDestroyInv DEF DestroyChronicle
  <2>6. ASSUME NEW s \in Stories, AcquireStory(c, s) PROVE Inv'
    BY <2>6, AcquireStoryInv
  <2>7. ASSUME NEW s \in Stories, ReleaseStory(c, s) PROVE Inv'
    BY <2>7, ReleaseStoryInv
  <2>8. ASSUME NEW s \in Stories, DestroyStory(c, s) PROVE Inv'
    BY <2>8, BeginDestroyInv DEF DestroyStory
  <2>9. ASSUME NEW s \in Stories, AutoRelease(c, s) PROVE Inv'
    BY <2>9, AutoReleaseInv
  <2>10. ASSUME NEW s \in Stories, EraseStory(c, s) PROVE Inv'
    BY <2>10, EraseStoryInv
  <2>11. CASE destroy_story(c) \/ destroy_chronicle(c) \/ BroadcastDestroy(c)
    BY <2>11, DestroyStoryInv, DestroyChronicleInv, BroadcastDestroyInv
  <2>12. CASE ChooseGroup(c) \/ ListKeepers(c) \/ ForgetStory(c) \/ RollBackAcquire(c) \/ CopyKeepers(c)
    BY <2>12, ChooseGroupInv, ListKeepersInv, ForgetStoryInv, RollBackAcquireInv, CopyKeepersInv
  <2>13. ASSUME NEW told \in BOOLEAN, StartGrapher(c, told) \/ StartPlayer(c, told) PROVE Inv'
    BY <2>13, StartGrapherInv, StartPlayerInv
  <2>14. ASSUME NEW told \in BOOLEAN, NEW k \in Keepers, NEW ran \in BOOLEAN,
                StartOnKeeper(c, k, ran, told) \/ StopOnKeeper(c, k, ran, told)
         PROVE  Inv'
    BY <2>14, StartOnKeeperInv, StopOnKeeperInv
  <2> QED BY <1>1, <2>1, <2>2, <2>3, <2>4, <2>5, <2>6, <2>7, <2>8, <2>9, <2>10, <2>11, <2>12, <2>13, <2>14
          DEF ClientStep
<1>2. ASSUME NEW k \in Keepers, KeeperStep(k) PROVE Inv'
  <2>1. CASE KeeperStarts(k) \/ registerKeeperProcess(k) \/ unregisterKeeperProcess(k) \/ KeeperEnds(k)
    BY <2>1, KeeperStartsInv, RegisterKeeperInv, UnregisterKeeperInv, KeeperEndsInv
  <2>2. ASSUME NEW n \in 1 .. MaxStarts, NEW s \in Stories, CheckHeld(k, n, s) PROVE Inv'
    BY <2>2, CheckHeldInv
  <2>3. ASSUME NEW n \in 1 .. MaxStarts, RecheckHeld(k, n) PROVE Inv'
    BY <2>3, RecheckHeldInv
  <2>4. ASSUME NEW n \in 1 .. MaxStarts, NEW ran \in BOOLEAN, NEW told \in BOOLEAN,
               StartHeld(k, n, ran, told) \/ StopHeld(k, n, ran, told)
        PROVE  Inv'
    BY <2>4, StartHeldInv, StopHeldInv
  <2> QED BY <1>2, <2>1, <2>2, <2>3, <2>4 DEF KeeperStep
<1>3. ASSUME NEW g \in Groups, GroupStep(g) PROVE Inv'
  <2>1. UNCHANGED <<acquirers, count, activeStories, request, astray, overlap, rolledBack, undone, process,
                    adminClient, starts, pipelines, registration>>
    BY <1>3 DEF GroupStep, registerGrapherProcess, unregisterGrapherProcess, registerPlayerProcess,
                unregisterPlayerProcess, Move, meta, keepers, history
  <2> QED BY <2>1, ElsewhereInv
<1>4. CASE UNCHANGED vars
  BY <1>4, ElsewhereInv DEF vars, meta, registry, keepers, history
<1> QED BY <1>1, <1>2, <1>3, <1>4 DEF Next

\* Every reachable state satisfies the invariant.
LEMMA Invariant == Spec => [](Inv /\ ExistInv)
BY InitInv, NextInv, NextHolds, PTL DEF Spec

\* What a client holds exists, and so does its chronicle: destroy_story and
\* destroy_chronicle check the acquirers again in the step that deletes, so no
\* acquire between the first look and the delete is lost.
THEOREM HeldStays == Spec => []HeldExists
<1>1. ExistInv => HeldExists
  BY DEF ExistInv
<1> QED BY <1>1, Invariant, PTL

\* Between requests the registry lists only stories somebody holds, unless a
\* stop found the registry not running or an overlapping acquire was rolled
\* back: notifyRecordingGroupOfStoryRecordingStop and forget_story leave no
\* entry behind, for any number of clients, stories, groups and keepers.
THEOREM ListedHeld == Spec => []ListedIsHeld
<1>1. Inv => ListedIsHeld
  BY IdleFields DEF Inv, DirectoryInv, ListedInv, ListedIsHeld, Quiet
<1> QED BY <1>1, Invariant, PTL

\* Between requests no registered keeper records a story nobody holds, but for
\* the cases UnheldNotRecorded names: the two looks of startHeldStoriesOnKeeper
\* and the order of erase and stop are enough, however often keepers restart.
THEOREM UnheldSilent == Spec => []UnheldNotRecorded
<1>1. Inv => UnheldNotRecorded
  <2> SUFFICES ASSUME Inv, Quiet, NEW k \in Keepers, NEW s \in Stories, Registered(k), s \in pipelines[k],
                      acquirers[s] = {}, s \notin astray \cup rolledBack \cup undone
               PROVE  FALSE
    BY DEF UnheldNotRecorded
  <2>1. \A c \in Clients : ~StopDue(c, k, s) /\ s \notin request[c].stops
    BY IdleFields DEF Quiet, StopDue, StopPlaces
  <2>2. process[k] = "joined" /\ adminClient[k] \in 1 .. MaxStarts
    BY KeeperFacts DEF KeeperInv, Registered
  <2>3. ~LookDue(k, s)
    BY <2>2, IdleRegistration DEF LookDue, Quiet
  <2>4. activeStories[s] = GroupOf[k]
    BY <2>1, <2>2, <2>3, KeeperFacts DEF RecordedInv
  <2>5. activeStories[s] # None
    BY <2>4, VisorAssumption
  <2> QED BY <2>1, <2>5 DEF Inv, DirectoryInv, ListedInv
<1> QED BY <1>1, Invariant, PTL
-----------------------------------------------------------------------------
(* A held story is recorded, when requests do not overlap                  *)

\* While one request is under way at a time and no RPC fails: a story that the
\* request r of client c is to stop has no acquirer, one that it is stopping has
\* no entry, and an acquire that has chosen a group made the entry and is alone.
LoneRequest(c, r) ==
  /\ \A s \in r.stops : acquirers[s] = {}
  /\ r.at \in StopPlaces => activeStories[r.story] = None
  /\ r.at \in GroupPlaces => activeStories[r.story] = r.group /\ acquirers[r.story] = {c}

\* An acquirer's story has an entry, unless the acquisition is still under way.
Entered(s) ==
  \A c \in acquirers[s] : activeStories[s] # None \/ (request[c].op = "acquire" /\ request[c].story = s)

\* the registration r is to start story s on its keeper; so is the acquire r on
\* keeper k, or it is to take the entry back
Resumes(r, s) == s \in r.todo /\ (r.at \in {"check", "start"} \/ (r.at = "recheck" /\ s # r.story))
Starts(r, k, s) ==
  /\ r.op = "acquire" /\ r.story = s
  /\ r.at \in {"startGrapher", "listKeepers", "forget"} \/ (r.at = "startKeepers" /\ k \in r.targets)

\* The keepers of the group that has the entry record the story or will.
Covered(k, s) ==
  process[k] = "joined" /\ activeStories[s] = GroupOf[k] =>
    \/ s \in pipelines[k] \/ Resumes(registration[k][adminClient[k]], s)
    \/ \E c \in Clients : Starts(request[c], k, s)

Unstopped == \A k \in Keepers, n \in 1 .. MaxStarts : registration[k][n].at # "stop"

Sound == ~overlap /\ faults = 0
HeldInv ==
  /\ faults \in Nat
  /\ Sound => /\ \A c \in Clients : LoneRequest(c, request[c])
              /\ \A s \in Stories : Entered(s) /\ \A k \in Keepers : Covered(k, s)
              /\ Unstopped

\* The step takes place, and no RPC is lost unless the count says so.
Counts == faults' \in {faults, faults + 1} /\ (overlap => overlap')

\* With Counts the history says of the state before what it says of the next.
LEMMA SoundBefore ==
  ASSUME HeldInv, Counts
  PROVE  faults' \in Nat /\ (Sound' => Sound)
BY DEF HeldInv, Counts, Sound

\* A request that is not under way owes nothing.
LEMMA IdleOwesNothing ==
  ASSUME NEW c \in Clients, NEW k, NEW s
  PROVE  LoneRequest(c, NoRequest) /\ LoneRequest(c, NoRequest)' /\ ~Starts(NoRequest, k, s)
BY IdleFields DEF LoneRequest, Starts, StopPlaces, GroupPlaces

\* When no requests overlap, the others are idle beside the one of client c.
LEMMA OthersIdle ==
  ASSUME Inv, NEW c \in Clients, request[c] # NoRequest, ~overlap
  PROVE  \A d \in Clients : d # c => request[d] = NoRequest
BY DEF Inv, DirectoryInv, AloneInv

\* A step of client c keeps the invariant if the request it leaves is as it
\* should be and what was recorded or owed by c still is.
LEMMA LoneStep ==
  ASSUME Inv, HeldInv, Counts, NEW c \in Clients,
         UNCHANGED <<process, adminClient, registration>>,
         Sound' => \A d \in Clients : d # c => request[d] = NoRequest /\ request'[d] = NoRequest,
         Sound' => LoneRequest(c, request[c])',
         Sound' => \A s \in Stories : \A d \in acquirers'[s] :
           activeStories'[s] # None \/ (d = c /\ request'[c].op = "acquire" /\ request'[c].story = s),
         Sound' => \A k \in Keepers, s \in Stories : process[k] = "joined" /\ activeStories'[s] = GroupOf[k] =>
           \/ s \in pipelines'[k] \/ Starts(request'[c], k, s)
           \/ activeStories[s] = GroupOf[k] /\ s \notin pipelines[k] /\ ~Starts(request[c], k, s)
  PROVE  HeldInv'
<1>1. faults' \in Nat /\ (Sound' => Sound)
  BY SoundBefore
<1> SUFFICES ASSUME Sound'
             PROVE  /\ \A d \in Clients : LoneRequest(d, request[d])'
                    /\ \A s \in Stories : Entered(s)' /\ \A k \in Keepers : Covered(k, s)'
                    /\ Unstopped'
  BY <1>1 DEF HeldInv
<1>2. ASSUME NEW d \in Clients PROVE LoneRequest(d, request[d])'
  <2>1. CASE d = c
    BY <2>1
  <2>2. CASE d # c
    <3>1. request'[d] = NoRequest
      BY <2>2
    <3>2. LoneRequest(d, NoRequest)'
      BY IdleOwesNothing
    <3> QED BY <3>1, <3>2 DEF LoneRequest
  <2> QED BY <2>1, <2>2
<1>3. ASSUME NEW s \in Stories PROVE Entered(s)'
  BY DEF Entered
<1>4. ASSUME NEW s \in Stories, NEW k \in Keepers PROVE Covered(k, s)'
  <2> SUFFICES ASSUME process[k] = "joined", activeStories'[s] = GroupOf[k], s \notin pipelines'[k],
                      ~Starts(request'[c], k, s)
               PROVE  Resumes(registration[k][adminClient[k]], s)
    BY DEF Covered
  <2>1. activeStories[s] = GroupOf[k] /\ s \notin pipelines[k] /\ ~Starts(request[c], k, s)
    OBVIOUS
  <2>2. \A d \in Clients : ~Starts(request[d], k, s)
    BY <2>1, IdleOwesNothing
  <2> QED BY <1>1, <2>1, <2>2 DEF HeldInv, Covered
<1>5. Unstopped'
  BY <1>1 DEF HeldInv, Unstopped
<1> QED BY <1>2, <1>3, <1>4, <1>5

\* A request goes on, and the entries stay as they are.
LEMMA LoneMove ==
  ASSUME Inv, HeldInv, Counts, NEW c \in Clients, request[c] # NoRequest,
         \A d \in Clients : d # c => request'[d] = request[d],
         UNCHANGED <<activeStories, process, adminClient, registration, overlap>>,
         \A s \in Stories : acquirers'[s] \subseteq acquirers[s],
         \A s \in request'[c].stops : s \in request[c].stops \cap Stories \/ acquirers'[s] = {},
         request'[c].at \in StopPlaces => request[c].at \in StopPlaces /\ request'[c].story = request[c].story,
         request'[c].at \in GroupPlaces =>
           /\ request[c].at \in GroupPlaces
           /\ request'[c].story = request[c].story /\ request'[c].group = request[c].group
           /\ acquirers'[request[c].story] = acquirers[request[c].story],
         Sound' /\ request[c].op = "acquire" /\ c \in acquirers'[request[c].story] =>
           \/ request'[c].op = "acquire" /\ request'[c].story = request[c].story
           \/ activeStories[request[c].story] # None,
         Sound' => \A k \in Keepers, s \in Stories :
           /\ process[k] = "joined" /\ activeStories[s] = GroupOf[k]
           /\ s \in pipelines[k] \/ Starts(request[c], k, s)
           => s \in pipelines'[k] \/ Starts(request'[c], k, s)
  PROVE  HeldInv'
<1>1. Sound' => Sound
  BY SoundBefore
<1>2. Sound' => \A d \in Clients : d # c => request[d] = NoRequest /\ request'[d] = NoRequest
  BY <1>1, OthersIdle DEF Sound
<1>3. ASSUME Sound' PROVE LoneRequest(c, request[c])'
  <2>1. LoneRequest(c, request[c])
    BY <1>1, <1>3 DEF HeldInv
  <2>2. \A s \in request'[c].stops : acquirers'[s] = {}
    BY <2>1 DEF LoneRequest
  <2>3. request'[c].at \in StopPlaces => activeStories'[request'[c].story] = None
    BY <2>1 DEF LoneRequest
  <2>4. request'[c].at \in GroupPlaces =>
          activeStories'[request'[c].story] = request'[c].group /\ acquirers'[request'[c].story] = {c}
    BY <2>1 DEF LoneRequest
  <2> QED BY <2>2, <2>3, <2>4 DEF LoneRequest
<1>4. ASSUME Sound', NEW s \in Stories, NEW d \in acquirers'[s]
      PROVE  activeStories'[s] # None \/ (d = c /\ request'[c].op = "acquire" /\ request'[c].story = s)
  <2>1. d \in acquirers[s] /\ d \in Clients
    BY DEF Inv, DirectoryInv, TypeInv
  <2>2. activeStories[s] # None \/ (request[d].op = "acquire" /\ request[d].story = s)
    BY <1>1, <1>4, <2>1 DEF HeldInv, Entered
  <2>3. CASE d # c
    BY <1>2, <1>4, <2>1, <2>2, <2>3, IdleFields
  <2>4. CASE d = c
    BY <1>4, <2>2, <2>4
  <2> QED BY <2>3, <2>4
<1> QED BY <1>2, <1>3, <1>4, LoneStep

\* The request of client c becomes q: those of the others stay.
LEMMA RequestBecomes ==
  ASSUME Inv, NEW c \in Clients, NEW q, request' = [request EXCEPT ![c] = q]
  PROVE  request'[c] = q /\ \A d \in Clients : d # c => request'[d] = request[d]
BY DEF Inv, DirectoryInv, TypeInv

\* A request begins, when the others are idle: it may be an acquire that adds a
\* holder, and only stops what has none.
LEMMA BeginLone ==
  ASSUME Inv, HeldInv, NEW c \in Clients, NEW q, BeginRequest(c, q),
         \A s \in Stories : \A d \in acquirers'[s] : d \in acquirers[s] \/ (d = c /\ q.op = "acquire" /\ q.story = s),
         \A s \in q.stops : acquirers'[s] = {}, q.at \notin GroupPlaces \cup StopPlaces
  PROVE  HeldInv'
<1>1. /\ request[c] = NoRequest /\ request' = [request EXCEPT ![c] = q]
      /\ overlap' = (overlap \/ \E d \in Clients \ {c} : request[d] # NoRequest)
      /\ UNCHANGED <<activeStories, process, adminClient, registration, pipelines, faults>>
  BY DEF BeginRequest, registry, keepers
<1>2. Counts /\ (Sound' => Sound)
  BY <1>1, SoundBefore DEF Counts
<1>3. request'[c] = q /\ \A d \in Clients : d # c => request'[d] = request[d]
  BY <1>1, RequestBecomes
<1>4. Sound' => \A d \in Clients : d # c => request[d] = NoRequest /\ request'[d] = NoRequest
  BY <1>1, <1>3 DEF Sound
<1>5. LoneRequest(c, request[c])'
  BY <1>3 DEF LoneRequest
<1>6. ASSUME Sound', NEW s \in Stories, NEW d \in acquirers'[s]
      PROVE  activeStories'[s] # None \/ (d = c /\ request'[c].op = "acquire" /\ request'[c].story = s)
  <2>1. CASE d \in acquirers[s]
    <3>1. d \in Clients
      BY <2>1 DEF Inv, DirectoryInv, TypeInv
    <3>2. request[d] = NoRequest
      BY <1>1, <1>4, <1>6, <3>1
    <3> QED BY <1>1, <1>2, <1>6, <2>1, <3>2, IdleFields DEF HeldInv, Entered
  <2> QED BY <1>3, <2>1
<1>7. \A k \in Keepers, s \in Stories : process[k] = "joined" /\ activeStories'[s] = GroupOf[k] =>
        \/ s \in pipelines'[k] \/ Starts(request'[c], k, s)
        \/ activeStories[s] = GroupOf[k] /\ s \notin pipelines[k] /\ ~Starts(request[c], k, s)
  BY <1>1, IdleOwesNothing
<1> QED BY <1>1, <1>2, <1>4, <1>5, <1>6, <1>7, LoneStep

\* The requests that begin: none of them stops what somebody holds.
LEMMA BeginsLone ==
  ASSUME Inv, HeldInv, NEW c \in Clients,
         \/ ClientConnect(c) \/ ClientDisconnect(c)
         \/ \E ch \in Chronicles : CreateChronicle(c, ch) \/ DestroyChronicle(c, ch)
         \/ \E s \in Stories : AcquireStory(c, s) \/ ReleaseStory(c, s) \/ DestroyStory(c, s)
  PROVE  HeldInv'
<1> DEFINE Quietly(q) == q.stops = {} /\ q.at \notin GroupPlaces \cup StopPlaces
<1>1. ASSUME NEW q, BeginRequest(c, q), UNCHANGED acquirers, Quietly(q) PROVE HeldInv'
  <2>1. q.stops = {} /\ q.at \notin GroupPlaces \cup StopPlaces
    BY <1>1
  <2> HIDE DEF Quietly
  <2> QED BY <1>1, <2>1, BeginLone
<1>2. Quietly(NoRequest)
  BY IdleFields DEF GroupPlaces, StopPlaces
<1>3. CASE ClientConnect(c) \/ \E ch \in Chronicles : CreateChronicle(c, ch)
  <2>1. BeginRequest(c, NoRequest) /\ UNCHANGED acquirers
    BY <1>3 DEF ClientConnect, CreateChronicle
  <2> HIDE DEF Quietly
  <2> QED BY <1>1, <1>2, <2>1
<1>4. CASE ClientDisconnect(c)
  <2> DEFINE held == Held(c)
             p == IF held = {} THEN "remove" ELSE "release"
             q == [NoRequest EXCEPT !.op = "disconnect", !.todo = held, !.at = p]
  <2>1. BeginRequest(c, q) /\ UNCHANGED acquirers
    BY <1>4 DEF ClientDisconnect, meta
  <2>2. p \notin GroupPlaces \cup StopPlaces
    BY DEF GroupPlaces, StopPlaces
  <2> HIDE DEF held, p
  <2>3. Quietly(q)
    BY <2>2 DEF NoRequest
  <2> HIDE DEF Quietly, q
  <2> QED BY <1>1, <2>1, <2>3
<1>5. ASSUME NEW op, NEW subject, NEW stories, BeginDestroy(c, op, subject, stories) PROVE HeldInv'
  <2> DEFINE held == {s \in stories : c \in acquirers[s]}
             p == IF held = {} THEN "remove" ELSE "release"
             q == [NoRequest EXCEPT !.op = op, !.subject = subject, !.todo = held, !.at = p]
  <2>1. BeginRequest(c, q) /\ UNCHANGED acquirers
    BY <1>5 DEF BeginDestroy, meta
  <2>2. p \notin GroupPlaces \cup StopPlaces
    BY DEF GroupPlaces, StopPlaces
  <2> HIDE DEF held, p
  <2>3. Quietly(q)
    BY <2>2 DEF NoRequest
  <2> HIDE DEF Quietly, q
  <2> QED BY <1>1, <2>1, <2>3
<1>6. ASSUME NEW s \in Stories, AcquireStory(c, s) PROVE HeldInv'
  <2> DEFINE q == [NoRequest EXCEPT !.op = "acquire", !.at = "choose", !.subject = s, !.story = s]
  <2>1. BeginRequest(c, q) /\ acquirers' = [acquirers EXCEPT ![s] = @ \cup {c}]
    BY <1>6 DEF AcquireStory
  <2>2. q.op = "acquire" /\ q.at = "choose" /\ q.story = s /\ q.stops = {}
    BY DEF NoRequest
  <2> HIDE DEF q
  <2>3. \A x \in Stories : \A d \in acquirers'[x] : d \in acquirers[x] \/ (d = c /\ s = x)
    BY <2>1 DEF Inv, DirectoryInv, TypeInv
  <2>4. q.at \notin GroupPlaces \cup StopPlaces
    BY <2>2 DEF GroupPlaces, StopPlaces
  <2> QED BY <2>1, <2>2, <2>3, <2>4, BeginLone
<1>7. ASSUME NEW s \in Stories, ReleaseStory(c, s) PROVE HeldInv'
  <2> DEFINE one == {s}
             r == [NoRequest EXCEPT !.op = "release", !.at = "erase", !.subject = s, !.stops = one]
             q == IF WasLastAcquirer(s) THEN r ELSE NoRequest
  <2>1. c \in acquirers[s] /\ release_story(c, s) /\ BeginRequest(c, q)
    BY <1>7 DEF ReleaseStory
  <2>2. r.at = "erase" /\ r.stops = {s}
    BY DEF NoRequest
  <2> HIDE DEF r
  <2>3. q.at \notin GroupPlaces \cup StopPlaces /\ \A x \in q.stops : x = s /\ WasLastAcquirer(s)
    BY <2>2, IdleFields DEF GroupPlaces, StopPlaces
  <2> HIDE DEF q
  <2>4. /\ \A x \in Stories : x # s => acquirers'[x] = acquirers[x]
        /\ acquirers' \in [Stories -> SUBSET Clients]
        /\ \A d \in Clients : d # c => (d \in acquirers'[s] <=> d \in acquirers[s])
        /\ WasLastAcquirer(s) <=> acquirers'[s] = {}
    BY <2>1, ReleaseFacts
  <2>5. \A x \in Stories : \A d \in acquirers'[x] : d \in acquirers[x]
    BY <2>1, <2>4
  <2>6. \A x \in q.stops : acquirers'[x] = {}
    BY <2>3, <2>4
  <2> QED BY <2>1, <2>3, <2>5, <2>6, BeginLone
<1> HIDE DEF Quietly
<1> QED BY <1>3, <1>4, <1>5, <1>6, <1>7 DEF DestroyStory, DestroyChronicle

\* What AfterStop makes of an acquire: it is to be rolled back.
LEMMA RollsBack ==
  ASSUME NEW r \in Request, r.op = "acquire"
  PROVE  AfterStop(r).op = "acquire" /\ AfterStop(r).story = r.story
BY DEF AfterStop, Request

\* The end of a disconnect or a destroy, and a grapher or player told: nothing
\* is started or stopped, and an acquire goes on to the next place of its start.
LEMMA PlainMovesLone ==
  ASSUME Inv, HeldInv, NEW c \in Clients,
         \/ RemoveClientRecord(c) \/ destroy_story(c) \/ destroy_chronicle(c) \/ BroadcastDestroy(c)
         \/ \E told \in BOOLEAN : StartGrapher(c, told) \/ StartPlayer(c, told)
  PROVE  HeldInv'
<1>1. request[c] \in Request /\ RequestOK(c, request[c], acquirers)
  BY RequestFacts
<1>2. ASSUME UNCHANGED <<acquirers, activeStories, process, adminClient, registration, pipelines, overlap>>, Counts,
             request[c].at \in {"remove", "broadcast"},
             \/ request' = [request EXCEPT ![c] = NoRequest]
             \/ request' = [request EXCEPT ![c] = At(c, "broadcast")]
      PROVE  HeldInv'
  <2>1. request[c].op # "acquire" /\ request[c].stops = {} /\ request[c] # NoRequest
    BY <1>1, <1>2, IdleFields DEF RequestOK, AcquirePlaces, StopPlaces
  <2>2. At(c, "broadcast").at = "broadcast" /\ At(c, "broadcast").stops = request[c].stops
    BY <1>1 DEF At, Request
  <2>3. /\ \A d \in Clients : d # c => request'[d] = request[d]
        /\ request'[c].stops = {} /\ request'[c].at \in {"idle", "broadcast"}
    BY <1>2, <2>1, <2>2, RequestBecomes, IdleFields
  <2>4. request'[c].at \notin StopPlaces \cup GroupPlaces
    BY <2>3 DEF StopPlaces, GroupPlaces
  <2>5. \A k \in Keepers, s \in Stories : ~Starts(request[c], k, s)
    BY <2>1 DEF Starts
  <2> QED BY <1>2, <2>1, <2>3, <2>4, <2>5, LoneMove
<1>3. CASE RemoveClientRecord(c) \/ BroadcastDestroy(c) \/ destroy_story(c) \/ destroy_chronicle(c)
  <2>1. /\ UNCHANGED <<acquirers, activeStories, process, adminClient, registration, pipelines, overlap, faults>>
        /\ request[c].at \in {"remove", "broadcast"}
        /\ \/ request' = [request EXCEPT ![c] = NoRequest]
           \/ request' = [request EXCEPT ![c] = At(c, "broadcast")]
    BY <1>3 DEF RemoveClientRecord, BroadcastDestroy, destroy_story, destroy_chronicle, Proceed, registry, keepers,
                history, meta
  <2> QED BY <1>2, <2>1 DEF Counts
<1>4. ASSUME UNCHANGED <<acquirers, activeStories, process, adminClient, registration, pipelines, overlap>>, Counts,
             NEW p \in {"listKeepers", "forget"}, request[c].at \in {"startGrapher", "startPlayer"},
             request' = [request EXCEPT ![c] = At(c, p)]
      PROVE  HeldInv'
  <2>1. request[c].op = "acquire" /\ request[c].stops = {} /\ request[c] # NoRequest /\ request[c].at \in GroupPlaces
    BY <1>1, <1>4, IdleFields DEF RequestOK, AcquirePlaces, GroupPlaces
  <2>2. /\ At(c, p).at = p /\ At(c, p).stops = request[c].stops /\ At(c, p).op = request[c].op
        /\ At(c, p).story = request[c].story /\ At(c, p).group = request[c].group
    BY <1>1 DEF At, Request
  <2>3. request'[c] = At(c, p) /\ \A d \in Clients : d # c => request'[d] = request[d]
    BY <1>4, RequestBecomes
  <2>4. request'[c].at \notin StopPlaces
    BY <1>4, <2>2, <2>3 DEF StopPlaces
  <2>5. \A k \in Keepers, s \in Stories : Starts(request[c], k, s) => Starts(request'[c], k, s)
    BY <1>4, <2>1, <2>2, <2>3 DEF Starts
  <2> QED BY <1>4, <2>1, <2>2, <2>3, <2>4, <2>5, LoneMove
<1>5. ASSUME NEW told \in BOOLEAN, StartGrapher(c, told) PROVE HeldInv'
  <2> DEFINE p == IF told THEN "listKeepers" ELSE "forget"
  <2>1. /\ request' = [request EXCEPT ![c] = At(c, p)] /\ request[c].at = "startGrapher" /\ Counts
        /\ UNCHANGED <<acquirers, activeStories, overlap, process, adminClient, registration, pipelines>>
    BY <1>5 DEF StartGrapher, Notified, Proceed, registry, keepers, history, meta, Counts
  <2>2. p \in {"listKeepers", "forget"}
    OBVIOUS
  <2> HIDE DEF p
  <2> QED BY <1>4, <2>1, <2>2
<1>6. ASSUME NEW told \in BOOLEAN, StartPlayer(c, told) PROVE HeldInv'
  <2>1. /\ request[c].at = "startPlayer" /\ Counts
        /\ \/ request' = [request EXCEPT ![c] = NoRequest]
           \/ request' = [request EXCEPT ![c] = At(c, "forget")]
        /\ UNCHANGED <<acquirers, activeStories, overlap, process, adminClient, registration, pipelines>>
    BY <1>6 DEF StartPlayer, Notified, Proceed, registry, keepers, history, meta, Counts
  <2>2. CASE request' = [request EXCEPT ![c] = At(c, "forget")]
    BY <1>4, <2>1, <2>2
  <2>3. CASE request' = [request EXCEPT ![c] = NoRequest]
    <3>1. /\ request[c].op = "acquire" /\ request[c].stops = {} /\ request[c] # NoRequest
          /\ request[c].at \in GroupPlaces /\ request[c].group \in Groups
      BY <1>1, <2>1, IdleFields DEF RequestOK, AcquirePlaces, GroupPlaces
    <3>2. request'[c] = NoRequest /\ \A d \in Clients : d # c => request'[d] = request[d]
      BY <2>3, RequestBecomes
    <3>3. Sound' => activeStories[request[c].story] # None
      <4>1. Sound' => LoneRequest(c, request[c])
        BY <2>1, SoundBefore DEF HeldInv
      <4> QED BY <3>1, <4>1, VisorAssumption DEF LoneRequest
    <3>4. \A k \in Keepers, s \in Stories : ~Starts(request[c], k, s)
      BY <2>1 DEF Starts
    <3>5. request'[c].stops = {} /\ request'[c].at \notin StopPlaces \cup GroupPlaces
      BY <3>2, IdleFields DEF StopPlaces, GroupPlaces
    <3> QED BY <2>1, <3>1, <3>2, <3>3, <3>4, <3>5, LoneMove
  <2> QED BY <2>1, <2>2, <2>3
<1> QED BY <1>3, <1>5, <1>6

\* The keepers of the chosen group that are registered are all to be told.
LEMMA ListKeepersLone ==
  ASSUME Inv, HeldInv, NEW c \in Clients, ListKeepers(c)
  PROVE  HeldInv'
<1> DEFINE listed == getActiveKeepers(request[c].group)
           a == At(c, "startKeepers")
           q == [a EXCEPT !.targets = listed]
<1>1. /\ request[c].at = "listKeepers"
      /\ request' = [request EXCEPT ![c] = q] \/ request' = [request EXCEPT ![c] = At(c, "forget")]
      /\ UNCHANGED <<acquirers, activeStories, overlap, process, adminClient, registration, pipelines, faults>>
  BY DEF ListKeepers, Proceed, registry, keepers, history, meta
<1>2. request[c] \in Request /\ RequestOK(c, request[c], acquirers) /\ Counts
  BY <1>1, RequestFacts DEF Counts
<1>3. request[c].op = "acquire" /\ request[c].stops = {} /\ request[c] # NoRequest /\ request[c].at \in GroupPlaces
      /\ request[c].story \in Stories
  BY <1>1, <1>2, IdleFields DEF RequestOK, AcquirePlaces, GroupPlaces
<1>4. /\ At(c, "forget").at = "forget" /\ At(c, "forget").stops = {} /\ At(c, "forget").op = "acquire"
      /\ At(c, "forget").story = request[c].story /\ At(c, "forget").group = request[c].group
  BY <1>2, <1>3 DEF At, Request
<1>5. /\ a \in Request /\ listed \in SUBSET Keepers
      /\ a.at = "startKeepers" /\ a.stops = {} /\ a.op = "acquire" /\ a.story = request[c].story
      /\ a.group = request[c].group
  BY <1>2, <1>3 DEF At, Request, Places, getActiveKeepers
<1> HIDE DEF a, listed
<1>6. /\ q.at = "startKeepers" /\ q.stops = {} /\ q.op = "acquire" /\ q.story = request[c].story
      /\ q.group = request[c].group /\ q.targets = listed
  BY <1>5, TargetsFields
<1> HIDE DEF q
<1>7. \A d \in Clients : d # c => request'[d] = request[d]
  BY <1>1, RequestBecomes
<1>8. /\ request'[c].at \notin StopPlaces /\ request'[c].stops = {} /\ request'[c].op = "acquire"
      /\ request'[c].story = request[c].story /\ request'[c].group = request[c].group
      /\ request'[c].at = "forget" \/ (request'[c].at = "startKeepers" /\ request'[c].targets = listed)
  BY <1>1, <1>4, <1>6, RequestBecomes DEF StopPlaces
<1>9. ASSUME Sound', NEW k \in Keepers, NEW s \in Stories, process[k] = "joined", activeStories[s] = GroupOf[k],
             Starts(request[c], k, s)
      PROVE  Starts(request'[c], k, s)
  <2>1. LoneRequest(c, request[c]) /\ s = request[c].story
    BY <1>2, <1>9, SoundBefore DEF HeldInv, Starts
  <2>2. GroupOf[k] = request[c].group
    BY <1>3, <1>9, <2>1 DEF LoneRequest
  <2>3. adminClient[k] # 0
    BY <1>9, KeeperFacts DEF KeeperInv
  <2>4. k \in listed
    BY <2>2, <2>3 DEF listed, getActiveKeepers
  <2> QED BY <1>8, <2>1, <2>4 DEF Starts
<1> QED BY <1>1, <1>2, <1>3, <1>7, <1>8, <1>9, LoneMove

\* A keeper answers that it records the story, or is not there.
LEMMA StartOnKeeperLone ==
  ASSUME Inv, HeldInv, NEW c \in Clients, NEW k \in Keepers, NEW ran \in BOOLEAN, NEW told \in BOOLEAN,
         StartOnKeeper(c, k, ran, told)
  PROVE  HeldInv'
<1> DEFINE ks == request[c].targets \ {k}
           b == request[c].started \/ told
           r == [request[c] EXCEPT !.targets = ks, !.started = b]
           p == IF r.started THEN "startPlayer" ELSE "forget"
           q == IF ks # {} THEN r ELSE [r EXCEPT !.at = p, !.started = FALSE]
           s == request[c].story
<1>1. request[c] \in Request /\ RequestOK(c, request[c], acquirers)
  BY RequestFacts
<1>2. ks \in SUBSET Keepers /\ b \in BOOLEAN
  BY <1>1 DEF Request
<1>3. /\ r \in Request /\ r.at = request[c].at /\ r.targets = ks /\ r.story = s
      /\ r.stops = request[c].stops /\ r.op = request[c].op /\ r.group = request[c].group
  <2> HIDE DEF ks, b
  <2> QED BY <1>1, <1>2 DEF Request
<1>4. /\ request[c].at = "startKeepers" /\ request' = [request EXCEPT ![c] = q] /\ Counts
      /\ UNCHANGED <<acquirers, activeStories, overlap, process, adminClient, registration>>
      /\ faults' = IF told \/ process[k] = "down" THEN faults ELSE faults + 1
      /\ pipelines' = IF ran THEN [pipelines EXCEPT ![k] = @ \cup {s}] ELSE pipelines
      /\ told => ran
  <2> HIDE DEF ks, p
  <2> QED BY <1>3 DEF StartOnKeeper, StartPipeline, Rpc, Proceed, registry, keepers, meta, ks, p, Counts
<1>5. /\ request[c].op = "acquire" /\ s \in Stories /\ request[c].stops = {} /\ request[c] # NoRequest
      /\ request[c].at \in GroupPlaces /\ p \in {"startPlayer", "forget"}
  BY <1>1, <1>4, IdleFields DEF RequestOK, AcquirePlaces, GroupPlaces
<1>6. /\ q.stops = {} /\ q.op = "acquire" /\ q.story = s /\ q.group = request[c].group
      /\ q.at \in {"startKeepers", "startPlayer", "forget"} /\ (q.at = "startKeepers" => q.targets = ks)
      /\ q.at # "startKeepers" => ks = {}
  <2> HIDE DEF ks, r, p, s
  <2>1. CASE ks # {}
    BY <1>3, <1>4, <1>5, <2>1
  <2>2. CASE ks = {}
    <3>1. q = [r EXCEPT !.at = p, !.started = FALSE]
      BY <2>2
    <3>2. q.stops = r.stops /\ q.op = r.op /\ q.story = r.story /\ q.group = r.group /\ q.at = p
      BY <1>3, <3>1 DEF Request
    <3> QED BY <1>3, <1>5, <2>2, <3>2
  <2> QED BY <2>1, <2>2
<1> HIDE DEF q, r, p
<1>7. request'[c] = q /\ \A d \in Clients : d # c => request'[d] = request[d]
  BY <1>4, RequestBecomes
<1>8. q.at \notin StopPlaces
  BY <1>6 DEF StopPlaces
<1>9. ASSUME Sound', NEW l \in Keepers, NEW x \in Stories, process[l] = "joined",
             x \in pipelines[l] \/ Starts(request[c], l, x)
      PROVE  x \in pipelines'[l] \/ Starts(q, l, x)
  <2>1. CASE x \in pipelines[l]
    BY <1>4, <2>1, KeeperFacts
  <2>2. CASE Starts(request[c], l, x) /\ l = k
    <3>1. told
      BY <1>4, <1>9, <2>2, SoundBefore DEF Sound, HeldInv
    <3>2. x = s
      BY <2>2 DEF Starts
    <3> QED BY <1>4, <2>2, <3>1, <3>2, KeeperFacts
  <2>3. CASE Starts(request[c], l, x) /\ l # k
    <3>1. l \in ks /\ x = s
      BY <1>4, <2>3 DEF Starts
    <3> QED BY <1>6, <3>1 DEF Starts
  <2> QED BY <1>9, <2>1, <2>2, <2>3
<1> QED BY <1>4, <1>5, <1>6, <1>7, <1>8, <1>9, LoneMove

\* A request stops or skips a keeper, and goes on with the others or is done:
\* the story it stops has no entry.
LEMMA StoppingLone ==
  ASSUME Inv, HeldInv, Counts, NEW c \in Clients, request[c].at \in StopPlaces, NEW ks \in SUBSET Keepers, NEW r,
         r = [request[c] EXCEPT !.targets = ks],
         \/ request' = [request EXCEPT ![c] = r]
         \/ request' = [request EXCEPT ![c] = [r EXCEPT !.at = "stopKeepers"]]
         \/ request' = [request EXCEPT ![c] = AfterStop(r)],
         UNCHANGED <<acquirers, activeStories, overlap, process, adminClient, registration>>,
         \A l \in Keepers, x \in Stories : x \in pipelines[l] /\ x # request[c].story => x \in pipelines'[l]
  PROVE  HeldInv'
<1>1. /\ request[c] \in Request /\ RequestOK(c, request[c], acquirers) /\ request[c] # NoRequest
      /\ request[c].at \notin GroupPlaces /\ request[c].story \in Stories
  BY RequestFacts, IdleFields DEF RequestOK, StopPlaces, GroupPlaces
<1>2. /\ r \in Request /\ r.at = request[c].at /\ r.story = request[c].story /\ r.stops = request[c].stops
      /\ r.op = request[c].op /\ r.todo = request[c].todo
  BY <1>1 DEF Request
<1>3. /\ AfterStop(r).stops = r.stops /\ AfterStop(r).at \notin GroupPlaces \cup StopPlaces
      /\ r.op = "acquire" => AfterStop(r).op = "acquire" /\ AfterStop(r).story = r.story
  BY <1>2, StoppingFacts, RollsBack
<1> DEFINE u == [r EXCEPT !.at = "stopKeepers"]
<1>4. u.at = "stopKeepers" /\ u.stops = r.stops /\ u.op = r.op /\ u.story = r.story
  BY <1>2 DEF Request
<1> HIDE DEF u
<1>5. /\ \A d \in Clients : d # c => request'[d] = request[d]
      /\ request'[c] \in {r, u, AfterStop(r)}
  BY RequestBecomes DEF u
<1>6. /\ request'[c].stops = request[c].stops /\ request'[c].at \notin GroupPlaces
      /\ request'[c].at \in StopPlaces => request'[c].story = request[c].story
      /\ request[c].op = "acquire" => request'[c].op = "acquire" /\ request'[c].story = request[c].story
  BY <1>1, <1>2, <1>3, <1>4, <1>5 DEF GroupPlaces
<1>7. \A l \in Keepers, x \in Stories : ~Starts(request[c], l, x)
  BY DEF Starts, StopPlaces
<1>8. Sound' => activeStories[request[c].story] = None
  BY SoundBefore DEF HeldInv, LoneRequest
<1>9. ASSUME Sound', NEW l \in Keepers, NEW x \in Stories, activeStories[x] = GroupOf[l], x \in pipelines[l]
      PROVE  x \in pipelines'[l]
  <2>1. x # request[c].story
    BY <1>8, <1>9, VisorAssumption
  <2> QED BY <1>9, <2>1
<1>10. request[c].stops \subseteq Stories
  BY <1>1 DEF Request
<1> QED BY <1>1, <1>5, <1>6, <1>7, <1>9, <1>10, LoneMove

\* The two steps of a stop, before and at the keepers.
LEMMA StopsLone ==
  ASSUME Inv, HeldInv, NEW c \in Clients,
         CopyKeepers(c) \/ \E k \in Keepers, ran \in BOOLEAN, told \in BOOLEAN : StopOnKeeper(c, k, ran, told)
  PROVE  HeldInv'
<1>1. request[c] \in Request
  BY RequestFacts
<1>2. CASE CopyKeepers(c)
  <2> DEFINE ks == {k \in request[c].targets : is_running /\ adminClient[k] # 0}
             r == [request[c] EXCEPT !.targets = ks]
  <2>1. r.at = request[c].at /\ ks \in SUBSET Keepers
    <3>1. ks \in SUBSET Keepers
      BY <1>1 DEF Request
    <3> QED BY <1>1, <3>1 DEF Request
  <2>2. /\ request[c].at = "copyKeepers" /\ Counts
        /\ UNCHANGED <<acquirers, activeStories, overlap, process, adminClient, registration, pipelines>>
        /\ \/ request' = [request EXCEPT ![c] = [r EXCEPT !.at = "stopKeepers"]]
           \/ request' = [request EXCEPT ![c] = AfterStop(r)]
    <3> HIDE DEF ks
    <3> QED BY <1>2, <2>1 DEF CopyKeepers, Proceed, registry, keepers, meta, ks, Counts
  <2>3. request[c].at \in StopPlaces
    BY <2>2 DEF StopPlaces
  <2> HIDE DEF ks
  <2> QED BY <2>1, <2>2, <2>3, StoppingLone
<1>3. ASSUME NEW k \in Keepers, NEW ran \in BOOLEAN, NEW told \in BOOLEAN, StopOnKeeper(c, k, ran, told)
      PROVE  HeldInv'
  <2> DEFINE ks == request[c].targets \ {k}
             r == [request[c] EXCEPT !.targets = ks]
             s == request[c].story
  <2>1. /\ r.at = request[c].at /\ ks \in SUBSET Keepers /\ r.story = s
    <3>1. ks \in SUBSET Keepers
      BY <1>1 DEF Request
    <3> QED BY <1>1, <3>1 DEF Request
  <2> DEFINE q == IF r.targets # {} THEN r ELSE AfterStop(r)
  <2>2. /\ request[c].at = "stopKeepers" /\ Counts /\ request' = [request EXCEPT ![c] = q]
        /\ UNCHANGED <<acquirers, activeStories, overlap, process, adminClient, registration>>
        /\ pipelines' = IF ran THEN [pipelines EXCEPT ![k] = @ \ {s}] ELSE pipelines
    <3> HIDE DEF ks
    <3> QED BY <1>3, <2>1 DEF StopOnKeeper, StopPipeline, Rpc, Proceed, registry, keepers, meta, ks, Counts
  <2>3. request[c].at \in StopPlaces
    BY <2>2 DEF StopPlaces
  <2>4. \A l \in Keepers, x \in Stories : x \in pipelines[l] /\ x # s => x \in pipelines'[l]
    BY <2>2, KeeperFacts
  <2>5. request' = [request EXCEPT ![c] = r] \/ request' = [request EXCEPT ![c] = AfterStop(r)]
    BY <2>2
  <2> HIDE DEF ks, q
  <2> QED BY <2>1, <2>2, <2>3, <2>4, <2>5, StoppingLone
<1> QED BY <1>2, <1>3

\* One story is released by a disconnect or a destroy, or by an acquire that is
\* rolled back; it is to be stopped when nobody holds it any more.
LEMMA ReleasesLone ==
  ASSUME Inv, HeldInv, NEW c \in Clients, RollBackAcquire(c) \/ \E s \in Stories : AutoRelease(c, s)
  PROVE  HeldInv'
<1>1. request[c] \in Request /\ RequestOK(c, request[c], acquirers) /\ request[c].stops \subseteq Stories
  BY RequestFacts DEF Request
<1>2. CASE RollBackAcquire(c)
  <2> DEFINE s == request[c].story
  <2>1. /\ request[c].at = "rollback" /\ release_story(c, s) /\ request' = [request EXCEPT ![c] = NoRequest]
        /\ UNCHANGED <<activeStories, process, adminClient, registration, pipelines, overlap>> /\ Counts
    BY <1>2 DEF RollBackAcquire, Proceed, registry, keepers, Counts
  <2>2. s \in Stories /\ c \in acquirers[s] /\ request[c] # NoRequest
    BY <1>1, <2>1, IdleFields DEF RequestOK, AcquirePlaces
  <2>3. /\ \A x \in Stories : x # s => acquirers'[x] = acquirers[x]
        /\ \A d \in Clients : d # c => (d \in acquirers'[s] <=> d \in acquirers[s])
        /\ acquirers' \in [Stories -> SUBSET Clients] /\ c \notin acquirers'[s]
    BY <2>1, <2>2, ReleaseFacts
  <2>4. \A x \in Stories : acquirers'[x] \subseteq acquirers[x]
    BY <2>2, <2>3
  <2>5. request'[c] = NoRequest /\ \A d \in Clients : d # c => request'[d] = request[d]
    BY <2>1, RequestBecomes
  <2>6. /\ request'[c].stops = {} /\ request'[c].at \notin StopPlaces \cup GroupPlaces
        /\ \A k \in Keepers, x \in Stories : ~Starts(request[c], k, x)
    BY <2>1, <2>5, IdleFields DEF StopPlaces, GroupPlaces, Starts
  <2> QED BY <2>1, <2>2, <2>3, <2>4, <2>5, <2>6, LoneMove
<1>3. ASSUME NEW s \in Stories, AutoRelease(c, s) PROVE HeldInv'
  <2> DEFINE r == request[c]
             todo == r.todo \ {s}
             stops == IF WasLastAcquirer(s) THEN r.stops \cup {s} ELSE r.stops
             n == [r EXCEPT !.todo = todo, !.stops = stops]
             e == [n EXCEPT !.at = "erase"]
             q == IF r.op = "disconnect" THEN IF n.todo # {} THEN n ELSE AfterStop(n)
                  ELSE IF n.stops # {} THEN e ELSE AfterStop(n)
  <2>1. /\ r.at = "release" /\ s \in r.todo /\ release_story(c, s) /\ request' = [request EXCEPT ![c] = q]
        /\ UNCHANGED <<activeStories, process, adminClient, registration, pipelines, overlap>> /\ Counts
    <3> HIDE DEF AfterStop
    <3>1. n = [r EXCEPT !.todo = @ \ {s}, !.stops = IF WasLastAcquirer(s) THEN @ \cup {s} ELSE @]
      OBVIOUS
    <3> HIDE DEF n
    <3> QED BY <1>3, <3>1 DEF AutoRelease, Proceed, registry, keepers, history, Counts
  <2>2. /\ r.op # "acquire" /\ r # NoRequest /\ c \in acquirers[s]
        /\ todo \in SUBSET Stories /\ stops \in SUBSET Stories
    <3>1. r.todo \subseteq Stories
      BY <1>1 DEF Request
    <3> QED BY <1>1, <2>1, <3>1, IdleFields DEF RequestOK, AcquirePlaces, StopPlaces
  <2>3. /\ n.op = r.op /\ n.at = "release" /\ n.todo = todo /\ n.stops = stops
    <3> HIDE DEF todo, stops
    <3> QED BY <1>1, <2>1 DEF Request
  <2>4. /\ \A x \in Stories : x # s => acquirers'[x] = acquirers[x]
        /\ \A d \in Clients : d # c => (d \in acquirers'[s] <=> d \in acquirers[s])
        /\ acquirers' \in [Stories -> SUBSET Clients]
        /\ WasLastAcquirer(s) <=> acquirers'[s] = {}
    <3> HIDE DEF q
    <3> QED BY <2>1, <2>2, ReleaseFacts
  <2>5. \A x \in Stories : acquirers'[x] \subseteq acquirers[x]
    BY <2>2, <2>4
  <2>6. request'[c] = q /\ \A d \in Clients : d # c => request'[d] = request[d]
    <3> HIDE DEF q
    <3> QED BY <2>1, RequestBecomes
  <2>7. q.stops \subseteq stops /\ q.at \notin StopPlaces \cup GroupPlaces
    <3>1. n.at \notin StopPlaces \cup GroupPlaces
      BY <2>3 DEF StopPlaces, GroupPlaces
    <3>2. e.stops = stops /\ e.at \notin StopPlaces \cup GroupPlaces
      <4> HIDE DEF stops, todo
      <4>1. e.stops = n.stops /\ e.at = "erase"
        BY <1>1 DEF Request
      <4> QED BY <2>3, <4>1 DEF StopPlaces, GroupPlaces
    <3>3. AfterStop(n).stops \subseteq stops /\ AfterStop(n).at \notin StopPlaces \cup GroupPlaces
      <4>1. n \in Request
        <5> HIDE DEF todo, stops
        <5> QED BY <1>1, <2>2 DEF Request
      <4> HIDE DEF n, stops
      <4> QED BY <2>2, <2>3, <4>1, IdleFields DEF AfterStop, Request, StopPlaces, GroupPlaces
    <3> HIDE DEF n, e, stops
    <3> QED BY <2>3, <3>1, <3>2, <3>3
  <2>8. \A x \in q.stops : x \in request[c].stops \cap Stories \/ acquirers'[x] = {}
    <3> HIDE DEF q
    <3> QED BY <1>1, <2>4, <2>7
  <2>9. \A k \in Keepers, x \in Stories : ~Starts(request[c], k, x)
    BY <2>2 DEF Starts
  <2> HIDE DEF q
  <2> QED BY <2>1, <2>2, <2>5, <2>6, <2>7, <2>8, <2>9, LoneMove
<1> QED BY <1>2, <1>3

\* An acquire finds the story's entry, chooses a group for it, or gives up.  It
\* chooses only when it is alone: another holder would have an entry.
LEMMA ChooseGroupLone ==
  ASSUME Inv, HeldInv, NEW c \in Clients, ChooseGroup(c)
  PROVE  HeldInv'
<1> DEFINE s == request[c].story
           able == {g \in Groups : isActive(g)}
           g == select_recording_group(s, able)
           a == At(c, "startGrapher")
           q == [a EXCEPT !.group = g]
<1>1. /\ request[c].at = "choose"
      /\ UNCHANGED <<acquirers, overlap, process, adminClient, registration, pipelines>> /\ Counts
      /\ \/ request' = [request EXCEPT ![c] = NoRequest] /\ UNCHANGED activeStories /\ activeStories[s] # None
         \/ request' = [request EXCEPT ![c] = At(c, "rollback")] /\ UNCHANGED activeStories
         \/ /\ request' = [request EXCEPT ![c] = q] /\ able # {} /\ activeStories[s] = None
            /\ activeStories' = [activeStories EXCEPT ![s] = g]
  BY DEF ChooseGroup, Proceed, registry, keepers, meta, Counts
<1>2. /\ request[c] \in Request /\ request[c].op = "acquire" /\ s \in Stories /\ request[c].stops = {}
      /\ request[c] # NoRequest /\ c \in acquirers[s]
  BY <1>1, RequestFacts, IdleFields DEF RequestOK, AcquirePlaces
<1>3. /\ \A k \in Keepers, x \in Stories : ~Starts(request[c], k, x)
      /\ \A d \in Clients : d # c => request'[d] = request[d]
  BY <1>1, RequestBecomes DEF Starts
<1>4. CASE request' = [request EXCEPT ![c] = NoRequest] /\ UNCHANGED activeStories /\ activeStories[s] # None
  <2>1. request'[c].stops = {} /\ request'[c].at \notin StopPlaces \cup GroupPlaces
    BY <1>4, RequestBecomes, IdleFields DEF StopPlaces, GroupPlaces
  <2> QED BY <1>1, <1>2, <1>3, <1>4, <2>1, LoneMove
<1>5. CASE request' = [request EXCEPT ![c] = At(c, "rollback")] /\ UNCHANGED activeStories
  <2>1. /\ At(c, "rollback").at = "rollback" /\ At(c, "rollback").stops = {} /\ At(c, "rollback").op = "acquire"
        /\ At(c, "rollback").story = s
    BY <1>2 DEF At, Request
  <2>2. /\ request'[c].stops = {} /\ request'[c].at \notin StopPlaces \cup GroupPlaces
        /\ request'[c].op = "acquire" /\ request'[c].story = s
    BY <1>5, <2>1, RequestBecomes DEF StopPlaces, GroupPlaces
  <2> QED BY <1>1, <1>2, <1>3, <1>5, <2>2, LoneMove
<1>6. CASE /\ request' = [request EXCEPT ![c] = q] /\ able # {} /\ activeStories[s] = None
           /\ activeStories' = [activeStories EXCEPT ![s] = g]
  <2>1. g \in Groups
    BY <1>2, <1>6, GroupChosen
  <2> HIDE DEF able, g
  <2>2. /\ a \in Request /\ a.at = "startGrapher" /\ a.stops = {} /\ a.op = "acquire" /\ a.story = s
    BY <1>2 DEF At, Request, Places
  <2> HIDE DEF a
  <2>3. /\ q.at = "startGrapher" /\ q.stops = {} /\ q.op = "acquire" /\ q.story = s /\ q.group = g
    BY <2>1, <2>2 DEF Request
  <2>4. request'[c] = q
    BY <1>6, RequestBecomes
  <2> HIDE DEF q, s
  <2>5. ASSUME Sound'
        PROVE  /\ \A d \in Clients : d # c => request[d] = NoRequest /\ request'[d] = NoRequest
               /\ acquirers[s] = {c}
               /\ \A x \in Stories : \A d \in acquirers[x] : x # s => activeStories[x] # None
    <3>1. \A d \in Clients : d # c => request[d] = NoRequest /\ request'[d] = NoRequest
      BY <1>1, <1>2, <1>3, <2>5, OthersIdle DEF Sound
    <3>2. \A x \in Stories : \A d \in acquirers[x] :
            d \in Clients /\ (activeStories[x] # None \/ (request[d].op = "acquire" /\ request[d].story = x))
      BY <1>1, <2>5, SoundBefore DEF HeldInv, Entered, Inv, DirectoryInv, TypeInv
    <3>3. \A x \in Stories : \A d \in acquirers[x] : activeStories[x] # None \/ (d = c /\ x = s)
      BY <3>1, <3>2, IdleFields DEF s
    <3> QED BY <1>2, <1>6, <3>1, <3>3
  <2>6. /\ activeStories'[s] = g /\ \A x \in Stories : x # s => activeStories'[x] = activeStories[x]
    BY <1>2, <1>6 DEF Inv, DirectoryInv, TypeInv
  <2>7. g # None
    BY <2>1, VisorAssumption
  <2>8. ASSUME Sound' PROVE LoneRequest(c, request[c])'
    <3>1. q.at \notin StopPlaces
      BY <2>3 DEF StopPlaces
    <3> QED BY <1>1, <2>3, <2>4, <2>5, <2>6, <2>8, <3>1 DEF LoneRequest
  <2>9. ASSUME Sound', NEW x \in Stories, NEW d \in acquirers'[x]
        PROVE  activeStories'[x] # None
    BY <1>1, <2>5, <2>6, <2>7, <2>9
  <2>10. \A k \in Keepers, x \in Stories : activeStories'[x] = GroupOf[k] =>
           \/ x \in pipelines'[k] \/ Starts(request'[c], k, x)
           \/ activeStories[x] = GroupOf[k] /\ x \notin pipelines[k] /\ ~Starts(request[c], k, x)
    <3>1. \A k : Starts(request'[c], k, s)
      BY <2>3, <2>4 DEF Starts
    <3> QED BY <1>1, <1>3, <2>6, <3>1
  <2> QED BY <1>1, <2>5, <2>8, <2>9, <2>10, LoneStep
<1> QED BY <1>1, <1>4, <1>5, <1>6

\* The entry of story s goes, when nobody holds the story or only the acquire
\* that gives up.
LEMMA EraseLone ==
  ASSUME Inv, HeldInv, Counts, NEW c \in Clients, NEW s \in Stories, request[c] # NoRequest,
         \A d \in Clients : d # c => request'[d] = request[d],
         UNCHANGED <<acquirers, overlap, process, adminClient, registration, pipelines>>,
         activeStories' = [activeStories EXCEPT ![s] = None],
         request'[c].at = "copyKeepers", request'[c].story = s, request'[c].stops \subseteq request[c].stops,
         request[c].op = "acquire" => request[c].story = s,
         Sound' => acquirers[s] = {} \/ (acquirers[s] = {c} /\ request'[c].op = "acquire")
  PROVE  HeldInv'
<1>1. Sound' => Sound
  BY SoundBefore
<1>2. Sound' => \A d \in Clients : d # c => request[d] = NoRequest /\ request'[d] = NoRequest
  BY <1>1, OthersIdle DEF Sound
<1>3. activeStories'[s] = None /\ \A x \in Stories : x # s => activeStories'[x] = activeStories[x]
  BY DEF Inv, DirectoryInv, TypeInv
<1>4. ASSUME Sound' PROVE LoneRequest(c, request[c])'
  <2>1. LoneRequest(c, request[c])
    BY <1>1, <1>4 DEF HeldInv
  <2>2. request'[c].at \notin GroupPlaces
    BY DEF GroupPlaces
  <2> QED BY <1>3, <2>1, <2>2 DEF LoneRequest
<1>5. ASSUME Sound', NEW x \in Stories, NEW d \in acquirers'[x]
      PROVE  activeStories'[x] # None \/ (d = c /\ request'[c].op = "acquire" /\ request'[c].story = x)
  <2>1. d \in acquirers[x] /\ d \in Clients
    BY DEF Inv, DirectoryInv, TypeInv
  <2>2. CASE x = s
    BY <1>5, <2>1, <2>2
  <2>3. CASE x # s
    <3>1. activeStories[x] # None \/ (request[d].op = "acquire" /\ request[d].story = x)
      BY <1>1, <1>5, <2>1 DEF HeldInv, Entered
    <3> QED BY <1>2, <1>3, <1>5, <2>1, <2>3, <3>1, IdleFields
  <2> QED BY <2>2, <2>3
<1>6. \A k \in Keepers, x \in Stories : activeStories'[x] = GroupOf[k] =>
        \/ x \in pipelines'[k]
        \/ activeStories[x] = GroupOf[k] /\ x \notin pipelines[k] /\ ~Starts(request[c], k, x)
  BY <1>3, VisorAssumption DEF Starts
<1> QED BY <1>2, <1>4, <1>5, <1>6, LoneStep

\* forget_story takes the entry back that the acquire made.
LEMMA ForgetStoryLone ==
  ASSUME Inv, HeldInv, NEW c \in Clients, ForgetStory(c)
  PROVE  HeldInv'
<1> DEFINE r == request[c]
           a == At(c, "copyKeepers")
           ks == getActiveKeepers(r.group)
           q == [a EXCEPT !.targets = ks]
<1>1. /\ r.at = "forget" /\ request' = [request EXCEPT ![c] = q] /\ Counts
      /\ UNCHANGED <<acquirers, overlap, process, adminClient, registration, pipelines>>
      /\ activeStories' = IF activeStories[r.story] = r.group THEN [activeStories EXCEPT ![r.story] = None]
                                                             ELSE activeStories
  BY DEF ForgetStory, Proceed, registry, keepers, meta, Counts
<1>2. /\ r \in Request /\ r.op = "acquire" /\ r.story \in Stories /\ r.stops = {} /\ r # NoRequest
      /\ r.at \in GroupPlaces /\ ks \in SUBSET Keepers
  BY <1>1, RequestFacts, IdleFields DEF RequestOK, AcquirePlaces, GroupPlaces, getActiveKeepers
<1>3. /\ a \in Request /\ a.op = "acquire" /\ a.at = "copyKeepers" /\ a.stops = {} /\ a.story = r.story
  BY <1>2 DEF At, Request, Places
<1> HIDE DEF a, ks
<1>4. q.op = "acquire" /\ q.at = "copyKeepers" /\ q.stops = {} /\ q.story = r.story
  BY <1>2, <1>3, TargetsFields
<1>5. request'[c] = q /\ \A d \in Clients : d # c => request'[d] = request[d]
  BY <1>1, RequestBecomes
<1> HIDE DEF q
<1>6. Sound' => activeStories[r.story] = r.group /\ acquirers[r.story] = {c}
  BY <1>1, <1>2, SoundBefore DEF HeldInv, LoneRequest
<1>7. CASE activeStories[r.story] = r.group
  BY <1>1, <1>2, <1>4, <1>5, <1>6, <1>7, EraseLone
<1>8. CASE activeStories[r.story] # r.group
  BY <1>1, <1>6, <1>8, SoundBefore DEF HeldInv
<1> QED BY <1>7, <1>8

\* The entry of a story that was released for the last time goes.
LEMMA EraseStoryLone ==
  ASSUME Inv, HeldInv, NEW c \in Clients, NEW s \in Stories, EraseStory(c, s)
  PROVE  HeldInv'
<1> DEFINE left == request[c].stops \ {s}
           r == [request[c] EXCEPT !.stops = left]
           g == activeStories[s]
           ks == getActiveKeepers(g)
           q == [r EXCEPT !.at = "copyKeepers", !.story = s, !.group = g, !.targets = ks]
<1>1. /\ request[c].at = "erase" /\ s \in request[c].stops /\ Counts
      /\ UNCHANGED <<acquirers, overlap, process, adminClient, registration, pipelines>>
      /\ \/ request' = [request EXCEPT ![c] = q] /\ activeStories' = [activeStories EXCEPT ![s] = None]
         \/ request' = [request EXCEPT ![c] = AfterStop(r)] /\ UNCHANGED activeStories
  <2>1. request[c] \in Request
    BY RequestFacts
  <2>2. r.at = request[c].at
    BY <2>1 DEF Request
  <2> HIDE DEF q, ks
  <2> QED BY <2>2 DEF EraseStory, Proceed, registry, keepers, meta, q, ks, Counts
<1>2. /\ request[c] \in Request /\ request[c].op # "acquire" /\ request[c] # NoRequest
      /\ left \in SUBSET Stories
  <2>1. request[c] \in Request /\ RequestOK(c, request[c], acquirers)
    BY RequestFacts
  <2>2. left \in SUBSET Stories
    BY <2>1 DEF Request
  <2> QED BY <1>1, <2>1, <2>2, IdleFields DEF RequestOK, AcquirePlaces, StopPlaces
<1>3. r \in Request /\ r.op = request[c].op /\ r.stops = left
  <2> HIDE DEF left
  <2> QED BY <1>2 DEF Request
<1>4. CASE request' = [request EXCEPT ![c] = q] /\ activeStories' = [activeStories EXCEPT ![s] = None]
  <2>1. q.at = "copyKeepers" /\ q.story = s /\ q.stops = left
    <3> HIDE DEF r, g, ks, left
    <3> QED BY <1>3 DEF Request
  <2> HIDE DEF q
  <2>2. request'[c] = q /\ \A d \in Clients : d # c => request'[d] = request[d]
    BY <1>4, RequestBecomes
  <2>3. Sound' => acquirers[s] = {}
    BY <1>1, SoundBefore DEF HeldInv, LoneRequest
  <2> QED BY <1>1, <1>2, <1>4, <2>1, <2>2, <2>3, EraseLone
<1>5. CASE request' = [request EXCEPT ![c] = AfterStop(r)] /\ UNCHANGED activeStories
  <2>1. AfterStop(r).stops \subseteq left /\ AfterStop(r).at \notin StopPlaces \cup GroupPlaces
    <3> HIDE DEF r, q, left
    <3> QED BY <1>2, <1>3, IdleFields DEF AfterStop, Request, StopPlaces, GroupPlaces
  <2>2. request'[c] = AfterStop(r) /\ \A d \in Clients : d # c => request'[d] = request[d]
    BY <1>5, RequestBecomes
  <2>3. \A k \in Keepers, x \in Stories : ~Starts(request[c], k, x)
    BY <1>2 DEF Starts
  <2>4. \A x \in request'[c].stops : x \in request[c].stops \cap Stories
    BY <1>2, <2>1, <2>2
  <2> HIDE DEF r, q, left
  <2> QED BY <1>1, <1>2, <1>5, <2>1, <2>2, <2>3, <2>4, LoneMove
<1> QED BY <1>1, <1>4, <1>5

\* A step that is not a client's keeps the invariant if the keepers still record
\* their stories or will, and no registration begins to stop one.
LEMMA KeeperLone ==
  ASSUME Inv, HeldInv, Counts, UNCHANGED <<acquirers, activeStories, request>>,
         Sound' => Unstopped',
         Sound' => \A k \in Keepers, s \in Stories :
           process'[k] = "joined" /\ activeStories[s] = GroupOf[k] =>
             \/ s \in pipelines'[k] \/ Resumes(registration'[k][adminClient'[k]], s)
             \/ process[k] = "joined" /\ s \notin pipelines[k] /\ ~Resumes(registration[k][adminClient[k]], s)
  PROVE  HeldInv'
<1>1. faults' \in Nat /\ (Sound' => Sound)
  BY SoundBefore
<1> SUFFICES ASSUME Sound'
             PROVE  /\ \A c \in Clients : LoneRequest(c, request[c])'
                    /\ \A s \in Stories : Entered(s)' /\ \A k \in Keepers : Covered(k, s)'
                    /\ Unstopped'
  BY <1>1 DEF HeldInv
<1>2. ASSUME NEW c \in Clients PROVE LoneRequest(c, request[c])'
  BY <1>1 DEF HeldInv, LoneRequest
<1>3. ASSUME NEW s \in Stories PROVE Entered(s)'
  BY <1>1 DEF HeldInv, Entered
<1>4. ASSUME NEW s \in Stories, NEW k \in Keepers PROVE Covered(k, s)'
  BY <1>1 DEF HeldInv, Covered
<1> QED BY <1>2, <1>3, <1>4

\* A step that touches nothing the invariant is about.
LEMMA ElsewhereLone ==
  ASSUME Inv, HeldInv,
         UNCHANGED <<acquirers, activeStories, request, overlap, faults, process, adminClient, pipelines, registration>>
  PROVE  HeldInv'
<1>1. Counts
  BY DEF Counts
<1>2. Sound' => Unstopped'
  BY <1>1, SoundBefore DEF HeldInv, Unstopped
<1> QED BY <1>1, <1>2, KeeperLone

\* The registration of start n of keeper k goes on, and what it was to start is
\* recorded or still to be started.
LEMMA RegistrationLone ==
  ASSUME Inv, HeldInv, Counts, NEW k \in Keepers, NEW n \in 1 .. MaxStarts, NEW r,
         registration' = [registration EXCEPT ![k][n] = r],
         UNCHANGED <<acquirers, activeStories, request, process, adminClient>>,
         Sound' => r.at # "stop",
         \A l \in Keepers : pipelines[l] \subseteq pipelines'[l],
         Sound' => \A s \in Stories :
           process[k] = "joined" /\ activeStories[s] = GroupOf[k] /\ Resumes(registration[k][n], s) =>
             s \in pipelines'[k] \/ Resumes(r, s)
  PROVE  HeldInv'
<1>1. Sound' => Sound
  BY SoundBefore
<1>2. /\ registration'[k][n] = r
      /\ \A l \in Keepers, m \in 1 .. MaxStarts : l # k \/ m # n => registration'[l][m] = registration[l][m]
  BY KeeperFacts
<1>3. Sound' => Unstopped'
  BY <1>1, <1>2 DEF HeldInv, Unstopped
<1>4. ASSUME Sound', NEW l \in Keepers, NEW s \in Stories, process'[l] = "joined", activeStories[s] = GroupOf[l]
      PROVE  \/ s \in pipelines'[l] \/ Resumes(registration'[l][adminClient'[l]], s)
             \/ process[l] = "joined" /\ s \notin pipelines[l] /\ ~Resumes(registration[l][adminClient[l]], s)
  <2>1. adminClient[l] \in 1 .. MaxStarts
    BY <1>4, KeeperFacts DEF KeeperInv
  <2> QED BY <1>2, <1>4, <2>1
<1> QED BY <1>3, <1>4, KeeperLone

\* The next story of a registration: the others are still to be started.
LEMMA NextResumes ==
  ASSUME NEW r \in Registration, NEW s
  PROVE  \A x \in Stories : x # s /\ Resumes(r, x) => Resumes(NextHeld(r, s), x)
<1> SUFFICES ASSUME NEW x \in Stories, x # s, x \in r.todo PROVE Resumes(NextHeld(r, s), x)
  BY DEF Resumes
<1>1. NextHeld(r, s) = [r EXCEPT !.at = "check", !.todo = r.todo \ {s}, !.story = None]
  BY DEF NextHeld
<1>2. NextHeld(r, s).at = "check" /\ NextHeld(r, s).todo = r.todo \ {s}
  BY <1>1 DEF Registration
<1> QED BY <1>2 DEF Resumes

\* The two looks of startHeldStoriesOnKeeper and the starts between them.
LEMMA RegistrationsLone ==
  ASSUME Inv, HeldInv, NEW k \in Keepers, NEW n \in 1 .. MaxStarts,
         \/ \E s \in Stories : CheckHeld(k, n, s)
         \/ RecheckHeld(k, n)
         \/ \E ran, told \in BOOLEAN : StartHeld(k, n, ran, told) \/ StopHeld(k, n, ran, told)
  PROVE  HeldInv'
<1> DEFINE r == registration[k][n]
<1>1. r \in Registration
  BY KeeperFacts
<1>2. process[k] = "joined" => adminClient[k] \in 1 .. MaxStarts
  BY KeeperFacts DEF KeeperInv
<1>3. ASSUME NEW s \in Stories, CheckHeld(k, n, s) PROVE HeldInv'
  <2> DEFINE b == [r EXCEPT !.at = "start", !.story = s]
             q == IF ~StillRegistered(k, n) THEN NoRegistration ELSE IF RecordedByGroup(k, s) THEN b ELSE NextHeld(r, s)
  <2>1. /\ r.at = "check" /\ s \in r.todo /\ registration' = [registration EXCEPT ![k][n] = q] /\ Counts
        /\ UNCHANGED <<acquirers, activeStories, request, process, adminClient, pipelines>>
    BY <1>3 DEF CheckHeld, GoOn, registry, keepers, meta, history, Counts
  <2>2. b.at = "start" /\ b.todo = r.todo
    BY <1>1 DEF Registration
  <2> HIDE DEF b
  <2>3. q.at # "stop"
    BY <1>1, <2>2, IdleRegistration, NextHeldFacts
  <2>4. CASE StillRegistered(k, n)
    <3>1. \A x \in Stories : activeStories[x] = GroupOf[k] /\ Resumes(r, x) => Resumes(q, x)
      <4>1. CASE RecordedByGroup(k, s)
        BY <2>2, <2>4, <4>1 DEF Resumes
      <4>2. CASE ~RecordedByGroup(k, s)
        BY <1>1, <2>4, <4>2, NextResumes DEF RecordedByGroup
      <4> QED BY <4>1, <4>2
    <3> HIDE DEF q
    <3> QED BY <2>1, <2>3, <3>1, RegistrationLone
  <2>5. CASE ~StillRegistered(k, n)
    <3> HIDE DEF q
    <3>1. adminClient[k] # n
      BY <2>5 DEF StillRegistered
    <3>2. /\ registration'[k][n] = q
          /\ \A l \in Keepers, m \in 1 .. MaxStarts : l # k \/ m # n => registration'[l][m] = registration[l][m]
      BY <2>1, KeeperFacts
    <3>3. Sound' => Unstopped'
      BY <2>1, <2>3, <3>2, SoundBefore DEF HeldInv, Unstopped
    <3>4. \A l \in Keepers : process[l] = "joined" => adminClient[l] \in 1 .. MaxStarts
      BY KeeperFacts DEF KeeperInv
    <3>5. \A l \in Keepers : process[l] = "joined" =>
            registration'[l][adminClient[l]] = registration[l][adminClient[l]]
      BY <3>1, <3>2, <3>4
    <3> QED BY <2>1, <3>3, <3>5, KeeperLone
  <2> QED BY <2>4, <2>5
<1>4. CASE RecheckHeld(k, n)
  <2> DEFINE gone == StillRegistered(k, n) /\ ~RecordedByGroup(k, r.story)
             q == IF gone THEN [r EXCEPT !.at = "stop"] ELSE NextHeld(r, r.story)
  <2>1. /\ r.at = "recheck" /\ registration' = [registration EXCEPT ![k][n] = q] /\ Counts
        /\ overlap' = (overlap \/ gone)
        /\ UNCHANGED <<acquirers, activeStories, request, process, adminClient, pipelines>>
    BY <1>4 DEF RecheckHeld, GoOn, registry, keepers, meta, Counts
  <2>2. Sound' => q = NextHeld(r, r.story)
    BY <2>1 DEF Sound
  <2>3. Sound' => q.at # "stop"
    BY <1>1, <2>2, NextHeldFacts
  <2>4. \A x \in Stories : Resumes(r, x) => x # r.story
    BY <2>1 DEF Resumes
  <2>5. Sound' => \A x \in Stories : Resumes(r, x) => Resumes(q, x)
    BY <1>1, <2>2, <2>4, NextResumes
  <2> HIDE DEF q, gone
  <2> QED BY <2>1, <2>3, <2>5, RegistrationLone
<1>5. ASSUME NEW ran \in BOOLEAN, NEW told \in BOOLEAN, StartHeld(k, n, ran, told) PROVE HeldInv'
  <2> DEFINE q == [r EXCEPT !.at = "recheck"]
  <2>1. /\ r.at = "start" /\ registration' = [registration EXCEPT ![k][n] = q] /\ Counts /\ (told => ran)
        /\ faults' = IF told \/ process[k] = "down" THEN faults ELSE faults + 1
        /\ pipelines' = IF ran THEN [pipelines EXCEPT ![k] = @ \cup {r.story}] ELSE pipelines
        /\ UNCHANGED <<acquirers, activeStories, request, process, adminClient>>
    BY <1>5 DEF StartHeld, StartPipeline, Rpc, GoOn, registry, keepers, meta, Counts
  <2>2. q.at = "recheck" /\ q.todo = r.todo /\ q.story = r.story
    BY <1>1 DEF Registration
  <2> HIDE DEF q
  <2>3. \A l \in Keepers : pipelines[l] \subseteq pipelines'[l]
    BY <2>1, KeeperFacts
  <2>4. ASSUME Sound', NEW s \in Stories, process[k] = "joined", Resumes(r, s)
        PROVE  s \in pipelines'[k] \/ Resumes(q, s)
    <3>1. told
      BY <2>1, <2>4, SoundBefore DEF Sound, HeldInv
    <3>2. r.story \in pipelines'[k]
      BY <2>1, <3>1, KeeperFacts
    <3> QED BY <2>2, <2>4, <3>2 DEF Resumes
  <2> QED BY <2>1, <2>2, <2>3, <2>4, RegistrationLone
<1>6. ASSUME NEW ran \in BOOLEAN, NEW told \in BOOLEAN, StopHeld(k, n, ran, told) PROVE HeldInv'
  <2>1. r.at = "stop" /\ Counts
    BY <1>6 DEF StopHeld, Rpc, Counts
  <2> QED BY <2>1, SoundBefore DEF HeldInv, Unstopped
<1> QED BY <1>3, <1>4, <1>5, <1>6

\* A keeper leaves, ends, or starts again: it is not joined.  When it registers
\* it is told of every story its group has the entry of.
LEMMA ProcessesLone ==
  ASSUME Inv, HeldInv, NEW k \in Keepers,
         KeeperStarts(k) \/ registerKeeperProcess(k) \/ unregisterKeeperProcess(k) \/ KeeperEnds(k)
  PROVE  HeldInv'
<1>1. ASSUME Counts, UNCHANGED <<acquirers, activeStories, request, registration>>,
             process'[k] # "joined",
             \A l \in Keepers : l # k =>
               process'[l] = process[l] /\ adminClient'[l] = adminClient[l] /\ pipelines'[l] = pipelines[l]
      PROVE  HeldInv'
  <2>1. Sound' => Unstopped'
    BY <1>1, SoundBefore DEF HeldInv, Unstopped
  <2> QED BY <1>1, <2>1, KeeperLone
<1>2. CASE KeeperStarts(k)
  <2>1. /\ process' = [process EXCEPT ![k] = "booting"] /\ Counts
        /\ UNCHANGED <<acquirers, activeStories, request, registration, adminClient, pipelines>>
    BY <1>2 DEF KeeperStarts, registry, meta, history, Counts
  <2> QED BY <1>1, <2>1, KeeperFacts
<1>3. CASE unregisterKeeperProcess(k)
  <2>1. /\ process' = [process EXCEPT ![k] = "leaving"] /\ adminClient' = [adminClient EXCEPT ![k] = 0] /\ Counts
        /\ UNCHANGED <<acquirers, activeStories, request, registration, pipelines>>
    BY <1>3 DEF unregisterKeeperProcess, meta, history, Counts
  <2> QED BY <1>1, <2>1, KeeperFacts
<1>4. CASE KeeperEnds(k)
  <2>1. /\ process' = [process EXCEPT ![k] = "down"] /\ pipelines' = [pipelines EXCEPT ![k] = {}] /\ Counts
        /\ UNCHANGED <<acquirers, activeStories, request, registration, adminClient>>
    BY <1>4 DEF KeeperEnds, registry, meta, history, Counts
  <2> QED BY <1>1, <2>1, KeeperFacts
<1>5. CASE registerKeeperProcess(k) /\ adminClient[k] # 0
  <2>1. /\ process[k] = "booting" /\ adminClient' = [adminClient EXCEPT ![k] = 0] /\ Counts
        /\ UNCHANGED <<acquirers, activeStories, request, registration, pipelines, process>>
    BY <1>5 DEF registerKeeperProcess, meta, history, Counts
  <2> QED BY <1>1, <2>1, KeeperFacts
<1>6. CASE registerKeeperProcess(k) /\ adminClient[k] = 0
  <2> DEFINE n == starts[k]
             held == HeldStories(k)
             q == [NoRegistration EXCEPT !.at = "check", !.todo = held]
  <2>1. /\ process' = [process EXCEPT ![k] = "joined"] /\ adminClient' = [adminClient EXCEPT ![k] = n] /\ Counts
        /\ UNCHANGED <<acquirers, activeStories, request, pipelines>>
        /\ registration' = IF held = {} THEN registration ELSE [registration EXCEPT ![k][n] = q]
    BY <1>6 DEF registerKeeperProcess, meta, history, Counts
  <2>2. n \in 1 .. MaxStarts /\ process'[k] = "joined" /\ adminClient'[k] = n
        /\ \A l \in Keepers : l # k => process'[l] = process[l] /\ adminClient'[l] = adminClient[l]
    BY <2>1, KeeperFacts
  <2>3. q.at = "check" /\ q.todo = held
    BY DEF NoRegistration
  <2> HIDE DEF q
  <2>4. /\ held # {} => registration'[k][n] = q
        /\ \A l \in Keepers, m \in 1 .. MaxStarts : l # k \/ m # n => registration'[l][m] = registration[l][m]
    BY <2>1, <2>2, KeeperFacts
  <2>5. Sound' => Unstopped'
    <3>1. Sound' => Unstopped
      BY <2>1, SoundBefore DEF HeldInv
    <3> QED BY <2>1, <2>3, <2>4, <3>1 DEF Unstopped
  <2>6. \A s \in Stories : activeStories[s] = GroupOf[k] => Resumes(registration'[k][n], s)
    BY <2>3, <2>4 DEF Resumes, HeldStories
  <2>7. ASSUME NEW l \in Keepers, NEW s \in Stories, process'[l] = "joined", activeStories[s] = GroupOf[l]
        PROVE  \/ s \in pipelines'[l] \/ Resumes(registration'[l][adminClient'[l]], s)
               \/ process[l] = "joined" /\ s \notin pipelines[l] /\ ~Resumes(registration[l][adminClient[l]], s)
    <3>1. CASE l = k
      BY <2>2, <2>6, <2>7, <3>1
    <3>2. CASE l # k
      <4>1. process[l] = "joined" /\ adminClient[l] \in 1 .. MaxStarts
        BY <2>2, <2>7, <3>2, KeeperFacts DEF KeeperInv
      <4> QED BY <2>1, <2>2, <2>4, <3>2, <4>1
    <3> QED BY <3>1, <3>2
  <2> QED BY <2>1, <2>5, <2>7, KeeperLone
<1> QED BY <1>2, <1>3, <1>4, <1>5, <1>6

\* At the start nothing is held, listed or owed.
LEMMA InitLone == Init => HeldInv
<1> SUFFICES ASSUME Init PROVE HeldInv
  OBVIOUS
<1>1. \A c \in Clients : request[c] = NoRequest
  BY DEF Init
<1>2. \A c \in Clients : LoneRequest(c, request[c])
  BY <1>1, IdleOwesNothing
<1>3. ASSUME NEW s \in Stories PROVE Entered(s)
  BY DEF Init, Entered
<1>4. ASSUME NEW s \in Stories, NEW k \in Keepers PROVE Covered(k, s)
  <2>1. activeStories[s] = None /\ GroupOf[k] # None
    BY VisorAssumption DEF Init
  <2> QED BY <2>1 DEF Covered
<1>5. Unstopped
  BY IdleRegistration DEF Init, Unstopped
<1>6. faults \in Nat
  BY DEF Init
<1> QED BY <1>2, <1>3, <1>4, <1>5, <1>6 DEF HeldInv

\* Every step keeps the invariant.
LEMMA NextLone == Inv /\ HeldInv /\ [Next]_vars => HeldInv'
<1> SUFFICES ASSUME Inv, HeldInv, [Next]_vars PROVE HeldInv'
  OBVIOUS
<1>1. ASSUME NEW c \in Clients, ClientStep(c) PROVE HeldInv'
  <2>1. CASE \/ ClientConnect(c) \/ ClientDisconnect(c)
             \/ \E ch \in Chronicles : CreateChronicle(c, ch) \/ DestroyChronicle(c, ch)
             \/ \E s \in Stories : AcquireStory(c, s) \/ ReleaseStory(c, s) \/ DestroyStory(c, s)
    BY <2>1, BeginsLone
  <2>2. CASE \/ RemoveClientRecord(c) \/ destroy_story(c) \/ destroy_chronicle(c) \/ BroadcastDestroy(c)
             \/ \E told \in BOOLEAN : StartGrapher(c, told) \/ StartPlayer(c, told)
    BY <2>2, PlainMovesLone
  <2>3. CASE RollBackAcquire(c) \/ \E s \in Stories : AutoRelease(c, s)
    BY <2>3, ReleasesLone
  <2>4. ASSUME NEW s \in Stories, EraseStory(c, s) PROVE HeldInv'
    BY <2>4, EraseStoryLone
  <2>5. CASE ChooseGroup(c) \/ ListKeepers(c) \/ ForgetStory(c)
    BY <2>5, ChooseGroupLone, ListKeepersLone, ForgetStoryLone
  <2>6. CASE CopyKeepers(c) \/ \E k \in Keepers, ran \in BOOLEAN, told \in BOOLEAN : StopOnKeeper(c, k, ran, told)
    BY <2>6, StopsLone
  <2>7. ASSUME NEW told \in BOOLEAN, NEW k \in Keepers, NEW ran \in BOOLEAN, StartOnKeeper(c, k, ran, told)
        PROVE  HeldInv'
    BY <2>7, StartOnKeeperLone
  <2> QED BY <1>1, <2>1, <2>2, <2>3, <2>4, <2>5, <2>6, <2>7 DEF ClientStep
<1>2. ASSUME NEW k \in Keepers, KeeperStep(k) PROVE HeldInv'
  <2>1. CASE KeeperStarts(k) \/ registerKeeperProcess(k) \/ unregisterKeeperProcess(k) \/ KeeperEnds(k)
    BY <2>1, ProcessesLone
  <2>2. ASSUME NEW n \in 1 .. MaxStarts,
               \/ \E s \in Stories : CheckHeld(k, n, s)
               \/ RecheckHeld(k, n)
               \/ \E ran, told \in BOOLEAN : StartHeld(k, n, ran, told) \/ StopHeld(k, n, ran, told)
        PROVE  HeldInv'
    BY <2>2, RegistrationsLone
  <2> QED BY <1>2, <2>1, <2>2 DEF KeeperStep
<1>3. ASSUME NEW g \in Groups, GroupStep(g) PROVE HeldInv'
  <2>1. UNCHANGED <<acquirers, activeStories, request, overlap, faults, process, adminClient, pipelines, registration>>
    BY <1>3 DEF GroupStep, registerGrapherProcess, unregisterGrapherProcess, registerPlayerProcess,
                unregisterPlayerProcess, Move, meta, keepers, history
  <2> QED BY <2>1, ElsewhereLone
<1>4. CASE UNCHANGED vars
  BY <1>4, ElsewhereLone DEF vars, meta, registry, keepers, history
<1> QED BY <1>1, <1>2, <1>3, <1>4 DEF Next

\* While no two requests overlapped and no RPC failed, a held story is listed
\* between requests and every registered keeper of its group records it, for any
\* number of keepers that crash, leave and register again: what an acquire that
\* finds the entry relies on when it notifies nobody, and what
\* startHeldStoriesOnKeeper is for.
THEOREM HeldRecorded == Spec => []HeldIsRecorded
<1>1. Inv /\ HeldInv => HeldIsRecorded
  <2> SUFFICES ASSUME Inv, HeldInv, Quiet, Sound, NEW s \in Stories, acquirers[s] # {}
               PROVE  /\ activeStories[s] # None
                      /\ \A k \in Keepers : Registered(k) /\ GroupOf[k] = activeStories[s] => s \in pipelines[k]
    BY DEF HeldIsRecorded, Sound
  <2>1. Entered(s) /\ \A k \in Keepers : Covered(k, s)
    BY DEF HeldInv
  <2>2. activeStories[s] # None
    <3>1. PICK c \in acquirers[s] : TRUE
      OBVIOUS
    <3>2. c \in Clients
      BY <3>1 DEF Inv, DirectoryInv, TypeInv
    <3> QED BY <2>1, <3>1, <3>2, IdleFields DEF Entered, Quiet
  <2>3. ASSUME NEW k \in Keepers, Registered(k), GroupOf[k] = activeStories[s] PROVE s \in pipelines[k]
    <3>1. process[k] = "joined" /\ adminClient[k] \in 1 .. MaxStarts
      BY <2>3, KeeperFacts DEF KeeperInv, Registered
    <3>2. ~Resumes(registration[k][adminClient[k]], s)
      BY <3>1, IdleRegistration DEF Resumes, Quiet
    <3>3. \A c \in Clients : ~Starts(request[c], k, s)
      BY IdleOwesNothing DEF Quiet
    <3> QED BY <2>1, <2>3, <3>1, <3>2, <3>3 DEF Covered
  <2> QED BY <2>2, <2>3
<1>2. Spec => []HeldInv
  BY InitLone, NextLone, Invariant, PTL DEF Spec
<1> QED BY <1>1, <1>2, Invariant, PTL
=============================================================================
