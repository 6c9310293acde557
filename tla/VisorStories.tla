---------------------------- MODULE VisorStories ----------------------------
(***************************************************************************)
(* The visor's part in the life of a story: the metadata directory (who    *)
(* holds which story), the registry of recording groups (which group       *)
(* records it), and the requests that join them.  The two have a lock      *)
(* each, and no lock is held during an RPC: a request is a sequence of     *)
(* critical sections and RPCs, and requests of several clients and         *)
(* registrations of keepers interleave between any two of them.            *)
(*                                                                         *)
(* A client has one request at a time: ChronologClientImpl holds its mutex *)
(* during each.  Of the processes a group has, the keepers' story pipelines*)
(* are kept; a grapher and a player only answer or fail.  The 3 seconds    *)
(* after which an admin client is deleted are modelled by what they are    *)
(* for: a keeper registers again when no RPC of an earlier registration is *)
(* under way.  The shutdown of the visor is not modelled.                  *)
(***************************************************************************)
EXTENDS Naturals, FiniteSets

CONSTANTS
  Clients, Chronicles, Stories,
  ChronicleOf,        \* the chronicle of each story
  Groups, Weight,     \* recording group ids; the weight of a group for a story
  Keepers, GroupOf,   \* the group each keeper belongs to
  Leaving,            \* the keepers that may stop or crash, and come back
  MaxStarts,          \* bound: the times one of them starts
  MaxMoves,           \* bound: registrations and departures of graphers and players
  MaxFaults,          \* bound: RPCs that fail although the process is there
  MaxRequests,        \* bound: requests of clients
  None

ASSUME VisorAssumption ==
  /\ ChronicleOf \in [Stories -> Chronicles]
  /\ Groups \subseteq Nat /\ IsFiniteSet(Groups) /\ None \notin Groups \cup Stories \cup Chronicles
  /\ Weight \in [Stories -> [Groups -> Nat]]
  /\ IsFiniteSet(Clients) /\ IsFiniteSet(Keepers) /\ GroupOf \in [Keepers -> Groups]
  /\ Leaving \subseteq Keepers
  /\ {MaxStarts, MaxMoves, MaxFaults, MaxRequests} \subseteq Nat /\ MaxStarts # 0

VARIABLES
  clients,                       \* ClientRegistryManager: the clients it has a record of
  chronicles, existing,          \* ChronicleMetaDirectory: chronicles, and stories in them
  acquirers, count,              \* Story: acquirerClientMap_ and stats_.count
  activeStories,                 \* KeeperRegistry: the group that records each story
  activeGroups,                  \* the groups in rotation; the registry runs when there is one
  adminClient,                   \* a keeper's active entry, as the number of its start; 0 if none
  grapher, player,               \* the entries of each group's grapher and player
  process, starts, pipelines,    \* the keeper processes, and the stories each records
  request, requests,             \* the request of each client, and how many were made
  registration,                  \* startHeldStoriesOnKeeper, for each keeper and start
  moves, faults,
  astray, overlap,               \* history: see StartPipeline and BeginRequest,
  rolledBack, undone             \* RollBackAcquire and Erased

meta == <<clients, chronicles, existing, acquirers, count>>
registry == <<activeGroups, adminClient, grapher, player>>
keepers == <<process, starts, pipelines>>
history == <<astray, overlap, rolledBack, undone>>
vars == <<meta, activeStories, registry, keepers, request, requests, registration, moves, faults, history>>

\* A request: what is asked and where it stands; the stories it has still to
\* release and to stop; the story and group it is notifying, the keepers still
\* to be told, and whether one of them was started
NoRequest == [op |-> "none", at |-> "idle", subject |-> None, todo |-> {}, stops |-> {},
              story |-> None, group |-> None, targets |-> {}, started |-> FALSE]
NoRegistration == [at |-> "none", todo |-> {}, story |-> None]

\* A deployment in use: every process has registered and every client connected
Init ==
  /\ clients = Clients /\ chronicles = Chronicles /\ existing = {}
  /\ acquirers = [s \in Stories |-> {}] /\ count = [s \in Stories |-> 0]
  /\ activeStories = [s \in Stories |-> None]
  /\ activeGroups = {GroupOf[k] : k \in Keepers} /\ adminClient = [k \in Keepers |-> 1]
  /\ grapher = [g \in Groups |-> "active"] /\ player \in [Groups -> {"none", "active"}]
  /\ process = [k \in Keepers |-> "joined"] /\ starts = [k \in Keepers |-> 1]
  /\ pipelines = [k \in Keepers |-> {}]
  /\ request = [c \in Clients |-> NoRequest] /\ requests = 0
  /\ registration = [k \in Keepers |-> [n \in 1 .. MaxStarts |-> NoRegistration]]
  /\ moves = 0 /\ faults = 0 /\ astray = {} /\ overlap = FALSE
  /\ rolledBack = {} /\ undone = {}

-----------------------------------------------------------------------------
(* The registry's view of its groups                                       *)

getActiveKeepers(g) == {k \in Keepers : GroupOf[k] = g /\ adminClient[k] # 0}
isActive(g) == grapher[g] = "active" /\ getActiveKeepers(g) # {}
\* registryState is RUNNING exactly when a group is in rotation
is_running == activeGroups # {}

\* the heaviest of the groups that can record now, the lower id on a tie
select_recording_group(s, groups) ==
  CHOOSE g \in groups : \A o \in groups \ {g} :
    Weight[s][g] > Weight[s][o] \/ (Weight[s][g] = Weight[s][o] /\ g < o)

\* An RPC to keeper k: whether the keeper ran it, and whether the visor was told
\* so.  The answer of a call that ran may be lost, and the call itself too.
Rpc(k, ran, told) ==
  /\ told => ran
  /\ ran => process[k] # "down"
  /\ faults' = IF told \/ process[k] = "down" THEN faults ELSE faults + 1
  /\ faults' <= MaxFaults

\* An RPC to a grapher or a player, which the registry sends only while it runs
\* and the entry is active
Notified(entry, told) ==
  /\ told => is_running /\ entry = "active"
  /\ faults' = IF told \/ ~is_running \/ entry # "active" THEN faults ELSE faults + 1
  /\ faults' <= MaxFaults

\* The keeper's startStoryRecording and stopStoryRecording.  The history records
\* a start that a keeper ran before it registered, and a stop it did not run.
StartPipeline(k, s, ran) ==
  /\ pipelines' = IF ran THEN [pipelines EXCEPT ![k] = @ \cup {s}] ELSE pipelines
  /\ astray' = IF ran /\ process[k] = "booting" THEN astray \cup {s} ELSE astray
StopPipeline(k, s, ran) ==
  /\ pipelines' = IF ran THEN [pipelines EXCEPT ![k] = @ \ {s}] ELSE pipelines
  /\ astray' = IF ran \/ process[k] = "down" THEN astray ELSE astray \cup {s}

-----------------------------------------------------------------------------
(* Requests of clients                                                     *)

\* A client begins a request when its last one was answered.  The history
\* records that two clients' requests ever overlapped.
BeginRequest(c, r) ==
  /\ request[c] = NoRequest /\ requests < MaxRequests
  /\ request' = [request EXCEPT ![c] = r]
  /\ requests' = requests + 1
  /\ overlap' = (overlap \/ \E d \in Clients \ {c} : request[d] # NoRequest)
  /\ UNCHANGED <<activeStories, registry, keepers, registration, moves, faults, astray, rolledBack, undone>>

Proceed(c, r) == request' = [request EXCEPT ![c] = r] /\ UNCHANGED requests
At(c, place) == [request[c] EXCEPT !.at = place]

release_story(c, s) ==
  /\ acquirers' = [acquirers EXCEPT ![s] = @ \ {c}]
  /\ count' = [count EXCEPT ![s] = @ - 1]
  /\ UNCHANGED <<clients, chronicles, existing>>

\* Mutant of WasLastAcquirer: every release stops the story.
MutWasLastAcquirer(s) == TRUE

WasLastAcquirer(s) == count[s] = 1

Held(c) == {s \in Stories : c \in acquirers[s]}
StoriesIn(ch) == {s \in existing : ChronicleOf[s] = ch}

ClientConnect(c) ==
  /\ c \notin clients
  /\ clients' = clients \cup {c}
  /\ BeginRequest(c, NoRequest)
  /\ UNCHANGED <<chronicles, existing, acquirers, count>>

CreateChronicle(c, ch) ==
  /\ c \in clients /\ ch \notin chronicles
  /\ chronicles' = chronicles \cup {ch}
  /\ BeginRequest(c, NoRequest)
  /\ UNCHANGED <<clients, existing, acquirers, count>>

\* acquire_story: a story is created by its first acquisition
AcquireStory(c, s) ==
  /\ c \in clients /\ is_running /\ ChronicleOf[s] \in chronicles /\ c \notin acquirers[s]
  /\ existing' = existing \cup {s}
  /\ acquirers' = [acquirers EXCEPT ![s] = @ \cup {c}]
  /\ count' = [count EXCEPT ![s] = @ + 1]
  /\ BeginRequest(c, [NoRequest EXCEPT !.op = "acquire", !.at = "choose", !.subject = s, !.story = s])
  /\ UNCHANGED <<clients, chronicles>>

ReleaseStory(c, s) ==
  /\ c \in clients /\ c \in acquirers[s]
  /\ release_story(c, s)
  /\ BeginRequest(c, IF WasLastAcquirer(s)
                     THEN [NoRequest EXCEPT !.op = "release", !.at = "erase", !.subject = s, !.stops = {s}]
                     ELSE NoRequest)

\* get_acquired_stories_snapshot
ClientDisconnect(c) ==
  /\ c \in clients
  /\ BeginRequest(c, [NoRequest EXCEPT !.op = "disconnect", !.todo = Held(c),
                                       !.at = IF Held(c) = {} THEN "remove" ELSE "release"])
  /\ UNCHANGED meta

\* evaluate_story_destroy, evaluate_chronicle_destroy
BeginDestroy(c, op, subject, stories) ==
  LET held == {s \in stories : c \in acquirers[s]} IN
  /\ c \in clients
  /\ \A s \in stories : acquirers[s] \subseteq {c}
  /\ BeginRequest(c, [NoRequest EXCEPT !.op = op, !.subject = subject, !.todo = held,
                                       !.at = IF held = {} THEN "remove" ELSE "release"])
  /\ UNCHANGED meta

DestroyStory(c, s) == s \in existing /\ BeginDestroy(c, "destroyStory", s, {s})
DestroyChronicle(c, ch) == ch \in chronicles /\ BeginDestroy(c, "destroyChronicle", ch, StoriesIn(ch))

\* Where a request goes on when it has stopped a story, or found nothing to stop
AfterStop(r) ==
  LET back == [r EXCEPT !.story = None, !.group = None, !.targets = {}] IN
  CASE r.op = "acquire" -> [r EXCEPT !.at = "rollback", !.targets = {}]
    [] r.op = "release" -> NoRequest
    [] r.op = "disconnect" -> [back EXCEPT !.at = IF r.stops # {} THEN "erase" ELSE "remove"]
    [] OTHER -> [back EXCEPT !.at = IF r.todo # {} THEN "release" ELSE "remove"]

\* One auto-release.  A disconnect stops the stories it was the last to hold
\* when it has released them all; a destroy stops each before the next.
AutoRelease(c, s) ==
  LET r == request[c]
      next == [r EXCEPT !.todo = @ \ {s}, !.stops = IF WasLastAcquirer(s) THEN @ \cup {s} ELSE @]
  IN
  /\ r.at = "release" /\ s \in r.todo
  /\ release_story(c, s)
  /\ Proceed(c, IF r.op = "disconnect"
                THEN IF next.todo # {} THEN next ELSE AfterStop(next)
                ELSE IF next.stops # {} THEN [next EXCEPT !.at = "erase"] ELSE AfterStop(next))
  /\ UNCHANGED <<activeStories, registry, keepers, registration, moves, faults, history>>

RemoveClientRecord(c) ==
  /\ request[c].at = "remove" /\ request[c].op = "disconnect"
  /\ clients' = clients \ {c}
  /\ Proceed(c, NoRequest)
  /\ UNCHANGED <<chronicles, existing, acquirers, count, activeStories, registry, keepers, registration,
                 moves, faults, history>>

\* Mutant of destroy_story: what was evaluated before the release still counts.
MutDestroyStory(c) ==
  LET s == request[c].subject
      free == s \in existing
  IN
  /\ request[c].at = "remove" /\ request[c].op = "destroyStory"
  /\ existing' = IF free THEN existing \ {s} ELSE existing
  /\ Proceed(c, IF free THEN At(c, "broadcast") ELSE NoRequest)
  /\ UNCHANGED <<clients, chronicles, acquirers, count, activeStories, registry, keepers, registration,
                 moves, faults, history>>

\* destroy_story looks at the acquirers again, and at the count in removeStory
destroy_story(c) ==
  LET s == request[c].subject
      free == s \in existing /\ acquirers[s] = {} /\ count[s] = 0
  IN
  /\ request[c].at = "remove" /\ request[c].op = "destroyStory"
  /\ existing' = IF free THEN existing \ {s} ELSE existing
  /\ Proceed(c, IF free THEN At(c, "broadcast") ELSE NoRequest)
  /\ UNCHANGED <<clients, chronicles, acquirers, count, activeStories, registry, keepers, registration,
                 moves, faults, history>>

\* destroy_chronicle deletes the stories with the chronicle.  Its check of the
\* chronicle's own acquisition count never refuses: nothing raises that count.
destroy_chronicle(c) ==
  LET ch == request[c].subject
      free == ch \in chronicles /\ \A s \in StoriesIn(ch) : acquirers[s] = {}
  IN
  /\ request[c].at = "remove" /\ request[c].op = "destroyChronicle"
  /\ chronicles' = IF free THEN chronicles \ {ch} ELSE chronicles
  /\ existing' = IF free THEN existing \ StoriesIn(ch) ELSE existing
  /\ count' = IF free THEN [s \in Stories |-> IF s \in StoriesIn(ch) THEN 0 ELSE count[s]] ELSE count
  /\ Proceed(c, IF free THEN At(c, "broadcast") ELSE NoRequest)
  /\ UNCHANGED <<clients, acquirers, activeStories, registry, keepers, registration, moves, faults, history>>

\* notifyAllGraphersOfStoryDestruction, notifyAllGraphersOfChronicleDestruction
BroadcastDestroy(c) ==
  /\ request[c].at = "broadcast"
  /\ Proceed(c, NoRequest)
  /\ UNCHANGED <<meta, activeStories, registry, keepers, registration, moves, faults, history>>

-----------------------------------------------------------------------------
(* notifyRecordingGroupOfStoryRecordingStart                               *)

\* An acquire that chose a group and has still to start the story there
Starting(d, s) ==
  request[d].op = "acquire" /\ request[d].story = s
  /\ request[d].at \in {"startGrapher", "listKeepers", "startKeepers"}

\* The history records an erase of the entry another client's acquire has made
\* and is still acting on: the stop of a release before that acquire.
Erased(c, s) ==
  undone' = IF \E d \in Clients \ {c} : Starting(d, s) THEN undone \cup {s} ELSE undone

ChooseGroup(c) ==
  LET s == request[c].story
      able == {g \in Groups : isActive(g)}
      g == select_recording_group(s, able)
  IN
  /\ request[c].at = "choose"
  /\ IF is_running /\ activeStories[s] # None
     THEN Proceed(c, NoRequest) /\ UNCHANGED activeStories   \* already recorded for another client
     ELSE IF is_running /\ able # {}
     THEN /\ activeStories' = [activeStories EXCEPT ![s] = g]
          /\ Proceed(c, [At(c, "startGrapher") EXCEPT !.group = g])
     ELSE Proceed(c, At(c, "rollback")) /\ UNCHANGED activeStories
  /\ astray' = IF is_running THEN astray ELSE astray \cup {s}
  /\ UNCHANGED <<meta, registry, keepers, registration, moves, faults, overlap, rolledBack, undone>>

StartGrapher(c, told) ==
  /\ request[c].at = "startGrapher"
  /\ Notified(grapher[request[c].group], told)
  /\ Proceed(c, At(c, IF told THEN "listKeepers" ELSE "forget"))
  /\ UNCHANGED <<meta, activeStories, registry, keepers, registration, moves, history>>

ListKeepers(c) ==
  LET listed == getActiveKeepers(request[c].group) IN
  /\ request[c].at = "listKeepers"
  /\ Proceed(c, IF is_running /\ listed # {} THEN [At(c, "startKeepers") EXCEPT !.targets = listed]
                                             ELSE At(c, "forget"))
  /\ UNCHANGED <<meta, activeStories, registry, keepers, registration, moves, faults, history>>

\* one keeper that answers is enough
StartOnKeeper(c, k, ran, told) ==
  LET r == [request[c] EXCEPT !.targets = @ \ {k}, !.started = @ \/ told] IN
  /\ request[c].at = "startKeepers" /\ k \in request[c].targets
  /\ Rpc(k, ran, told)
  /\ StartPipeline(k, r.story, ran)
  /\ Proceed(c, IF r.targets # {} THEN r
                ELSE [r EXCEPT !.at = IF r.started THEN "startPlayer" ELSE "forget", !.started = FALSE])
  /\ UNCHANGED <<meta, activeStories, registry, process, starts, registration, moves, overlap, rolledBack, undone>>

\* a group that never had a player records without one
StartPlayer(c, told) ==
  LET entry == player[request[c].group] IN
  /\ request[c].at = "startPlayer"
  /\ IF entry = "none" THEN told /\ UNCHANGED faults ELSE Notified(entry, told)
  /\ Proceed(c, IF told THEN NoRequest ELSE At(c, "forget"))
  /\ UNCHANGED <<meta, activeStories, registry, keepers, registration, moves, history>>

\* Mutant of ForgetStory: the entry of a start that failed stays.
MutForgetStory(c) ==
  LET r == request[c] IN
  /\ r.at = "forget"
  /\ Proceed(c, [At(c, "copyKeepers") EXCEPT !.targets = getActiveKeepers(r.group)])
  /\ UNCHANGED <<meta, activeStories, registry, keepers, registration, moves, faults, history>>

\* forget_story: the keepers to stop are the active ones at the erase
ForgetStory(c) ==
  LET r == request[c] IN
  /\ r.at = "forget"
  /\ activeStories' = IF activeStories[r.story] = r.group THEN [activeStories EXCEPT ![r.story] = None]
                                                          ELSE activeStories
  /\ Proceed(c, [At(c, "copyKeepers") EXCEPT !.targets = getActiveKeepers(r.group)])
  /\ IF activeStories[r.story] = r.group THEN Erased(c, r.story) ELSE UNCHANGED undone
  /\ UNCHANGED <<meta, registry, keepers, registration, moves, faults, astray, overlap, rolledBack>>

\* AcquireStory releases what it acquired, and stops nothing.  The history
\* records it when requests have overlapped.
RollBackAcquire(c) ==
  LET s == request[c].story IN
  /\ request[c].at = "rollback"
  /\ release_story(c, s)
  /\ Proceed(c, NoRequest)
  /\ rolledBack' = IF overlap THEN rolledBack \cup {s} ELSE rolledBack
  /\ UNCHANGED <<activeStories, registry, keepers, registration, moves, faults, astray, overlap, undone>>

-----------------------------------------------------------------------------
(* notifyRecordingGroupOfStoryRecordingStop                                *)

\* a registry that does not run leaves the story's entry and tells nobody
EraseStory(c, s) ==
  LET r == [request[c] EXCEPT !.stops = @ \ {s}]
      g == activeStories[s]
  IN
  /\ r.at = "erase" /\ s \in request[c].stops
  /\ IF is_running /\ g # None
     THEN /\ activeStories' = [activeStories EXCEPT ![s] = None]
          /\ Erased(c, s)
          /\ Proceed(c, [r EXCEPT !.at = "copyKeepers", !.story = s, !.group = g,
                                  !.targets = getActiveKeepers(g)])
     ELSE Proceed(c, AfterStop(r)) /\ UNCHANGED <<activeStories, undone>>
  /\ astray' = IF is_running THEN astray ELSE astray \cup {s}
  /\ UNCHANGED <<meta, registry, keepers, registration, moves, faults, overlap, rolledBack>>

\* notifyKeepersOfStoryRecordingStop works on a copy of the group's keepers,
\* made without the lock after the story's entry is gone
CopyKeepers(c) ==
  LET r == [request[c] EXCEPT !.targets = {k \in @ : is_running /\ adminClient[k] # 0}] IN
  /\ r.at = "copyKeepers"
  /\ Proceed(c, IF r.targets # {} THEN [r EXCEPT !.at = "stopKeepers"] ELSE AfterStop(r))
  /\ astray' = IF is_running THEN astray ELSE astray \cup {r.story}
  /\ UNCHANGED <<meta, activeStories, registry, keepers, registration, moves, faults, overlap, rolledBack, undone>>

\* the grapher and the player of the group are told after the last keeper
StopOnKeeper(c, k, ran, told) ==
  LET r == [request[c] EXCEPT !.targets = @ \ {k}] IN
  /\ r.at = "stopKeepers" /\ k \in request[c].targets
  /\ Rpc(k, ran, told)
  /\ StopPipeline(k, r.story, ran)
  /\ Proceed(c, IF r.targets # {} THEN r ELSE AfterStop(r))
  /\ UNCHANGED <<meta, activeStories, registry, process, starts, registration, moves, overlap, rolledBack, undone>>

-----------------------------------------------------------------------------
(* Keepers register, leave, crash and come back                            *)

KeeperStarts(k) ==
  /\ k \in Leaving /\ process[k] = "down" /\ starts[k] < MaxStarts
  /\ process' = [process EXCEPT ![k] = "booting"]
  /\ starts' = [starts EXCEPT ![k] = @ + 1]
  /\ UNCHANGED <<meta, activeStories, registry, pipelines, request, requests, registration, moves, faults,
                 history>>

\* The stories a registering keeper is told to start: storiesToStartOnRegistration
HeldStories(k) == {s \in Stories : activeStories[s] = GroupOf[k]}

\* clearDelayedExitKeeper deletes an admin client 3 seconds after its exit began,
\* which is to outlast an RPC that was under way through it
Dismantled(k) == \A m \in 1 .. MaxStarts : registration[k][m].at \notin {"start", "stop"}

\* An entry left by an earlier start is only made inactive, the group stays in
\* rotation, and the keeper tries again until its admin client is dismantled.
registerKeeperProcess(k) ==
  LET g == GroupOf[k]
      n == starts[k]
  IN
  /\ process[k] = "booting"
  /\ IF adminClient[k] # 0
     THEN /\ adminClient' = [adminClient EXCEPT ![k] = 0]
          /\ UNCHANGED <<activeGroups, process, registration>>
     ELSE /\ Dismantled(k)
          /\ adminClient' = [adminClient EXCEPT ![k] = n]
          /\ activeGroups' = IF grapher[g] = "active" /\ getActiveKeepers(g) = {}
                             THEN activeGroups \cup {g} ELSE activeGroups
          /\ process' = [process EXCEPT ![k] = "joined"]
          /\ registration' = IF HeldStories(k) = {} THEN registration
                             ELSE [registration EXCEPT ![k][n] =
                                     [NoRegistration EXCEPT !.at = "check", !.todo = HeldStories(k)]]
  /\ UNCHANGED <<meta, activeStories, grapher, player, starts, pipelines, request, requests, moves, faults,
                 history>>

\* startHeldStoriesOnKeeper, for the admin client of start n
StillRegistered(k, n) == adminClient[k] = n
RecordedByGroup(k, s) == activeStories[s] = GroupOf[k]
GoOn(k, n, r) == registration' = [registration EXCEPT ![k][n] = r]
NextHeld(r, s) == IF r.todo = {s} THEN NoRegistration
                  ELSE [r EXCEPT !.at = "check", !.todo = @ \ {s}, !.story = None]

CheckHeld(k, n, s) ==
  LET r == registration[k][n] IN
  /\ r.at = "check" /\ s \in r.todo
  /\ GoOn(k, n, IF ~StillRegistered(k, n) THEN NoRegistration
                ELSE IF RecordedByGroup(k, s) THEN [r EXCEPT !.at = "start", !.story = s]
                ELSE NextHeld(r, s))
  /\ UNCHANGED <<meta, activeStories, registry, keepers, request, requests, moves, faults, history>>

StartHeld(k, n, ran, told) ==
  /\ registration[k][n].at = "start"
  /\ Rpc(k, ran, told)
  /\ StartPipeline(k, registration[k][n].story, ran)
  /\ GoOn(k, n, [registration[k][n] EXCEPT !.at = "recheck"])
  /\ UNCHANGED <<meta, activeStories, registry, process, starts, request, requests, moves, overlap, rolledBack, undone>>

\* Mutant of RecheckHeld: the registry is not asked again.
MutRecheckHeld(k, n) ==
  LET r == registration[k][n] IN
  /\ r.at = "recheck"
  /\ GoOn(k, n, NextHeld(r, r.story))
  /\ UNCHANGED <<meta, activeStories, registry, keepers, request, requests, moves, faults, history>>

\* the history counts the stop that may follow as overlapping the requests
RecheckHeld(k, n) ==
  LET r == registration[k][n]
      gone == StillRegistered(k, n) /\ ~RecordedByGroup(k, r.story)
  IN
  /\ r.at = "recheck"
  /\ GoOn(k, n, IF gone THEN [r EXCEPT !.at = "stop"] ELSE NextHeld(r, r.story))
  /\ overlap' = (overlap \/ gone)
  /\ UNCHANGED <<meta, activeStories, registry, keepers, request, requests, moves, faults, astray, rolledBack, undone>>

StopHeld(k, n, ran, told) ==
  LET r == registration[k][n] IN
  /\ r.at = "stop"
  /\ Rpc(k, ran, told)
  /\ StopPipeline(k, r.story, ran)
  /\ GoOn(k, n, NextHeld(r, r.story))
  /\ UNCHANGED <<meta, activeStories, registry, process, starts, request, requests, moves, overlap, rolledBack, undone>>

\* The keeper unregisters when it is told to end, after its registration was
\* answered
unregisterKeeperProcess(k) ==
  LET g == GroupOf[k] IN
  /\ k \in Leaving /\ process[k] = "joined" /\ registration[k][starts[k]] = NoRegistration
  /\ activeGroups' = IF isActive(g) /\ getActiveKeepers(g) = {k} THEN activeGroups \ {g} ELSE activeGroups
  /\ adminClient' = [adminClient EXCEPT ![k] = 0]
  /\ process' = [process EXCEPT ![k] = "leaving"]
  /\ UNCHANGED <<meta, activeStories, grapher, player, starts, pipelines, request, requests, registration,
                 moves, faults, history>>

\* a crash, or the end of a keeper that has unregistered
KeeperEnds(k) ==
  /\ k \in Leaving /\ process[k] # "down"
  /\ process' = [process EXCEPT ![k] = "down"]
  /\ pipelines' = [pipelines EXCEPT ![k] = {}]
  /\ UNCHANGED <<meta, activeStories, registry, starts, request, requests, registration, moves, faults,
                 history>>

-----------------------------------------------------------------------------
(* Graphers and players register and leave                                 *)

Move ==
  /\ moves < MaxMoves /\ moves' = moves + 1
  /\ UNCHANGED <<meta, activeStories, adminClient, keepers, request, requests, registration, faults, history>>

registerGrapherProcess(g) ==
  /\ Move
  /\ grapher' = [grapher EXCEPT ![g] = IF @ = "active" THEN "left" ELSE "active"]
  /\ activeGroups' = IF grapher[g] # "active" /\ getActiveKeepers(g) # {} THEN activeGroups \cup {g}
                                                                         ELSE activeGroups
  /\ UNCHANGED player

unregisterGrapherProcess(g) ==
  /\ Move /\ grapher[g] = "active"
  /\ grapher' = [grapher EXCEPT ![g] = "left"]
  /\ activeGroups' = IF isActive(g) THEN activeGroups \ {g} ELSE activeGroups
  /\ UNCHANGED player

registerPlayerProcess(g) ==
  /\ Move
  /\ player' = [player EXCEPT ![g] = IF @ = "active" THEN "left" ELSE "active"]
  /\ UNCHANGED <<activeGroups, grapher>>

unregisterPlayerProcess(g) ==
  /\ Move /\ player[g] = "active"
  /\ player' = [player EXCEPT ![g] = "left"]
  /\ UNCHANGED <<activeGroups, grapher>>

-----------------------------------------------------------------------------
ClientStep(c) ==
  \/ ClientConnect(c) \/ ClientDisconnect(c) \/ RemoveClientRecord(c)
  \/ \E ch \in Chronicles : CreateChronicle(c, ch) \/ DestroyChronicle(c, ch)
  \/ \E s \in Stories : AcquireStory(c, s) \/ ReleaseStory(c, s) \/ DestroyStory(c, s)
                        \/ AutoRelease(c, s) \/ EraseStory(c, s)
  \/ destroy_story(c) \/ destroy_chronicle(c) \/ BroadcastDestroy(c)
  \/ ChooseGroup(c) \/ ListKeepers(c) \/ ForgetStory(c) \/ RollBackAcquire(c) \/ CopyKeepers(c)
  \/ \E told \in BOOLEAN :
       \/ StartGrapher(c, told) \/ StartPlayer(c, told)
       \/ \E k \in Keepers, ran \in BOOLEAN : StartOnKeeper(c, k, ran, told) \/ StopOnKeeper(c, k, ran, told)

KeeperStep(k) ==
  \/ KeeperStarts(k) \/ registerKeeperProcess(k) \/ unregisterKeeperProcess(k) \/ KeeperEnds(k)
  \/ \E n \in 1 .. MaxStarts :
       \/ \E s \in Stories : CheckHeld(k, n, s)
       \/ RecheckHeld(k, n)
       \/ \E ran, told \in BOOLEAN : StartHeld(k, n, ran, told) \/ StopHeld(k, n, ran, told)

GroupStep(g) ==
  \/ registerGrapherProcess(g) \/ unregisterGrapherProcess(g)
  \/ registerPlayerProcess(g) \/ unregisterPlayerProcess(g)

Next ==
  \/ \E c \in Clients : ClientStep(c)
  \/ \E k \in Keepers : KeeperStep(k)
  \/ \E g \in Groups : GroupStep(g)

Spec == Init /\ [][Next]_vars

-----------------------------------------------------------------------------
(* Properties                                                              *)

Ops == {"none", "acquire", "release", "disconnect", "destroyStory", "destroyChronicle"}
Places == {"idle", "choose", "startGrapher", "listKeepers", "startKeepers", "startPlayer", "forget",
           "rollback", "release", "erase", "copyKeepers", "stopKeepers", "remove", "broadcast"}

\* Every variable has its type: the directory's, the registry's and the
\* processes' state, and where the requests and registrations stand.
TypeOK ==
  /\ clients \subseteq Clients /\ chronicles \subseteq Chronicles /\ existing \subseteq Stories
  /\ acquirers \in [Stories -> SUBSET Clients] /\ count \in [Stories -> Nat]
  /\ activeStories \in [Stories -> Groups \cup {None}] /\ activeGroups \subseteq Groups
  /\ adminClient \in [Keepers -> 0 .. MaxStarts]
  /\ grapher \in [Groups -> {"active", "left"}] /\ player \in [Groups -> {"none", "active", "left"}]
  /\ process \in [Keepers -> {"down", "booting", "joined", "leaving"}]
  /\ starts \in [Keepers -> 1 .. MaxStarts] /\ pipelines \in [Keepers -> SUBSET Stories]
  /\ request \in [Clients -> [op : Ops, at : Places, subject : Stories \cup Chronicles \cup {None},
                              todo : SUBSET Stories, stops : SUBSET Stories, story : Stories \cup {None},
                              group : Groups \cup {None}, targets : SUBSET Keepers, started : BOOLEAN]]
  /\ requests \in 0 .. MaxRequests
  /\ registration \in [Keepers -> [1 .. MaxStarts ->
                        [at : {"none", "check", "start", "recheck", "stop"}, todo : SUBSET Stories,
                         story : Stories \cup {None}]]]
  /\ moves \in 0 .. MaxMoves /\ faults \in 0 .. MaxFaults
  /\ astray \subseteq Stories /\ rolledBack \subseteq Stories /\ undone \subseteq Stories /\ overlap \in BOOLEAN

\* No request and no registration is under way
Quiet ==
  /\ \A c \in Clients : request[c] = NoRequest
  /\ \A k \in Keepers, n \in 1 .. MaxStarts : registration[k][n] = NoRegistration

Registered(k) == adminClient[k] # 0 /\ process[k] = "joined"

\* Between requests no registered keeper records a story that nobody holds,
\* unless a stop sent for it could not reach its keeper: what
\* startHeldStoriesOnKeeper checks the registry twice for, and what forget_story
\* lists the keepers at the erase for.  Two races of overlapping requests are
\* excused: a rolled back acquire (RollBackLeavesNothing), and the stop of an
\* earlier release that erased the entry of an acquire still starting keepers,
\* whose own release then finds no entry and stops nothing.
UnheldNotRecorded ==
  Quiet => \A k \in Keepers, s \in Stories :
    Registered(k) /\ s \in pipelines[k] => acquirers[s] # {} \/ s \in astray \cup rolledBack \cup undone

\* Between requests the registry lists as recorded only stories that somebody
\* holds, or whose stop found the registry not running: an entry left behind
\* would make the next acquire skip its notifications.
ListedIsHeld ==
  Quiet => \A s \in Stories : activeStories[s] # None => acquirers[s] # {} \/ s \in astray \cup rolledBack

\* What ReleaseStory says of its stop: it is sent only if no other client holds
\* the story.  So when every RPC was answered and no process moved or restarted,
\* a story that somebody holds is listed between requests.
StopsOnlyUnheld ==
  Quiet /\ faults = 0 /\ moves = 0 /\ (\A k \in Keepers : Registered(k)) =>
    \A s \in Stories : acquirers[s] # {} => activeStories[s] # None

\* As long as no two requests overlapped and every RPC was answered, a held
\* story is recorded by every registered keeper of its group, whoever acquired
\* and released it before, and whichever keepers restarted meanwhile.
HeldIsRecorded ==
  Quiet /\ ~overlap /\ faults = 0 => \A s \in Stories : acquirers[s] # {} =>
    /\ activeStories[s] # None
    /\ \A k \in Keepers : Registered(k) /\ GroupOf[k] = activeStories[s] => s \in pipelines[k]

\* A story is removed only when nobody holds it: what was acquired after the
\* destroy was judged possible still exists, in a chronicle that exists.
HeldExists ==
  \A s \in Stories : acquirers[s] # {} => s \in existing /\ ChronicleOf[s] \in chronicles

\* What AcquireStory says of its rollback: nobody need be told of the story's
\* end, since it has not started.  So when nobody holds a story, no registered
\* keeper records it because an acquire was rolled back.
RollBackLeavesNothing ==
  Quiet => \A k \in Keepers, s \in Stories :
    Registered(k) /\ s \in pipelines[k] => acquirers[s] # {} \/ s \in astray
=============================================================================
