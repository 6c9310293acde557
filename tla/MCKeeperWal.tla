---------------------------- MODULE MCKeeperWal ----------------------------
(* Instances of KeeperWal for TLC.                                           *)
EXTENDS KeeperWal, TLC

CONSTANTS e1, e2, s1, s2

\* both events in one story, or one event in each of two
OneStory == e1 :> s1 @@ e2 :> s1
TwoStories == e1 :> s1 @@ e2 :> s2
\* swapping the two stories together with their events leaves StoryOf as it is
Swaps == {f \in Permutations({e1, e2, s1, s2}) :
            \A e \in {e1, e2} : f[e] \in {e1, e2} /\ TwoStories[f[e]] = f[TwoStories[e]]}

\* Two crashes, groups of two, and a destroyed story that is created again.
Crashes == [GroupMax |-> 2, Faults |-> {}, MaxFaults |-> 0, MaxCrashes |-> 2, Recreate |-> TRUE]
\* Two faults of any kind and a crash.
AllFaults == [GroupMax |-> 1, Faults |-> FaultKinds, MaxFaults |-> 2, MaxCrashes |-> 1, Recreate |-> FALSE]
MCScenarios == {Crashes, AllFaults}

\* A fault, two crashes, and a destroyed story that is created again.
MCRecreated == {[AllFaults EXCEPT !.MaxFaults = 1, !.MaxCrashes = 2, !.Recreate = TRUE]}
\* Two faults of a keeper that does not crash.
MCLatched == {[AllFaults EXCEPT !.Faults = {"write", "sync", "erase", "spare"}, !.MaxCrashes = 0]}
=============================================================================
