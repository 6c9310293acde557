------------------------------ MODULE MCReplay ------------------------------
(***************************************************************************)
(* Two keepers with a chunk each.  The chunks' windows are the same and the *)
(* watermarks of the story may pass the one that reaches the grapher late. *)
(* Event 2 was written to both keepers by a client that tried again.       *)
(* The events of the one keeper are durable and those of the other are not. *)
(***************************************************************************)
EXTENDS Replay

MCKeepers == {"k1", "k2"}
MCChunks == {"a", "c"}
MCKeeperOf == [c \in MCChunks |-> IF c = "c" THEN "k2" ELSE "k1"]
MCEventsOf == [c \in MCChunks |-> IF c = "a" THEN {2, 3} ELSE {1, 2}]
MCTimeOf == <<1, 3, 3>>
MCEndOf == [c \in MCChunks |-> 4]
From(start) == [start |-> start, end |-> 4]
Steady == [ranges |-> {From(1), From(2)}, kHotFetchMaxEvents |-> 8, departures |-> 0]
Capped == [ranges |-> {From(0), From(1)}, kHotFetchMaxEvents |-> 1, departures |-> 0]
Leaving == [ranges |-> {From(2)}, kHotFetchMaxEvents |-> 8, departures |-> 1]
MCLeaving == {Leaving}
MCScenarios == {Steady, Capped, Leaving}
=============================================================================
