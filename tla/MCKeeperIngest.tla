--------------------------- MODULE MCKeeperIngest ---------------------------
(* Instances of KeeperIngest for TLC.                                        *)
EXTENDS KeeperIngest

CONSTANTS s1, e1, e2, e3, t1, t2

OneStory == [e \in Events |-> s1]
\* e1 is early enough to come after its chunk has been sealed; e2 is later
\* than the timeline of a story that starts at time 0
EarlyAndLate == [e \in Events |-> IF e = e2 THEN 3 ELSE 0]
=============================================================================
