--------------------------- MODULE MCStoryClient ----------------------------
EXTENDS StoryClient

CONSTANTS t1, t2, t3

\* RoundRobinKeeperChoice: the timestamp modulo the number of keepers
MCKeeperOf == [e \in Events |-> IF e % 2 = 0 THEN "k1" ELSE "k2"]
=============================================================================
