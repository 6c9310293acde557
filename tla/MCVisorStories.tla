--------------------------- MODULE MCVisorStories ---------------------------
(* Instances of VisorStories for TLC.                                        *)
EXTENDS VisorStories, TLC

CONSTANTS c1, c2, k1, k2, k3, s1, ch1, none

\* the clients are interchangeable
ClientSymmetry == Permutations(Clients)

OneChronicle == [s \in Stories |-> ch1]
\* every story prefers the group with the higher id
HigherGroup == [s \in Stories |-> [g \in Groups |-> g]]
\* two keepers in one group; two keepers in the group a story prefers, one in another
OneGroup == [k \in Keepers |-> 1]
TwoGroups == k1 :> 2 @@ k2 :> 2 @@ k3 :> 1
=============================================================================
