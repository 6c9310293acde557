--------------------------- MODULE MCDurableWrite ---------------------------
(* Instances of DurableWrite for TLC.                                        *)
EXTENDS DurableWrite, TLC

CONSTANTS a1, a2, a3, a4, e1, e2, e3, none

\* three attempts of one event; two attempts of one event, one of a second
\* and one of a third
ThreeAttempts == [a \in {a1, a2, a3} |-> e1]
ThreeEvents == a1 :> e1 @@ a2 :> e1 @@ a3 :> e2 @@ a4 :> e3
=============================================================================
