---------------------------- MODULE EventCustody ----------------------------
(***************************************************************************)
(* What a keeper promises for an event it has taken in: it holds the event *)
(* until it hands it over, in a sealed chunk, exactly once.  It gives an   *)
(* event up only when no chunk can take its record.                        *)
(***************************************************************************)
CONSTANTS Events, Empty
VARIABLES custody        \* where each event stands: "none", "held", "sealed" or "given up"

Init == custody \in [Events -> {"none", "held"}]

\* Any number of events are taken in, sealed or given up by one step.  An
\* event leaves the keeper's hands once and never comes back.
Next ==
  /\ custody' \in [Events -> {"none", "held", "sealed", "given up"}]
  /\ \A e \in Events : custody[e] \in {"sealed", "given up"} => custody'[e] = custody[e]
  /\ \A e \in Events : custody[e] = "held" => custody'[e] # "none"
  /\ \A e \in Events : custody[e] = "none" => custody'[e] \in {"none", "held"}
  /\ \A e \in Events : custody[e] = "held" /\ custody'[e] = "given up" => e \in Empty

Spec == Init /\ [][Next]_custody
=============================================================================
