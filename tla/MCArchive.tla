----------------------------- MODULE MCArchive -----------------------------
EXTENDS Archive

\* one story; w1 is long and reaches into the range that starts inside it
MCStoryOf == [w \in Windows |-> CHOOSE s \in Stories : TRUE]
MCFrom == [w \in Windows |-> IF w = "w1" THEN 0 ELSE 3]
MCTo == [w \in Windows |-> 4]
MCQueries == [story : Stories, from : {2}, to : {4}]

Single == [x \in {"x1"} |-> "g1"]
One == [x \in Streams |-> "g1"]
Two == [x \in Streams |-> IF x = "x1" THEN "g1" ELSE "g2"]
None == [k \in Kinds |-> 0]
Faults == [home |-> One, budget |-> [None EXCEPT !["w1"] = 1, !["w2"] = 1, !["crashes"] = 1, !["faults"] = 1]]
Replayed == [home |-> One, budget |-> [None EXCEPT !["w1"] = 1, !["w2"] = 1, !["faults"] = 1, !["reads"] = 1]]
Restarted == [home |-> Single,
              budget |-> [None EXCEPT !["w1"] = 1, !["w2"] = 1, !["crashes"] = 1, !["faults"] = 1, !["reads"] = 1]]
Recreated == [home |-> Single,
              budget |-> [None EXCEPT !["w1"] = 2, !["starts"] = 1, !["destroys"] = 1, !["reads"] = 1]]
Foreign == [home |-> Two, budget |-> [None EXCEPT !["w1"] = 1, !["starts"] = 1, !["destroys"] = 1, !["ticks"] = 2]]
Ending == [home |-> Single, budget |-> [None EXCEPT !["w1"] = 1, !["starts"] = 1, !["stops"] = 1, !["destroys"] = 1,
                                                 !["crashes"] = 1, !["faults"] = 1, !["exits"] = 1]]
Retiring == [home |-> Single, budget |-> [None EXCEPT !["w1"] = 1, !["destroys"] = 1]]
MCRetiring == {Retiring}
Oversize == [home |-> Single, budget |-> [None EXCEPT !["w3"] = 1, !["reads"] = 1]]
MCScenarios == {Oversize, Faults, Replayed, Restarted, Recreated, Foreign, Ending}
=============================================================================
