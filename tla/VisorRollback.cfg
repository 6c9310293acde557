SPECIFICATION Spec
CONSTANTS
  c1 = c1
  c2 = c2
  k1 = k1
  k2 = k2
  k3 = k3
  s1 = s1
  ch1 = ch1
  none = none
  Clients = {c1, c2}
  Chronicles = {ch1}
  Stories = {s1}
  ChronicleOf <- OneChronicle
  Groups = {1, 2}
  Weight <- HigherGroup
  Keepers = {k1, k2, k3}
  GroupOf <- TwoGroups
  Leaving = {}
  MaxStarts = 1
  MaxMoves = 0
  MaxFaults = 1
  MaxRequests = 3
  None = none
INVARIANTS
  RollBackLeavesNothing
CHECK_DEADLOCK FALSE
