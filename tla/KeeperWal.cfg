SPECIFICATION Spec
CONSTANTS
  e1 = e1
  e2 = e2
  s1 = s1
  s2 = s2
  Events = {e1, e2}
  Stories = {s1, s2}
  StoryOf <- TwoStories
  SegSlots = 5
  MaxSeg = 4
  MaxAppends = 2
  MaxDrops = 1
  Scenarios <- MCScenarios
SYMMETRY Swaps
INVARIANTS
  DurableSurvives
  NoResurrection
  PendingCopiesOnDisk
  RecoveryAdmits
CHECK_DEADLOCK FALSE
