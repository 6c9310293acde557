SPECIFICATION Spec
CONSTANTS
  e1 = e1
  e2 = e2
  s1 = s1
  s2 = s2
  Events = {e1, e2}
  Stories = {s1}
  StoryOf <- OneStory
  SegSlots = 5
  MaxSeg = 4
  MaxAppends = 3
  MaxDrops = 1
  Scenarios <- MCRecreated
INVARIANTS
  DurableSurvives
CHECK_DEADLOCK FALSE
