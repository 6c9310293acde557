SPECIFICATION FairProcessSpec
CONSTANTS
  p1 = p1
  p2 = p2
  e1 = e1
  Nobody = Nobody
  Processes = {p1, p2}
  DurableEvents = {e1}
  RegistrationAttempts = 2
  MaxStarts = 3
  MaxCallsFailed = 1
  MaxKills = 1
  MaxLosses = 1
INVARIANTS
  SummaryIsTrue
PROPERTIES
  StopEnds
CHECK_DEADLOCK FALSE
