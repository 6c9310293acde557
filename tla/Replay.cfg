SPECIFICATION Spec
CONSTANTS
  Keepers <- MCKeepers
  Chunks <- MCChunks
  KeeperOf <- MCKeeperOf
  EventsOf <- MCEventsOf
  TimeOf <- MCTimeOf
  EndOf <- MCEndOf
  DurableChunks = {"a"}
  Queries = {q1}
  Scenarios <- MCScenarios
  WindowEnds = {2, 4}
  MaxTime = 4
INVARIANTS ReplayHoldsAll EachEventOnce
PROPERTIES AnswerIsFinal
