SPECIFICATION Spec
CONSTANTS
  Keepers <- MCKeepers
  Chunks <- MCChunks
  KeeperOf <- MCKeeperOf
  EventsOf <- MCEventsOf
  TimeOf <- MCTimeOf
  EndOf <- MCEndOf
  DurableChunks = {"a"}
  Queries = {q1}
  Scenarios <- MCLeaving
  WindowEnds = {2, 4}
  MaxTime = 4
INVARIANT ReplayHoldsAllAlways
