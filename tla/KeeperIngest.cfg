SPECIFICATION FairSpec
CONSTANTS
  s1 = s1
  e1 = e1
  e2 = e2
  e3 = e3
  t1 = t1
  t2 = t2
  Stories = {s1}
  Events = {e1, e2, e3}
  StoryOf <- OneStory
  TimeOf <- EarlyAndLate
  Durable = {e2, e3}
  Empty = {}
  Recovered = {e3}
  Started = {s1}
  Threads = {t1, t2}
  Granularity = 1
  AcceptanceWindow = 1
  LateBuffer = 1
  Readings = {"between", "on"}
  Starts = 2
  LateStarts = TRUE
  LastRequest = 1
  MaxTime = 3
INVARIANTS
  InOnePlace
  StartedStaysRecorded
  NothingLeftBehind
PROPERTIES
  KeepsCustody
  LateEventRescued
  ShutdownEnds
CHECK_DEADLOCK FALSE
