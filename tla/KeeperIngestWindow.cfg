SPECIFICATION Spec
CONSTANTS
  s1 = s1
  e1 = e1
  e2 = e2
  e3 = e3
  t1 = t1
  t2 = t2
  Stories = {s1}
  Events = {e1}
  StoryOf <- OneStory
  TimeOf <- EarlyAndLate
  Durable = {}
  Empty = {}
  Recovered = {}
  Started = {s1}
  Threads = {t1}
  Granularity = 1
  AcceptanceWindow = 3
  LateBuffer = 1
  Readings = {"between"}
  Starts = 1
  LateStarts = TRUE
  LastRequest = 5
  MaxTime = 5
PROPERTIES
  WindowNeverShrinks
CHECK_DEADLOCK FALSE
