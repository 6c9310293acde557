SPECIFICATION Spec
CONSTANTS
  t1 = t1
  t2 = t2
  t3 = t3
  Threads = {t1}
  Keepers = {"k1", "k2"}
  Events = {1, 2, 3, 4}
  KeeperOf <- MCKeeperOf
  Wanted = 2
  TailCapacity = 1
  LiveModes = {TRUE, FALSE}
  MaxSilent = 1
  MaxRestarts = 1
  Scenarios = {"session"}
  MaxRequests = 5
  MaxLost = 2
  MaxIndex = 7
  Writes = 2
  Attempts = 3
  MaxDeaths = 2
INVARIANTS
  AcquireOpensStory
CHECK_DEADLOCK FALSE
