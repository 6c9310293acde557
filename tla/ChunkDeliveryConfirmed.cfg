SPECIFICATION FairSpec
CONSTANTS
  Scenarios <- MCConfirmed
INVARIANTS
  QueueOwnsItsChunks
PROPERTIES
  EverySealedConfirmed
CHECK_DEADLOCK FALSE
