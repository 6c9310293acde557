SPECIFICATION Spec
CONSTANTS
  Scenarios <- MCWritten
INVARIANTS
  FreedIsWritten
  SettledIsWritten
  WatermarkIsPrefix
CHECK_DEADLOCK FALSE
