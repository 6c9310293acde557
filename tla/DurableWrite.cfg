SPECIFICATION FairSpec
CONSTANTS
  a1 = a1
  a2 = a2
  a3 = a3
  a4 = a4
  e1 = e1
  e2 = e2
  e3 = e3
  none = none
  Attempts = {a1, a2, a3, a4}
  Durable = {a1, a2, a4}
  Events = {e1, e2, e3}
  EventOf <- ThreeEvents
  Empty = {e3}
  Oversized = {}
  NoAttempt = none
INVARIANTS
  TypeOK
  IngestedOnce
  PendingIsCarried
  AcknowledgedIsKept
  AcceptedIsCollected
  NoHandlerAtDelete
PROPERTIES
  AppendHonoursFirst
  EveryHandlerAnswers
CHECK_DEADLOCK FALSE
