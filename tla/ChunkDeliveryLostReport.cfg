SPECIFICATION FairSpec
CONSTANTS
  Scenarios <- MCLostReports
PROPERTIES
  RetiredStoryConfirmed
CHECK_DEADLOCK FALSE
