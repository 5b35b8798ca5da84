CONSTANTS
  ActiveInterval = 1
  IdleInterval = 2
  MaxAttempts = 2
  MaxEdits = 2
  MaxFaults = 2
SPECIFICATION FairSpec
INVARIANTS
  QuietMeansIndexed
PROPERTIES
  ChangesAreIndexed
  DowntimeIsRecovered
CHECK_DEADLOCK FALSE
