CONSTANTS
  Files <- TwoFiles
  Refs <- OneRef
  Steady <- Target
  Deletable <- Leaving
  Unparsable <- Rejected
  Modes <- FullAndFiles
  BatchFiles = 1
  MaxAttempts = 2
  MaxEdits = 3
  MaxRequests = 3
  MaxFaults = 1
  MaxCrashes = 2
SPECIFICATION Spec
INVARIANTS
  UninterruptedKeepsEdges
PROPERTIES
  FullPassIsExact
CHECK_DEADLOCK FALSE
