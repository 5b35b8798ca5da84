CONSTANTS
  Files <- TwoFiles
  Refs <- OneRef
  Steady <- NoFiles
  Deletable <- TwoFiles
  Unparsable <- NoFiles
  Modes <- AnyMode
  BatchFiles = 1
  MaxAttempts = 2
  MaxEdits = 2
  MaxRequests = 2
  MaxFaults = 1
  MaxCrashes = 1
SPECIFICATION Spec
INVARIANTS
  CheckpointIsTrue
PROPERTIES
  AcknowledgedIsDurable
  ForceCoversItsManifest
  ForceAcksItsSnapshot
CHECK_DEADLOCK FALSE
