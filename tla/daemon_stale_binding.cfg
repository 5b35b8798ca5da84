CONSTANTS
  r1 = r1
  p1 = p1
  Repos <- OneRepo
  Paths <- OnePath
  MaxAttempts = 1
  MaxJobs = 3
  MaxBoots = 1
  MaxGenerations = 2
  MaxFaults = 0
  MaxLate = 1
SPECIFICATION Spec
PROPERTIES
  DeletionTargetsTheCatalog
CHECK_DEADLOCK FALSE
