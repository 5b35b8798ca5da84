CONSTANTS
  r1 = r1
  p1 = p1
  Repos <- OneRepo
  Paths <- OnePath
  MaxAttempts = 1
  MaxJobs = 3
  MaxBoots = 2
  MaxGenerations = 2
  MaxFaults = 1
  MaxLate = 0
SPECIFICATION FairSpec
PROPERTIES
  UsesTheQueue
  EveryJobSettles
  StartupRewatches
CHECK_DEADLOCK FALSE
