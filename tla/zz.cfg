CONSTANTS
  r1 = r1
  p1 = p1
  Repos <- OneRepo
  Paths <- OnePath
  MaxAttempts = 2
  MaxJobs = 3
  MaxBoots = 2
  MaxGenerations = 2
  MaxFaults = 1
  MaxLate = 1
SPECIFICATION Spec
INVARIANTS
 WatchersFollowTheCatalog
  NotReadyWhileWriting
  HalvesAreExplained
PROPERTIES
  OnlyItsDeletionRemoves
  NoResurrection
  DeletionIsComplete
CHECK_DEADLOCK FALSE
