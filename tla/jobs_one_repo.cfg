CONSTANTS
  r1 = r1
  r2 = r2
  p1 = p1
  p2 = p2
  s1 = s1
  s2 = s2
  g1 = g1
  Repos <- OneRepo
  Stores = {s1}
  StoreOf <- OneStore
  Generations = {g1}
  Paths = {p1}
  MaxAttempts = 2
  MaxJobs = 3
  MaxBoots = 2
  Workers = 2
SPECIFICATION Spec
INVARIANTS
  OneQueuedPerRepo
  OneWorkerPerStore
  DeletionIsExclusive
  HeldRowsStayLeased
PROPERTIES
  DeletionSurvives
  RunningWorkIsCarried
  ManifestIsFrozen
CHECK_DEADLOCK FALSE
