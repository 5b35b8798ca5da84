CONSTANTS
  r1 = r1
  r2 = r2
  p1 = p1
  p2 = p2
  s1 = s1
  s2 = s2
  g1 = g1
  Repos <- TwoRepos
  Stores = {s1, s2}
  StoreOf <- TwoStores
  Generations = {g1}
  Paths = {}
  MaxAttempts = 2
  MaxJobs = 2
  MaxBoots = 3
  Workers = 2
SPECIFICATION FairSpec
PROPERTIES
  ImplementsWork
  EveryJobSettles
CHECK_DEADLOCK FALSE
