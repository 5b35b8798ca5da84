CONSTANTS
  d1 = d1
  d2 = d2
  c1 = c1
  c2 = c2
  NoOne = NoOne
  Daemons <- TwoDaemons
  Controllers <- TwoControllers
  May <- Roles
  MaxFaults = 1
SPECIFICATION FairSpec
INVARIANTS
  WorkIsOwned
  StopMeansStopped
  ServerIsTheWriter
PROPERTIES
  ShutdownHitsItsGeneration
  IdleStopSparesClients
  IdleDaemonStops
CHECK_DEADLOCK FALSE
