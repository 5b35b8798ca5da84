CONSTANTS
  Queries = {q1, q2}
  q1 = q1
  q2 = q2
  RequestOf <- MCRequestOf
  MaxConcurrency = 1
  RecoveryProbes = 2
  ReferenceKinds = 2
  HydratedFiles <- MCHydratedFiles
  Limit = 1
  MaxOutages = 2
SPECIFICATION FairSpec
INVARIANTS
  CompletenessIsTruthful
PROPERTIES
  EveryQueryReturns
  OutagesEnd
CHECK_DEADLOCK FALSE
