SPECIFICATION Spec
CONSTANTS
  Models = {m1, m2}
  Shared = m1
  N = 1
  Earlier = {1}
  Crashes = 1
  Strikes = 1
INVARIANTS
  TypeOK
  LatestIsBacked
  EarlierRowsKept
  WholeUnlessStubbed
  OneRestorer
PROPERTIES
  StoreSpec
  QueueEnds
CHECK_DEADLOCK FALSE
