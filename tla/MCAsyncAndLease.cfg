SPECIFICATION BothSpec
CONSTANTS
  h1 = h1
  h2 = h2
  c1 = c1
  c2 = c2
  Tasks = {a1, a2}
  None = None
  PoolSize = 1
  MaxCancels = 2
  MaxCalls = 1
  Leases = {l1, l2}
  Duration = 2
  MaxFailures = 1
  Dying = {h2}
INVARIANTS
  OwnedWhileWorking
  NothingLeftBehind
  CancellationHeard
PROPERTIES
  ScopeEnds
  LossIsDetected
  UnusedLeaseEnds
CHECK_DEADLOCK FALSE
