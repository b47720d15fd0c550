SPECIFICATION LeaseSpec
CONSTANTS
  h1 = h1
  h2 = h2
  c1 = c1
  c2 = c2
  c3 = c3
  Hosts = {h1, h2}
  Callers = {c1, c2, c3}
  HostOf <- MCHostOf
  Leases = {l1, l2}
  None = None
  Duration = 3
  Period = 1
  MaxFailures = 3
  Timely = TRUE
  Closing = {}
  Dying = {h2}
  MayHang = FALSE
SYMMETRY Symmetry
INVARIANTS
  OwnsUnlessLapsed
  ClosedHoldsNothing
  GuardNamesHolder
  OneFailureIsSurvived
PROPERTIES
  ImplementsRunLock
