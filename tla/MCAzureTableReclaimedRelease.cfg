SPECIFICATION Spec
CONSTANTS
  Clients = {c1, c2}
  Sweeper = Sweeper
  Tokens = {k1, k2, k3, k4}
  Payloads = {p1}
  Assistants = {a1}
  None = None
  MaxAttempts = 2
PROPERTIES
  ReclaimedReleaseRejected
