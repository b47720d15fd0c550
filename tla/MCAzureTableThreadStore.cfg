SPECIFICATION Spec
CONSTANTS
  Clients = {c1, c2}
  Sweeper = Sweeper
  Tokens = {k1, k2, k3}
  Payloads = {p1}
  Assistants = {a1, a2}
  None = None
  MaxAttempts = 2
SYMMETRY Symmetry
INVARIANTS
  DecisionStands
  SweepSparesLive
PROPERTIES
  OnlyOwnerOrSweepFrees
  ImplementsContract
