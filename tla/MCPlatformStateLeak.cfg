SPECIFICATION Spec
CONSTANTS
  h1 = h1
  h2 = h2
  i1 = i1
  i2 = i2
  Handlers = {h1, h2}
  Hosts = {i1}
  HostOf <- OneHost
  Kinds <- RunBesideUpdate
  Timely = TRUE
  Tokens = {k1, k2}
  Payloads = {p1}
  Assistants = {a1}
  None = None
SYMMETRY Symmetry
INVARIANTS
  NoLockLeftBehind
