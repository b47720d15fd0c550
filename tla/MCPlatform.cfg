SPECIFICATION PlatformSpec
CONSTANTS
  h1 = h1
  h2 = h2
  h3 = h3
  h4 = h4
  i1 = i1
  i2 = i2
  Handlers = {h1, h2, h3, h4}
  Hosts = {i1, i2}
  HostOf <- Placed
  Kinds <- MayBe
  Timely = TRUE
  Tokens = {k1, k2}
  Payloads = {p1}
  Assistants = {a1}
  None = None
  CheckpointIds = {1, 2, 3}
  MaxLimit = 2
  ThreadIds = {1, 2, 3}
  Keys = {"k"}
  Filters <- MCFilters
  MaxTime = 2
  MaxPage = 1
  Alone = {h1, h2}
  GraphKinds = {"plain", "cloneable", "uncloneable", "raising"}
  MaxBytes = 4
  MetaBytes = 1
  Sizes = {1, 2, 5}
  MaxEvents = 3
  GraphNames <- MCGraphNames
  TriggerNames <- MCTriggerNames
  Methods = {"invoke", "ainvoke", "both", "none"}
SYMMETRY Symmetry
INVARIANTS
  OneRunPerThread
  SuccessIsReleased
  LocksReturned
  PagesFaithful
  ThreadlessFaithful
  ServedAsRegistered
PROPERTIES
  NoResurrection
CHECK_DEADLOCK FALSE
