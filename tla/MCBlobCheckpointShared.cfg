SPECIFICATION Spec
CONSTANTS
  a = a
  b = b
  Ids = {1, 2}
  Channels = {a}
  Calls = {"put"}
  LateUploads = FALSE
  PruneBase = TRUE
  Tasks = {"delete_before", "collect"}
INVARIANTS
  CommittedComplete
CHECK_DEADLOCK FALSE
