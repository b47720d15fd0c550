SPECIFICATION SaverSpec
CONSTANTS
  N = 3
  Special = {2}
  Attempts = {1, 2, 3}
  Async = {3}
  Ids = {1, 2, 3}
  ch1 = ch1
  ch2 = ch2
  only = only
SYMMETRY Symmetry
INVARIANTS
  WritesKept
  CommittedComplete
  HintIsNewest
  ReadsFaithful
PROPERTIES
  RefinesHistory
CHECK_DEADLOCK FALSE
