SPECIFICATION EndSpec
CONSTANTS
  r1 = r1
  r2 = r2
  h1 = h1
  h2 = h2
  Requests = {r1, r2}
  HostOf <- OneHost
  Endpoints = {"invoke", "stream"}
  MaxEvents = 1
  Dying = {h2}
  Messages = {1}
  MaxDeliveries = 3
  NoTask = NoTask
  Ids = {i1}
  Execs = {1, 2}
  MaxStarts = 2
PROPERTIES
  EveryRunEnds
CHECK_DEADLOCK FALSE
