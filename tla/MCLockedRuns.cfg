SPECIFICATION LockedSpec
CONSTANTS
  r1 = r1
  r2 = r2
  h1 = h1
  h2 = h2
  Requests = {r1, r2}
  HostOf <- TwoHosts
  Endpoints = {"invoke", "stream"}
  MaxEvents = 1
  Kinds = {"invoke", "stream", "invoke_async", "stream_async"}
  MaxBytes = 2
  Sizes = {1, 2}
  ErrorSize = 1
  Dying = {h2}
  HostOfDelivery <- DeliveriesInTurn
  HostOfExec <- ExecsInTurn
  Messages = {1, 2}
  MaxDeliveries = 2
  NoTask = NoTask
  Ids = {i1}
  Execs = {1, 2}
  MaxStarts = 2
INVARIANTS
  ExecutionsExclude
  LocksGivenBack
  WorkerAlone
  OneTerminalEvent
  ToldAlike
  SettledRan
PROPERTIES
  LossIsNoSuccess
CHECK_DEADLOCK FALSE
