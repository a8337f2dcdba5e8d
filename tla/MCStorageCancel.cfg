SPECIFICATION FairSpec
CONSTANTS
  c1 = c1
  c2 = c2
  k1 = k1
  k2 = k2
  k3 = k3
  Client <- OneClient
  Key <- OneKey
  Path <- OnePath
  Ops <- AllOps
  AtStart = {TRUE, FALSE}
  BadKey = {}
  Requested = 1
  Encrypted = TRUE
  MaxCalls = 3
  Flaky = {}
  Faults = {"cancel", "init", "write"}
INVARIANTS
  TypeOK
  OnePutAtATime
  GetReturnsCurrent
PROPERTIES
  EveryCallReturns
CHECK_DEADLOCK FALSE
