SPECIFICATION FairSpec
CONSTANTS
  c1 = c1
  c2 = c2
  k1 = k1
  k2 = k2
  k3 = k3
  Client <- Clients
  Key <- OneKey
  Path <- OnePath
  Ops <- AfterInit
  AtStart = {TRUE}
  BadKey = {}
  Requested = 1
  Encrypted = TRUE
  MaxCalls = 1
  Flaky = {}
  Faults = {"write"}
PROPERTIES
  EmptyFileIsAnError
CHECK_DEADLOCK FALSE
