SPECIFICATION Spec
CONSTANTS
  c1 = c1
  c2 = c2
  k1 = k1
  k2 = k2
  k3 = k3
  Client <- Clients
  Key <- Keys
  Path <- Paths
  Ops <- AfterInit
  AtStart = {TRUE}
  BadKey = {k3}
  Requested = 2
  Encrypted = TRUE
  MaxCalls = 3
  Flaky = {k2}
  Faults = {"crash"}
INVARIANTS
  WriterAlone
  DeleteCleansUp
PROPERTIES
  GetRemovesNoEntry
  ImplementsBlobStore
SYMMETRY Symmetry
VIEW View
CHECK_DEADLOCK FALSE
