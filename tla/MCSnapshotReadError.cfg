SPECIFICATION Spec
CONSTANTS
  NumFiles = 2
  MaxSize = 2
  ChunkSize = 2
  FileHash <- OneHash
  Requested = 1
  MaxOpen = 100
  Faults = {"read"}
INVARIANTS
  SuccessMeansStored
CHECK_DEADLOCK FALSE
