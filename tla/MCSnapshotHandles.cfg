SPECIFICATION Spec
CONSTANTS
  NumFiles = 2
  MaxSize = 2
  ChunkSize = 2
  FileHash <- OneHash
  Requested = 1
  MaxOpen = 2
  Faults = {}
INVARIANTS
  NoFileDropped
CHECK_DEADLOCK FALSE
