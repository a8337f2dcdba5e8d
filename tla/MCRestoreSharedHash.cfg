SPECIFICATION Spec
CONSTANTS
  NumFiles = 2
  MaxSize = 2
  ChunkSize = 1
  FileHash <- OneHash
  Requested = 1
  Faults = {}
INVARIANTS
  SoundSnapshotRestores
CHECK_DEADLOCK FALSE
