SPECIFICATION FairSpec
CONSTANTS
  NumFiles = 2
  MaxSize = 1
  ChunkSize = 1
  FileHash <- OneHash
  Requested = 2
  MaxOpen = 3
  Faults = {"walk", "open", "read", "truncate", "put", "write", "crash"}
INVARIANTS
  MetadataComplete
  RecordedOnce
PROPERTIES
  SnapshotEnds
  
CHECK_DEADLOCK FALSE
