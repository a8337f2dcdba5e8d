SPECIFICATION FairSpec
CONSTANTS
  NumFiles = 2
  MaxSize = 4
  ChunkSize = 2
  FileHash <- OneHash
  Requested = 1
  Faults = {"tag", "open", "get", "write"}
INVARIANTS
  TypeOK
  RestoredExactly
PROPERTIES
  QuietAfterWait
  RestoreEnds
CHECK_DEADLOCK FALSE
