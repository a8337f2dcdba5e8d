SPECIFICATION FairSpec
CONSTANTS
  NumFiles = 2
  MaxSize = 5
  ChunkSize = 2
  FileHash <- OneHash
  Requested = 1
  MaxOpen = 100
  Faults = {}
INVARIANTS
  TypeOK
  IInv
  MetadataComplete
  SuccessMeansStored
  RecordedOnce
  WaitGroupCounts
  PermitsHeldByWriters
  EveryByteOnce
  SectionsInOrder
PROPERTIES
  NoAddDuringWait
  QuietAfterWait
  SnapshotEnds
  PermitsReturned
  ImplementsAtomicSnapshot
CHECK_DEADLOCK FALSE
