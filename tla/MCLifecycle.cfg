SPECIFICATION Spec
CONSTANTS
  ChunkSize = 2
  Source = {1, 2}
  Sizes <- OneOrTwo
  MaxSize = 3
  t1 = t1
  t2 = t2
  Tag <- Tags
  Overhead = 1
  JSONSize = 1
  MaxEdits = 1
  MaxSnapshots = 2
INVARIANTS
  RestoredAsSeen
  OnlyFromOwnTag
PROPERTIES
  StaysRestorable
SYMMETRY Symmetry
