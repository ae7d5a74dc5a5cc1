SPECIFICATION FairSpec
CONSTANTS
  FileSizes = {0, 1, 2, 3, 4, 5, 6}
  ChunkSizes = {1, 2, 3}
  OldSizes = {0, 1}
  MaxGrowth = 1
  Deletes = TRUE
INVARIANTS TypeOK NoByteLost LargeIsIntact ClosedIsToldSuccess
PROPERTY ServerEnds
CHECK_DEADLOCK FALSE
