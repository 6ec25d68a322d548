SPECIFICATION FairSpec
CONSTANTS
  t1 = t1
  t2 = t2
  c1 = c1
  c2 = c2
  c3 = c3
  Threads <- MCThreads
  Allocators <- MCThreads
  Chunks <- MCChunks
  UCHAR_MAX = 2
  MaxInUse = 4
  NoChunk = NoChunk
  NoBlock = NoBlock
CONSTRAINT InTurn
INVARIANTS FreeListIntact CountExact UnusedUntilOverlap
PROPERTIES AllocateReturns
CHECK_DEADLOCK FALSE
