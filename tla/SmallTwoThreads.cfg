SPECIFICATION Spec
CONSTANTS
  t1 = t1
  t2 = t2
  c1 = c1
  c2 = c2
  c3 = c3
  Threads <- MCThreads
  Allocators <- MCThreads
  Chunks <- MCChunks
  UCHAR_MAX = 2
  MaxInUse = 4
  NoChunk = NoChunk
  NoBlock = NoBlock
INVARIANT ReleasedChunkUnused
CHECK_DEADLOCK FALSE
