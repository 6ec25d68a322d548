SPECIFICATION Spec
CONSTANTS
  t1 = t1
  t2 = t2
  t3 = t3
  b1 = b1
  b2 = b2
  b3 = b3
  b4 = b4
  b5 = b5
  Threads <- MCThreads
  Blocks <- MCBlocks
  Sizes <- MCSizes
  m_usMaxFreeCacheSize = 3
  NoThread = NoThread
  NoBlock = NoBlock
SYMMETRY Symmetry
INVARIANT AllocationsServed
CHECK_DEADLOCK FALSE
