SPECIFICATION Spec
CONSTANTS
  w1 = w1
  w2 = w2
  w3 = w3
  t1 = t1
  t2 = t2
  t3 = t3
  NoTask = NoTask
  Workers <- MCWorkers
  Tasks <- MCTasks
  Modes <- CachedMode
  m_usThreadSize = 1
  m_usMaxTreadSize = 2
  m_ulTaskqueMaxSize = 1
INVARIANT FixedThreadsStay
CHECK_DEADLOCK FALSE
