SPECIFICATION Spec
CONSTANTS
  w1 = w1
  w2 = w2
  owner = owner
  Writers <- MCWriters
  Settings <- MCSettings
  BufLen = 4
  MinAvaili = 1
  LineSizes = {2, 3}
  UIntRange = 16
  BufEmptySize = 1
  MaxLines = 2
  MaxRuns = 2
INVARIANTS StopKeepsLines RotationKeepsFiles
CHECK_DEADLOCK FALSE
PROPERTIES OverrunByLongLine ImplementsJournal LinesWritten
