SPECIFICATION FairSpec
CONSTANTS
  e1 = e1
  e2 = e2
  p1 = p1
  p2 = p2
  s1 = s1
  s2 = s2
  Events <- MCEvents
  Topics <- MCTopics
  Subs <- MCSubs
  eventName <- MCName
  MaxStarts = 2
INVARIANTS HeardInOneOrder FlagMatchesQueue QuietWhenStopped
PROPERTIES ImplementsBus EventsDealt StopReturns
CHECK_DEADLOCK FALSE
