SPECIFICATION FairSpec
CONSTANTS
  login = login
  ask = ask
  Calls <- MCCalls
  kind <- MCKind
  MaxConns = 3
  NoCall = NoCall
  Echo = Echo
INVARIANTS ServedOnce AnswersOwnRequest LoginFirst
PROPERTIES CallReturns
CHECK_DEADLOCK FALSE
