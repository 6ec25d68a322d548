SPECIFICATION FairSpec
CONSTANTS
  lic = lic
  ask = ask
  news = news
  stopTopic = stopTopic
  info = info
  fw = fw
  cb = cb
  Events <- MCEvents
  Topics <- MCTopics
  Subs <- MCSubs
  eventName <- MCName
  MaxStarts = 1
  StopTopic <- stopTopic
  LicenseEvent <- lic
  handler <- fw
INVARIANTS NoCallbackInTeardown NothingLeftOfLibs RunsUntilAsked
PROPERTIES AskedEndsRun
CHECK_DEADLOCK FALSE
