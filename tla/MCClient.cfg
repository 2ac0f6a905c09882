SPECIFICATION CSpec
CONSTANTS
  s1 = s1
  s2 = s2
  Servers <- MCServers
  NumJobsToFinish = 2
  MaxTokens <- MCMaxTokens
  Stopping <- MCStopping
  CloseSignal = CloseSignal
INVARIANTS
  SlowStart
  ClosesOnlyAtTarget
  AtMostOneJobAfterOff
  ProbeIsUnderWay
PROPERTIES
  ClosesUnlessCountsAreLost
  ThreadsEnd
CHECK_DEADLOCK FALSE
