SPECIFICATION EdgeSpec
CONSTANTS
  c1 = c1
  c2 = c2
  m1 = m1
  m2 = m2
  w1 = w1
  w2 = w2
  Clients = {c1, c2}
  Masters = {m1, m2}
  Workers = {w1, w2}
  Clusters <- MCClusters
  Target = 2
  MaxJobs = 2
  MaxGone = 1
  None = None
INVARIANTS
  EdgeTypeOK
  SlotsMoveBetweenSharers
  ResultsComeHome
  LossesHaveACause
PROPERTIES
  EveryClientFinishes
CHECK_DEADLOCK FALSE
