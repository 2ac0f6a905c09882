SPECIFICATION RRSpec
CONSTANTS
  Clients = {c1, c2, c3}
  MaxJobs = 2
  None = None
INVARIANTS
  QueuesAreTheBacklog
  OvertakenAtMostOnce
  NoneMissesNoOlderJob
PROPERTIES
  EveryJobIsPopped
CHECK_DEADLOCK FALSE
