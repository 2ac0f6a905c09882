SPECIFICATION SSpec
CONSTANTS
  Clients = {c1, c2}
  MaxJobs = 2
  Workers = {w1}
  SlotsPerWorker = 1
  MaxCrashes = 0
  None = None
PROPERTIES
  BusyQueueIsServed
CHECK_DEADLOCK FALSE
