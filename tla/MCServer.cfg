SPECIFICATION SSpec
CONSTANTS
  Clients = {c1}
  MaxJobs = 3
  Workers = {w1, w2}
  SlotsPerWorker = 1
  MaxCrashes = 1
  None = None
INVARIANTS
  SlotConservation
  JobAccounting
PROPERTIES
  ImplementsJobService
  PutWakesDispatcher
CHECK_DEADLOCK FALSE
