SPECIFICATION SSpec
CONSTANTS
  Clients = {c1}
  MaxJobs = 3
  Workers = {w1}
  SlotsPerWorker = 2
  MaxCrashes = 1
  None = None
INVARIANTS
  SlotConservation
PROPERTIES
  PoppedJobIsAnswered
CHECK_DEADLOCK FALSE
