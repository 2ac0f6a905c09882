SPECIFICATION Spec
CONSTANTS
  Clients = {c1, c2}
  MaxJobs = 1
  None = None
PROPERTIES
  QueuedJobIsServed
CHECK_DEADLOCK FALSE
