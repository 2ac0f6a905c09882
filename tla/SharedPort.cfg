SPECIFICATION ConnSpec
CONSTANTS
  Clients = {c1, c2}
  FirstPort = 5001
  None = None
INVARIANT ConnectionIsPersistent
CHECK_DEADLOCK FALSE
