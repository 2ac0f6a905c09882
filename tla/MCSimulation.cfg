SPECIFICATION SimSpec
CONSTANTS
  Clients = {c1, c2}
  NumServer = 2
  NumReqToRecv = 3
  MinResults = 2
  MaxTokens = 3
  c1 = c1
  c2 = c2
  Pacings <- MCPacings
INVARIANTS
  SimTypeOK
  PermitIsKept
  ServersAreConserved
  ReqHasComeUnlessPutTwice
PROPERTIES
  LastResultComes
CHECK_DEADLOCK FALSE
