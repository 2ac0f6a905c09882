SPECIFICATION Spec
CONSTANTS
  Clients = {c1, c2}
  FirstPort = 5001
  None = None
  Generator = g
  Handlers = {h1, h2}
  Listeners = {l1, l2}
  Payloads = {0, 1, 2, 5}
  PacketSize = 3
  MaxMsgs = 3
INVARIANTS
  HeardClientIsConnected
  PortsMatchUnlessRaced
  DeliveredInOrder
  GarbledOnlyByClose
PROPERTIES
  RequestIsHeard
  WrittenIsDelivered
  CloseEndsListener
CHECK_DEADLOCK FALSE
