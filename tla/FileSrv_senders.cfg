SPECIFICATION Spec
CONSTANTS
  Clients = {c1}
  NoClient = NoClient
INVARIANTS
  SendersFindReceiver
CHECK_DEADLOCK FALSE
