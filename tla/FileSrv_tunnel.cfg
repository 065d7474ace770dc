SPECIFICATION Spec
CONSTANTS
  Clients = {c1}
  NoClient = NoClient
INVARIANTS
  TunnelReleased
CHECK_DEADLOCK FALSE
