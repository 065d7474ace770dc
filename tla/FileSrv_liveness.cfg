SPECIFICATION FairSpec
CONSTANTS
  Clients = {c1}
  NoClient = NoClient
PROPERTIES
  QuitStops
  OneShotStops
CHECK_DEADLOCK FALSE
