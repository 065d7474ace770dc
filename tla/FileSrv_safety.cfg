SPECIFICATION Spec
CONSTANTS
  Clients = {c1, c2}
  NoClient = NoClient
SYMMETRY Symmetry
INVARIANTS
  TypeOK
  IInv
  OneShotServesOne
  CleanExit
  JoinFindsRenderLeaving
PROPERTIES
  FlagClearedLast
  ImplementsConnections
CHECK_DEADLOCK FALSE
