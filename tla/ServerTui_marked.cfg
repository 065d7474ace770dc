SPECIFICATION Spec
CONSTANTS
  Clients = {c1, c2}
  Nobody = Nobody
  Buffer = 1
  MaxLogs = 1
SYMMETRY Symmetry
PROPERTIES
  EnterApprovesMarked
CHECK_DEADLOCK FALSE
