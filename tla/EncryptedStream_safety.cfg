SPECIFICATION Spec
CONSTANTS
  Chunks = 3
  Body = 2
  SockBuf = 5
  MaxNonce = 6
INVARIANTS
  TypeOK
  IInv
  DeliveredIsPrefix
  CompleteUnlessTorn
  TornIsNeverComplete
CHECK_DEADLOCK FALSE
