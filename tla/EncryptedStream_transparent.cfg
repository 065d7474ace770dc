SPECIFICATION Spec
CONSTANTS
  Chunks = 2
  Body = 2
  SockBuf = 4
  MaxNonce = 4
INVARIANTS
  TransparentStream
CHECK_DEADLOCK FALSE
