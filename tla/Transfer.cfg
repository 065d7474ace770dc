SPECIFICATION FairSpec
CONSTANTS
  NameLens = {1, 236, 237, 255}
  MaxChunks = 3
  SockBuf = 2
INVARIANTS
  TypeOK
  IInv
  NoMutualWait
  ApprovedOnly
  DiskIsPrefix
  FileIsServed
PROPERTIES
  TransferCompletes
  EndTogether
  ImplementsConnection
CHECK_DEADLOCK FALSE
