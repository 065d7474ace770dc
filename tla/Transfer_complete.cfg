SPECIFICATION Spec
CONSTANTS
  NameLens = {1}
  MaxChunks = 2
  SockBuf = 1
INVARIANTS
  DownloadComplete
CHECK_DEADLOCK FALSE
