SPECIFICATION FairSpec
CONSTANTS
  s1 = s1
  s2 = s2
  c1 = c1
  c2 = c2
  Servers = {s1, s2}
  Clients = {c1, c2}
  NoServer = NoServer
  Nets <- MCNets
  Name <- MCName
  BufLen = 4
  MaxReplies = 2
INVARIANTS
  TypeOK
  FoundIsReal
  HeardOnSharedSubnet
PROPERTIES
  PingsAnswered
  ClientsGoOn
CHECK_DEADLOCK FALSE
