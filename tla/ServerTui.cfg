SPECIFICATION FairSpec
CONSTANTS
  Clients = {c1, c2}
  Nobody = Nobody
  Buffer = 1
  MaxLogs = 1
INVARIANTS
  TypeOK
  IInv
  RequestInOnePlace
PROPERTIES
  DecidesWhatWasShown
  ImplementsApproval
  QuitKeyQuits
  EventThreadEnds
  SubmitEnds
CHECK_DEADLOCK FALSE
