SPECIFICATION FairSpec
CONSTANTS
  a = a
  b = b
  c = c
  d = d
  e = e
  none = none
  NoReq = none
  N = 2
  Requests <- ThreeRequests
  ModelOf <- ModelOf3
  Preloads = {b}
  Limit <- Limit1
  MaxQ = 2
  Boots <- OneReady
  MaxFaults = 1
  MaxCancels = 0
PROPERTIES
  PhaseEnds
  WaitingEnds
CHECK_DEADLOCK FALSE
