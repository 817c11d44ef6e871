SPECIFICATION FairSpec
CONSTANTS
  a = a
  b = b
  c = c
  d = d
  e = e
  none = none
  NoReq = none
  N = 2
  Requests <- TwoRequests
  ModelOf <- ModelOf2
  Preloads = {}
  Limit <- Limit1
  MaxQ = 2
  Boots <- AllReady
  MaxFaults = 0
  MaxCancels = 1
PROPERTIES
  IdleModelReleased
CHECK_DEADLOCK FALSE
