SPECIFICATION Spec
CONSTANTS
  a = a
  b = b
  c = c
  d = d
  e = e
  none = none
  NoReq = none
  N = 2
  Requests <- ThreeRequests
  ModelOf <- ModelOf3
  Preloads = {}
  Limit <- Limit1
  MaxQ = 2
  Boots <- AnyReadyStopped
  MaxFaults = 1
  MaxCancels = 0
PROPERTIES
  ReadyModelIsDrained
CHECK_DEADLOCK FALSE
