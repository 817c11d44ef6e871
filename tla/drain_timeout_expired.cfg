SPECIFICATION Spec
CONSTANTS
  a = a
  b = b
  c = c
  d = d
  e = e
  none = none
  NoReq = none
  N = 2
  Requests <- TwoRequests
  ModelOf <- ModelOf2
  Preloads = {}
  Limit <- Limit1
  MaxQ = 2
  Boots <- AnyReadyStopped
  MaxFaults = 1
  MaxCancels = 0
PROPERTIES
  DrainTimeoutMeansExpired
CHECK_DEADLOCK FALSE
