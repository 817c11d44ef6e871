SPECIFICATION Spec
CONSTANTS
  a = a
  b = b
  c = c
  d = d
  e = e
  none = none
  NoReq = none
  N = 2
  Requests <- FiveRequests
  ModelOf <- ModelOf5
  Preloads = {b}
  Limit <- Limit21
  MaxQ = 2
  Boots <- OneReady
  MaxFaults = 1
  MaxCancels = 0
INVARIANTS
  HeadHasReason
  LimitHolds
  EvicteeQuiet
  LeaseInv
PROPERTIES
  LoadNeedsKnownStates
CHECK_DEADLOCK FALSE
SYMMETRY SameModel
