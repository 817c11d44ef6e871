SPECIFICATION Spec
CONSTANTS
  a = a
  b = b
  c = c
  d = d
  e = e
  none = none
  NoReq = none
  N = 2
  Requests <- TwoRequests
  ModelOf <- ModelOf2
  Preloads = {a}
  Limit <- Limit1
  MaxQ = 2
  Boots <- AnyUnsettled
  MaxFaults = 1
  MaxCancels = 1
INVARIANTS
  TypeOK
  HeadHasReason
  CountersMatchHandlers
  AnswerNeverBlocks
  PhaseCanEnd
  ProbesTrackedAndFresh
PROPERTIES
  LeaseSpec
CHECK_DEADLOCK FALSE
