SPECIFICATION FairSpec
CONSTANTS
  p = p
  q = q
  r = r
  Order <- TwoModels
  Aliases <- SomeAliases
  Requests <- SomeRequests
  Name <- Names
  Preloads = {p}
  MaxFaults = 2
INVARIANTS
  TypeOK
  ConfirmedStaysReleased
  NobodyCutOff
PROPERTIES
  StopFindsNoLoad
  ShutdownEnds
CHECK_DEADLOCK FALSE
