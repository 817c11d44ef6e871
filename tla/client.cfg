SPECIFICATION FairSpec
CONSTANTS
  c1 = c1
  c2 = c2
  Callers <- TwoCallers
  HasPrepare = TRUE
  MaxCalls = 3
  MaxFaults = 3
INVARIANTS
  TypeOK
  StoppedMeansFree
  OnePrepare
  StartingHasOp
  ReadyIsLoaded
PROPERTIES
  ReadyAnswerIsTrue
  CallersAnswered
CHECK_DEADLOCK FALSE
