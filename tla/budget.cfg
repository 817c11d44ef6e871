SPECIFICATION Spec
CONSTANTS
  N = 2
  Profile <- TwoProfiles
  Total = 10
  Margin = 1
  OtherUse = 0
  Boots <- AnyBoot
  MaxFaults = 2
INVARIANTS
  TypeOK
  BoundsCoverUse
  HoldsComeDown
  LedgerInv
PROPERTIES
  MarginKept
CHECK_DEADLOCK FALSE
