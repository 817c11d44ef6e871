SPECIFICATION Spec
CONSTANTS
  N = 3
  Profile <- ThreeProfiles
  Total = 12
  Margin = 1
  OtherUse = 0
  Boots <- OneResident
  MaxFaults = 1
PROPERTIES
  MarginKept
CHECK_DEADLOCK FALSE
