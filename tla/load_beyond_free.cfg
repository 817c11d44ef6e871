SPECIFICATION Spec
CONSTANTS
  N = 2
  Profile <- TwoProfiles
  Total = 10
  Margin = 1
  OtherUse = 1
  Boots <- NoneResident
  MaxFaults = 0
PROPERTIES
  AdmittedLoadFits
CHECK_DEADLOCK FALSE
