SPECIFICATION FairSpec
CONSTANTS
  N = 2
  Profile <- TwoProfiles
  Total = 10
  Margin = 1
  OtherUse = 0
  Boots <- OneUnloading
  MaxFaults = 0
PROPERTIES
  RoomIsFound
CHECK_DEADLOCK FALSE
