SPECIFICATION FairSpec
CONSTANTS
  Values <- MCValues
  Owners = {"EssStateOverrideController"}
  None = None
  DayLength = 6
  Offset = 1
  Days <- MCDays
  SunFresh = 1
  MaxLost = 1
  MaxForeign = 1
  MaxFlips = 3
  InboxCap = 1
INVARIANTS
  TargetIsLastWrite
PROPERTIES
  WritesAlternate
  KeptBatteryReleased
