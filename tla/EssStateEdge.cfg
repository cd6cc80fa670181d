SPECIFICATION Spec
CONSTANTS
  Values <- MCValues
  Owners = {"EssStateOverrideController"}
  None = None
  DayLength = 6
  Offset = 1
  Days <- MCLongDay
  SunFresh = 2
  MaxLost = 0
  MaxForeign = 0
  MaxFlips = 1
  InboxCap = 1
PROPERTIES
  EdgeForcesWrite
