SPECIFICATION FairSpec
CONSTANTS
  None = None
  RetryAge = 1
  MaxCalls = 2
PROPERTIES
  DayIsTheUsers
  VerdictIsTonights
  WishCarriedOut
