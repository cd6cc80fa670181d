SPECIFICATION FairSpec
CONSTANTS
  None = None
  RetryAge = 1
  Dwell = 2
  CallTimeout = 1
  MaxCalls = 1
  MaxForeign = 0
PROPERTIES
  StopsWhenBlind
