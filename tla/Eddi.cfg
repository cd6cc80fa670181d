SPECIFICATION FairSpec
CONSTANTS
  None = None
  RetryAge = 1
  Dwell = 2
  CallTimeout = 1
  MaxCalls = 2
  MaxForeign = 1
PROPERTIES
  NormalIsAuthorised
  DwellKept
  WishCarriedOut
