SPECIFICATION Spec
CONSTANTS
  None = None
  RetryAge = 1
  MaxCalls = 2
PROPERTY AutoStopForcesOff
