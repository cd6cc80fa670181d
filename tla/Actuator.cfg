SPECIFICATION FairSpec
CONSTANTS
  Values <- MCValues
  Owners = {"SetpointController"}
  None = None
  Tol = 3
  Deadband = 2
  RetryAge = 1
  FreshAge = 0
  InboxCap = 1
  LateCap = 1
  Meddling = 1
INVARIANTS
  TargetsAreWritten
  CommandedNotSeen
PROPERTIES
  RetryPaced
  EdgeForcesWrite
  DeliversAtLeastOnce
  StableGoalConfirmed
