SPECIFICATION FeedFairSpec
CONSTANTS
  Values <- MCValues
  Owners = {"ScheduleController"}
  None = None
  FieldOrder <- MCFieldOrder
  Specs <- MCTwins
  RetryAge = 1
  InboxCap = 1
  SignalCap = 1
  MaxFaults = 1
INVARIANTS
  ReadbackWasHeld
PROPERTIES
  SteadyScheduleReported
  GoalConfirmed
