SPECIFICATION FeedFairSpec
CONSTANTS
  Values <- MCValues
  Owners = {"ScheduleController"}
  None = None
  FieldOrder <- MCFieldOrder
  Specs <- MCFraction
  RetryAge = 1
  InboxCap = 1
  SignalCap = 1
  MaxFaults = 0
PROPERTIES
  AnyGoalConfirmed
