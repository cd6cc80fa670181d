SPECIFICATION FeedSpec
CONSTANTS
  Values <- MCValues
  Owners = {"ScheduleController"}
  None = None
  FieldOrder <- MCFieldOrder
  Specs <- MCSpecs
  RetryAge = 1
  InboxCap = 1
  SignalCap = 1
  MaxFaults = 1
INVARIANTS
  ConfirmedWasHeld
