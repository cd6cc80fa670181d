SPECIFICATION FairSpec
CONSTANTS
  None = None
  Calendars <- MCCalendars
  UserDates = {1, 10}
  MaxEdits = 2
  MaxRestarts = 1
INVARIANTS
  NextIsASunday
PROPERTIES
  OnlyFullChargeSettles
  FullChargeRecurs
