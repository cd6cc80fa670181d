SPECIFICATION RetainedSpec
CONSTANTS
  MaxEdits = 0
  MaxRestarts = 0
  MaxFaults = 1
PROPERTIES
  RoundTripStable
CHECK_DEADLOCK FALSE
