SPECIFICATION RetainedSpec
CONSTANTS
  MaxEdits = 1
  MaxRestarts = 1
  MaxFaults = 1
INVARIANTS
  WishInForce
  BatteryKeptFromCar
PROPERTIES
  WritesAwaitKnobs
CHECK_DEADLOCK FALSE
