SPECIFICATION LimitFairSpec
CONSTANTS
  MaxGrid = 20
  MinSystem = 4
  Ampere = 2
  Margin = 3
  Deadband = 2
  Tolerance = 2
  Scenes <- MCScenes
  MaxChanges = 1
PROPERTIES
  ChargeGoesOnWithCar
