SPECIFICATION Spec
CONSTANTS
  NoDay = NoDay
  Inputs <- MCInputs
  MaxEdits = 1
INVARIANTS
  ExtendedRestsOnToday
PROPERTIES
  PlansAreForToday
  StaysOffOnceReached
