SPECIFICATION Spec
CONSTANTS
  CoreIds <- ProductionIds
  Arguments <- MCArguments
  None = None
  MaxTicks = 2
INVARIANTS
  TopologicalOrder
  VerdictIsExact
  OrderIsCanonical
  SameTickReads
  ReadsAreCurrent
CHECK_DEADLOCK FALSE
