SPECIFICATION Spec
CONSTANTS
  NANOSECOND = 4
  MICROSECOND = 2
  Scenarios <- MCScenarios
  StartTime = 5
  MaxList = 3
  Horizon = 60
INVARIANTS
  NoEventUncounted
  PacedAsAsked
  TotalsAreSums
  NoAverageAboveLongest
PROPERTIES
  MainEnds
