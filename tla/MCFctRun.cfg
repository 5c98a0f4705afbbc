SPECIFICATION Spec
CONSTANTS
  LoggerTypes <- MCLoggerTypes
  DefaultLogger <- MCDefaultLogger
  Programs <- MCPrograms
  NoBlock = NoBlock
  StatusLimit = 3
INVARIANTS
  InItsFixture
  EachTestOnce
  StatusTellsFailures
PROPERTIES
  RunEnds
