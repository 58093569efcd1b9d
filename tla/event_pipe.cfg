\* the program stops when main returns
CHECK_DEADLOCK FALSE
SPECIFICATION FairSpec
CONSTANTS
  PRODUCER_NUM = 2
  Limit = 3
  PipeCap = 3
  BufUnits = 2
  MaxMsg = 4
INVARIANT
  ReportMatches
PROPERTIES
  ImplementsEventfd
  KeepsEventfdFairness
