CHECK_DEADLOCK FALSE
SPECIFICATION Spec
CONSTANTS
  MaxNum = 6
  MaxSquare = 12
INVARIANT
  CombinationSolves
