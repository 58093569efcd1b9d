SPECIFICATION Spec
CONSTANTS
  InitCapacity = 2
  MaxCapacity = 4
  EnsureOn = {"empty"}
INVARIANT
  FullPoolMeets
