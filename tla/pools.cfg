SPECIFICATION PoolsSpec
CONSTANTS
  InitCapacity = 2
  MaxCapacity = 5
  EnsureOn = {}
  InitSize = 2
  MaxSize = 4
  CopyRatio = 1
  EnsureNotFull = FALSE
  HeadNode = head
  TailNode = tail
  Null = null
INVARIANTS
  FullPoolMeets
  BlocksKept
PROPERTIES
  ImplementsPool
  ListImplementsPool
