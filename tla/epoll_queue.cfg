\* a failed enqueue leaves the mutex locked, and then the program blocks
CHECK_DEADLOCK FALSE
SPECIFICATION FairSpec
CONSTANTS
  PRODUCER_NUM = 2
  Limit = 3
  EventfdMax = 2
  MaxMsg = 3
  Epoll = TRUE
  EnqueueFails = TRUE
INVARIANTS
  NoLostWakeup
  FifoPerProducer
  ReportMatches
PROPERTY
  Termination
