\* a loop ends when it is asked to exit
CHECK_DEADLOCK FALSE
SPECIFICATION LoopsSpec
CONSTANTS
  Ctxs = {c1, c2}
  Evfd = evfd
  MaxEvents = 2
  Timeout = 2
  StartTime = 3
  IntMod = 8
  MaxTime = 3
  AddIn = {"setup", "wake_cb", "read_cb", "err_cb"}
  MayExit = TRUE
  Fds = {1, 4}
  EVFD = 3
  SelectMaxTime = 7
INVARIANTS
  EpollKeeps
  SelectKeeps
PROPERTIES
  LoopsReadData
