CHECK_DEADLOCK FALSE
SPECIFICATION Spec
CONSTANTS
  Ctxs = {c1}
  Evfd = evfd
  MaxEvents = 2
  Timeout = 2
  StartTime = 2
  IntMod = 16
  MaxTime = 9
  AddIn = {"setup"}
  MayExit = FALSE
INVARIANT
  TimerKept
