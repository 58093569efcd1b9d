\* the server rests when all connections are closed and the clock stops, and
\* a freed peer does nothing more
CHECK_DEADLOCK FALSE
SPECIFICATION LibeventSpec
CONSTANTS
  N = 2
  Conns = {c1, c2, c3}
  InTimeout = 0
  OutTimeout = 0
  CheckInterval = 2
  MaxTime = 0
  MayFail = TRUE
  IdleConns = {c1, c2}
  IdleIn = 1
  IdleOut = 2
  IdleMaxTime = 6
  MaxInterval = 2
INVARIANTS
  ServerWhole
  FreedStops
PROPERTIES
  ServerServes
  IdlePeersOnly
  Reconnects
