CONSTANTS
  Servers = {"plain", "worker"}
  MaxConns = 2
  MaxSends = 3
SPECIFICATION FairSpec
CHECK_DEADLOCK FALSE
INVARIANT RefCounted
INVARIANT OneThread
PROPERTY LoginMoves
PROPERTY SilentReleased
PROPERTY Reconnects
