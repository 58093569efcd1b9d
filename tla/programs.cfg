\* requests, keys and captures end at their bounds
CHECK_DEADLOCK FALSE
SPECIFICATION PartsSpec
SYMMETRY DbSymmetry
CONSTANTS
  Programs <- AllPrograms
  DbThreads = {t1, t2}
  Names = {n1, n2}
  MaxId = 2
  Users = 3
  Batch = 2
  MaxFaults = 1
  DbKinds = {"dcuser", "mybatis", "app", "jdbc", "account", "trade", "balance", "sync"}
  Items = 3
  NPanels = 3
  LINES = 9
  COLS = 7
  MaxKeys = 6
  SeqSpace = 3
  MaxLen = 1
  MaxSent = 1
  MaxConn = 2
  MaxNum = 6
  MaxSquare = 12
INVARIANTS
  UsesLive
  EndsClean
  TablesAgree
  CacheAgrees
  ScreensAgree
  NumbersRight
PROPERTY
  SessionsFollow
