\* a connection ends, and a client stops at its bound
CHECK_DEADLOCK FALSE
SPECIFICATION StreamsSpec
CONSTANTS
  Kinds = {"obj_cli", "obj_srv", "demo", "go", "pb_netty", "pb_array", "pb_file", "text"}
  MaxMsgs = 2
  MaxBody = 2
  Limit = 4
  RecvUnit = 2
  BufCap = 6
  N = 3
  D = 2
  Mss = 4
  MaxIovcnt = 2
  SndBuf = 3
  RcvBuf = 2
  SslKinds = {"openssl", "wolfssl"}
  SslConns = 2
  SslMessages = 2
  SslFaults = 1
INVARIANTS
  Framed
  StreamKept
  ContextAlive
  EchoExact
PROPERTIES
  ImplementsStream
  TakenAll
  EndsOnEof
  Completes
  Echoed
