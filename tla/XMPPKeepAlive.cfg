SPECIFICATION Spec
CONSTANTS
  t1 = t1
  t2 = t2
  Threads <- OneThread
  WriteBuffer = 1
  MaxReconnectAttempts = 1
  KeepAlive = TRUE
  WriteDeadline = FALSE
  MaxRuns = 1
  MaxConns = 2
  MaxDials = 2
  MaxSends = 1
INVARIANTS
  TypeOK
PROPERTIES
  StuckWriteEnds
CHECK_DEADLOCK FALSE
