SPECIFICATION Spec
CONSTANTS
  t1 = t1
  t2 = t2
  Threads <- OneThread
  WriteBuffer = 2
  MaxReconnectAttempts = 1
  KeepAlive = FALSE
  WriteDeadline = TRUE
  MaxRuns = 2
  MaxConns = 2
  MaxDials = 2
  MaxSends = 2
INVARIANTS
  OneSupervisor
  StopsForAReason
PROPERTIES
  ImplementsQueue
  ImplementsSession
  CloseReturns
CHECK_DEADLOCK FALSE
