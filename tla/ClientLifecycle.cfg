SPECIFICATION Spec
CONSTANTS
  t1 = t1
  Threads <- OneThread
  LoginBuffer = 1
  WatchBuffer = 2
  Careless = FALSE
  MaxLogins = 2
  MaxConns = 3
INVARIANTS
  TypeOK
  LogoutIsComplete
  OneSession
  EnsureAfterConnect
  ReconnectResyncs
PROPERTIES
  LogoutReturns
  SessionEnds
CHECK_DEADLOCK FALSE
