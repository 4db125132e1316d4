SPECIFICATION Spec
CONSTANTS
  c1 = c1
  c2 = c2
  Scheduler = "scheduler"
  Callers <- CallersOnly
  Casts <- TwoCasts
  MaxRetries = 1
  GrantRetries = 0
  Rotations = {TRUE, FALSE}
  Starts = {0, 1}
  MaxRequests = 1
  MaxIssued = 4
  MaxExpired = 2
  MaxFaults = 2
INVARIANTS
  TypeOK
  SchedulerDiesOfARaceOnly
  RefreshFailsForAReason
PROPERTIES
  StoreNeverGoesBack
  RequestReturns
  ExpiredIsReplaced
CHECK_DEADLOCK FALSE
