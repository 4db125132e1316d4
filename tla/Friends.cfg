SPECIFICATION Spec
CONSTANTS
  MaxRetries = 3
  MinBackoff = 70
  MaxBackoff = 100
  MaxDuration = 255
  RetryAfters <- Headers
  MaxFaults = 3
  Self = me
  Others = {f1, f2}
  MaxOps = 2
  MaxChanges = 2
INVARIANTS
  TypeOK
  RetriesArePaced
  BulkRemovalTrue
  FriendsFollow
CHECK_DEADLOCK FALSE
