SPECIFICATION Spec
CHECK_DEADLOCK FALSE
CONSTANTS
  Accounts = {"me", "ann", "bob"}
  Parties = {"p1", "p2"}
  Values = {"", "blank", "Ready", "NotReady", "k", "l"}
  Self = "me"
  Notified = TRUE
  LaggingReads = FALSE
  Faults = {}
  MaxFaults = 0
  EnvOps = {}
  PartyDeltas <- NoDeltas
  MemberDeltas <- NoDeltas
  MaxChanges = 0
  Ops = {"set"}
  Intents <- AllIntents
  MaxPatchRetries = 1
  AutoCreate = TRUE
  MaxOps = 3
  Synced = TRUE
  Worlds <- OneWorld
INVARIANTS
  RevisionSafe
