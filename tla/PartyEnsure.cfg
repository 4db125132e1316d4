SPECIFICATION Spec
CHECK_DEADLOCK FALSE
CONSTANTS
  Accounts = {"me", "ann", "bob"}
  Parties = {"p1", "p2", "p3"}
  Values = {"", "blank", "Ready", "NotReady", "k", "l"}
  Self = "me"
  Notified = TRUE
  LaggingReads = TRUE
  Faults = {"lostRequest", "lostAnswer", "resent"}
  MaxFaults = 1
  EnvOps = {"kick", "leave"}
  PartyDeltas <- NoDeltas
  MemberDeltas <- NoDeltas
  MaxChanges = 2
  Ops = {"ensure", "leave", "join"}
  Intents <- AllIntents
  MaxPatchRetries = 1
  AutoCreate = TRUE
  MaxOps = 3
  Synced = TRUE
  Worlds <- AnyWorld
INVARIANTS
  EnsureIsValid
