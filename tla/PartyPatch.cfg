SPECIFICATION Spec
CHECK_DEADLOCK FALSE
CONSTANTS
  Accounts = {"me", "ann", "bob"}
  Parties = {"p1", "p2"}
  Values = {"", "blank", "Ready", "NotReady", "k", "l"}
  Self = "me"
  Notified = FALSE
  LaggingReads = TRUE
  Faults = {"lostRequest", "lostAnswer", "resent", "canceled"}
  MaxFaults = 1
  EnvOps = {"partyPatch", "promote", "leave", "kick"}
  PartyDeltas <- KeyDeltas
  MemberDeltas <- NoDeltas
  MaxChanges = 2
  Ops = {"set", "sync"}
  Intents <- AllIntents
  MaxPatchRetries = 2
  AutoCreate = TRUE
  MaxOps = 3
  Synced = TRUE
  Worlds <- PartyWorlds
INVARIANTS
  TypeOK
  ConflictNeedsContention
  SetIsEffective
  RevisionSafe
