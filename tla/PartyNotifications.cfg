SPECIFICATION Spec
CHECK_DEADLOCK FALSE
CONSTANTS
  Accounts = {"me", "ann", "bob"}
  Parties = {"p1", "p2"}
  Values = {"", "blank", "Ready", "NotReady", "k", "l"}
  Self = "me"
  Notified = TRUE
  LaggingReads = FALSE
  Faults = {}
  MaxFaults = 0
  EnvOps = {"join", "leave", "kick", "promote", "partyPatch", "memberPatch"}
  PartyDeltas <- PartyChanges
  MemberDeltas <- MemberChanges
  MaxChanges = 5
  Ops = {}
  Intents <- AllIntents
  MaxPatchRetries = 1
  AutoCreate = TRUE
  MaxOps = 0
  Synced = TRUE
  Worlds <- AnyWorld
INVARIANTS
  Converges
