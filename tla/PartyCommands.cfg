SPECIFICATION Spec
CHECK_DEADLOCK FALSE
CONSTANTS
  Accounts = {"me", "ann", "bob"}
  Parties = {"p1", "p2", "p3"}
  Values = {"", "blank", "Ready", "NotReady", "k", "l"}
  Self = "me"
  Notified = FALSE
  LaggingReads = TRUE
  Faults = {"lostRequest", "lostAnswer", "resent", "canceled"}
  MaxFaults = 1
  EnvOps = {"join", "leave", "promote", "partyPatch"}
  PartyDeltas <- KeyDeltas
  MemberDeltas <- NoDeltas
  MaxChanges = 2
  Ops = {"sync", "ensure", "create", "join", "joinMember", "joinInvite", "leave", "promote", "set", "request"}
  Intents <- AllIntents
  MaxPatchRetries = 1
  AutoCreate = TRUE
  MaxOps = 2
  Synced = FALSE
  Worlds <- AnyWorld
INVARIANTS
  LocalIDSound
PROPERTIES
  CommandReturns
