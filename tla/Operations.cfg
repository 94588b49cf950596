CONSTANTS
  KeyCount = 2
  QueueDepth = 1
  Setups <- MCSetups
  StaleProgress = FALSE
  ReinsertRace = FALSE
  LiveRebuild = FALSE
SPECIFICATION Spec
INVARIANTS
  JoinedIsSynced
  OnlyKnownStrays
  SyncedIsApplied
CHECK_DEADLOCK FALSE
