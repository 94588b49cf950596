CONSTANTS
  a = a
  b = b
  none = none
  null = null
  Absent = none
  Null = null
  Ids <- MCOneId
  Vals <- MCBodies
  Commands = {}
  MaxCommands = 0
  ChannelCap = 1
  Concurrency = 1
  Policy = "halt"
  TxnShapes <- MCChanging
  MaxTxns = 1
  Waves <- MCOneRange
  BatchSize = 2
  MaxRestarts = 1
  SnapshotRace = FALSE
  CrashBeforeProgress = FALSE
SPECIFICATION Spec
INVARIANTS
  TypeOK
  
  Converges
  ClaimedIsLoaded
  LoadIsNotSkipped
CHECK_DEADLOCK FALSE
