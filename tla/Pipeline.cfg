CONSTANTS
  a = a
  b = b
  none = none
  null = null
  Absent = none
  Null = null
  Ids <- MCOneId
  Vals <- MCBodies
  Commands = {}
  MaxCommands = 0
  ChannelCap = 1
  Concurrency = 1
  Policy = "halt"
  TxnShapes <- MCTruncating
  MaxTxns = 2
  Waves <- MCOneRange
  BatchSize = 2
  MaxRestarts = 0
  SnapshotRace = FALSE
  CrashBeforeProgress = FALSE
SPECIFICATION Spec
INVARIANTS
  
  Converges
CHECK_DEADLOCK FALSE
