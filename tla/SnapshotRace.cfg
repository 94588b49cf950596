CONSTANTS
  a = a
  b = b
  none = none
  null = null
  Absent = none
  Null = null
  Ids <- MCOneId
  Vals <- MCBodies
  Commands = {}
  MaxCommands = 0
  ChannelCap = 1
  Concurrency = 1
  Policy = "halt"
  TxnShapes <- MCChanging
  MaxTxns = 1
  Waves <- MCOneRange
  BatchSize = 2
  MaxRestarts = 0
  SnapshotRace = TRUE
  CrashBeforeProgress = FALSE
SPECIFICATION Spec
INVARIANTS
  StreamedChangeWins
CHECK_DEADLOCK FALSE
