CONSTANTS
  a = a
  b = b
  none = none
  null = null
  Absent = none
  Null = null
  Ids <- MCOneId
  Vals <- MCBodies
  Commands = {}
  MaxCommands = 0
  ChannelCap = 1
  Concurrency = 1
  Policy = "quarantine"
  TxnShapes <- MCSplitting
  MaxTxns = 1
  Waves <- MCEmptyFirst
  BatchSize = 2
  MaxRestarts = 0
  SnapshotRace = FALSE
  CrashBeforeProgress = FALSE
SPECIFICATION FairSpec
PROPERTIES
  SlotCatchesUp
  LoadEnds
CHECK_DEADLOCK FALSE
