CONSTANTS
  none = none
  Absent = none
  Ids <- MCIds
  Vals = {}
  Kids = {"k"}
  Setups <- MCSetups
  Shapes <- MCShapes
  MaxTxns = 3
  QueueCap = 1
  FlushRows = 2
  FileSpan = 64
  Margin = 256
  BaselineRace = FALSE
SPECIFICATION Spec
INVARIANTS
  Converged
  SkippedIsHistory
  GtidsMatchCoordinate
  IdleIsClaimed
PROPERTIES
  ImplementsAtLeastOnce
CHECK_DEADLOCK FALSE
