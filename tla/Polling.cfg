\* One table of two rows, one of them there at the start, pages of one row, one restart.
CONSTANTS
  Tables <- MCTables
  Rows <- MCRows
  Initial <- MCInitial
  PageSize = 1
  Workers = 1
  RowsPerBoundary = 2
  BatchSize = 2
  WalPerChange = 3
  MaxChanges = 2
  MaxRestarts = 1
SPECIFICATION Spec
INVARIANTS
  
  RefreshComesBack
PROPERTIES
  PollCatchesUp
CHECK_DEADLOCK FALSE
