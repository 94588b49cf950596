CONSTANTS
  a = a
  b = b
  x = x
  y = y
  none = none
  Absent = none
  Ids <- MCIds
  Vals <- MCVals
  Commands <- MCCommands
  MaxCommands = 3
  ChannelCap = 1
  Concurrency = 2
  Policy = "quarantine"
  MaxRejects = 2
SPECIFICATION SinkSpec
INVARIANTS
  SinkTypeOK
  
  
  
  BudgetCoversStore
  LaterWriteWins
PROPERTIES
  DeliverySpec
CHECK_DEADLOCK FALSE
