\* One pipeline over the sections of MCDocuments, one scenario a behaviour.
CONSTANTS
  Scenarios <- MCScenarios
  Keys = {1, 2}
  Bigs <- MCBigs
  Arrays <- MCArrays
  BadC <- MCBadC
  SameShard = FALSE
  MaxCrashes = 1
  MaxReplays = 1
SPECIFICATION Spec
INVARIANTS
  
  NoStrayDocument
  CompletedOnce
  AcceptedNeverHalts
  FilterAgreesWithSql
CHECK_DEADLOCK FALSE
