\* Routing by a column, in an index of one shard.
CONSTANTS
  Scenarios <- MCRouted
  Keys = {1, 2}
  Bigs <- MCBigs
  Arrays <- MCArrays
  BadC <- MCBadC
  SameShard = TRUE
  MaxCrashes = 0
  MaxReplays = 0
SPECIFICATION Spec
INVARIANTS
  MovedDocumentIsKept
CHECK_DEADLOCK FALSE
