\* One section's document, two sections' indexes, two files, two sections' relations.
CONSTANTS
  Live <- MCLive
  Values <- MCValues
  Drafts <- MCDrafts
  SharedTables = FALSE
SPECIFICATION Spec
INVARIANTS
  AsDeclared
  IndexesAreOwn
  MappingIsUsed
  EmbeddedIsRefetched
CHECK_DEADLOCK FALSE
