\* Two sources, two edits of the resource, one fault.
CONSTANTS
  Created <- MCCreated
  Specs <- MCSpecs
  MaxEdits = 2
  MaxFaults = 1
  Reverts = FALSE
  LateSidecar = FALSE
SPECIFICATION Spec
INVARIANTS
  AppliedOrRefused
  StatusIsOfItsSpec
PROPERTIES
  
  RolloutSettles
CHECK_DEADLOCK FALSE
