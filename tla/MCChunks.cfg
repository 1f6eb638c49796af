SPECIFICATION Spec
CONSTANTS
  Side = 2
  MaxDistance = 1
  MaxFaces = 1
  MaxChanges = 4
CHECK_DEADLOCK FALSE
INVARIANTS
  MeshesSound
  StaleOnlyIfMarked
PROPERTIES
  RangeIsShownAtLast
