SPECIFICATION Spec
CONSTANTS
  Games <- MCGames
CHECK_DEADLOCK FALSE
INVARIANTS
  LadderSound
PROPERTIES
  EverythingAtLast
