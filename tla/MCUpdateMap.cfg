SPECIFICATION Spec
CONSTANTS
  width = 2
  height = 4
  totalChunkWidth = 3
  BlastRadius = 2
  Reach = 1
  LowestLevel = 8
  TreeHight = 2
  MaxSweeps = 16
  Layouts <- TheLayouts
CHECK_DEADLOCK FALSE
INVARIANTS
  MapSound
PROPERTIES
  ComesToRest
  LavaMoves
  NoCropLost
