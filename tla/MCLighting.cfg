SPECIFICATION Spec
CONSTANTS
  width = 3
  height = 3
  totalChunkWidth = 2
  FullLight = 5
  Near = 4
  MaxChanges = 3
  Layouts <- TheLayouts
CHECK_DEADLOCK FALSE
INVARIANTS
  LightSound
PROPERTIES
  WritesWithinMesh
  LightFollows
