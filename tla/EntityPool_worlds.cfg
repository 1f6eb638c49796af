CONSTANTS
    entityLength = 3
    Made = {1, 3}
    MaxFeeds = 0
    LastSlotSheep = FALSE
SPECIFICATION Spec
INVARIANTS
  TypeOK
  PoolSound
  CountTrue
PROPERTIES
  ImplementsHerd
