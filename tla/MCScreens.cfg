SPECIFICATION Spec
CONSTANTS
  Columns = 3
  craftingRecipeAmount = 15
  itemAmount = 11
  Worlds = 2
  maxTextureIndex = 2
  KeySets <- TheKeySets
CHECK_DEADLOCK FALSE
INVARIANTS
  BagsSound
  WorldsSound
PROPERTIES
  HeldKeysDoNothing
