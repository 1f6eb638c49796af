SPECIFICATION Spec
CONSTANTS
  Worlds = {w1, w2}
  WorldChunks = 2
  StartVersions = {0, 3, 4, 5, 6}
  MaxStamp = 2
  MaxCrash = 1
SYMMETRY Slots
INVARIANTS
  DiskSound
  LoadsWhatWasSaved
  NothingFromAnotherWorld
