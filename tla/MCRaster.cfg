SPECIFICATION Spec
CONSTANTS
  resX = 6
  resY = 4
  Far = 9
  Scenes <- MCScenes
  Quads <- MCQuads
  Dirt = {0, 4}
INVARIANTS
  FaceWhole
  NearestShown
  DepthsSound
