SPECIFICATION MCSpec
CONSTANTS
  Threads <- MCThreads
  Corners <- MCCorners
  Regions <- MCRegions
  Shapes <- MCShapes
  Slots <- MCSlots
  Main = 1
  BatchSizes <- MCBatchSizes
  StarSize = 1
  MaxBorn = 1
INVARIANTS
  RefinedFacetsAreOnSurface
