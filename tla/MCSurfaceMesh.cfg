SPECIFICATION Spec
CONSTANTS
  Meshes <- MCMeshes
  m1 = m1
  m2 = m2
  Firsts <- MCFirsts
  MaxSize <- MCMaxSize
  MaxCalls = 4
SYMMETRY MCSymmetry
INVARIANTS
  TypeOK
  FreeListsAreExact
  ElementsAreWellConnected
  GarbageIsFlagged
PROPERTIES
  IndicesAreStable
  ImplementsMeshGraph
CHECK_DEADLOCK FALSE
