CONSTANTS
  N = 3
  Unit = 2
  Ticks <- MCTicks
  MaxRadius = 2
SPECIFICATION Spec
INVARIANTS
  CubeIsNeighbourhood
  ClosePointsAreLocked
  CubesAgreeOnOrder
