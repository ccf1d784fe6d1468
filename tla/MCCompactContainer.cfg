CONSTANTS
  a = a
  b = b
  Containers = {a, b}
  FirstBlock = 2
  Growth = 2
  Unset = Unset
  Garbage <- MCGarbage
  MaxSlots = 8
  MaxCalls = 6
SYMMETRY MCSymmetry
SPECIFICATION Spec
INVARIANTS
  TypeOK
  SlotsInOnePlace
  CountersAreExact
  InsertionOrder
  OwnStampsAreUnique
  OwnBlocksAreIndexed
CHECK_DEADLOCK FALSE
