CONSTANTS
  a = a
  b = b
  Containers = {a}
  FirstBlock = 2
  Growth = 2
  Unset = Unset
  Garbage <- MCGarbage
  MaxSlots = 8
  MaxCalls = 6
SPECIFICATION Spec
INVARIANTS
  StampsAreUnique
CHECK_DEADLOCK FALSE
