CONSTANTS
  a = a
  b = b
  Containers = {a, b}
  FirstBlock = 2
  Growth = 2
  Unset = Unset
  Garbage = {Unset}
  MaxSlots = 8
  MaxCalls = 6
SPECIFICATION Spec
INVARIANTS
  IndexIsTheSubscript
CHECK_DEADLOCK FALSE
