CONSTANTS
  t1 = t1
  t2 = t2
  Threads = {t1, t2}
  Foreign <- MCForeign
  Unset = Unset
  FirstBlock = 1
  Growth = 1
  ClearsCounter = TRUE
  CounterRange = 8
  MaxCapacity = 3
  MaxErasures = 2
  MaxHandles = 1
SPECIFICATION Spec
INVARIANTS
  HandlesAreExact
