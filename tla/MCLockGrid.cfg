CONSTANTS
  t1 = t1
  t2 = t2
  t3 = t3
  Threads = {t1, t2}
  Cells <- MCCells
  Zones <- MCZones
  Blocking = TRUE
  MaxUInt = 15
  IdBound = 3
SYMMETRY MCSymmetry
SPECIFICATION Spec
INVARIANTS
  TypeOK
  ExclusiveCells
  NoLeakedCell
  GrantedZoneIsHeld
  FailedZoneIsFreed
  NoStuckSet
PROPERTIES
  ImplementsCellLocks
