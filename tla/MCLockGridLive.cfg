CONSTANTS
  t1 = t1
  t2 = t2
  t3 = t3
  Threads = {t1, t2}
  Cells <- MCCells2
  Zones <- MCZones2
  Blocking = TRUE
  MaxUInt = 15
  IdBound = 3
SPECIFICATION FairSpec
PROPERTIES
  NoEternalWait
