SPECIFICATION Spec
CONSTANTS
  f1 = f1
  f2 = f2
  p1 = p1
  p2 = p2
  Files = {f1}
  Procs = {p1}
  Stamp <- Stamps
  NBlocks = 18
  FirstData = 1
  SCAN = 16
  NDIRECT = 1
  NINDIRECT = 3
  Sizes = {0, 3, 8, 13, 14, 22, 24, 30}
  Seeks = {0, 11}
  COUNTS = 64
  ReadSeeks = {2, 11, 23}
  Faults = {}
INVARIANTS
  BlocksExact
  EioOnlyOutside
  ReadExact
