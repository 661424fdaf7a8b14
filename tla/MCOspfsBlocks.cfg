SPECIFICATION Spec
CONSTANTS
  f1 = f1
  f2 = f2
  p1 = p1
  p2 = p2
  Files = {f1, f2}
  Procs = {p1}
  Stamp <- Stamps
  NBlocks = 8
  FirstData = 1
  SCAN = 6
  NDIRECT = 1
  NINDIRECT = 2
  Sizes = {0, 3, 4, 5}
  Seeks = {0, 1, 2, 3}
  COUNTS = 64
  ReadSeeks = {0, 1, 3, 4}
  Faults = {"efault"}
INVARIANTS
  BlocksExact
  FreeReturns
  WriteComplete
PROPERTIES
  FilesImplemented
