SPECIFICATION FairSpec
CONSTANTS
  f1 = f1
  f2 = f2
  p1 = p1
  p2 = p2
  Files = {f1}
  Procs = {p1, p2}
  Stamp <- LoopingStamps
  NBlocks = 11
  FirstData = 1
  SCAN = 7
  NDIRECT = 1
  NINDIRECT = 2
  Sizes = {0, 2, 8, 10, 16}
  Seeks = {}
  COUNTS = 64
  ReadSeeks = {5}
  Faults = {"sleep"}
PROPERTIES
  CallsReturn
