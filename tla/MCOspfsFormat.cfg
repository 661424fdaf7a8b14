SPECIFICATION Spec
CONSTANTS
  NBlocks = 23
  NInodes = 13
  NDIRECT = 1
  NINDIRECT = 2
  BLKBITSIZE = 16
  BLKINODES = 4
  BLKENTRIES = 2
  NCACHE = 8
  HostData <- HostFiles
  Linked = {3, 6}
  Unreadable = {8}
  LongNames = {100}
  Hosts <- Trees
  LinkLists <- Links
  MaxEntries = 3
  MaxDepth = 2
INVARIANTS
  ImageRight
  SpaceExact
  AbortJustified
CHECK_DEADLOCK FALSE
