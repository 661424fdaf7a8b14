SPECIFICATION Spec
CONSTANTS
  a = a
  b = b
  c = c
  t = t
  p1 = p1
  Procs = {p1}
  Names = {a, b, c}
  LongName = LongName
  Targets = {t}
  NoTarget = NoTarget
  NInodes = 4
  PerBlock = 2
  MaxEntries = 4
  NFree = 3
  Caps = {1, 4}
  NoName = NoName
  NoFile = NoFile
INVARIANTS
  LinkCountExact
  BlocksConserved
  ReaddirOnce
PROPERTIES
  NamesImplemented
SYMMETRY MCSymmetry
