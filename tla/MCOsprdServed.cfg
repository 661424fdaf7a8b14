SPECIFICATION FairSpec
CONSTANTS
  p1 = p1
  p2 = p2
  p3 = p3
  p4 = p4
  r1 = r1
  r2 = r2
  w1 = w1
  w2 = w2
  w3 = w3
  w4 = w4
  Procs = {p1, p2, p3, p4}
  Files = {r1, w1, w2, w3, w4}
  Owner <- OneReadFile
  Writable = {w1, w2, w3, w4}
  Smp = FALSE
  Ops = {"acquire", "release"}
  NoPid = NoPid
  MaxTicket = 4
INVARIANTS
  DeadlockDetected
PROPERTIES
  LockImplemented
  EveryoneServed
