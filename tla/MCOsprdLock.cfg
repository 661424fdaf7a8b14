SPECIFICATION Spec
CONSTANTS
  p1 = p1
  p2 = p2
  p3 = p3
  p4 = p4
  r1 = r1
  r2 = r2
  w1 = w1
  w2 = w2
  w3 = w3
  w4 = w4
  Procs = {p1, p2, p3, p4}
  Files = {w1, w2, r1, r2}
  Owner <- FourOwners
  Writable = {w1, w2}
  Smp = FALSE
  Ops = {"acquire", "try", "signal"}
  NoPid = NoPid
  MaxTicket = 5
INVARIANTS
  MutualExclusion
  CountsMatch
  TicketsAhead
SYMMETRY MCSymmetry
