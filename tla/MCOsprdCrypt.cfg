SPECIFICATION Spec
CONSTANTS
  p1 = p1
  p2 = p2
  good = good
  Procs = {p1, p2}
  KEY_LENGTH = 2
  NSectors = 2
  Passwords = {good}
  NoPassword = NoPassword
  TooLong = TooLong
  BUFSIZ = 2
  Spans <- MCSpans
  ZeroSpans <- MCZeroSpans
  Enomem = TRUE
  Sleeps = FALSE
INVARIANTS
  Recoverable
  ReadsSensible
  AuthCurrent
SYMMETRY MCSymmetry
