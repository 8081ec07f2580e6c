SPECIFICATION Spec
CONSTANTS
  p = p
  a = a
  b = b
  d = d
  Node = {p, a, b, d}
  Origin = p
  Scenarios <- Moves
  FirstSeqno = 65535
  Ttl = 64
INVARIANT
  NobodyStarvesAtRest
CHECK_DEADLOCK FALSE
