SPECIFICATION FairSpec
CONSTANTS
  p = p
  a = a
  b = b
  d = d
  Node = {p, a, b, d}
  Origin = p
  Scenarios <- Network
  FirstSeqno = 65535
  Ttl = 64
INVARIANTS
  TypeOK
  LoopFree
  DistanceDecreases
  TablesAgreeAtRest
  NewerSeqnoEndsStarvation
PROPERTY
  Settles
CHECK_DEADLOCK FALSE
