SPECIFICATION Spec
CONSTANTS
  p1 = p1
  p2 = p2
  p3 = p3
  p4 = p4
  Order <- OvertakenOrder
  Faulty = {p1}
  Scenarios <- OvertakenLeader
INVARIANT
  OnlyDescendantsConsidered
CHECK_DEADLOCK FALSE
