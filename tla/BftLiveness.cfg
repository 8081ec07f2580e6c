SPECIFICATION FairSpec
CONSTANTS
  p1 = p1
  p2 = p2
  p3 = p3
  p4 = p4
  Order <- FourProducers
  Faulty = {p1}
  Scenarios <- FailedLeader
PROPERTIES
  EventuallyStable
  StableMakesProgress
CHECK_DEADLOCK FALSE
