SPECIFICATION FairSpec
CONSTANTS
  n1 = n1
  n2 = n2
  n3 = n3
  Node = {n1, n2, n3}
  LastBlock = 7
  Scenarios <- DeletedRow
PROPERTY EventuallyConverged
CHECK_DEADLOCK FALSE
