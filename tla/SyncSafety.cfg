SPECIFICATION Spec
CONSTANTS
  Node = {n1, n2}
  World <- LongFork
  Final <- NewLong
  QuietStart = FALSE
SYMMETRY Symmetry
VIEW View
INVARIANTS
  NoConnectionError
  BlocksArriveInOrder
  PeerHasBlockIsTrue
  NotBothWaiting
CHECK_DEADLOCK FALSE
