SPECIFICATION Spec
CONSTANTS
  Node = {n1, n2}
  World <- LongChain
  Final <- NewLong
  QuietStart = FALSE
INVARIANT HeadIsBeingSent
CHECK_DEADLOCK FALSE
