SPECIFICATION FairSpec
CONSTANTS
  Node = {n1, n2}
  World <- OneChain
  Final <- New
  QuietStart = FALSE
PROPERTY BlockIsPosted
CHECK_DEADLOCK FALSE
