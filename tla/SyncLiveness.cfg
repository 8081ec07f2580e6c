SPECIFICATION FairSpec
CONSTANTS
  Node = {n1, n2}
  World <- Forks
  Final <- New
  QuietStart = TRUE
PROPERTY EventuallySynced
CHECK_DEADLOCK FALSE
