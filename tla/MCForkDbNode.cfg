SPECIFICATION Spec
CONSTANTS
  Self = 1
  LeaderOf <- MCLeaderOf
  MaxTerm = 2
  MaxNum = 3
  MaxStates = 5
  MaxRestarts = 1
INVARIANTS
  IndexIsBestChain
  HeadIsBest
  InvalidIsClosed
  RestartKeepsChain
  PendingExtendsHead
PROPERTY IrreversibleStays
CHECK_DEADLOCK FALSE
