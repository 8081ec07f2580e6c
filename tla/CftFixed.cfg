SPECIFICATION FairSpec
CONSTANTS
  Producer = {1, 2, 3}
  Candidate = {1, 2}
  MaxNum = 3
  MaxElections = 2
  MaxRestarts = 0
  WritesFail = FALSE
INVARIANTS
  ElectionSafety
  LeaderHasIrreversible
  NoConsensusFailure
PROPERTIES
  LeaderMakesProgress
  ImplementsIrreversibility
CHECK_DEADLOCK FALSE
