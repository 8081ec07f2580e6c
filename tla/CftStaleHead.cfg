SPECIFICATION Spec
CONSTANTS
  Producer = {1, 2, 3}
  Candidate = {1, 2}
  MaxNum = 2
  MaxElections = 3
  MaxRestarts = 0
  WritesFail = FALSE
INVARIANT CandidateHeadIsBest
CHECK_DEADLOCK FALSE
