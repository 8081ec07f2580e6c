SPECIFICATION Spec
CONSTANTS
  Producer = {1, 2, 3}
  Candidate = {1, 2}
  MaxNum = 2
  MaxElections = 2
  MaxRestarts = 1
  WritesFail = TRUE
INVARIANTS
  TypeOK
  ActiveBlockIffLeader
PROPERTY IrreversibleStays
CHECK_DEADLOCK FALSE
