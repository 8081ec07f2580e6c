SPECIFICATION Spec
CONSTANTS
  p1 = p1
  p2 = p2
  p3 = p3
  p4 = p4
  Order <- FourProducers
  Faulty = {p1}
  Scenarios <- FaultyLeader
INVARIANTS
  BestPreparedIsKnown
  OneForkPerTerm
  CommitsArePrepared
  ViewChangesReportCommits
PROPERTY
  ImplementsIrreversibility
CHECK_DEADLOCK FALSE
