SPECIFICATION FairSpec
CONSTANTS
  Scenarios <- Changes
INVARIANTS
  OneIrreversibleFork
  HeaderClaimsAreTrue
  ProducersFollowHead
PROPERTIES
  ElectedByMajorities
  LeaderMakesProgress
CHECK_DEADLOCK FALSE
