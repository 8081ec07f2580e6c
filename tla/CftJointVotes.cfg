SPECIFICATION Spec
CONSTANTS
  Scenarios <- Grows
PROPERTY
  ElectedByMajorities
CHECK_DEADLOCK FALSE
