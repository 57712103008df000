SPECIFICATION Spec
CONSTANTS
  CharSigned = TRUE
  MaxTails = 2
CHECK_DEADLOCK FALSE
INVARIANTS TypeOK StopNotLost
