SPECIFICATION FairSpec
CONSTANTS
  CharSigned = TRUE
  MaxTails = 2
INVARIANT TailsAlive
CHECK_DEADLOCK FALSE
