SPECIFICATION FairSpec
CONSTANTS
  CharSigned = FALSE
  MaxTails = 2
INVARIANT NotAbandoned
CHECK_DEADLOCK FALSE
