SPECIFICATION FairSpec
CONSTANTS
  CharSigned = TRUE
  MaxTails = 2
INVARIANT SignalAlive
CHECK_DEADLOCK FALSE
