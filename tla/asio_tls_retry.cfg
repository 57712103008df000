SPECIFICATION FairSpec
CONSTANTS
  CharSigned = TRUE
  MaxTails = 2
PROPERTY StopEndsRetries
CHECK_DEADLOCK FALSE
