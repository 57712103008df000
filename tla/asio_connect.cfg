SPECIFICATION FairSpec
CONSTANTS
  CharSigned = TRUE
  MaxTails = 2
INVARIANTS LastOneResumes NotAbandoned RefusedRetried OutcomeTrue
PROPERTY StopEnds
CHECK_DEADLOCK FALSE
