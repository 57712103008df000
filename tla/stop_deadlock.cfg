SPECIFICATION FairSpec
CONSTANTS
  MaxSends = 2
PROPERTY StopCallReturns
CHECK_DEADLOCK FALSE
