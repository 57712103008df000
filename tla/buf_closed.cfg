SPECIFICATION Spec
CONSTANTS
  Caller <- OneWay
  MaxAwaits = 2
  MaxLen = 2
  MayStop = FALSE
  MayClose = TRUE
INVARIANTS ClosedRefuses
CHECK_DEADLOCK FALSE
