SPECIFICATION Spec
CONSTANTS
  Caller <- OneWay
  MaxAwaits = 2
  MaxLen = 2
  MayStop = FALSE
  MayClose = TRUE
  MayInject = FALSE
INVARIANTS NoDanglingCopy
CHECK_DEADLOCK FALSE
