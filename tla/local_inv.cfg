SPECIFICATION Spec
CONSTANTS
  Caller <- OneWay
  MaxAwaits = 2
  MaxLen = 2
  MayStop = TRUE
  MayClose = TRUE
  MayInject = TRUE
INVARIANTS TypeOK StreamInv
CHECK_DEADLOCK FALSE
