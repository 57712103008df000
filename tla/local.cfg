SPECIFICATION FairSpec
CONSTANTS
  Caller <- OneWay
  MaxAwaits = 2
  MaxLen = 2
  MayStop = TRUE
  MayClose = TRUE
  MayInject = TRUE
INVARIANTS OneWaker NoMissedMatch StreamInOrder SuccessMeansCopied
PROPERTY CloseEndsAwaits
CHECK_DEADLOCK FALSE
