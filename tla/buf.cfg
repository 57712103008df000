SPECIFICATION FairSpec
CONSTANTS
  Caller <- OneWay
  MaxAwaits = 2
  MaxLen = 2
  MayStop = TRUE
  MayClose = TRUE
INVARIANTS BytesConserved OneWaker
PROPERTY RecvServed
CHECK_DEADLOCK FALSE
