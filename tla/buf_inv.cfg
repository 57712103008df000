SPECIFICATION Spec
CONSTANTS
  Caller <- OneWay
  MaxAwaits = 2
  MaxLen = 2
  MayStop = TRUE
  MayClose = TRUE
CHECK_DEADLOCK FALSE
INVARIANTS TypeOK SizeMatches NoStarvedRecv
