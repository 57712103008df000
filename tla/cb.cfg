SPECIFICATION RingSpec
CONSTANTS
  Callback = {a, b}
  NullHandle = null
  ArraySize = 4
  MinVecSize = 8
  MaxPushes = 7
INVARIANTS SizeKept FifoUntilGrown
CHECK_DEADLOCK FALSE
