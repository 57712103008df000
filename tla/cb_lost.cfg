SPECIFICATION RingSpec
CONSTANTS
  Callback = {a, b}
  NullHandle = null
  ArraySize = 4
  MinVecSize = 8
  MaxPushes = 7
INVARIANTS HoldsFifo
CHECK_DEADLOCK FALSE
