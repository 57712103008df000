SPECIFICATION Spec
CONSTANTS
  Fork = {r, a}
  RootFork = r
  Slot = {1, 9}
  BadSlot = 9
  MaxSends = 0
  MaxRecvs = 3
  MaxFlushes = 1
  TokenSends = {}
  TokenRecvs = {2,3}
  TailCancel = FALSE
  WrapCancel = FALSE
  BlockCapacity = 8
  PeerMayFail = FALSE
INVARIANT FlushComplete
CHECK_DEADLOCK FALSE
