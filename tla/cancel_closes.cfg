SPECIFICATION Spec
CONSTANTS
  Fork = {r, a}
  RootFork = r
  Slot = {1, 9}
  BadSlot = 9
  MaxSends = 1
  MaxRecvs = 0
  MaxFlushes = 0
  TokenSends = {1}
  TokenRecvs = {}
  TailCancel = FALSE
  WrapCancel = FALSE
  BlockCapacity = 8
  PeerMayFail = FALSE
INVARIANT CancelKeepsOpen
CHECK_DEADLOCK FALSE
