SPECIFICATION Spec
CONSTANTS
  Fork = {r, a}
  RootFork = r
  Slot = {1, 9}
  BadSlot = 9
  MaxSends = 3
  MaxRecvs = 0
  MaxFlushes = 0
  TokenSends = {2}
  TokenRecvs = {}
  TailCancel = TRUE
  WrapCancel = FALSE
  BlockCapacity = 8
  PeerMayFail = FALSE
INVARIANT SendsReachable
CHECK_DEADLOCK FALSE
