SPECIFICATION Spec
CONSTANTS
  Fork = {r, a}
  RootFork = r
  Slot = {1, 9}
  BadSlot = 9
  MaxSends = 1
  MaxRecvs = 2
  MaxFlushes = 0
  TokenSends = {}
  TokenRecvs = {}
  TailCancel = FALSE
  WrapCancel = FALSE
  BlockCapacity = 8
  PeerMayFail = TRUE
INVARIANT ErrorNamesCause
CHECK_DEADLOCK FALSE
