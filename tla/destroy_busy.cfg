SPECIFICATION Spec
CONSTANTS
  Fork = {r, a}
  RootFork = r
  Slot = {1, 9}
  BadSlot = 9
  MaxSends = 0
  MaxRecvs = 2
  MaxFlushes = 0
  TokenSends = {}
  TokenRecvs = {2}
  TailCancel = FALSE
  WrapCancel = FALSE
  BlockCapacity = 8
  PeerMayFail = FALSE
INVARIANT NeverTerminates
CHECK_DEADLOCK FALSE
