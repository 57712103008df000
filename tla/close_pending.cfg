SPECIFICATION FairSpec
CONSTANTS
  Fork = {r, a}
  RootFork = r
  Slot = {1, 9}
  BadSlot = 9
  MaxSends = 0
  MaxRecvs = 1
  MaxFlushes = 0
  TokenSends = {}
  TokenRecvs = {}
  TailCancel = FALSE
  WrapCancel = FALSE
  BlockCapacity = 8
  PeerMayFail = FALSE
PROPERTY CloseCancelsAll
CHECK_DEADLOCK FALSE
