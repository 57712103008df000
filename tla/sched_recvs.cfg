SPECIFICATION FairSpec
CONSTANTS
  Fork = {r, a}
  RootFork = r
  Slot = {1, 9}
  BadSlot = 9
  MaxSends = 1
  MaxRecvs = 2
  MaxFlushes = 1
  TokenSends = {}
  TokenRecvs = {2}
  TailCancel = FALSE
  WrapCancel = FALSE
  BlockCapacity = 8
  PeerMayFail = TRUE
INVARIANTS RecvsQueued NoMissedRecv FlushHeld FlushSound SafeToDestroy
PROPERTY CloseDrains
CHECK_DEADLOCK FALSE
