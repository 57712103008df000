SPECIFICATION Spec
CONSTANTS
  Fork = {r, a}
  RootFork = r
  Slot = {1, 9}
  BadSlot = 9
  MaxSends = 1
  MaxRecvs = 2
  MaxFlushes = 1
  TokenSends = {}
  TokenRecvs = {2}
  TailCancel = FALSE
  WrapCancel = FALSE
  BlockCapacity = 8
  PeerMayFail = TRUE
CHECK_DEADLOCK FALSE
INVARIANTS RecvsCounted HeadInProgress CauseInv SentInv FlushInv DestroyInv
