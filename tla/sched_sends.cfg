SPECIFICATION Spec
CONSTANTS
  Fork = {r, a}
  RootFork = r
  Slot = {1, 9}
  BadSlot = 9
  MaxSends = 3
  MaxRecvs = 1
  MaxFlushes = 0
  TokenSends = {1, 2}
  TokenRecvs = {}
  TailCancel = FALSE
  WrapCancel = FALSE
  BlockCapacity = 8
  PeerMayFail = FALSE
INVARIANTS TypeOK SendsReachable SendQueuesAgree SentInOrder OneCause StatusTellsTask
CHECK_DEADLOCK FALSE
