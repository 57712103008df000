SPECIFICATION Spec
CONSTANTS
  Fork = {r, a, b}
  RootFork = r
  NumMessages = 2
  CloseAfter = 4
CHECK_DEADLOCK FALSE
INVARIANTS PairInv ForkFifo PeerUnderstood
