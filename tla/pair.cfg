SPECIFICATION FairSpec
CONSTANTS
  Fork = {r, a, b}
  RootFork = r
  NumMessages = 2
  CloseAfter = 4
INVARIANTS Framed
PROPERTIES ImplementsChannel AllArrive
CHECK_DEADLOCK FALSE
