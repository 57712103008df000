SPECIFICATION QueueSpec
CONSTANTS
  DefaultCapacity = 2
  MaxItems = 7
CHECK_DEADLOCK FALSE
INVARIANTS QueueTypeOK NoItemOutside
