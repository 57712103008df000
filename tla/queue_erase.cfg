SPECIFICATION QueueSpec
CONSTANTS
  DefaultCapacity = 2
  MaxItems = 5
INVARIANT EraseWorks
CHECK_DEADLOCK FALSE
