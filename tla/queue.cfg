SPECIFICATION QueueSpec
CONSTANTS
  DefaultCapacity = 2
  MaxItems = 7
INVARIANTS FrontHasValue
PROPERTY ImplementsQueue
CHECK_DEADLOCK FALSE
