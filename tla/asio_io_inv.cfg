SPECIFICATION Spec
CONSTANT MaxAwaits = 3
CHECK_DEADLOCK FALSE
INVARIANTS TypeOK EmitAlive StopNotLost InitiationsApart
