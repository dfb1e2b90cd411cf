SPECIFICATION Spec
CONSTANT MaxInterrupts = 2
INVARIANT ClientReleased
CHECK_DEADLOCK FALSE
