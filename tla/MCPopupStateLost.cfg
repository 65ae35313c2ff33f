SPECIFICATION Spec
CONSTANT MaxUpdates = 2
INVARIANT CancelArrives
CHECK_DEADLOCK FALSE
