SPECIFICATION Spec
CONSTANT MaxUpdates = 3
INVARIANT ApartNothingIsLost
CHECK_DEADLOCK FALSE
