SPECIFICATION Spec
CONSTANT MaxWrites = 3
INVARIANT LastMessageKept
CHECK_DEADLOCK FALSE
