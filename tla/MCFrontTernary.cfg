SPECIFICATION Spec
CONSTANT MiddleLevel = 15
INVARIANT TreeAsWritten
CHECK_DEADLOCK FALSE
