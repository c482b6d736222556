SPECIFICATION Spec
CONSTANT Room = 1
INVARIANT FreedIdleAlways
CHECK_DEADLOCK FALSE
