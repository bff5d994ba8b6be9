SPECIFICATION Spec
CONSTANT Jobs = 2
INVARIANT NeverOnOnePort
CHECK_DEADLOCK FALSE
