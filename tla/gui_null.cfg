CONSTANT MaxStack = 2
SPECIFICATION Spec
INVARIANT NoNullUse
CHECK_DEADLOCK FALSE
