CONSTANT MaxStack = 2
SPECIFICATION Spec
PROPERTY CommandKept
CHECK_DEADLOCK FALSE
