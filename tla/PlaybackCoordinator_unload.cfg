SPECIFICATION Spec
CONSTANT MaxCommands = 3
INVARIANTS StoppedIsQuiet
CHECK_DEADLOCK FALSE
