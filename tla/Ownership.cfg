CONSTANT MaxDepth = 5
SPECIFICATION Spec
INVARIANTS TypeOK DeadExplained ReadsAlive
CHECK_DEADLOCK FALSE
