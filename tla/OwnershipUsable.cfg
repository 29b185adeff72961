CONSTANT MaxDepth = 2
SPECIFICATION Spec
INVARIANT ResultsUsable
CHECK_DEADLOCK FALSE
