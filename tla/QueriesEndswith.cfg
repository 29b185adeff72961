CONSTANTS
  Char = {a, b}
  MaxHaystack = 2
  MaxNeedle = 2
SPECIFICATION QuerySpec
INVARIANT EndswithFits
CHECK_DEADLOCK FALSE
