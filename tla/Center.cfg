CONSTANTS
  SizeMax = 31
  IntMax = 4
  Memory = 10
  MaxWidth = 11
  MaxText = 9
  MaxPadding = 10
SPECIFICATION Spec
INVARIANTS TypeOK CenterWidth CenterBalanced CenterReturns WideNeverReturns
CHECK_DEADLOCK FALSE
