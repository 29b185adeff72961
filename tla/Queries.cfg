CONSTANTS
  Char = {a, b}
  MaxHaystack = 4
  MaxNeedle = 3
SPECIFICATION QueryFairSpec
INVARIANTS QueryTypeOK FindLeftmost CountMaximal EndswithAgrees
PROPERTY QueryEnds
CHECK_DEADLOCK FALSE
