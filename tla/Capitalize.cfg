CONSTANTS
  Byte = {65, 97, 122, 123, 127, 128, 191, 193, 224, 255}
  SizeMax = 7
  MaxSize = 3
SPECIFICATION Spec
INVARIANTS TypeOK CutsKept
CHECK_DEADLOCK FALSE
