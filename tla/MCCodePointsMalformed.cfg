CONSTANTS
  Byte = {65, 128, 193, 228}
  MaxSize = 3
SPECIFICATION Spec
INVARIANT LenCountsCodePoints
