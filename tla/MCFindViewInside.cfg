CONSTANTS
  Char = {a, b}
  MaxHaystack = 4
  MaxNeedle = 2
SPECIFICATION Spec
INVARIANT HitsInside
SYMMETRY Symmetry
