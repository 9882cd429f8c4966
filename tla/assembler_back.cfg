CONSTANTS
  a = a
  b = b
  Labels = {a, b}
  NoLabel = NoLabel
  OpSize = 1
  WordSize = 2
  MaxSize = 9
SPECIFICATION Spec
SYMMETRY Symmetry
INVARIANTS JumpsLand
