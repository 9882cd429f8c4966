CONSTANTS
  a = a
  b = b
  Labels = {a, b}
  NoLabel = NoLabel
  OpSize = 1
  WordSize = 2
  MaxSize = 13
SPECIFICATION ForwardSpec
SYMMETRY Symmetry
INVARIANTS TypeOK ListsSound JumpsLand
PROPERTIES ImplementsTable
