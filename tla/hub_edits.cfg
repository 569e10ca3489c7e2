SPECIFICATION Spec
CONSTANTS
  Conns = {a, b}
  Nodes = {n}
  Meta = meta
  Slots = {1, 2, 3}
  MaxEdits = 2
  MaxMarks = 1
  MaxChanges = 2
  MaxOpens = 2
SYMMETRY HubSymmetry
INVARIANTS
  TypeOK
  NoEditForgotten
  CopiesAgree
CHECK_DEADLOCK FALSE
