SPECIFICATION Spec
CONSTANTS
  Slot = {1, 2}
  MaxNode = 5
  Target = {}
  Aging = 1
  MaxOps = 7
  AgedOnly = TRUE
INVARIANTS Faithful
CHECK_DEADLOCK FALSE
