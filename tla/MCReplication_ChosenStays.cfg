CONSTANTS
  n1 = n1
  n2 = n2
  n3 = n3
  Node = {n1, n2, n3}
  InOrder = FALSE
  MaxTerm = 1
  MaxSlot = 2
  MaxWrites = 2
  MaxCalls = 2
SPECIFICATION Spec
SYMMETRY Symmetry
CHECK_DEADLOCK FALSE
INVARIANT ChosenStays
