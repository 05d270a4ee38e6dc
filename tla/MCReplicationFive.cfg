CONSTANTS
  n1 = n1
  n2 = n2
  n3 = n3
  n4 = n4
  n5 = n5
  Node = {n1, n2, n3, n4, n5}
  InOrder = TRUE
  MaxTerm = 3
  MaxSlot = 1
  MaxWrites = 1
  MaxCalls = 1
SPECIFICATION Spec
SYMMETRY Symmetry
CONSTRAINT Turns
CHECK_DEADLOCK FALSE
INVARIANT ChosenStays
