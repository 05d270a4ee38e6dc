CONSTANTS
  n1 = n1
  n2 = n2
  n3 = n3
  Node = {n1, n2, n3}
  InOrder = TRUE
  MaxTerm = 2
  MaxSlot = 3
  MaxWrites = 5
  MaxCalls = 1
SPECIFICATION Spec
SYMMETRY Symmetry
CHECK_DEADLOCK FALSE
INVARIANT AnchorsInLog
