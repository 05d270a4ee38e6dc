CONSTANTS
  n1 = n1
  n2 = n2
  n3 = n3
  Node = {n1, n2, n3}
  Uncertainty = 1
  LeaseLength = 3
  Skews = {0, 2}
  MaxTime = 5
  MaxSteps = 2
  MaxCampaigns = 2
  MaxWrites = 1
  MaxSends = 2
SPECIFICATION Spec
SYMMETRY Symmetry
CHECK_DEADLOCK FALSE
INVARIANTS TypeOK  LeaseOutlasted PromisesKept
PROPERTY ExternalConsistency
