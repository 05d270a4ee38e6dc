CONSTANTS
  n1 = n1
  n2 = n2
  n3 = n3
  o1 = o1
  o2 = o2
  NONE = NONE
  Node = {n1, n2, n3}
  Outside = {}
  NoMember = NONE
  Hints = {}
  MaxTerm = 3
  MaxSlot = 1
  MaxFaults = 0
SPECIFICATION Spec
SYMMETRY Symmetry
CONSTRAINT NetworkBound
CHECK_DEADLOCK FALSE
INVARIANT TermsOpenedByQuorum OneCampaignPerStart NoLeaderElected PanicNeedsFault
