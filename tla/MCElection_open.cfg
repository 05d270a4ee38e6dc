CONSTANTS
  n1 = n1
  n2 = n2
  n3 = n3
  o1 = o1
  o2 = o2
  NONE = NONE
  Node = {n1}
  Outside = {o1, o2}
  NoMember = NONE
  Hints = {o1, n1, NONE}
  MaxTerm = 2
  MaxSlot = 1
  MaxFaults = 0
SPECIFICATION Spec
CONSTRAINT NetworkBound
CHECK_DEADLOCK FALSE
INVARIANT TypeOK NoVoteGranted ReplicationGateClosed OneDeadlinePerCampaign LeaderIsWatched
PROPERTY OnlyLeadersWrite
