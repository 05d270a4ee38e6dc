SPECIFICATION FairSpec
CONSTANTS
  Clock = {k1, k2}
  MaxStarts = 3
  Vacant = Vacant
  MaxWrites = 2
INVARIANTS OnlyTheLeadersClockRuns 
PROPERTIES DroppedClocksEnd
CHECK_DEADLOCK FALSE
