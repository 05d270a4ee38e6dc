SPECIFICATION FairSpec
CONSTANTS
  Clock = {k1}
  MaxStarts = 2
  Vacant = Vacant
  MaxWrites = 0
PROPERTIES HeartbeatsGoOn
CHECK_DEADLOCK FALSE
