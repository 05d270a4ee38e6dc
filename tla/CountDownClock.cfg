SPECIFICATION FairClockSpec
CONSTANTS
  Clock = {k1, k2}
  MaxStarts = 3
INVARIANTS OneTask
PROPERTIES KeepsPromise CancelEndsTasks
