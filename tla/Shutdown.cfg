CONSTANT
  Workers = 2
SPECIFICATION Spec
CHECK_DEADLOCK FALSE
INVARIANTS TypeOK SignalsEndNothing  IdleHasNoTask NoneDetached
PROPERTY FailureEndsProcess
