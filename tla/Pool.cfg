SPECIFICATION PoolSpec
CONSTANTS
  Callers = {a, b}
  MaxDials = 3
  Replayable = {a}
  MaxRetries = 1
INVARIANTS
  PoolInv
  AtMostOnce
PROPERTIES
  CloseLeavesNothing
  CloseReleasesCalls
  ImplementsCalls
CHECK_DEADLOCK FALSE
