\* One worker and two calls are enough.
CONSTANTS
  N = 1
  Rounds = 2
SPECIFICATION Spec
PROPERTY EveryCallReturns
CHECK_DEADLOCK FALSE
