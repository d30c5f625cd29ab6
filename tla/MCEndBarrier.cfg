CONSTANTS
  N = 2
  MaxCount = 7
SPECIFICATION Spec
INVARIANT EndBarrier
