\* Four threads: a last arriver, one that waits and two that may run ahead.
CONSTANTS
  N = 4
  MaxCount = 7
SPECIFICATION Spec
INVARIANTS
  TypeOK
  StartBarrier
  CounterIsExact
  OneOpener
  RestoreIsLast
PROPERTIES
  EveryoneReturns
  ImplementsRendezvous
