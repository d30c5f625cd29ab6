\* Several calls.  The pool really may stop between two of them, so deadlock is
\* not an error here; NoHang says where it may not.
CONSTANTS
  N = 3
  Rounds = 3
SPECIFICATION Spec
INVARIANTS
  TypeOK
  NoSpuriousPass
  NobodyOutlivesThePool
  NoHang
PROPERTIES
  ShutdownCompletes
CHECK_DEADLOCK FALSE
