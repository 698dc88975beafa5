SPECIFICATION Spec
CONSTANTS
  MaxPort = 2
  MaxConnectionAttempts = 1
  MaxConns = 3
  MaxFailures = 2
  None = None
CHECK_DEADLOCK FALSE
INVARIANT RemovedIsGone
