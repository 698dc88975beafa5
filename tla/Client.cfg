SPECIFICATION FairSpec
CONSTANTS
  MaxPort = 2
  MaxConnectionAttempts = 2
  MaxConns = 3
  MaxFailures = 2
  None = None
INVARIANT SliceMatches
INVARIANT ConnectedIsWhole
INVARIANT ExitCloses
CHECK_DEADLOCK FALSE
PROPERTY ExitEnds
