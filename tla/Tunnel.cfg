SPECIFICATION FairSpec
CONSTANTS
  Packets <- MCPackets
  Threads = {t1, t2}
  Capacity = 1
  InitialEndpoints = 1
  IncrementEndpoints = 1
  StreamTTL = 2
  StreamCheckInterval = 1
  MaxDelay = 1
  MaxPackets = 4
  None = None
INVARIANT NumbersFresh
PROPERTY CloseEnds
CHECK_DEADLOCK FALSE
