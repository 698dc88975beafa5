SPECIFICATION Spec
CONSTANTS
  Ports = {p1, p2}
  Sessions = {s1, s2, s3}
  SentIDs = {0, s1, s2, s3}
  KeepaliveProbes = 1
  MaxSize = 1
  MaxSessionsCount = 1
  MaxDatagrams = 4
  None = None
INVARIANT StuckExplained
INVARIANT CountRight
CHECK_DEADLOCK FALSE
SYMMETRY Symmetry
