SPECIFICATION Spec
CONSTANTS
  Sessions = {s1}
  Endpoints = {e1}
  Pushers = {p1, p2}
  MaxChannels = 3
  Channels <- MCChannels
  ChanSize = 1
  StreamCheck = TRUE
  MaxCreate = 2
  MaxPush = 2
  None = None
INVARIANT StreamsMatch
INVARIANT PushPanicExplained
PROPERTY PushOrderKept
CHECK_DEADLOCK FALSE
SYMMETRY PushersSymmetry
