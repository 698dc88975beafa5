SPECIFICATION FairSpec
CONSTANTS
  Sessions = {s1}
  Endpoints = {e1, e2}
  Pushers = {p1, p2}
  MaxChannels = 2
  Channels <- MCChannels
  ChanSize = 1
  StreamCheck = FALSE
  MaxCreate = 1
  MaxPush = 2
  None = None
INVARIANT NeverOnClosed
PROPERTY PushedIsTaken
PROPERTY DeletedStreamsEnd
PROPERTY LockIsGranted
CHECK_DEADLOCK FALSE
