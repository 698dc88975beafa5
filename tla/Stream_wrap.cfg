SPECIFICATION Spec
CONSTANTS
  ThreadingBy = "session"
  MaxUint32 = 4
  MaxMsg = 7
  Window = 3
  MaxTime = 2
  WaitingListMaxTTL = 1
  WaitingListMaxSize = 3
  PayloadLength <- MCPayloadLength
INVARIANT ListConsistent
INVARIANT HeadNotReady
INVARIANT NeverFatal
PROPERTY NextAtOnce
CONSTRAINT BoundedDeliveries
