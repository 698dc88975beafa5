SPECIFICATION FairSpec
CONSTANTS
  ThreadingBy = "endpoint"
  MaxUint32 = 9
  MaxMsg = 6
  Window = 9
  MaxTime = 4
  WaitingListMaxTTL = 2
  WaitingListMaxSize = 3
  PayloadLength <- MCPayloadLength
INVARIANT LossExplained
PROPERTY Ordered
 
PROPERTY WaitsForReason
