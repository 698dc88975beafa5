SPECIFICATION FairSpec
CONSTANTS
  MaxMsg = 2
  Endpoint <- MCEndpoint
  Slots = {o1, o2}
  MaxAttempts = 2
  MaxSize = 20
  MaxUint8 = 2
  SenderChSize = 1
INVARIANT SlotsApart
INVARIANT EntryKept
INVARIANT OneLateResend
INVARIANT AckFits
PROPERTY EverySettled
 
CHECK_DEADLOCK FALSE
