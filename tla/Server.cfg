SPECIFICATION Spec
CONSTANTS
  a = a
  b = b
  a1 = a1
  a2 = a2
  b1 = b1
  Clients = {a, b}
  Keys = {a1, a2, b1}
  Owner <- MCOwner
  Socket <- MCSocket
  UDPKeys = {a1}
  AddrMin = 0
  MaxSessions = 3
  MaxAuth = 2
  MaxCrossed = 1
  None = None
INVARIANT SessionsMatch
INVARIANT InterfacesMatch
 
PROPERTY OthersCarryOn
CHECK_DEADLOCK FALSE
