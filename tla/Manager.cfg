SPECIFICATION FairSpec
CONSTANTS
  v1 = v1
  v2 = v2
  Servers = {v1, v2}
  Connections <- MCConnections
  Calls = {k1, k2}
  Streams = {s1}
  MaxCommands = 2
  MaxEdits = 1
  MaxClients = 2
  MaxPushes = 4
  None = None
INVARIANT AskedIsDialled
 
PROPERTY CallsReturn
PROPERTY PacketsGoOn
CHECK_DEADLOCK FALSE
