SPECIFICATION BSpec
CONSTANTS
  c1 = c1
  c2 = c2
  c3 = c3
  None = None
  Clients = {c1, c2, c3}
  MaxClients = 2
  MaxData = 2
  Script <- ScriptSilent
  Codes <- NoRemotes
  Number <- NoRemotes
  Text <- NoRemotes
  Leavers = {c1, c2, c3}
  Eager = {}
  MessageLength = 3
INVARIANTS
  BroadcastArrives
SYMMETRY AllAlike
CHECK_DEADLOCK FALSE
