SPECIFICATION Spec
CONSTANTS
  c1 = c1
  c2 = c2
  c3 = c3
  None = None
  Clients = {c1}
  MaxClients = 1
  MaxData = 8
  Script <- ScriptBlank
  Codes <- OneRemote
  Number <- Numbers
  Text <- Words1
  Leavers = {}
  Eager = {}
INVARIANTS
  RepliesMatchLines
CHECK_DEADLOCK FALSE
