SPECIFICATION Spec
CONSTANTS
  c1 = c1
  c2 = c2
  c3 = c3
  None = None
  Clients = {c1, c2, c3}
  MaxClients = 3
  MaxData = 4
  Script <- ScriptShort
  Codes <- OneRemote
  Number <- Numbers
  Text <- Words1
  Leavers = {c1}
  Eager = {}
PROPERTIES
  HealthyClientsStay
CHECK_DEADLOCK FALSE
