SPECIFICATION Spec
CONSTANTS
  c1 = c1
  c2 = c2
  c3 = c3
  None = None
  Clients = {c1, c2, c3}
  MaxClients = 2
  MaxData = 4
  Script <- ScriptMixed
  Codes <- OneRemote
  Number <- Numbers
  Text <- Words1
  Leavers = {c1}
  Eager = {c1}
INVARIANTS
  TypeOK
  SlotsMatchConnections
  RepliesMatchLines
PROPERTIES
  ConnectionsHandled
  ClosedForAReason
  LinesAnswered
CHECK_DEADLOCK FALSE
