SPECIFICATION SSpec
CONSTANTS
  good = good
  toy = toy
  old = old
  d1 = d1
  d2 = d2
  t1 = t1
  t2 = t2
  NoPlugin = NoPlugin
  NoThread = NoThread
  Null = Null
  Garbage = Garbage
  Plugins = {good, toy, old}
  Exports <- ExportsToy
  Daemons = {d1, d2}
  Devices = {toy}
  Kinds = {"IRToy", "MCE"}
  Receivers = {t1, t2}
INVARIANTS
  STypeOK
  OneReceiver
  OneDaemon
  DaemonHasPlugin
  PluginCleanAtInit
  NobodyUsesFreedRemotes
PROPERTIES
  HandlerReturns
  EndsOnRequest
  ReceivesAgain
CHECK_DEADLOCK FALSE
