SPECIFICATION Spec
CONSTANTS
  WBUF_SIZE = 2048
  Remote <- RemoteAll
  Tables <- TablesAll
  Keys <- KeyAll
  Foreign <- ForeignAll
  Errors <- ErrorsAll
  Silence = 1000000
  Patience = 30000
  Repeats = {0, 1, 2}
  MaxPresses = 2
  REC_SYNC = 8
  NoRemote = NoRemote
INVARIANTS
  HeardAsSent
  NoOtherCode
CHECK_DEADLOCK FALSE
