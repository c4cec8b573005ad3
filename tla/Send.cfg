SPECIFICATION Spec
CONSTANTS
  WBUF_SIZE = 24
  Remote <- RemoteAll
  Code <- CodeAll
  Repeats = {0, 1, 3}
  RepeatCap = 2
  HeardLengths = {5}
  MaxSends = 2
  MaxDecodes = 1
INVARIANTS
  TypeOK
  Alternates
  WholeSend
  SentAsAsked
  FailsOnlyIfImpossible
PROPERTIES
  ConstLength
CHECK_DEADLOCK FALSE
