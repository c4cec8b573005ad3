SPECIFICATION Spec
CONSTANTS
  Remote <- RemoteAll
  MaxPresses = 3
  MaxSignals = 6
  MaxGarbled = 1
INVARIANTS
  TypeOK
  PressesReported
  NoGhostKeys
  MatchIsLongest
CHECK_DEADLOCK FALSE
