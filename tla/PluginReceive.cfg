SPECIFICATION Spec
CONSTANTS
  Size = 3
  RBufSize = 3
  MaxSamples = 5
  MaxBurst = 3
INVARIANTS
  TypeOK
  RingHoldsUnread
  RecBufferIsARun
  ThreadsEndBeforeDelete
PROPERTIES
  ShutdownCompletes
  NextDatagramRecovers
  FifoSpec
