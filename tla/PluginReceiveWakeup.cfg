SPECIFICATION Spec
CONSTANTS
  Size = 4
  RBufSize = 2
  MaxSamples = 2
  MaxBurst = 1
PROPERTIES
  DataIsFetched
