SPECIFICATION Spec
CONSTANTS
  MaxIncludes = 1
  MaxRemotes = 3
  MaxCodes = 1
  MaxSignals = 1
  MaxFiles = 4
  BitCounts <- ThreeBitCounts
  Flags <- ThreeFlags
  ToggleBits <- ThreeToggleBits
  Sections <- ThreeSections
  NoCodes = NoCodes
  CodeValues <- OneCode
  IncludeModes = {"none", "remote"}
INVARIANTS
  TypeOK
  ResultAsWritten
  AcceptedHaveCodes
  NothingLeaks
PROPERTIES
  ErrorsAreFinal
CHECK_DEADLOCK FALSE
