SPECIFICATION FairSpec
CONSTANTS
  UintMax = 255
  WorldSize = 2
  DefaultCapacity = 2
  DefaultBears = 1
  Arguments <- MCArguments
INVARIANTS
  ParsesAsWritten
  RefusesOnlyErrors
  NoOptionIsSwallowed
  ConfigIsSound
PROPERTIES
  RunsTogether
CHECK_DEADLOCK FALSE
