CONSTANTS
  MaxOutput = 2
  MaxFaults = 2
CHECK_DEADLOCK FALSE
SPECIFICATION FairSpec
INVARIANTS
  TypeOK
  OkIsComplete
  OneFailureIsRecorded
  NoFalseFailure
PROPERTIES
  ServiceEnds
  ImplementsLifetime
