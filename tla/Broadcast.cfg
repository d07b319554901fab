CONSTANTS
  Client = {c1, c2}
  MaxHistory = 2
  MaxChunks = 3
CHECK_DEADLOCK FALSE
SPECIFICATION FairSpec
INVARIANTS
  TypeOK
  StreamsAreContiguous
  NothingIsWithheld
PROPERTIES
  Arrives
  LeavingEnds
