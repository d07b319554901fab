CONSTANTS
  Client = {c1}
  MaxHistory = 2
  MaxChunks = 2
CHECK_DEADLOCK FALSE
SPECIFICATION Spec
INVARIANTS
  AttachedReceiveAll
