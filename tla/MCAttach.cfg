CONSTANTS
  b = b
  d = d
  Key = {b, d}
  Detach <- MCDetach
  Sizes <- MCSizes
  Room = 1
  MaxTyped = 4
  MaxSaid = 1
CHECK_DEADLOCK FALSE
SPECIFICATION FairSpec
INVARIANTS
  KeysArePassedOn
  TerminalRestored
  BarIsFree
PROPERTIES
  DetachEnds
