CONSTANTS
  None = None
  Torn = Torn
  Client = {c1, c2}
  Hash = {h1}
  Word = {a}
  ExplicitName = {a}
  MaxEvents = 2
  MaxFaults = 2
SPECIFICATION FairSpec
INVARIANTS
  TypeOK
  HistoryInOrder
  MetaNeverAhead
  CommittedIsDocumented
  EventsFollowStatus
PROPERTIES
  ImplementsRegistry
  LockIsReleased
