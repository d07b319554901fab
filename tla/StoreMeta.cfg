CONSTANTS
  None = None
  Torn = Torn
  Client = {c1}
  Hash = {h1}
  Word = {a}
  ExplicitName = {a}
  MaxEvents = 4
  MaxFaults = 0
SPECIFICATION Spec
INVARIANTS
  MetaMatchesState
