CONSTANTS
  None = None
  Torn = Torn
  Client = {c1}
  Hash = {h1, h2}
  Word = {}
  ExplicitName = {1}
  MaxEvents = 0
  MaxFaults = 0
SPECIFICATION Spec
INVARIANTS
  UniqueLiveNames
