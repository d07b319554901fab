CONSTANTS
  None = None
  a = a
  part = part
  h1 = h1
  h2 = h2
  Hash = {h1, h2}
  Word = {a, h1}
  ExplicitName = {a, 1, h1}
  Target <- MCTarget
  ProperPrefix <- MCPrefix
  Part <- MCPart
  Requests <- MCRequests
  Paths <- Dirs
CHECK_DEADLOCK FALSE
SPECIFICATION MCSpec
INVARIANTS
  TypeOK
  ClashOnlyByNumbering
  NeverGuesses
  HashIsStable
  AnswersAreTrue
  HashLeadsOn
  SandboxIsAsGranted
PROPERTIES
  RecordsMoveForward
  NewFindsItsOwn
  CommandsEnd
