CONSTANTS
  MaxOutput = 1
  MaxFaults = 2
CHECK_DEADLOCK FALSE
SPECIFICATION MCSpec
INVARIANTS
  ExitedVerdictIsTrue
  ReadyMeansStarted
  DrainedAtDeath
PROPERTIES
  CreatorAnswered
  FollowEnds
