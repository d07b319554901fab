CONSTANTS
  MaxOutput = 2
  MaxFaults = 0
CHECK_DEADLOCK FALSE
SPECIFICATION FollowSpec
INVARIANTS
  FollowedIsDrained
