CONSTANTS
  MaxOutput = 2
  MaxFaults = 1
CHECK_DEADLOCK FALSE
SPECIFICATION FairFollowSpec
PROPERTIES
  FollowAlwaysEnds
