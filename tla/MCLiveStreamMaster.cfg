SPECIFICATION FairSpec
CONSTANTS
  Kinds = {"master"}
  Failing = {}
  Ahead = 1
  CacheCap = 2
  KnownCap = 3
  Window = 3
  DashWindow = 1
  MaxSeq = 3
  Chunks = 1
PROPERTIES FollowsOrigin
CHECK_DEADLOCK FALSE
