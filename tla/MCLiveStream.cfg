SPECIFICATION FairSpec
CONSTANTS
  Kinds = {"vod", "live", "dash", "undated"}
  Failing = {"manifest", "segment", "decode", "sink"}
  Ahead = 1
  CacheCap = 2
  KnownCap = 2
  Window = 2
  DashWindow = 1
  MaxSeq = 3
  Chunks = 1
INVARIANTS TypeOK Bookkept PlayedInOrder
PROPERTIES Ending FollowsOrigin
CHECK_DEADLOCK FALSE
