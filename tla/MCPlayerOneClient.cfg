SPECIFICATION FairSpec
CONSTANTS
  Players = {p1, p2}
  Spotify = {p2}
  Rpcs = {r1}
  NoPlayer = NoPlayer
  Reopens = FALSE
INVARIANT UnpausedIsPlaying
PROPERTY CancelEnds
CHECK_DEADLOCK FALSE
