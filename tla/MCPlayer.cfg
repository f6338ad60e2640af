SPECIFICATION Spec
CONSTANTS
  Players = {p1, p2}
  Spotify = {}
  Rpcs = {r1, r2}
  NoPlayer = NoPlayer
  Reopens = TRUE
SYMMETRY Symmetry
INVARIANTS TypeOK NoOrphan CancelAborts EndedSinkClosed Silenced ErrorCarried
PROPERTY KeepsPromise
CHECK_DEADLOCK FALSE
