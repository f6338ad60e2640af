SPECIFICATION MCFair
CONSTANTS
  Calls = {c1, c2}
  Forward = TRUE
  MaxConns = 2
  MaxNotes = 1
  Subscribers = {s1}
  Capacity = 1
  MaxEvents = 3
  Kinds <- MCKinds
  Filters <- MCFilters
  SnapKind <- SnapClient
  OtherKinds <- MCOthers
  Parts = {"calls", "events", "restarts", "discovery"}
  Home = "zero"
  Servers = {"zero", "den"}
  Tokens = {"k1", "r1"}
  Chosen = {"k1"}
  SearchPaths <- MCSearchPaths
  Contents <- MCContents
  Broken = Broken
  Lan = {"x", "y"}
  Bridge = "bridge"
  Here = "den"
  MaxEdits = 2
  None = None
INVARIANTS MCTypeOK NoCallerForgotten OkIsHandledOnce NoSilentLoss
  OnlyWithToken RestartKeepsToken
PROPERTIES HandledByNamed CallsEnd
CHECK_DEADLOCK FALSE
