SPECIFICATION MCSpec
CONSTANTS
  Calls = {c1, c2}
  Forward = TRUE
  MaxConns = 2
  MaxNotes = 1
  Subscribers = {s1}
  Capacity = 1
  MaxEvents = 3
  Kinds <- MCKinds
  Filters <- MCFilters
  SnapKind <- SnapClient
  OtherKinds <- MCOthers
  Parts = {"restarts"}
  Home = "zero"
  Servers = {"zero", "den"}
  Tokens = {"k1", "r1", "r2"}
  Chosen = {"k1"}
  SearchPaths <- MCSearchPaths
  Contents = {}
  Broken = Broken
  Lan = {"x", "y"}
  Bridge = "bridge"
  Here = "den"
  MaxEdits = 2
  None = None
INVARIANTS PrintedTokenWorks
CHECK_DEADLOCK FALSE
