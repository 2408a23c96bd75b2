CONSTANTS
  Dirs = {a, b, c}
  NoDir = none
  Starters = {q1, q2}
  NoStarter = none
  MaxWrites = 1
  MaxMoves = 2
  MaxDirEdits = 2
  Releases = {v1, v2, v3}
  Stable = {v1, v2}
  PerPage = 1
  MaximumPages = 3
  RefreshInterval = 1
  MaxChanges = 4
  MaxCatalogTime = 2
  Digests = {d1, d2}
  Sound = {d1}
  Assets = {s1}
  UserSources = {s2}
  Jobs = {j1, j2}
  NoDigest = none
  MaxCrashes = 2
  Processes = {k1, k2}
  NoProcess = none
  MaxCount = 1
  MonthLength = 2
  PersistAfter = 2
  CompleteGap = 1
  Retention = 1
  MaxSetBacks = 1
  MaxTrafficTime = 2
  Policies <- MCPolicies
  ChunkLines = 2
  LinePieces = 1
  MaxPieces = 3
  MaxDay = 1
  MaxEvents = 1
  Updaters = {u1, u2}
  NoUpdater = none
  MaxVersion = 3
  Rebuilt = {}
  Misbuilt <- MCMisbuilt
  MaxReplacements = 1
  MaxOutages = 1
  ServiceDirs = {a, b, c}
  DefaultDir = a
  Unusable = {c}
  Settings = etc
  MaxEdits = 1
SPECIFICATION Spec
INVARIANTS NothingIsLost ServesTheData CoresAreInstalled TrafficIsBookedOnce  ReadersSeeTheFile  
PROPERTIES RefreshIsExact UpdatesReplaceWhatTheySaw
CHECK_DEADLOCK FALSE
