CONSTANTS
  Sources = {s1}
  Channels = {c1}
  u1 = u1
  u2 = u2
  URLs = {u1, u2}
  LongURLs = {u2}
  SourceDocuments = {d1}
  Refreshes = {r1}
  Ticker = ticker
  RefreshSlots = 1
  Intervals = {0, 1}
  Requested <- MCRequested
  MinimumInterval = 1
  MaxEnabledSources = 1
  MaxEnabledChannels = 1
  InputBudget = 3
  ChannelSizes = {2}
  MaxUpdates = 3
  MaxChannelUpdates = 2
  MaxClock = 1
  Users = {m1}
  NoUser = nobody
  Tokens = {t1, t2}
  Downloads = {w1, w2}
  Unlimited = 0
  Limits = {1}
  MaxUserUpdates = 2
  MaxDay = 1
  MaxAnswers = 2
  Nodes = {n1, n2, n3}
  Tags = {a, b}
  NoTag = none
  Remotes = {s1}
  RemoteTags = {x}
  Members = {m1}
  Editors = {e1}
  MaxManualNodes = 2
  MaxRevisions = 2
  MaxMarks = 1
  Outbounds = {o1, o2, o3}
  Groups = {g1, g2}
  o1 = o1
  o2 = o2
  o3 = o3
  g1 = g1
  g2 = g2
  NoDetour = none
  Drafts <- MCDrafts
  Requests = {r1}
  Documents <- MCDocuments
  Broken <- MCBroken
  None = none
  MaxSaves = 2
  MaxEdits = 1
  MaxSessions = 1
  MaxRevision = 1
  Peers = {p1, p2}
  Fingerprints = {f1}
  NoFingerprint = none
  Logins = {l1, l2}
  PeerLimit = 1
  GlobalLimit = 2
  Window = 2
  MaxLogins = 1
  MaxClients = 2
  MaxLoginTime = 3
  Recorders = {k1, k2}
  NoEntry = none
  LogSources = {core}
  AnySource = any
  PageLimit = 1
  MaxRows = 3
  MaxEventTime = 1
  Readers = {b1, b2}
  Interval = 1
  MaxGenerations = 3
  MaxVersion = 3
  MaxFeedTime = 2
SPECIFICATION Spec
SYMMETRY Symmetry
INVARIANTS ScheduleMatchesSources InputsAreBounded QuotaIsShared NoDependencyCycle DocumentIsClosed  SessionsAreCurrent AttemptsAreLimited EventsAreReadOnce
PROPERTIES RefreshesMatchTheirSource   AnswersAreTrue SnapshotsNeverGoBack
CHECK_DEADLOCK FALSE
