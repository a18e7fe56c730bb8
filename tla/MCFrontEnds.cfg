SPECIFICATION Spec
CONSTANTS
  ShareOption = {}
  ForceSpider = FALSE
  MaxWire = 2
  MaxRuns = 2
  FeedNodes = {a, b}
  Hashes = {x, y, z}
  MaxSize = 2
  MaxTime = 2
  MaxLinks = 1
  MaxVotes = 3
  MaxLoads = 3
  MaxFailures = 1
  Callers = {p, q}
  HasWindow = TRUE
  MaxChecks = 3
  MaxDownloads = 2
  Sockets = {s1, w1}
  WebSockets = {w1}
  Torrents = {t1}
  MaxRequests = 2
  MaxClients = 2
  RowIds = {1, 2, 3, 4, 5}
  Rejected <- MCRejected
  Batch = 2
  Listed = {t1, t2}
  PeerHas = {t1, t2}
  MaxSearches = 2
  MaxAsked = 2
  PanelTorrents = {t1, t2}
  Nobody = nobody
  News = {n1, n2, n3, n4}
  MaxQueue = 2
  MaxDisplay = 2
CHECK_DEADLOCK FALSE
INVARIANT FrontEndsTypeOK
INVARIANT SettingsAreFollowed
INVARIANT FeedsAgree
INVARIANT UpdatesAreSound
INVARIANT MetricsAddUp
INVARIANT SweepSkipsNothing
INVARIANT WindowIsTruthful
PROPERTY EveryLookupEnds
