SPECIFICATION RequestSpec
CONSTANTS
  SegKeys = {k1, k2}
  NumFetches = 3
  SegMax = 2
  SegLengths = {1, 2}
  Inflight = 3
  CacheBytes = 3
  CacheEntries = 2
  PrefetchSlots = 2
  SegNumbers = {0, 3}
  SegTicks = 4
  PtsWrap = 16
  CacheLimit = 1
  Encoders = 1
  NumAsks = 3
  MaxSegRestarts = 1
  Spellings = {"u1", "u2"}
  Norm <- MCNorm
  NumCallers = 3
  MaxProbes = 1
  ProbeCacheMax = 1
  PosTTL = 2
  NegTTL = 1
  MaxProbeClock = 2
  NumStreams = 1
  FileLengths = {0, 3}
  MaxRemovals = 1
  Torrents = {t1, t2}
  Rates = {0, 1}
  Conns = 2
  MinPeers = 1
  SeedRatioOn = TRUE
  MaxSettings = 2
  MaxEdits = 3
  MaxReleases = 2
  MaxDefRestarts = 1
INVARIANTS
  SegMemory
  
PROPERTIES
  NoSecondProbe
  ServesTheRange
  DefsForward
  
CHECK_DEADLOCK FALSE
