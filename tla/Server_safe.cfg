SPECIFICATION ServerSpec
CONSTANTS
  Remotes = {"r1"}
  NumRuns = 2
  RelayMax = 2
  RelayTTL = 0
  MaxRelayClock = 1
  MaxMinted = 3
  MaxFetched = 2
  MaxRefs = 1
  ScanEngines = {e1, e2}
  MaxReceived = 2
  Budgets = {0, 1, 3}
  ScanMaxAge = 2
  MaxLines = 4
  MaxTokens = 6
  MaxDepth = 3
  Prebuffer = 2
  HasPassword = TRUE
  HasSecret = TRUE
  Clients = {"lo", "c1"}
  Recorder = "lo"
  Acl = {}
  Content <- MCContent
  Resolved <- MCResolved
  Refs <- MCRefs
  Templates <- MCTemplates
  Under <- MCUnder
  MaxSeconds = 1
  MaxProxyClock = 2
  NumFiles = 3
  Begin <- ThreeBegin
  End <- ThreeEnd
  HeadPieces = 1
  TailPieces = 1
  Ahead = 1
  GuessedFile = 1
  Threads = {t1, t2, t3}
  Guesser = guesser
  Free = free
  Overlap = FALSE
  MaxReads = 2
  MaxAbandoned = 1
INVARIANTS
  
  BlameIsDeserved
  
  GrantBounds
  UrlsWork
  PrioritiesMatch
PROPERTIES
  QuietIsTrue
CHECK_DEADLOCK FALSE
