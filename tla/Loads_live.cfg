SPECIFICATION LoadSpec
CONSTANTS
  ArcTargets <- SomeTargets
  NumArc = 3
  ArcMax = 1
  ArcMaxBytes = 1
  MaxArcRestarts = 1
  NumReaders = 2
  EntrySize = 2
  MaxFlights = 2
  Lens <- ArticleLens
  Posts <- SomePosts
  NumWorkers = 2
  NumNzbReaders = 1
  NzbKeys = {"k1"}
  NzbSigs = {"g1", "g2"}
  NumNzb = 3
  MaxNzbRestarts = 1
INVARIANTS
  PinnedSessions
  
  
  StreamedIsKept

  
CHECK_DEADLOCK FALSE
