SPECIFICATION StreamSpec
CONSTANTS
  Ids = {a}
  Clients = {c1, c2}
  Reaper = reaper
  MaxSessions = 1
  Nil = Nil
  MaxGen = 2
  MaxExits = 1
  NumRequests = 3
  MaxIdle = 2
  MaxPerKey = 1
  MaxOpen = 2
  MaxCancels = 1
  PoolJanitor = PoolJanitor
INVARIANTS
  SessionDirsKept
  PoolExact
  InSync
PROPERTIES
  StreamsEnd
CHECK_DEADLOCK FALSE
