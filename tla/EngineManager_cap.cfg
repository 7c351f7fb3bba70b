SPECIFICATION FairSpec
CONSTANTS
  Hashes = {h1, h2}
  Clients = {c1, c2}
  Janitor = janitor
  Free = free
  Nil = nil
  MaxEngines = 1
  Grace = 1
  Idle = 0
  Budgets = {}
  MaxGen = 2
  MaxTime = 1
INVARIANTS
  TypeOK
  CapRespected
  PurgeExclusion
PROPERTIES
  PurgeWaitersWake
