SPECIFICATION Spec
CONSTANTS
  Hashes = {h1, h2}
  Clients = {c1}
  Janitor = janitor
  Free = free
  Nil = nil
  MaxEngines = 0
  Grace = 1
  Idle = 1
  Budgets = {1}
  MaxGen = 2
  MaxTime = 1
SYMMETRY Symm
INVARIANTS
  DirOwned
PROPERTIES
  OnlyDroppedDirsDeleted
  IdlePassHonoursGrant
