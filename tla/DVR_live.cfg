SPECIFICATION FairSpec
CONSTANTS
  Ids = {i1}
  Sources = {u1}
  Clients = {c1, c2}
  Followers = {f1}
  MaxActive = 1
  MaxBytes = 0
  Nil = Nil
  MaxSize = 1
  MaxCrashes = 0
  MayHang = TRUE
INVARIANTS
  FollowerComplete
PROPERTIES
  NothingHangs
CHECK_DEADLOCK FALSE
