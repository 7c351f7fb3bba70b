SPECIFICATION Spec
CONSTANTS
  Ids = {i1, i2}
  Sources = {u1, u2}
  Clients = {c1}
  Followers = {}
  MaxActive = 2
  MaxBytes = 1
  Nil = Nil
  MaxSize = 2
  MaxCrashes = 1
  MayHang = FALSE
SYMMETRY Symm
INVARIANTS
  TypeOK
  
  ActiveSupervised
  
PROPERTIES
  Durable
CHECK_DEADLOCK FALSE
