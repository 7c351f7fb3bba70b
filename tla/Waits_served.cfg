SPECIFICATION WaitSpec
CONSTANTS
  p1 = p1
  p2 = p2
  t1 = t1
  t2 = t2
  Torrents = {t1}
  Pieces = {p1, p2}
  Chunks = {c1, c2}
  TorrentOf <- OneTorrent
  PieceLen <- Lengths
  Capacity = 2
  Writers = {w1}
  Readers = {r1}
  Verifiers = {v1, v2}
  Nil = Nil
  MaxReads = 5
  MaxTick = 50
  MayClose = FALSE
  MayCancel = FALSE
  Jobs = {j1, j2, j3}
  Limits = {1, 2}
PROPERTIES
  WaitsEnd
  Admission
CHECK_DEADLOCK FALSE
