SPECIFICATION Spec
CONSTANTS
  p1 = p1
  p2 = p2
  t1 = t1
  t2 = t2
  Torrents = {t1}
  Pieces = {p1, p2}
  Chunks = {c1, c2}
  TorrentOf <- OneTorrent
  PieceLen <- Lengths
  Capacity = 2
  Writers = {w1, w2}
  Readers = {r1, r2}
  Verifiers = {v1, v2}
  Nil = Nil
  MaxReads = 3
  MaxTick = 6
  MayClose = FALSE
  MayCancel = FALSE
SYMMETRY SymmWR
INVARIANTS
  NoStaleBytes
CHECK_DEADLOCK FALSE
