---------------------------- MODULE MCMemStorage ----------------------------
(* Two pieces of different length; in the second setting of two torrents.   *)
EXTENDS MemStorage, TLC
CONSTANTS p1, p2, t1, t2

OneTorrent  == [p \in Pieces |-> t1]
TwoTorrents == p1 :> t1 @@ p2 :> t2
Lengths     == p1 :> 2 @@ p2 :> 1
SymmW  == Permutations(Writers) \cup Permutations(Chunks)
SymmWR == SymmW \cup Permutations(Readers) \cup Permutations(Verifiers)

=============================================================================
