-------------------------- MODULE MCEnginePriority --------------------------
(* Two files of two pieces that share one, as neighbours in a torrent do.   *)
EXTENDS EnginePriority, TLC

TwoBegin == [f \in {0, 1} |-> f]
TwoEnd   == [f \in {0, 1} |-> f + 2]
Symm     == Permutations(Threads)

=============================================================================
