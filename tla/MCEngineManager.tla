-------------------------- MODULE MCEngineManager --------------------------
(* Instances of EngineManager for TLC. *)
EXTENDS EngineManager, TLC

Symm == Permutations(Clients) \cup Permutations(Hashes)

=============================================================================
