------------------------------- MODULE MCDVR -------------------------------
EXTENDS DVR, TLC
Symm == Permutations(Ids) \cup Permutations(Sources) \cup Permutations(Clients) \cup Permutations(Followers)
=============================================================================
