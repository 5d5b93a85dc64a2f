---------------------------- MODULE MCNcfsCommit ----------------------------
EXTENDS NcfsCommit, TLC

Sym == Permutations(Blocks) \cup Permutations(Data)
=============================================================================
