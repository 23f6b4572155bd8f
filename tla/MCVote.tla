------------------------------- MODULE MCVote -------------------------------
EXTENDS VoteEngine, TLC

Symmetry == Permutations(Sensor \ Faulty)
=============================================================================
