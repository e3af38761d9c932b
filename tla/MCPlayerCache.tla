---------------------------- MODULE MCPlayerCache ----------------------------
EXTENDS PlayerCache, TLC

CONSTANTS p1, p2, p3, t1, t2
PlayersAlike == Permutations({p1, p2, p3})
Interchangeable == PlayersAlike \cup Permutations({t1, t2})
=============================================================================
