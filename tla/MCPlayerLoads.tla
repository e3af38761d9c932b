---------------------------- MODULE MCPlayerLoads ----------------------------
EXTENDS PlayerLoads, TLC

CONSTANTS w1, w2, p1, p2, r1, r2, r3, c1, c2

(* Every reader and one writer in w1, another writer in w2. *)
Placement == [t \in Readers \cup Writers |-> IF t = c2 THEN w2 ELSE w1]
Interchangeable == Permutations(Readers)
=============================================================================
