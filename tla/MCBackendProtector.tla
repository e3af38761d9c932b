------------------------- MODULE MCBackendProtector -------------------------
EXTENDS BackendProtector, TLC

CONSTANTS c1, c2, c3, c4
Interchangeable == Permutations(Callers)
=============================================================================
