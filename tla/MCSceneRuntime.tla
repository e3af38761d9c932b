--------------------------- MODULE MCSceneRuntime ---------------------------
(* Bounded instances of SceneRuntime for TLC. *)
EXTENDS SceneRuntime, TLC

CONSTANTS c1, c2

CallSymmetry == Permutations({c1, c2})
=============================================================================
