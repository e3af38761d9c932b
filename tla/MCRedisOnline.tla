---------------------------- MODULE MCRedisOnline ----------------------------
EXTENDS RedisOnline, TLC

CONSTANTS s1, s2, s3, u1, u2, r1, g1

(* Two sessions of u1 and one of u2 in one realm. *)
Owner == [s \in Sessions |-> IF s = s3 THEN u2 ELSE u1]
Home == [u \in Users |-> r1]
=============================================================================
