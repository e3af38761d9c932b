---------------------------- MODULE MCWorldServer ----------------------------
EXTENDS WorldServer, TLC

CONSTANTS c1, c2, c3, p1, p2, k1, k2

(* Two commands of p1 on two connections and one of p2. *)
Player == [c \in Commands |-> IF c = c3 THEN p2 ELSE p1]
Carrier == [c \in Commands |-> IF c = c2 THEN k2 ELSE k1]
=============================================================================
