-------------------------- MODULE MCGatewaySessions --------------------------
EXTENDS GatewaySessions, TLC

CONSTANTS s1, s2, s3, u1, u2, r1, r2, g1, g2, t1, t2, t3

(* s1 and s2 are sessions of u1 on two gateways and may present the same   *)
(* ticket; s3 is a session of u2 in another realm.                         *)
Owner == [s \in Sessions |-> IF s = s3 THEN u2 ELSE u1]
Home == [u \in Users |-> IF u = u2 THEN r2 ELSE r1]
Place == [s \in Sessions |-> IF s = s2 THEN g2 ELSE g1]
Carries == [s \in Sessions |-> IF s = s1 THEN {t1} ELSE IF s = s2 THEN {t1, t2} ELSE {t3}]
=============================================================================
