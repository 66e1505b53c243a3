---------------------------- MODULE MCServeManaged ----------------------------
(* Instances of ServeManaged for TLC.                                      *)
EXTENDS ServeManaged

CONSTANTS s1, d1, m1, q1, q2, a, b, DefaultFlags, OtherFlags

\* The doctor is given flags of its own.
OwnFlags == [w \in {s1, d1} |-> IF w = d1 THEN OtherFlags ELSE DefaultFlags]
SameFlags == [w \in {s1, d1} |-> DefaultFlags]
=============================================================================
