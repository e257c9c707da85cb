------------------------- MODULE MCCommandTransport -------------------------
(* Constants for the model checker: who serves which vehicle.               *)
EXTENDS CommandTransport

CONSTANTS s1, s2, v1, v2, p1, p2

OneEach == [s \in Senders |-> IF s = s1 THEN {v1} ELSE {v2}]

=============================================================================
