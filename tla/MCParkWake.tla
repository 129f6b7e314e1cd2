------------------------------ MODULE MCParkWake ------------------------------
(* Instances of ParkWake for TLC. *)
EXTENDS ParkWake, TLC

CONSTANTS w1, w2, w3, c1, c2

==============================================================================
