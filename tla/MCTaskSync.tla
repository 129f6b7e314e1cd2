----------------------------- MODULE MCTaskSync ------------------------------
(* Instances of TaskSync for TLC. *)
EXTENDS TaskSync, TLC

CONSTANTS t1, t2, p1

==============================================================================
