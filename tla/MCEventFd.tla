------------------------------ MODULE MCEventFd ------------------------------
(* Instances of EventFd for TLC. *)
EXTENDS EventFd, TLC

CONSTANTS r1, r2, w1, p1, o1

==============================================================================
