---------------------------- MODULE MCIrqRegistry ----------------------------
(***************************************************************************)
(* Instances of IrqRegistry for TLC.                                        *)
(***************************************************************************)
EXTENDS IrqRegistry, TLC

Req(scope, execution, m, auto, fixed) ==
    [scope |-> scope, execution |-> execution, mode |-> m, auto |-> auto, fixed |-> fixed]

(* One global line, shared or exclusive, both kinds of handler *)
GlobalRequests ==
    {Req({Global}, "NonReentrant", "Shared", TRUE, FALSE),
     Req({Global}, "Concurrent", "Exclusive", TRUE, FALSE)}

(* A driver that shares one line with a fixed affinity, one that has it alone, *)
(* and one of a line of each CPU                                               *)
MixedRequests ==
    {Req({Global}, "NonReentrant", "Shared", TRUE, TRUE),
     Req({Global}, "Concurrent", "Exclusive", TRUE, FALSE),
     Req({1, 2}, "Concurrent", "Exclusive", TRUE, FALSE)}

(* Drivers with a fixed affinity on one line, and drivers on two CPUs' lines *)
FaultyRequests ==
    {Req({Global}, "NonReentrant", "Shared", TRUE, TRUE),
     Req({1, 2}, "Concurrent", "Exclusive", TRUE, FALSE)}

PerCpuRequests == {Req({1, 2}, "Concurrent", "Exclusive", TRUE, FALSE)}

ExclusiveRequests == {Req({Global}, "NonReentrant", "Exclusive", TRUE, FALSE)}

CallerSymmetry == Permutations(Callers)
=============================================================================
