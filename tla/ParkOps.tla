------------------------------- MODULE ParkOps -------------------------------
(***************************************************************************)
(* A thread's park as its users see it: a state and a sticky notification.  *)
(* The operations are those of ThreadLifecycle that a park or a wake is     *)
(* linearised at.  ParkWake shows that the scheduler's handshake implements *)
(* them (module Park); the semaphore and the reader-writer semaphore are    *)
(* modelled on top of them.                                                 *)
(***************************************************************************)
EXTENDS Naturals

ParkStates == {"running", "parking", "blocked"}
Parks == [state : ParkStates, notified : BOOLEAN]
Unparked == [state |-> "running", notified |-> FALSE]

TakeNotification(p) == [p EXCEPT !.notified = FALSE]
PreparePark(p) == [p EXCEPT !.state = "parking"]
CancelPark(p) == [p EXCEPT !.state = "running"]

(* Mutant: blocks even though a wake came after the park was prepared. *)
CommitParkBlind(p) == [p EXCEPT !.state = "blocked", !.notified = FALSE]

CommitPark(p) ==
    [state |-> IF p.notified THEN "running" ELSE "blocked", notified |-> FALSE]

WakePark(p) ==
    IF p.state = "blocked" THEN [p EXCEPT !.state = "running"]
                           ELSE [p EXCEPT !.notified = TRUE]
==============================================================================
