--------------------------------- MODULE Park ---------------------------------
(***************************************************************************)
(* What the park and wake calls of one thread promise.  A wake call takes   *)
(* effect once, somewhere between its start and its return: it unblocks the *)
(* thread or leaves the sticky notification that the next commit consumes.  *)
(* Several calls in progress may share one effect.  A wait-queue claim      *)
(* carries the generation of the park it was published for and unblocks no  *)
(* other; it is declined once that park is over.  Only while the thread is  *)
(* blocked may a call be refused, and its caller is then told so.           *)
(***************************************************************************)
EXTENDS ParkOps

CONSTANT Callers

VARIABLES
    park,    \* the thread's state and notification
    gen,     \* the generation of its last park
    call     \* each caller's wake call in progress

vars == <<park, gen, call>>

NoCall == [kind |-> "none", gen |-> 0]
Refused == [kind |-> "refused", gen |-> 0]
Calls == [kind : {"none", "wake", "claim", "refused"}, gen : Nat]

Init ==
    /\ park = Unparked
    /\ gen = 0
    /\ call = [w \in Callers |-> NoCall]

Consume ==
    /\ park.state = "running" /\ park.notified
    /\ park' = TakeNotification(park)
    /\ UNCHANGED <<gen, call>>

Prepare ==
    /\ park.state = "running"
    /\ park' = PreparePark(park)
    /\ gen' = gen + 1
    /\ UNCHANGED call

Cancel ==
    /\ park.state = "parking"
    /\ park' = CancelPark(park)
    /\ UNCHANGED <<gen, call>>

Commit ==
    /\ park.state = "parking"
    /\ park' = CommitPark(park)
    /\ UNCHANGED <<gen, call>>

Idle(w) == call[w].kind = "none"
Active(w) == call[w].kind \in {"wake", "claim"}
MayUnblock(w) == call[w].kind = "claim" => call[w].gen = gen

CallWake(w) ==
    /\ Idle(w)
    /\ call' = [call EXCEPT ![w] = [kind |-> "wake", gen |-> 0]]
    /\ UNCHANGED <<park, gen>>

CallClaim(w) ==
    /\ Idle(w)
    /\ call' = [call EXCEPT ![w] = [kind |-> "claim", gen |-> gen]]
    /\ UNCHANGED <<park, gen>>

Returned(S) == call' = [w \in Callers |-> IF w \in S THEN NoCall ELSE call[w]]

TakeEffect(S) ==
    /\ S # {}
    /\ \A w \in S : Active(w) /\ (park.state = "blocked" => MayUnblock(w))
    /\ park' = WakePark(park)
    /\ Returned(S)
    /\ UNCHANGED gen

Decline(w) ==
    /\ call[w].kind = "claim"
    /\ park.state = "running" \/ call[w].gen # gen
    /\ Returned({w})
    /\ UNCHANGED <<park, gen>>

Refuse(w) ==
    /\ Active(w) /\ park.state = "blocked"
    /\ call' = [call EXCEPT ![w] = Refused]
    /\ UNCHANGED <<park, gen>>

ReportRefusal(w) ==
    /\ call[w].kind = "refused"
    /\ Returned({w})
    /\ UNCHANGED <<park, gen>>

Next ==
    \/ Consume \/ Prepare \/ Cancel \/ Commit
    \/ \E w \in Callers : CallWake(w) \/ CallClaim(w) \/ Decline(w) \/ Refuse(w) \/ ReportRefusal(w)
    \/ \E S \in SUBSET Callers : TakeEffect(S)

Spec == Init /\ [][Next]_vars
==============================================================================
