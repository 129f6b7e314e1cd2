------------------------------ MODULE Semaphore ------------------------------
(***************************************************************************)
(* ax-task's counting semaphore: FIFO waiters granted under the raw lock,   *)
(* woken outside it, and released once the producer has dropped its         *)
(* reference (handoff_complete).  Every critical section of the lock and    *)
(* every call of the park interface is a step; the wake is the atomic one   *)
(* that ParkWake justifies, and like ParkWake's it may be refused.  A        *)
(* context is a thread that acquires or an interrupt or thread that          *)
(* releases.  TaskSync, which shares the parks out, states the specification.*)
(***************************************************************************)
EXTENDS ParkOps, Sequences

CONSTANTS
    Threads,         \* they call down, down_interruptible or down_until
    Producers,       \* they call up
    Interruptible,   \* the threads whose interruption predicate may become true
    Timed,           \* the threads that pass a deadline
    Initial,         \* the permits of Semaphore::new
    MaxPermits,      \* usize::MAX
    MaxUps,          \* bound on the producers' calls
    none             \* no waiter

Contexts == Threads \cup Producers

VARIABLES
    permits, waiters,   \* SemaphoreState
    acq,                \* each thread's acquisition: its waiter, sample and position
    park,               \* each thread's park
    handing,            \* the waiter each context's up() is handing over to
    woke,               \* that up() has issued the wake
    ups, downs,         \* successful calls of up by producers, and acquisitions
    panicked,           \* the expect of Drop failed
    publishing,         \* the interrupted threads that their publisher has yet to wake
    refused             \* the sleepers whose last wake was Unavailable

others == <<handing, woke, ups, panicked, publishing, refused>>
vars == <<permits, waiters, acq, park, others, downs>>

(* granted and handoff are the waiter's flags; stop is the sample of          *)
(* interrupted and expired; armed says that the park has a deadline.          *)
NoAcq == [pc |-> "idle", granted |-> FALSE, handoff |-> FALSE, stop |-> FALSE,
          interrupted |-> FALSE, expired |-> FALSE, armed |-> FALSE]

Init ==
    /\ permits = Initial /\ waiters = <<>>
    /\ acq = [t \in Threads |-> NoAcq]
    /\ park = [t \in Threads |-> Unparked]
    /\ handing = [c \in Contexts |-> none] /\ woke = [c \in Contexts |-> FALSE]
    /\ ups = 0 /\ downs = 0 /\ panicked = FALSE
    /\ publishing = {} /\ refused = {}

At(t, l) == acq[t].pc = l
Goto(t, l) == acq' = [acq EXCEPT ![t].pc = l]
Leave(t) == acq' = [acq EXCEPT ![t] = NoAcq]

-----------------------------------------------------------------------------
(* acquire *)

(* try_down, and the same test again under the lock in enqueue. *)
TakePermit(t) ==
    /\ acq[t].pc \in {"idle", "enqueue"} /\ permits > 0
    /\ permits' = permits - 1
    /\ downs' = downs + 1
    /\ Leave(t)
    /\ UNCHANGED <<waiters, park, others>>

TryDownFails(t) ==
    /\ At(t, "idle") /\ permits = 0
    /\ Goto(t, "enqueue")
    /\ UNCHANGED <<permits, waiters, park, others, downs>>

(* Mutant: queues without looking at the permits again. *)
EnqueueBlind(t) ==
    /\ At(t, "enqueue")
    /\ waiters' = Append(waiters, t)
    /\ Goto(t, "sample")
    /\ UNCHANGED <<permits, park, others, downs>>

Enqueue(t) ==
    /\ At(t, "enqueue") /\ permits = 0
    /\ waiters' = Append(waiters, t)
    /\ Goto(t, "sample")
    /\ UNCHANGED <<permits, park, others, downs>>

(* Mutant: the interruption predicate is not asked again after a wake. *)
SampleDeadline(t) ==
    /\ At(t, "sample")
    /\ acq' = [acq EXCEPT ![t].stop = acq[t].expired, ![t].pc = "check"]
    /\ UNCHANGED <<permits, waiters, park, others, downs>>

Sample(t) ==
    /\ At(t, "sample")
    /\ acq' = [acq EXCEPT ![t].stop = acq[t].interrupted \/ acq[t].expired, ![t].pc = "check"]
    /\ UNCHANGED <<permits, waiters, park, others, downs>>

(* Mutant: the waiter leaves as soon as it sees the grant. *)
CheckGrantEarly(t) ==
    /\ At(t, "check") /\ acq[t].granted
    /\ Leave(t)
    /\ downs' = downs + 1
    /\ UNCHANGED <<permits, waiters, park, others>>

(* The grant counts once the producer has finished with the waiter. *)
CheckGrant(t) ==
    /\ At(t, "check") /\ acq[t].granted
    /\ IF acq[t].handoff THEN Leave(t) /\ downs' = downs + 1
                         ELSE Goto(t, "sample") /\ UNCHANGED downs
    /\ UNCHANGED <<permits, waiters, park, others>>

(* remove_locked *)
Removed(t) ==
    IF \E i \in 1 .. Len(waiters) : waiters[i] = t
    THEN LET i == CHOOSE j \in 1 .. Len(waiters) : waiters[j] = t
         IN  SubSeq(waiters, 1, i - 1) \o SubSeq(waiters, i + 1, Len(waiters))
    ELSE waiters

(* Grant versus cancellation is decided under the lock. *)
CheckStop(t) ==
    /\ At(t, "check") /\ ~acq[t].granted /\ acq[t].stop
    /\ waiters' = Removed(t)
    /\ Leave(t)
    /\ UNCHANGED <<permits, park, others, downs>>

CheckWait(t) ==
    /\ At(t, "check") /\ ~acq[t].granted /\ ~acq[t].stop
    /\ Goto(t, "begin")
    /\ UNCHANGED <<permits, waiters, park, others, downs>>

BeginPark(t) ==
    /\ At(t, "begin")
    /\ park' = [park EXCEPT ![t] = IF @.notified THEN TakeNotification(@) ELSE PreparePark(@)]
    /\ Goto(t, IF park[t].notified THEN "sample" ELSE "recheck")
    /\ UNCHANGED <<permits, waiters, others, downs>>

(* The thread's park generations may be exhausted: the error leaves the *)
(* registration to Drop.                                                *)
BeginFails(t) ==
    /\ At(t, "begin") /\ ~park[t].notified
    /\ Goto(t, "drop")
    /\ UNCHANGED <<permits, waiters, park, others, downs>>

(* A grant between the check and the park is seen here, its wake by commit. *)
Recheck(t) ==
    /\ At(t, "recheck")
    /\ IF acq[t].granted
       THEN park' = [park EXCEPT ![t] = CancelPark(@)] /\ Goto(t, "sample")
       ELSE UNCHANGED park /\ Goto(t, "arm")
    /\ UNCHANGED <<permits, waiters, others, downs>>

Arm(t) ==
    /\ At(t, "arm")
    /\ acq' = [acq EXCEPT ![t].armed = t \in Timed, ![t].pc = "commit"]
    /\ UNCHANGED <<permits, waiters, park, others, downs>>

(* A deadline that cannot be registered cancels the park and returns the *)
(* error, leaving the registration to Drop.                              *)
ArmFails(t) ==
    /\ At(t, "arm") /\ t \in Timed
    /\ park' = [park EXCEPT ![t] = CancelPark(@)]
    /\ Goto(t, "drop")
    /\ UNCHANGED <<permits, waiters, others, downs>>

Commit(t) ==
    /\ At(t, "commit")
    /\ park' = [park EXCEPT ![t] = CommitPark(@)]
    /\ Goto(t, "asleep")
    /\ UNCHANGED <<permits, waiters, others, downs>>

(* A commit that cannot enter the scheduler cancels the deadline and the park *)
(* and returns the error.                                                     *)
CommitFails(t) ==
    /\ At(t, "commit")
    /\ park' = [park EXCEPT ![t] = CancelPark(@)]
    /\ acq' = [acq EXCEPT ![t].armed = FALSE, ![t].pc = "drop"]
    /\ UNCHANGED <<permits, waiters, others, downs>>

(* commit returns with the deadline cancelled. *)
Resume(t) ==
    /\ At(t, "asleep") /\ park[t].state = "running"
    /\ acq' = [acq EXCEPT ![t].armed = FALSE, ![t].pc = "sample"]
    /\ UNCHANGED <<permits, waiters, park, others, downs>>

(* The CPU that holds the deadline may have gone while the thread slept. *)
ResumeFails(t) ==
    /\ At(t, "asleep") /\ park[t].state = "running" /\ acq[t].armed
    /\ Goto(t, "drop")
    /\ UNCHANGED <<permits, waiters, park, others, downs>>

(* Mutant: the reserved permit of a failed acquisition is forgotten. *)
DropForgets(t) ==
    /\ At(t, "drop") /\ (acq[t].granted => acq[t].handoff)
    /\ waiters' = Removed(t)
    /\ Leave(t)
    /\ UNCHANGED <<permits, park, others, downs>>

(* Drop for SemaphoreRegistration on the error path. *)
DropRegistration(t) ==
    /\ At(t, "drop") /\ (acq[t].granted => acq[t].handoff)
    /\ waiters' = Removed(t)
    /\ acq' = [acq EXCEPT ![t] = IF acq[t].granted THEN [NoAcq EXCEPT !.pc = "restore"] ELSE NoAcq]
    /\ UNCHANGED <<permits, park, others, downs>>

-----------------------------------------------------------------------------
(* up, by a producer or by a thread that returns its reserved permit *)

Releasing(c) ==
    IF c \in Threads THEN At(c, "restore") /\ ~panicked
                     ELSE handing[c] = none /\ ups < MaxUps
Counted(c) == ups' = IF c \in Threads THEN ups ELSE ups + 1

UpGrant(c) ==
    /\ Releasing(c) /\ waiters # <<>>
    /\ waiters' = Tail(waiters)
    /\ acq' = [t \in Threads |->
                  IF t = Head(waiters) THEN [acq[t] EXCEPT !.granted = TRUE]
                  ELSE IF t = c THEN [NoAcq EXCEPT !.pc = "handing"]
                  ELSE acq[t]]
    /\ handing' = [handing EXCEPT ![c] = Head(waiters)]
    /\ Counted(c)
    /\ UNCHANGED <<permits, park, woke, panicked, publishing, refused, downs>>

(* Mutant: the permit count is not checked for overflow. *)
UpPermitUnchecked(c) ==
    /\ Releasing(c) /\ waiters = <<>>
    /\ permits' = permits + 1
    /\ acq' = [t \in Threads |-> IF t = c THEN NoAcq ELSE acq[t]]
    /\ Counted(c)
    /\ UNCHANGED <<waiters, park, handing, woke, panicked, publishing, refused, downs>>

UpPermit(c) ==
    /\ Releasing(c) /\ waiters = <<>> /\ permits < MaxPermits
    /\ permits' = permits + 1
    /\ acq' = [t \in Threads |-> IF t = c THEN NoAcq ELSE acq[t]]
    /\ Counted(c)
    /\ UNCHANGED <<waiters, park, handing, woke, panicked, publishing, refused, downs>>

(* A producer gets CountOverflow; the expect of Drop panics. *)
UpOverflow(c) ==
    /\ Releasing(c) /\ waiters = <<>> /\ permits = MaxPermits
    /\ panicked' = (panicked \/ c \in Threads)
    /\ UNCHANGED <<permits, waiters, acq, park, handing, woke, ups, publishing, refused, downs>>

(* wake(), whose result every caller here ignores.  A blocked thread stays    *)
(* asleep when no CPU may take it (Unavailable); a later wake may succeed.    *)
Wake(t) ==
    \/ /\ park' = [park EXCEPT ![t] = WakePark(@)]
       /\ refused' = refused \ {t}
    \/ /\ park[t].state = "blocked"
       /\ refused' = refused \cup {t}
       /\ UNCHANGED park

UpWake(c) ==
    /\ handing[c] # none /\ ~woke[c]
    /\ woke' = [woke EXCEPT ![c] = TRUE]
    /\ Wake(handing[c])
    /\ UNCHANGED <<permits, waiters, acq, handing, ups, panicked, publishing, downs>>

UpComplete(c) ==
    /\ handing[c] # none /\ woke[c]
    /\ acq' = [t \in Threads |->
                  IF t = handing[c] THEN [acq[t] EXCEPT !.handoff = TRUE]
                  ELSE IF t = c THEN NoAcq
                  ELSE acq[t]]
    /\ handing' = [handing EXCEPT ![c] = none]
    /\ woke' = [woke EXCEPT ![c] = FALSE]
    /\ UNCHANGED <<permits, waiters, park, ups, panicked, publishing, refused, downs>>

-----------------------------------------------------------------------------
(* The environment: time and interruptions *)

Registered(t) == acq[t].pc \notin {"idle", "enqueue", "restore", "handing"}

Expire(t) ==
    /\ t \in Timed /\ Registered(t) /\ ~acq[t].expired
    /\ acq' = [acq EXCEPT ![t].expired = TRUE]
    /\ UNCHANGED <<permits, waiters, park, others, downs>>

TimerWake(t) ==
    /\ acq[t].armed /\ acq[t].expired
    /\ acq' = [acq EXCEPT ![t].armed = FALSE]
    /\ Wake(t)
    /\ UNCHANGED <<permits, waiters, handing, woke, ups, panicked, publishing, downs>>

(* The publisher of an interruption sets it, and wakes the thread once *)
(* afterwards, whatever call the thread is in by then.                 *)
Interrupt(t) ==
    /\ t \in Interruptible \ publishing /\ Registered(t) /\ ~acq[t].interrupted
    /\ acq' = [acq EXCEPT ![t].interrupted = TRUE]
    /\ publishing' = publishing \cup {t}
    /\ UNCHANGED <<permits, waiters, park, handing, woke, ups, panicked, refused, downs>>

InterruptWake(t) ==
    /\ t \in publishing
    /\ publishing' = publishing \ {t}
    /\ Wake(t)
    /\ UNCHANGED <<permits, waiters, acq, handing, woke, ups, panicked, downs>>

-----------------------------------------------------------------------------

Acquiring(t) ==
    \/ TakePermit(t) \/ Enqueue(t) \/ Sample(t) \/ CheckGrant(t) \/ CheckStop(t) \/ CheckWait(t)
    \/ BeginPark(t) \/ BeginFails(t) \/ Recheck(t) \/ Arm(t) \/ ArmFails(t) \/ Commit(t)
    \/ CommitFails(t) \/ Resume(t) \/ ResumeFails(t) \/ DropRegistration(t)

Releases(c) == UpGrant(c) \/ UpPermit(c) \/ UpOverflow(c)
Handing(c) == UpWake(c) \/ UpComplete(c)

Next ==
    \/ \E t \in Threads : TryDownFails(t) \/ Acquiring(t)
    \/ \E c \in Contexts : Releases(c) \/ Handing(c)
    \/ \E t \in Threads : Expire(t) \/ TimerWake(t) \/ Interrupt(t) \/ InterruptWake(t)

(* A thread in the middle of an acquisition executes its next step when it    *)
(* runs, an up() finishes with preemption off, a registered timer fires, and  *)
(* the publisher of an interruption wakes the thread once, as the doc comment *)
(* of down_interruptible demands.                                             *)
Fairness ==
    /\ \A t \in Threads :
        /\ WF_vars(~At(t, "idle") /\ Acquiring(t)) /\ WF_vars(Releases(t))
        /\ WF_vars(TimerWake(t)) /\ WF_vars(InterruptWake(t))
    /\ \A c \in Contexts : WF_vars(Handing(c))
-----------------------------------------------------------------------------
(* Properties *)

TypeOK ==
    /\ permits \in 0 .. MaxPermits /\ waiters \in Seq(Threads)
    /\ acq \in [Threads ->
         [pc : {"idle", "enqueue", "sample", "check", "begin", "recheck", "arm", "commit",
                "asleep", "drop", "restore", "handing"},
          granted : BOOLEAN, handoff : BOOLEAN, stop : BOOLEAN, interrupted : BOOLEAN,
          expired : BOOLEAN, armed : BOOLEAN]]
    /\ park \in [Threads -> Parks]
    /\ handing \in [Contexts -> Threads \cup {none}] /\ woke \in [Contexts -> BOOLEAN]
    /\ ups \in Nat /\ downs \in Nat /\ panicked \in BOOLEAN
    /\ publishing \subseteq Threads /\ refused \subseteq Threads

(* The threads a permit is reserved for. *)
Reserved == {t \in Threads : acq[t].granted \/ acq[t].pc = "restore"}

(* A permit is never left free while a thread is queued for one. *)
NoStrandedWaiter == permits > 0 => waiters = <<>>

(* The waiter a producer is waking stays in acquire until the producer has  *)
(* dropped its reference: up() never releases the last one, in interrupt    *)
(* context.                                                                 *)
WaiterOutlivesHandoff ==
    \A c \in Contexts : handing[c] # none =>
        Registered(handing[c]) /\ acq[handing[c]].granted /\ ~acq[handing[c]].handoff

(* A granted thread returns from its acquisition: the wake is not lost.  The *)
(* one exception is a sleeper whose last wake found no CPU.                  *)
GrantReturns == \A t \in Threads : acq[t].granted ~> ~Registered(t) \/ t \in refused

(* An interrupted or expired wait returns, with the same exception. *)
StoppedReturns ==
    \A t \in Threads :
        acq[t].interrupted \/ acq[t].expired ~> ~Registered(t) \/ t \in refused
==============================================================================
