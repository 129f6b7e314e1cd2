------------------------------- MODULE ParkWake -------------------------------
(***************************************************************************)
(* The scheduler handshake between one thread's park and its wakers in      *)
(* ax-task: the lifecycle word, the thread's scheduler lock, the owner      *)
(* CPU's run-queue lock, the detached-entity slot with its publication      *)
(* marker, and the placement words on_rq and on_cpu.  The parker commits    *)
(* either under both locks or, the fast path, under the run-queue lock      *)
(* alone.  A waker holds the thread lock, and the run-queue lock for its    *)
(* last part.  A critical section is split where another actor that does    *)
(* not hold its lock reads or writes the same word.                         *)
(*                                                                         *)
(* Left out: exit, the RT-lock overlay of the word, deadline throttling,    *)
(* and migration of a queued thread.                                        *)
(***************************************************************************)
EXTENDS Naturals

CONSTANTS
    Wakers,    \* contexts that call a wake: threads, interrupts, timers
    Cpus,
    MaxGen,    \* u64::MAX, the last park generation
    none       \* no CPU, no lock holder

ASSUME ConstantsAssumption == none \notin Cpus \cup Wakers /\ MaxGen \in Nat

VARIABLES
    word,      \* ThreadLifecycle: state, WAKE_PENDING, PARK_NOTIFIED
    gen,       \* the park generation
    entity,    \* the owner of the active scheduling state: "rq", "moving", "slot"
    delayed,   \* the run queue holds it as a delayed Fair sleeper
    marker,    \* the slot carries the publication marker
    onRq,      \* SchedulerPlacement: the CPU on whose queue it is, or none
    taskCpu,   \* its last committed CPU
    onCpu,     \* the CPU executing it until switch tail, or none
    taskLock,  \* the waker holding the thread's scheduler lock, or none
    rqLock,    \* the CPU whose run-queue lock the parker holds, or none
    pc,        \* the thread: where it is in its park
    claim,     \* WaitWakeClaim of its last park
    waker,     \* each waker's call: kind, claimed generation, target, position
    fatal      \* a fatal_invariant or an expect was reached

sched == <<entity, delayed, onRq, taskCpu>>
vars == <<word, gen, sched, marker, onCpu, taskLock, rqLock, pc, claim, waker, fatal>>

Idle == [kind |-> "none", gen |-> 0, cpu |-> none, at |-> "idle"]
Refused == [kind |-> "refused", gen |-> 0, cpu |-> none, at |-> "refused"]

Init ==
    /\ word = [state |-> "Running", pending |-> FALSE, notified |-> FALSE]
    /\ gen = 0
    /\ entity = "rq" /\ delayed = FALSE /\ marker = FALSE
    /\ \E c \in Cpus : onRq = c /\ taskCpu = c /\ onCpu = c
    /\ taskLock = none /\ rqLock = none
    /\ pc = "run" /\ claim = "inactive"
    /\ waker = [w \in Wakers |-> Idle]
    /\ fatal = FALSE

-----------------------------------------------------------------------------
(* ThreadLifecycle *)

Published(wd) == [wd EXCEPT !.pending = TRUE, !.notified = TRUE]
Cleared(wd) == [wd EXCEPT !.pending = FALSE, !.notified = FALSE]

TransitionValid(from, to) ==
    \/ from = "Running" /\ to = "Parking"
    \/ from = "Parking" /\ to \in {"Running", "Blocked", "Waking"}
    \/ from = "Blocked" /\ to \in {"Running", "Waking"}
    \/ from = "Waking"  /\ to = "Running"

Transition(to) == [word EXCEPT !.state = to]

PublishBlocked ==
    [Cleared(word) EXCEPT !.state = IF word.notified THEN "Running" ELSE "Blocked"]

-----------------------------------------------------------------------------
(* The thread: prepare, cancel, commit and resume. *)

(* prepare_current_park: the notification is taken, the generation advanced *)
(* and Parking published by three atomics without a lock.                   *)
TakeNotified ==
    /\ pc = "run"
    /\ word' = Cleared(word)
    /\ pc' = IF word.notified THEN "run" ELSE "prepare"
    /\ UNCHANGED <<gen, sched, marker, onCpu, taskLock, rqLock, claim, waker, fatal>>

(* Mutant: the generation is not checked for overflow. *)
PrepareUnchecked ==
    /\ pc = "prepare"
    /\ gen' = gen + 1
    /\ word' = Transition("Parking")
    /\ pc' = "parking"
    /\ claim' = "queued"
    /\ UNCHANGED <<sched, marker, onCpu, taskLock, rqLock, waker, fatal>>

Prepare ==
    /\ pc = "prepare" /\ gen < MaxGen
    /\ gen' = gen + 1
    /\ word' = Transition("Parking")
    /\ pc' = "parking"
    /\ claim' = "queued"
    /\ fatal' = (fatal \/ ~TransitionValid(word.state, "Parking"))
    /\ UNCHANGED <<sched, marker, onCpu, taskLock, rqLock, waker>>

GenerationExhausted ==
    /\ pc = "prepare" /\ gen = MaxGen
    /\ pc' = "run"
    /\ UNCHANGED <<word, gen, sched, marker, onCpu, taskLock, rqLock, claim, waker, fatal>>

(* The waiter withdraws: its claim is deactivated, then the park cancelled. *)
Withdraw ==
    /\ pc = "parking"
    /\ pc' = "withdrawn"
    /\ claim' = IF claim = "delivered" THEN claim ELSE "inactive"
    /\ UNCHANGED <<word, gen, sched, marker, onCpu, taskLock, rqLock, waker, fatal>>

Cancel ==
    /\ pc = "withdrawn"
    /\ word' = Transition("Running")
    /\ pc' = "run"
    /\ fatal' = (fatal \/ word.state # "Parking" \/ onRq # onCpu)
    /\ UNCHANGED <<gen, sched, marker, onCpu, taskLock, rqLock, claim, waker>>

(* The fast path takes the run-queue lock only. *)
EnterRq ==
    /\ pc = "parking" /\ rqLock = none
    /\ rqLock' = onCpu
    /\ pc' = "rq"
    /\ UNCHANGED <<word, gen, sched, marker, onCpu, taskLock, claim, waker, fatal>>

TakeInRq ==
    /\ pc = "rq"
    /\ word' = Cleared(word)
    /\ pc' = IF word.notified THEN "taken" ELSE "reserve"
    /\ UNCHANGED <<gen, sched, marker, onCpu, taskLock, rqLock, claim, waker, fatal>>

ResumeTaken ==
    /\ pc = "taken"
    /\ word' = Transition("Running")
    /\ rqLock' = none
    /\ pc' = "run"
    /\ fatal' = (fatal \/ ~TransitionValid(word.state, "Running"))
    /\ UNCHANGED <<gen, sched, marker, onCpu, taskLock, claim, waker>>

BeginPublication ==
    /\ pc = "reserve"
    /\ marker' = TRUE
    /\ pc' = "publish"
    /\ fatal' = (fatal \/ marker \/ entity = "slot")
    /\ UNCHANGED <<word, gen, sched, onCpu, taskLock, rqLock, claim, waker>>

PublishInRq ==
    /\ pc = "publish"
    /\ word' = PublishBlocked
    /\ IF word.notified
       THEN pc' = "run" /\ marker' = FALSE /\ rqLock' = none
       ELSE pc' = "dequeue" /\ UNCHANGED <<marker, rqLock>>
    /\ fatal' = (fatal \/ word.state # "Parking" \/ onRq # onCpu)
    /\ UNCHANGED <<gen, sched, onCpu, taskLock, claim, waker>>

(* A Fair thread that is not yet eligible stays queued as a delayed sleeper. *)
DelayInRq ==
    /\ pc = "dequeue"
    /\ delayed' = TRUE /\ marker' = FALSE
    /\ pc' = "pick"
    /\ fatal' = (fatal \/ onRq # onCpu \/ ~marker)
    /\ UNCHANGED <<word, gen, entity, onRq, taskCpu, onCpu, taskLock, rqLock, claim, waker>>

(* Otherwise on_rq is cleared first, the entity published afterwards. *)
DequeueInRq ==
    /\ pc = "dequeue"
    /\ entity' = "moving" /\ onRq' = none
    /\ pc' = "install"
    /\ fatal' = (fatal \/ onRq # onCpu)
    /\ UNCHANGED <<word, gen, delayed, marker, taskCpu, onCpu, taskLock, rqLock, claim, waker>>

FinishPublication ==
    /\ pc = "install"
    /\ entity' = "slot" /\ marker' = FALSE
    /\ pc' = "pick"
    /\ fatal' = (fatal \/ ~marker)
    /\ UNCHANGED <<word, gen, delayed, onRq, taskCpu, onCpu, taskLock, rqLock, claim, waker>>

FinishDelayedDequeue ==
    /\ entity' = "slot" /\ delayed' = FALSE /\ onRq' = none
    /\ fatal' = (fatal \/ word.state # "Blocked" \/ onRq = none \/ onCpu \notin {none, onRq})

(* The pick meets the delayed thread itself, or leaves it; the inverse-order *)
(* try-lock gives way to a waker that holds the thread lock.                 *)
PickNext ==
    /\ pc = "pick"
    /\ \/ delayed /\ taskLock = none /\ FinishDelayedDequeue
       \/ UNCHANGED <<entity, delayed, onRq, fatal>>
    /\ rqLock' = none
    /\ pc' = "switch"
    /\ UNCHANGED <<word, gen, taskCpu, marker, onCpu, taskLock, claim, waker>>

(* The path under both locks: no waker can see its intermediate states. *)
CommitLocked ==
    /\ pc = "parking" /\ taskLock = none /\ rqLock = none
    /\ word' = PublishBlocked
    /\ IF word.notified
       THEN pc' = "run" /\ UNCHANGED sched
       ELSE /\ pc' = "switch"
            /\ \/ delayed' = TRUE /\ UNCHANGED <<entity, onRq, taskCpu>>
               \/ entity' = "slot" /\ onRq' = none /\ UNCHANGED <<delayed, taskCpu>>
    /\ fatal' = (fatal \/ word.state # "Parking" \/ onRq # onCpu \/ marker)
    /\ UNCHANGED <<gen, marker, onCpu, taskLock, rqLock, claim, waker>>

SwitchTail ==
    /\ pc = "switch"
    /\ onCpu' = none
    /\ pc' = "off"
    /\ UNCHANGED <<word, gen, sched, marker, taskLock, rqLock, claim, waker, fatal>>

(* A later pick of the owner CPU completes the delayed dequeue. *)
PickDelayed ==
    /\ pc = "off" /\ delayed /\ taskLock = none /\ ~marker
    /\ FinishDelayedDequeue
    /\ UNCHANGED <<word, gen, taskCpu, marker, onCpu, taskLock, rqLock, pc, claim, waker>>

(* The owner CPU picks the queued, runnable thread. *)
SetNextTask ==
    /\ pc = "off" /\ entity = "rq" /\ ~delayed /\ onRq # none
    /\ onCpu' = onRq
    /\ pc' = "run"
    /\ fatal' = (fatal \/ word.state # "Running" \/ onRq # taskCpu)
    /\ UNCHANGED <<word, gen, sched, marker, taskLock, rqLock, claim, waker>>

-----------------------------------------------------------------------------
(* A waker *)

At(w, at) == waker[w].at = at
Goto(w, at) == waker' = [waker EXCEPT ![w].at = at]
Return(w) == waker' = [waker EXCEPT ![w] = Idle]
FreeTaskLock == taskLock = none /\ ~marker

CallWake(w) ==
    /\ At(w, "idle")
    /\ waker' = [waker EXCEPT ![w].kind = "wake", ![w].at = "lock"]
    /\ UNCHANGED <<word, gen, sched, marker, onCpu, taskLock, rqLock, pc, claim, fatal>>

(* The queue selects the claim of the current park. *)
CallClaim(w) ==
    /\ At(w, "idle") /\ claim = "queued"
    /\ claim' = "selected"
    /\ waker' = [waker EXCEPT ![w].kind = "claim", ![w].gen = gen, ![w].at = "lock"]
    /\ UNCHANGED <<word, gen, sched, marker, onCpu, taskLock, rqLock, pc, fatal>>

(* The thread lock is not kept while a run-queue owner publishes the entity. *)
LockTask(w) ==
    /\ At(w, "lock") /\ waker[w].kind = "wake" /\ FreeTaskLock
    /\ taskLock' = w
    /\ Goto(w, "publish")
    /\ UNCHANGED <<word, gen, sched, marker, onCpu, rqLock, pc, claim, fatal>>

PublishWake(w) ==
    /\ At(w, "publish")
    /\ word' = Published(word)
    /\ IF word.state = "Blocked"
       THEN Goto(w, "place") /\ UNCHANGED taskLock
       ELSE Return(w) /\ taskLock' = none
    /\ UNCHANGED <<gen, sched, marker, onCpu, rqLock, pc, claim, fatal>>

(* consume_on_rq_wake_locked keeps Blocked for the revalidation under the   *)
(* run-queue lock; consume_wake_locked publishes Waking.                    *)
ConsumeOnRq(w) ==
    /\ word' = Cleared(word)
    /\ waker' = [waker EXCEPT ![w].cpu = onRq, ![w].at = "onrq"]
    /\ taskLock' = w
    /\ fatal' = (fatal \/ ~word.pending \/ word.state # "Blocked")

ConsumeOffRq(w, cpu) ==
    /\ word' = [Cleared(word) EXCEPT !.state = "Waking"]
    /\ waker' = [waker EXCEPT ![w].cpu = cpu, ![w].at = "activate"]
    /\ taskLock' = w
    /\ fatal' = (fatal \/ ~word.pending \/ word.state # "Blocked")

(* The pinned CPU, or every CPU of the affinity mask, may be inactive. *)
Unavailable(w) ==
    /\ waker' = [waker EXCEPT ![w] = Refused]
    /\ taskLock' = none
    /\ UNCHANGED <<word, fatal>>

ReportUnavailable(w) ==
    /\ At(w, "refused")
    /\ Return(w)
    /\ UNCHANGED <<word, gen, sched, marker, onCpu, taskLock, rqLock, pc, claim, fatal>>

PlaceWake(w) ==
    /\ At(w, "place")
    /\ IF onRq # none THEN ConsumeOnRq(w)
                      ELSE (\E c \in Cpus : ConsumeOffRq(w, c)) \/ Unavailable(w)
    /\ UNCHANGED <<gen, sched, marker, onCpu, rqLock, pc, claim>>

(* wake_wait_claim: a claim of another generation, or of a thread that runs *)
(* again, is cancelled; a Parking thread gets the sticky notification; a    *)
(* Blocked one is woken unless no CPU accepts it, and the queue then takes  *)
(* the cancelled claim back (requeue_cancelled).                            *)
Declined(w) ==
    \/ gen # waker[w].gen
    \/ word.state \in {"Running", "Waking"}
    \/ claim # "selected"

LockClaim(w) ==
    /\ At(w, "lock") /\ waker[w].kind = "claim" /\ FreeTaskLock
    /\ \/ /\ Declined(w)
          /\ claim' = IF gen = waker[w].gen /\ claim = "selected" THEN "cancelled" ELSE claim
          /\ Return(w)
          /\ UNCHANGED <<word, taskLock, fatal>>
       \/ /\ ~Declined(w) /\ word.state = "Parking"
          /\ claim' = "delivered"
          /\ taskLock' = w
          /\ Goto(w, "notify")
          /\ UNCHANGED <<word, fatal>>
       \/ /\ ~Declined(w) /\ word.state = "Blocked"
          /\ claim' = "delivered"
          /\ word' = IF onRq # none THEN Cleared(word)
                                    ELSE [Cleared(word) EXCEPT !.state = "Waking"]
          /\ \E c \in IF onRq # none THEN {onRq} ELSE Cpus :
                waker' = [waker EXCEPT ![w].cpu = c,
                                       ![w].at = IF onRq # none THEN "onrq" ELSE "activate"]
          /\ taskLock' = w
          /\ UNCHANGED fatal
       \/ /\ ~Declined(w) /\ word.state = "Blocked" /\ onRq = none
          /\ claim' = "queued"
          /\ Unavailable(w)
    /\ UNCHANGED <<gen, sched, marker, onCpu, rqLock, pc>>

(* Mutant: leaves the notification to the parker, whatever it has published. *)
NotifyClaimOnce(w) ==
    /\ At(w, "notify")
    /\ word' = Published(word)
    /\ taskLock' = none
    /\ Return(w)
    /\ UNCHANGED <<gen, sched, marker, onCpu, rqLock, pc, claim, fatal>>

(* The fast path may have published Blocked since the state was read. *)
NotifyClaim(w) ==
    /\ At(w, "notify")
    /\ word' = Published(word)
    /\ taskLock' = none
    /\ IF word.state = "Blocked" THEN Goto(w, "relock") ELSE Return(w)
    /\ UNCHANGED <<gen, sched, marker, onCpu, rqLock, pc, claim, fatal>>

(* Mutant: waits for Blocked although another waker may have served the claim. *)
RelockClaimRetry(w) ==
    /\ At(w, "relock") /\ FreeTaskLock
    /\ IF gen # waker[w].gen
       THEN Return(w) /\ UNCHANGED <<word, taskLock, fatal>>
       ELSE /\ word.state = "Blocked"
            /\ IF onRq # none THEN ConsumeOnRq(w) ELSE ConsumeOffRq(w, taskCpu)
    /\ UNCHANGED <<gen, sched, marker, onCpu, rqLock, pc, claim>>

RelockClaim(w) ==
    /\ At(w, "relock") /\ FreeTaskLock
    /\ IF gen # waker[w].gen \/ word.state # "Blocked"
       THEN Return(w) /\ UNCHANGED <<word, taskLock, fatal>>
       ELSE IF onRq # none THEN ConsumeOnRq(w) ELSE ConsumeOffRq(w, taskCpu)
    /\ UNCHANGED <<gen, sched, marker, onCpu, rqLock, pc, claim>>

(* Mutant: trusts the membership read before the run-queue lock was taken. *)
WakeOnRqStale(w) ==
    /\ At(w, "onrq") /\ rqLock # waker[w].cpu
    /\ word' = Transition("Running")
    /\ delayed' = FALSE
    /\ Return(w)
    /\ taskLock' = none
    /\ fatal' = (fatal \/ word.state # "Blocked")
    /\ UNCHANGED <<gen, entity, onRq, taskCpu, marker, onCpu, rqLock, pc, claim>>

(* ttwu_runnable: revalidated under the run-queue lock, since the fast path *)
(* may have dequeued the thread while the waker was coming.                 *)
WakeOnRq(w) ==
    /\ At(w, "onrq") /\ rqLock # waker[w].cpu
    /\ IF entity = "rq"
       THEN /\ word' = Transition("Running")
            /\ delayed' = FALSE
            /\ Return(w)
            /\ taskLock' = none
            /\ fatal' = (fatal \/ word.state # "Blocked" \/ onRq # waker[w].cpu
                               \/ onCpu \notin {none, onRq})
       ELSE /\ word' = Transition("Waking")
            /\ Goto(w, "activate")
            /\ fatal' = (fatal \/ word.state # "Blocked" \/ onRq # none)
            /\ UNCHANGED <<delayed, taskLock>>
    /\ UNCHANGED <<gen, entity, onRq, taskCpu, marker, onCpu, rqLock, pc, claim>>

(* Mutant: enqueues before switch tail has released the thread's stack. *)
ActivateEarly(w) ==
    /\ At(w, "activate") /\ rqLock # waker[w].cpu
    /\ entity' = "rq" /\ onRq' = waker[w].cpu /\ taskCpu' = waker[w].cpu
    /\ word' = Transition("Running")
    /\ Return(w)
    /\ taskLock' = none
    /\ fatal' = (fatal \/ word.state # "Waking" \/ entity # "slot" \/ marker \/ onRq # none)
    /\ UNCHANGED <<gen, delayed, marker, onCpu, rqLock, pc, claim>>

(* The enqueue waits until switch tail has released the thread's stack. *)
Activate(w) ==
    /\ At(w, "activate") /\ onCpu = none /\ rqLock # waker[w].cpu
    /\ entity' = "rq" /\ onRq' = waker[w].cpu /\ taskCpu' = waker[w].cpu
    /\ word' = Transition("Running")
    /\ Return(w)
    /\ taskLock' = none
    /\ fatal' = (fatal \/ word.state # "Waking" \/ entity # "slot" \/ marker \/ onRq # none)
    /\ UNCHANGED <<gen, delayed, marker, onCpu, rqLock, pc, claim>>

-----------------------------------------------------------------------------

Committing ==
    \/ Withdraw \/ Cancel \/ EnterRq \/ TakeInRq \/ ResumeTaken \/ BeginPublication
    \/ PublishInRq \/ DelayInRq \/ DequeueInRq \/ FinishPublication \/ PickNext
    \/ CommitLocked \/ SwitchTail

Locking(w) == LockTask(w) \/ LockClaim(w) \/ RelockClaim(w)
Waking(w) ==
    \/ PublishWake(w) \/ PlaceWake(w) \/ NotifyClaim(w) \/ WakeOnRq(w) \/ Activate(w)
    \/ ReportUnavailable(w)

Next ==
    \/ TakeNotified \/ Prepare \/ GenerationExhausted \/ Committing \/ PickDelayed \/ SetNextTask
    \/ \E w \in Wakers : CallWake(w) \/ CallClaim(w) \/ Locking(w) \/ Waking(w)

(* A context in the middle of a commit or a wake keeps executing, with      *)
(* interrupts off; the thread lock is a ticket lock, so every waiter gets   *)
(* its turn.                                                                *)
Fairness ==
    /\ WF_vars(Committing)
    /\ \A w \in Wakers : WF_vars(Waking(w)) /\ SF_vars(Locking(w))

Spec == Init /\ [][Next]_vars /\ Fairness
-----------------------------------------------------------------------------
(* Properties *)

TypeOK ==
    /\ word \in [state : {"Running", "Parking", "Blocked", "Waking"},
                 pending : BOOLEAN, notified : BOOLEAN]
    /\ gen \in 0 .. MaxGen
    /\ entity \in {"rq", "moving", "slot"} /\ delayed \in BOOLEAN /\ marker \in BOOLEAN
    /\ onRq \in Cpus \cup {none} /\ taskCpu \in Cpus /\ onCpu \in Cpus \cup {none}
    /\ taskLock \in Wakers \cup {none} /\ rqLock \in Cpus \cup {none}
    /\ pc \in {"run", "prepare", "parking", "withdrawn", "rq", "taken", "reserve",
               "publish", "dequeue", "install", "pick", "switch", "off"}
    /\ claim \in {"inactive", "queued", "selected", "delivered", "cancelled"}
    /\ waker \in [Wakers -> [kind : {"none", "wake", "claim", "refused"}, gen : 0 .. MaxGen,
                             cpu : Cpus \cup {none},
                             at : {"idle", "lock", "publish", "place", "notify",
                                   "relock", "onrq", "activate", "refused"}]]
    /\ fatal \in BOOLEAN

(* No interleaving of a park with its wakers reaches one of the scheduler's  *)
(* fatal_invariant calls, the single-owner expect of the entity slot, or a   *)
(* refused lifecycle transition.                                             *)
NeverFatal == ~fatal

(* A Running thread is on a run queue as a runnable entity: none is lost     *)
(* from every queue, and none runs while its entity lies in the slot.        *)
RunnableIsQueued ==
    word.state = "Running" => entity = "rq" /\ ~delayed /\ onRq = taskCpu

-----------------------------------------------------------------------------
(* The refinement *)

(* Taking the notification ends the park, as withdrawing the waiter does. *)
Resumed == word.state = "Running" \/ pc \in {"taken", "withdrawn"}
Asleep == word.state \in {"Blocked", "Waking"}

(* A claim that came back to the lock has been served by another waker when *)
(* the thread is no longer asleep in the park it was published for.         *)
Served(w) == At(w, "relock") /\ (gen # waker[w].gen \/ ~Asleep)

absPark ==
    [state |-> IF Resumed THEN "running" ELSE IF Asleep THEN "blocked" ELSE "parking",
     notified |-> word.notified /\ ~Asleep]

absCall ==
    [w \in Wakers |->
        IF Served(w) THEN [kind |-> "none", gen |-> 0]
                     ELSE [kind |-> waker[w].kind, gen |-> waker[w].gen]]

Abstract == INSTANCE Park WITH Callers <- Wakers, park <- absPark, gen <- gen, call <- absCall

(* The handshake implements module Park: every wake call takes effect exactly *)
(* once between its start and its return, whatever the parker does meanwhile. *)
ImplementsPark == Abstract!Spec

(* Every wake call returns: no deadlock between the thread lock, the run-queue *)
(* lock, the publication marker and the wait for switch tail.                  *)
CallsReturn == \A w \in Wakers : ~At(w, "idle") ~> At(w, "idle")
==============================================================================
