------------------------------- MODULE EventFd -------------------------------
(***************************************************************************)
(* StarryOS's eventfd and the tasks blocked on it: the counter, its two     *)
(* readiness queues, the read and write system calls as poll_io futures,    *)
(* poll(2) as a poll_shared future, the kernel's completion producers, and  *)
(* the calling thread's sleep in the executor, as a wait on a condition.    *)
(* A task is one call.                                                      *)
(* Every atomic update of the counter, every critical section of a queue's  *)
(* lock and every waker invocation is a step of its own.                    *)
(***************************************************************************)
EXTENDS PollSet

CONSTANTS
    Readers,      \* read(2) calls
    Writers,      \* write(2) calls
    Producers,    \* kernel completions: signal_kernel, signal_kernel_saturating
    Observers,    \* poll(2) calls
    Values,       \* the values written
    MaxCount,     \* u64::MAX
    Semaphore,    \* EFD_SEMAPHORE
    NonBlocking,  \* the values the calls find in the non_blocking flag
    Faulty,       \* the reads whose buffer cannot be written
    Abortable     \* the calls a signal or a timeout may reach

Tasks == Readers \cup Writers \cup Producers \cup Observers
Sources == {"rx", "tx"}

ASSUME ConstantsAssumption ==
    /\ MaxCount \in Nat \ {0, 1}
    /\ Values \subseteq 0 .. MaxCount
    /\ Semaphore \in BOOLEAN
    /\ NonBlocking \subseteq BOOLEAN
    /\ Faulty \subseteq Readers
    /\ Abortable \subseteq Tasks \ Producers
    /\ Readers \cap Writers = {} /\ Producers \cap Observers = {}
    /\ (Readers \cup Writers) \cap (Producers \cup Observers) = {}

VARIABLES
    count,        \* EventFd::count
    set,          \* poll_rx and poll_tx
    task,         \* each call's operation, arguments and program counter
    lease,        \* the registrations its PollRegistrar owns, in order
    wake,         \* the wake transaction it is running
    woken,        \* its coroutine was scheduled by a waker since its last poll
    aborted       \* a signal is pending for it, or its deadline has passed

vars == <<count, set, task, lease, wake, woken, aborted>>

NoWake == [src |-> "rx", ready |-> {}, boundary |-> 0, exclusive |-> FALSE,
           chosen |-> <<>>]

Init ==
    /\ count \in 0 .. MaxCount - 1
    /\ set = [s \in Sources |-> EmptySet]
    /\ task = [t \in Tasks |-> [op |-> "none", value |-> 0, events |-> {},
                                nonblock |-> FALSE, pc |-> "idle"]]
    /\ lease = [t \in Tasks |-> <<>>]
    /\ wake = [t \in Tasks |-> NoWake]
    /\ woken = [t \in Tasks |-> FALSE]
    /\ aborted = [t \in Tasks |-> FALSE]

At(t, pc) == task[t].pc = pc
Goto(t, pc) == task' = [task EXCEPT ![t].pc = pc]

-----------------------------------------------------------------------------
(* Entering a call *)

Call(t, op, value, events, nonblock, pc) ==
    /\ At(t, "idle")
    /\ task' = [task EXCEPT ![t] = [op |-> op, value |-> value, events |-> events,
                                    nonblock |-> nonblock, pc |-> pc]]
    /\ UNCHANGED <<count, set, lease, wake, woken, aborted>>

Read(t) ==
    /\ t \in Readers
    /\ \E nonblock \in NonBlocking : Call(t, "read", 0, {"IN"}, nonblock, "try")

(* A write of u64::MAX is refused. *)
Write(t) ==
    /\ t \in Writers
    /\ \E v \in Values, nonblock \in NonBlocking :
        Call(t, "write", v, {"OUT"}, nonblock, IF v = MaxCount THEN "done" ELSE "try")

SignalKernel(t) ==
    /\ t \in Producers
    /\ \E v \in Values :
        Call(t, "signal", v, {}, TRUE, IF v = MaxCount THEN "done" ELSE "try")

SignalKernelSaturating(t) ==
    /\ t \in Producers
    /\ \E v \in Values :
        Call(t, "saturate", v, {}, TRUE, IF v = 0 THEN "done" ELSE "try")

(* do_poll on this one descriptor; ERR is always among the events. *)
Poll(t) ==
    /\ t \in Observers
    /\ \E events \in SUBSET {"IN", "OUT"} :
        Call(t, "poll", 0, events \cup {"ERR"}, FALSE, "try")

-----------------------------------------------------------------------------
(* The operation: one atomic update of the counter *)

PollEvents ==
    {e \in Events : \/ e = "IN" /\ count > 0
                    \/ e = "ERR" /\ count = MaxCount
                    \/ e = "OUT" /\ MaxCount - 1 > count}

(* The update or check would not return WouldBlock or Pending now. *)
Succeeds(t) ==
    CASE task[t].op = "read" -> count > 0
      [] task[t].op \in {"write", "signal"} -> task[t].value = 0 \/ MaxCount - count > task[t].value
      [] task[t].op = "saturate" -> TRUE
      [] task[t].op = "poll" -> PollEvents \cap task[t].events # {}

(* Mutant: the kernel's completion adds without saturating. *)
UpdatedUnchecked(t) ==
    CASE task[t].op = "read" -> IF Semaphore THEN count - 1 ELSE 0
      [] OTHER -> count + task[t].value

Updated(t) ==
    CASE task[t].op = "read" -> IF Semaphore THEN count - 1 ELSE 0
      [] task[t].op \in {"write", "signal"} -> count + task[t].value
      [] task[t].op = "saturate" ->
            IF count + task[t].value > MaxCount THEN MaxCount ELSE count + task[t].value

(* Mutant: a read wakes the readers' queue. *)
WakeAfterWrongQueue(t) ==
    [NoWake EXCEPT !.ready = {"IN"}, !.exclusive = TRUE]

(* What the closure wakes after its update. *)
WakeAfter(t) ==
    [src |-> IF task[t].op = "read" THEN "tx" ELSE "rx",
     ready |-> IF task[t].op = "read" THEN {"OUT"}
               ELSE IF task[t].op = "saturate" /\ Updated(t) = MaxCount THEN {"IN", "ERR"}
               ELSE {"IN"},
     boundary |-> 0, exclusive |-> TRUE, chosen |-> <<>>]

(* Completion: the registrar's leases are dropped, if it has any. *)
Finished(t) == IF lease[t] = <<>> THEN "done" ELSE "clear"

Operate(t) ==
    /\ task[t].pc \in {"try", "retry"}
    /\ task[t].op # "poll" /\ t \notin Faulty
    /\ Succeeds(t)
    /\ count' = Updated(t)
    /\ IF task[t].op \in {"write", "signal"} /\ task[t].value = 0
       THEN Goto(t, Finished(t)) /\ UNCHANGED wake
       ELSE Goto(t, "boundary") /\ wake' = [wake EXCEPT ![t] = WakeAfter(t)]
    /\ UNCHANGED <<set, lease, woken, aborted>>

(* The copy to the caller fails after the counter was taken: `?` returns       *)
(* before poll_tx is woken.                                                    *)
CopyOutFails(t) ==
    /\ task[t].pc \in {"try", "retry"}
    /\ t \in Faulty
    /\ Succeeds(t)
    /\ count' = Updated(t)
    /\ Goto(t, Finished(t))
    /\ UNCHANGED <<set, lease, wake, woken, aborted>>

CheckReady(t) ==
    /\ task[t].pc \in {"try", "retry"}
    /\ task[t].op = "poll"
    /\ Succeeds(t)
    /\ Goto(t, Finished(t))
    /\ UNCHANGED <<count, set, lease, wake, woken, aborted>>

(* The first failure registers, the second one parks the caller, or returns   *)
(* EAGAIN when the descriptor was non-blocking at the call; signal_kernel     *)
(* never waits.                                                               *)
WouldBlock(t) ==
    /\ task[t].pc \in {"try", "retry"}
    /\ ~Succeeds(t)
    /\ Goto(t, IF t \in Producers THEN "done"
               ELSE IF At(t, "try") THEN "register"
               ELSE IF task[t].nonblock THEN "clear"
               ELSE "pending")
    /\ UNCHANGED <<count, set, lease, wake, woken, aborted>>

-----------------------------------------------------------------------------
(* Registration and cancellation *)

SourcesOf(t) ==
    CASE task[t].op = "read" -> <<"rx">>
      [] task[t].op = "write" -> <<"tx">>
      [] task[t].op = "poll" -> IF "OUT" \in task[t].events THEN <<"rx", "tx">> ELSE <<"rx">>

Interests(t, src) ==
    task[t].events \cap (IF src = "rx" THEN {"IN", "ERR"} ELSE {"OUT"})

Mode(t) == IF t \in Observers THEN "Shared" ELSE "Exclusive"

(* Mutant: the caller parks without checking again. *)
RegisterNoRecheck(t) ==
    LET src == SourcesOf(t)[Len(lease[t]) + 1] IN
    /\ At(t, "register")
    /\ set' = [set EXCEPT ![src] = Registered(@, t, Interests(t, src), Mode(t))]
    /\ lease' = [lease EXCEPT ![t] =
                    Append(@, [src |-> src, id |-> set[src].nextId, notified |-> FALSE])]
    /\ Goto(t, IF Len(lease[t]) + 1 = Len(SourcesOf(t)) THEN "pending" ELSE "register")
    /\ UNCHANGED <<count, wake, woken, aborted>>

Register(t) ==
    LET src == SourcesOf(t)[Len(lease[t]) + 1] IN
    /\ At(t, "register")
    /\ set' = [set EXCEPT ![src] = Registered(@, t, Interests(t, src), Mode(t))]
    /\ lease' = [lease EXCEPT ![t] =
                    Append(@, [src |-> src, id |-> set[src].nextId, notified |-> FALSE])]
    /\ Goto(t, IF Len(lease[t]) + 1 = Len(SourcesOf(t)) THEN "retry" ELSE "register")
    /\ UNCHANGED <<count, wake, woken, aborted>>

(* Registration::drop, for the oldest lease: at the start of the next poll     *)
(* (registrar.reset), or at the end of the call.                               *)
DropLease(t) ==
    LET l == Head(lease[t]) IN
    /\ task[t].pc \in {"reset", "clear"}
    /\ set' = [set EXCEPT ![l.src] = Unregistered(@, l.id)]
    /\ lease' = [lease EXCEPT ![t] = Tail(@)]
    /\ Goto(t, IF Len(lease[t]) > 1 THEN task[t].pc
               ELSE IF At(t, "reset") THEN "try" ELSE "done")
    /\ UNCHANGED <<count, wake, woken, aborted>>

-----------------------------------------------------------------------------
(* Waiting: user_wait_future and the executor's park *)

(* A poll that returned Pending looks for a signal or the deadline: if there is *)
(* one the future is dropped.                                                  *)
Pending(t) ==
    /\ At(t, "pending")
    /\ Goto(t, IF aborted[t] THEN "clear" ELSE "parked")
    /\ aborted' = [aborted EXCEPT ![t] = FALSE]
    /\ UNCHANGED <<count, set, lease, wake, woken>>

(* Mutant: the park predicate looks at the executor only. *)
ResumeWoken(t) ==
    /\ At(t, "parked")
    /\ woken[t]
    /\ woken' = [woken EXCEPT ![t] = FALSE]
    /\ Goto(t, "reset")
    /\ UNCHANGED <<count, set, lease, wake, aborted>>

(* The park predicate holds: the root future is polled again. *)
Resume(t) ==
    /\ At(t, "parked")
    /\ woken[t] \/ aborted[t]
    /\ woken' = [woken EXCEPT ![t] = FALSE]
    /\ Goto(t, "reset")
    /\ UNCHANGED <<count, set, lease, wake, aborted>>

(* A signal for the calling thread, or the timeout of a poll(2). *)
Abort(t) ==
    /\ t \in Abortable
    /\ task[t].pc \notin {"idle", "done"}
    /\ ~aborted[t]
    /\ aborted' = [aborted EXCEPT ![t] = TRUE]
    /\ UNCHANGED <<count, set, task, lease, wake, woken>>

-----------------------------------------------------------------------------
(* PollSet::wake: snapshot, then unlink, unlock and wake one entry at a time *)

Boundary(t) ==
    /\ At(t, "boundary")
    /\ wake' = [wake EXCEPT ![t].boundary = WakeBoundary(set[wake[t].src])]
    /\ Goto(t, "select")
    /\ UNCHANGED <<count, set, lease, woken, aborted>>

NextEntry(w) == NextMatching(set[w.src], w.ready, w.boundary, w.exclusive)

(* The wake w after it took the entry e. *)
Taking(w, e) ==
    [src |-> w.src, ready |-> w.ready, boundary |-> w.boundary,
     exclusive |-> w.exclusive /\ e.mode = "Shared", chosen |-> Append(w.chosen, e.task)]

(* The lease of the entry finds out that it was taken. *)
Notified(leases, src, id) ==
    [j \in DOMAIN leases |->
        IF leases[j].src = src /\ leases[j].id = id
        THEN [leases[j] EXCEPT !.notified = TRUE] ELSE leases[j]]

TakeEntry(t) ==
    LET w == wake[t]
        i == NextEntry(w)
        e == set[w.src].entries[i]
    IN
    /\ At(t, "select")
    /\ i # 0
    /\ set' = [set EXCEPT ![w.src] = Without(@, i)]
    /\ lease' = [lease EXCEPT ![e.task] = Notified(@, w.src, e.id)]
    /\ wake' = [wake EXCEPT ![t] = Taking(w, e)]
    /\ Goto(t, "fire")
    /\ UNCHANGED <<count, woken, aborted>>

(* The task whose entry was unlinked last *)
Chosen(w) == w.chosen[Len(w.chosen)]

(* Waker::wake schedules the coroutine unless it has completed. *)
Fire(t) ==
    LET u == Chosen(wake[t]) IN
    /\ At(t, "fire")
    /\ woken' = [woken EXCEPT ![u] = ~At(u, "done")]
    /\ Goto(t, "select")
    /\ UNCHANGED <<count, set, lease, wake, aborted>>

EndWake(t) ==
    /\ At(t, "select")
    /\ NextEntry(wake[t]) = 0
    /\ Goto(t, Finished(t))
    /\ wake' = [wake EXCEPT ![t] = NoWake]
    /\ UNCHANGED <<count, set, lease, woken, aborted>>

-----------------------------------------------------------------------------
Start(t) ==
    Read(t) \/ Write(t) \/ SignalKernel(t) \/ SignalKernelSaturating(t) \/ Poll(t)

Step(t) ==
    \/ Operate(t) \/ CopyOutFails(t) \/ CheckReady(t) \/ WouldBlock(t)
    \/ Register(t) \/ DropLease(t) \/ Pending(t) \/ Resume(t)
    \/ Boundary(t) \/ TakeEntry(t) \/ Fire(t) \/ EndWake(t)

Next == \E t \in Tasks : Start(t) \/ Step(t) \/ Abort(t)

Spec == Init /\ [][Next]_vars

(* A runnable thread is eventually scheduled; calls and signals need not come. *)
Fairness == \A t \in Tasks : WF_vars(Step(t))

FairSpec == Spec /\ Fairness

-----------------------------------------------------------------------------
(* Properties *)

(* The counter stays a u64, and the calls, leases and wake transactions have   *)
(* the shape of the Rust values they stand for.                                *)
TypeOK ==
    /\ count \in 0 .. MaxCount
    /\ \A s \in Sources : \A i \in DOMAIN set[s].entries :
        /\ set[s].entries[i].id \in 0 .. set[s].nextId - 1
        /\ set[s].entries[i].task \in Tasks
        /\ set[s].entries[i].interests \in (SUBSET Events) \ {{}}
        /\ set[s].entries[i].mode \in Modes
    /\ task \in [Tasks -> [op : {"none", "read", "write", "signal", "saturate", "poll"},
                           value : Values \cup {0}, events : SUBSET Events,
                           nonblock : BOOLEAN,
                           pc : {"idle", "try", "register", "retry", "pending", "parked",
                                 "reset", "clear", "boundary", "select", "fire", "done"}]]
    /\ \A t \in Tasks : lease[t] \in Seq([src : Sources, id : Nat, notified : BOOLEAN])
    /\ woken \in [Tasks -> BOOLEAN]
    /\ aborted \in [Tasks -> BOOLEAN]

(* "An owned source registration whose drop cancels the exact registered       *)
(* entry": a queue holds exactly the entries of the leases that are alive and  *)
(* not yet notified, so no waker of a finished call is left behind.            *)
ExactLeases ==
    \A s \in Sources :
        {<<set[s].entries[i].task, set[s].entries[i].id>> : i \in DOMAIN set[s].entries}
        = UNION {{<<t, lease[t][j].id>> :
                    j \in {k \in DOMAIN lease[t] : lease[t][k].src = s
                                                   /\ ~lease[t][k].notified}} : t \in Tasks}

(* "A callback that re-registers cannot be consumed by the wake operation      *)
(* already in progress", and one wake selects at most one exclusive consumer.  *)
OncePerWake ==
    \A t \in Tasks :
        /\ IsInjective(wake[t].chosen)
        /\ \A x, y \in Range(wake[t].chosen) \ Observers : x = y

Asleep(t) == At(t, "parked") /\ ~woken[t] /\ ~aborted[t]

\* Some wake transaction still has to select or to fire the waker of t.
WakeComing(t) ==
    \E u \in Tasks :
        LET w == wake[u] IN
        \/ At(u, "boundary") /\ w.ready \cap task[t].events # {}
        \/ /\ task[u].pc \in {"select", "fire"}
           /\ \E i \in DOMAIN set[w.src].entries :
                /\ set[w.src].entries[i].task = t
                /\ Selects(set[w.src].entries[i], w.ready, w.boundary, w.exclusive)
        \/ At(u, "fire") /\ Chosen(w) = t

(* A poll(2) asleep on a descriptor that is ready has a wake on its way, with   *)
(* any number of readers, writers, producers and cancellations around it:       *)
(* checking before and after registering closes the publication race.  A read   *)
(* whose copy fails takes the counter and wakes nobody: what it leaves behind   *)
(* is excepted.                                                                 *)
ObserversWoken ==
    (\A r \in Faulty : task[r].pc \notin {"clear", "done"}) =>
        \A t \in Observers : Asleep(t) /\ Succeeds(t) => WakeComing(t)

(* When nothing else can move, no read or write that could complete is asleep: *)
(* an exclusive wake is not lost to a consumer that did not need it.           *)
NoStrandedConsumer ==
    (\A t \in Tasks : task[t].pc \in {"idle", "done"} \/ Asleep(t))
    => \A t \in Readers \cup Writers : Asleep(t) => ~Succeeds(t)

(* A blocked call that a signal or a timeout reaches returns. *)
AbortedCallReturns == \A t \in Tasks : aborted[t] ~> At(t, "done")

(* With one reader and one writer, a read that finds the counter positive, and *)
(* a write that finds room, is not left asleep for ever.                       *)
SoleConsumerServed ==
    \A t \in Readers \cup Writers :
        At(t, "parked") /\ Succeeds(t) ~> ~(At(t, "parked") /\ Succeeds(t))
==============================================================================
