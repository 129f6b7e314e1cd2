----------------------------- MODULE IrqRegistry -----------------------------
(***************************************************************************)
(* The dynamic IRQ registry (components/irq-framework) as ax-plat drives    *)
(* it: drivers request, enable, disable, synchronize and free the actions   *)
(* of one interrupt line, CPUs dispatch the line, and secondary CPUs come   *)
(* online and pick up the per-CPU enables left pending for them.            *)
(*                                                                          *)
(* One step is one critical section of the metadata lock, one access to the *)
(* interrupt controller, or one access to an action's atomic flags.  The    *)
(* registry talks to the controller without holding the lock, so what a     *)
(* thread read under the lock may be stale when it writes the controller.   *)
(***************************************************************************)
EXTENDS Integers, FiniteSets, Sequences, Functions

CONSTANTS
    Cpus,           \* CPU numbers, all greater than Global
    Boot,           \* the CPUs that are online from the start
    Dispatching,    \* the CPUs on which the line may be raised
    Callers,        \* driver threads
    Requests,       \* the requests that drivers make
    MaxActions,     \* bound: actions allocated in a behaviour
    MaxErrors       \* bound: failures of the interrupt controller

Global == 0         \* the line of an IrqScope::Global action
NoId == 0           \* the null action pointer

Lines == Cpus \cup {Global}
Ids == 1 .. MaxActions
Threads == Callers \cup Cpus

ASSUME CpusAssumption ==
    /\ Cpus \subseteq Nat \ {0}
    /\ IsFiniteSet(Cpus)
    /\ Boot \subseteq Cpus
    /\ Dispatching \subseteq Cpus
    /\ IsFiniteSet(Callers)
    /\ Callers \cap Cpus = {}

ASSUME RequestsAssumption ==
    /\ Requests \subseteq
         [scope : {{Global}} \cup ((SUBSET Cpus) \ {{}}),
          execution : {"Concurrent", "NonReentrant"},
          mode : {"Exclusive", "Shared"}, auto : BOOLEAN, fixed : BOOLEAN]
    /\ MaxActions \in Nat
    /\ MaxErrors \in Nat

VARIABLES
    present,    \* the line has a descriptor
    mode,       \* Descriptor::share_mode
    chain,      \* the action list, head first
    desired, applied,   \* line_desired and line_applied of every line
    inFlight,   \* Descriptor::in_flight
    act,        \* every action ever allocated
    controller, \* what the interrupt controller has enabled
    online,     \* ONLINE_CPUS
    errors,     \* controller failures so far
    thread,     \* what a driver, or a CPU coming online, is doing
    disp,       \* the dispatch running on a CPU
    quiet       \* actions synchronized while disabled, not enabled since

lineVars == <<present, mode, chain, desired>>
hardware == <<controller, online, errors>>
vars == <<lineVars, applied, inFlight, act, hardware, thread, disp, quiet>>

NoRequest == [scope |-> {}, execution |-> "NonReentrant", mode |-> "Exclusive",
              auto |-> FALSE, fixed |-> FALSE]
NoAction == [scope |-> {}, execution |-> "NonReentrant", enabled |-> FALSE,
             detached |-> FALSE, running |-> FALSE, pending |-> {},
             box |-> "none", given |-> FALSE]
(* `op' is the registry call in progress, `req' the request_irq around it    *)
(* (NoRequest if there is none), `id' the action it works on, `todo' the     *)
(* lines it has yet to visit, `value' what it is writing, `snap' and `was'   *)
(* the LineStateSnapshot, `ok' whether the request succeeded so far, and     *)
(* `k' where a request goes on after dropping its action.                    *)
Idle == [pc |-> "idle", op |-> "none", req |-> NoRequest, id |-> NoId,
         todo |-> {}, value |-> FALSE, snap |-> {}, was |-> {}, ok |-> TRUE,
         k |-> "idle"]
NoDispatch == [pc |-> "idle", at |-> NoId, next |-> NoId]

-----------------------------------------------------------------------------
(* Descriptors and actions *)

Linked == Range(chain)
Active(ch, ac) == {i \in Range(ch) : ~ac[i].detached}

ActionMatchesCpu(scope, cpu) == scope = {Global} \/ cpu \in scope

Wanted(ch, ac, l) ==
    \E i \in Active(ch, ac) :
        /\ ac[i].enabled
        /\ l = Global \/ ActionMatchesCpu(ac[i].scope, l)

(* Descriptor::recompute_line_desired over the lines of a scope *)
Recompute(ch, ac, scope) ==
    [l \in Lines |-> IF l \in scope THEN Wanted(ch, ac, l) ELSE desired[l]]

(* Mutant: only the request has to be shared. *)
CompatibleOneSided(req) ==
    LET active == Active(chain, act)
    IN  /\ \A i \in active : act[i].scope = {Global} <=> req.scope = {Global}
        /\ active = {} \/ req.mode = "Shared"

(* Descriptor::compatible_with *)
Compatible(req) ==
    LET active == Active(chain, act)
    IN  /\ \A i \in active : act[i].scope = {Global} <=> req.scope = {Global}
        /\ active = {} \/ (mode = "Shared" /\ req.mode = "Shared")

(* Action::next of a linked action; an unlinked one points nowhere *)
NextAction(i) ==
    LET after == {n \in 2 .. Len(chain) : chain[n - 1] = i}
    IN  IF after = {} THEN NoId ELSE chain[CHOOSE n \in after : TRUE]

(* The walk of try_remove_action: the link to the action gets its successor *)
Unlink(i) ==
    IF i \in Linked
    THEN LET n == CHOOSE m \in 1 .. Len(chain) : chain[m] = i
         IN  SubSeq(chain, 1, n - 1) \o SubSeq(chain, n + 1, Len(chain))
    ELSE chain

FirstLine(S) == CHOOSE l \in S : \A m \in S : l <= m
Visiting(t) == FirstLine(thread[t].todo)
Offline(l) == l # Global /\ l \notin online

-----------------------------------------------------------------------------
(* Steps of a thread inside the registry *)

At(t, pc) == thread[t].pc = pc
Become(t, rec) == thread' = [thread EXCEPT ![t] = rec]
Goto(t, pc) == Become(t, [thread[t] EXCEPT !.pc = pc])
Done(t) == [thread[t] EXCEPT !.todo = @ \ {Visiting(t)}]
Return(t) == Become(t, Idle)

(* IrqOps::set_enabled, run on the CPU that owns the line: it works, or the  *)
(* controller reports an error and leaves the line as it was.                *)
SetController(l, value) ==
    /\ controller' = [controller EXCEPT ![l] = value]
    /\ UNCHANGED <<online, errors>>
ControllerFails ==
    /\ errors < MaxErrors
    /\ errors' = errors + 1
    /\ UNCHANGED <<controller, online>>

SetApplied(l, value) == applied' = [applied EXCEPT ![l] = value]
SetAppliedIfPresent(l, value) ==
    IF present THEN SetApplied(l, value) ELSE UNCHANGED applied

InRequest(t) == thread[t].req # NoRequest

(* Registry::request, first part: snapshot_and_disable_scope_line *)
Request(t, req) ==
    /\ At(t, "idle")
    /\ Cardinality({u \in Callers : InRequest(u) /\ thread[u].id = NoId})
         < Cardinality({i \in Ids : act[i].box = "none"})
    /\ Become(t, [Idle EXCEPT !.pc = "snapshot", !.req = req, !.todo = req.scope])
    /\ UNCHANGED <<lineVars, applied, inFlight, act, hardware, disp, quiet>>

AfterSnapshot(rec) ==
    [rec EXCEPT !.pc = IF rec.todo = {} THEN "insert" ELSE "snapshot"]

SnapshotLine(t) ==
    /\ At(t, "snapshot")
    /\ LET l == Visiting(t)
       IN  Become(t,
             IF Offline(l) THEN AfterSnapshot(Done(t))
             ELSE [thread[t] EXCEPT !.pc = "mask", !.value = present /\ applied[l]])
    /\ UNCHANGED <<lineVars, applied, inFlight, act, hardware, disp, quiet>>

MaskLine(t) ==
    /\ At(t, "mask")
    /\ \/ /\ SetController(Visiting(t), FALSE)
          /\ Goto(t, "masked")
       \/ /\ ControllerFails
          /\ Become(t, [thread[t] EXCEPT !.pc = "restore", !.ok = FALSE,
                                         !.todo = thread[t].snap])
    /\ UNCHANGED <<lineVars, applied, inFlight, act, disp, quiet>>

MarkMasked(t) ==
    /\ At(t, "masked")
    /\ LET l == Visiting(t)
           rec == Done(t)
       IN  /\ SetAppliedIfPresent(l, FALSE)
           /\ Become(t, AfterSnapshot(
                [rec EXCEPT !.snap = @ \cup {l},
                            !.was = IF rec.value THEN @ \cup {l} ELSE @]))
    /\ UNCHANGED <<lineVars, inFlight, act, hardware, disp, quiet>>

(* insert_action_locked.  The action id is consumed even when the request is *)
(* refused, and its box is then dropped without ever having been linked.     *)
InsertAction(t) ==
    /\ At(t, "insert")
    /\ LET req == thread[t].req
           i == CHOOSE n \in Ids :
                   act[n].box = "none" /\ \A m \in Ids : m < n => act[m].box # "none"
           new == [NoAction EXCEPT !.scope = req.scope, !.execution = req.execution,
                                   !.enabled = req.auto, !.box = "live"]
       IN  IF Compatible(req)
             THEN /\ present' = TRUE
                  /\ mode' = IF Active(chain, act) = {} THEN req.mode ELSE mode
                  /\ chain' = <<i>> \o chain
                  /\ act' = [act EXCEPT ![i] = new]
                  /\ desired' = Recompute(chain', act', req.scope)
                  /\ Become(t, [thread[t] EXCEPT !.pc = "affinity", !.id = i])
             ELSE /\ act' = [act EXCEPT ![i].box = "freed"]
                  /\ Become(t, [thread[t] EXCEPT !.pc = "restore", !.ok = FALSE,
                                                 !.todo = thread[t].snap])
                  /\ UNCHANGED lineVars
    /\ UNCHANGED <<applied, inFlight, hardware, disp, quiet>>

(* apply_affinity; a failure drops the action and restores the line *)
ApplyAffinity(t) ==
    /\ At(t, "affinity")
    /\ \/ /\ Become(t, [thread[t] EXCEPT !.pc = "restore", !.todo = thread[t].snap])
          /\ UNCHANGED hardware
       \/ /\ thread[t].req.fixed
          /\ ControllerFails
          /\ Become(t, [thread[t] EXCEPT !.pc = "detach", !.op = "drop",
                                         !.ok = FALSE, !.k = "restore"])
    /\ UNCHANGED <<lineVars, applied, inFlight, act, disp, quiet>>

(* restore_scope_line_snapshot *)
RestoreLine(t) ==
    /\ At(t, "restore")
    /\ thread[t].todo # {}
    /\ \/ /\ IF Visiting(t) \in thread[t].was
               THEN SetController(Visiting(t), TRUE)
               ELSE UNCHANGED hardware
          /\ Goto(t, "restored")
       \/ /\ Visiting(t) \in thread[t].was
          /\ ControllerFails
          /\ IF thread[t].ok
               THEN Become(t, [thread[t] EXCEPT !.pc = "detach", !.op = "drop",
                                                !.ok = FALSE, !.todo = {}])
               ELSE Return(t)
    /\ UNCHANGED <<lineVars, applied, inFlight, act, disp, quiet>>

(* Mutant: the line is recorded as enabled whatever the snapshot says. *)
MarkRestoredEnabled(t) ==
    /\ At(t, "restored")
    /\ SetAppliedIfPresent(Visiting(t), TRUE)
    /\ Become(t, [Done(t) EXCEPT !.pc = "restore"])
    /\ UNCHANGED <<lineVars, inFlight, act, hardware, disp, quiet>>

MarkRestored(t) ==
    /\ At(t, "restored")
    /\ SetAppliedIfPresent(Visiting(t), Visiting(t) \in thread[t].was)
    /\ Become(t, [Done(t) EXCEPT !.pc = "restore"])
    /\ UNCHANGED <<lineVars, inFlight, act, hardware, disp, quiet>>

(* The request returns; request_irq goes on to enable an auto-enabled action *)
EndRequest(t) ==
    /\ At(t, "restore")
    /\ thread[t].todo = {}
    /\ IF thread[t].ok /\ thread[t].req.auto
         THEN /\ Become(t, [thread[t] EXCEPT !.pc = "set", !.op = "enable"])
              /\ UNCHANGED act
         ELSE /\ Return(t)
              /\ act' = IF thread[t].ok THEN [act EXCEPT ![thread[t].id].given = TRUE]
                                        ELSE act
    /\ UNCHANGED <<lineVars, applied, inFlight, hardware, disp, quiet>>

-----------------------------------------------------------------------------
(* Registry::enable, disable and free *)

Call(t, op, i) ==
    /\ At(t, "idle")
    /\ act[i].given
    /\ Become(t, [Idle EXCEPT !.op = op, !.id = i,
                    !.pc = IF op = "free" THEN "detach"
                           ELSE IF op = "synchronize" THEN "sync" ELSE "set"])
    /\ UNCHANGED <<lineVars, applied, inFlight, act, hardware, disp, quiet>>

(* What a registry call does when it has failed: a failed enable disables    *)
(* the action again, request_irq frees an action it could not enable, and    *)
(* free goes on whatever the controller says.                                *)
Failed(t) ==
    LET rec == [thread[t] EXCEPT !.todo = {}]
    IN  IF rec.op = "enable" THEN [rec EXCEPT !.op = "rollback", !.pc = "set"]
        ELSE IF rec.op = "rollback" /\ InRequest(t)
          THEN [rec EXCEPT !.op = "free", !.pc = "detach"]
        ELSE IF rec.op = "free" THEN [rec EXCEPT !.pc = "wait"]
        ELSE Idle

Succeeded(t) ==
    IF thread[t].op = "online" THEN [thread[t] EXCEPT !.pc = "clear"]
    ELSE IF thread[t].op \in {"rollback", "free"} THEN Failed(t)
    ELSE Idle

NotFound(t) ==
    IF InRequest(t) /\ thread[t].op # "free"
      THEN [thread[t] EXCEPT !.op = "free", !.pc = "detach", !.todo = {}]
      ELSE Idle

(* set_action_enabled *)
SetActionEnabled(t) ==
    /\ At(t, "set")
    /\ LET i == thread[t].id
           enabled == thread[t].op = "enable"
       IN  IF i \in Active(chain, act)
             THEN /\ act' = [act EXCEPT ![i].enabled = enabled, ![i].pending = {}]
                  /\ desired' = Recompute(chain, act', act[i].scope)
                  /\ quiet' = IF enabled THEN quiet \ {i} ELSE quiet
                  /\ Become(t, [thread[t] EXCEPT !.pc = "apply", !.todo = act[i].scope])
             ELSE /\ Become(t, NotFound(t))
                  /\ UNCHANGED <<act, desired, quiet>>
    /\ UNCHANGED <<present, mode, chain, applied, inFlight, hardware, disp>>

(* apply_enabled, apply_percpu_enabled and apply_scope_line_state: the next   *)
(* line of the scope, or the end of the loop                                  *)
ApplyNext(t) ==
    /\ At(t, "apply")
    /\ IF thread[t].todo = {}
         THEN /\ Become(t, Succeeded(t))
              /\ act' = IF InRequest(t) /\ thread[t].op = "enable"
                          THEN [act EXCEPT ![thread[t].id].given = TRUE]
                          ELSE act
         ELSE /\ IF ~Offline(Visiting(t)) THEN Goto(t, "line")
                 ELSE IF thread[t].op = "free" THEN Become(t, Done(t))
                 ELSE Goto(t, "defer")
              /\ UNCHANGED act
    /\ UNCHANGED <<lineVars, applied, inFlight, hardware, disp, quiet>>

(* Mutant: an offline CPU is skipped. *)
DeferEnableSkipped(t) ==
    /\ At(t, "defer")
    /\ Become(t, [Done(t) EXCEPT !.pc = "apply"])
    /\ UNCHANGED <<lineVars, applied, inFlight, act, hardware, disp, quiet>>

(* The offline branch of apply_percpu_enabled, after the CPU was looked up *)
DeferEnable(t) ==
    /\ At(t, "defer")
    /\ LET i == thread[t].id
           cpu == Visiting(t)
       IN  IF i \in Active(chain, act)
             THEN /\ act' = [act EXCEPT ![i].pending =
                               IF thread[t].op = "enable" THEN @ \cup {cpu}
                                                          ELSE @ \ {cpu}]
                  /\ Become(t, [Done(t) EXCEPT !.pc = "apply"])
             ELSE /\ Become(t, Failed(t))
                  /\ UNCHANGED act
    /\ UNCHANGED <<lineVars, applied, inFlight, hardware, disp, quiet>>

(* apply_line_state: compare under the lock, write the controller without    *)
(* it, record the write under the lock, and look again                       *)
CompareLine(t) ==
    /\ At(t, "line")
    /\ LET l == Visiting(t)
       IN  Become(t,
             IF desired[l] = applied[l] THEN [Done(t) EXCEPT !.pc = "apply"]
             ELSE [thread[t] EXCEPT !.pc = "write", !.value = desired[l]])
    /\ UNCHANGED <<lineVars, applied, inFlight, act, hardware, disp, quiet>>

WriteLine(t) ==
    /\ At(t, "write")
    /\ \/ /\ SetController(Visiting(t), thread[t].value)
          /\ Goto(t, "mark")
       \/ /\ ControllerFails
          /\ Become(t, Failed(t))
    /\ UNCHANGED <<lineVars, applied, inFlight, act, disp, quiet>>

MarkApplied(t) ==
    /\ At(t, "mark")
    /\ SetApplied(Visiting(t), thread[t].value)
    /\ Goto(t, "line")
    /\ UNCHANGED <<lineVars, inFlight, act, hardware, disp, quiet>>

(* A request whose affinity was refused goes on to restore the line *)
AfterDrop(t) ==
    IF thread[t].op = "drop" /\ thread[t].k = "restore"
      THEN [thread[t] EXCEPT !.pc = "restore", !.todo = thread[t].snap]
      ELSE Idle

(* Mutant: the action is detached without asking whether it already was. *)
DetachActionTwice(t) ==
    /\ At(t, "detach")
    /\ LET i == thread[t].id
       IN  IF i \in Linked
             THEN /\ act' = [act EXCEPT ![i].detached = TRUE, ![i].enabled = FALSE,
                                        ![i].pending = {}]
                  /\ desired' = Recompute(chain, act', act[i].scope)
                  /\ Become(t, IF thread[t].op = "free"
                                 THEN [thread[t] EXCEPT !.pc = "apply",
                                                        !.todo = act[i].scope]
                                 ELSE [thread[t] EXCEPT !.pc = "wait"])
             ELSE /\ Become(t, AfterDrop(t))
                  /\ UNCHANGED <<act, desired>>
    /\ UNCHANGED <<present, mode, chain, applied, inFlight, hardware, disp, quiet>>

(* Mutant: free waits without masking the line first. *)
DetachActionUnmasked(t) ==
    /\ At(t, "detach")
    /\ LET i == thread[t].id
       IN  IF i \in Active(chain, act)
             THEN /\ act' = [act EXCEPT ![i].detached = TRUE, ![i].enabled = FALSE,
                                        ![i].pending = {}]
                  /\ desired' = Recompute(chain, act', act[i].scope)
                  /\ Goto(t, "wait")
             ELSE /\ Become(t, AfterDrop(t))
                  /\ UNCHANGED <<act, desired>>
    /\ UNCHANGED <<present, mode, chain, applied, inFlight, hardware, disp, quiet>>

(* detach_action, from free or from drop_detached_action *)
DetachAction(t) ==
    /\ At(t, "detach")
    /\ LET i == thread[t].id
       IN  IF i \in Active(chain, act)
             THEN /\ act' = [act EXCEPT ![i].detached = TRUE, ![i].enabled = FALSE,
                                        ![i].pending = {}]
                  /\ desired' = Recompute(chain, act', act[i].scope)
                  /\ Become(t, IF thread[t].op = "free"
                                 THEN [thread[t] EXCEPT !.pc = "apply",
                                                        !.todo = act[i].scope]
                                 ELSE [thread[t] EXCEPT !.pc = "wait"])
             ELSE /\ Become(t, AfterDrop(t))
                  /\ UNCHANGED <<act, desired>>
    /\ UNCHANGED <<present, mode, chain, applied, inFlight, hardware, disp, quiet>>

(* Mutant: the action is unlinked while dispatches are in flight. *)
RemoveActionAtOnce(t) ==
    /\ At(t, "wait")
    /\ chain' = Unlink(thread[t].id)
    /\ Goto(t, "drop")
    /\ UNCHANGED <<present, mode, desired, applied, inFlight, act, hardware, disp, quiet>>

(* wait_and_remove_action: spins while try_remove_action reports Busy *)
RemoveAction(t) ==
    /\ At(t, "wait")
    /\ inFlight = 0
    /\ chain' = Unlink(thread[t].id)
    /\ Goto(t, "drop")
    /\ UNCHANGED <<present, mode, desired, applied, inFlight, act, hardware, disp, quiet>>

DropAction(t) ==
    /\ At(t, "drop")
    /\ act' = [act EXCEPT ![thread[t].id].box = "freed"]
    /\ Become(t, AfterDrop(t))
    /\ UNCHANGED <<lineVars, applied, inFlight, hardware, disp, quiet>>

(* Mutant: synchronize only looks whether this action is running. *)
SynchronizeRunning(t) ==
    /\ At(t, "sync")
    /\ LET i == thread[t].id
       IN  /\ i \in Active(chain, act) => ~act[i].running
           /\ quiet' = IF i \in Active(chain, act) /\ ~act[i].enabled
                         THEN quiet \cup {i} ELSE quiet
    /\ Return(t)
    /\ UNCHANGED <<lineVars, applied, inFlight, act, hardware, disp>>

(* Registry::synchronize: spins until no dispatch of the line is in flight *)
Synchronize(t) ==
    /\ At(t, "sync")
    /\ LET i == thread[t].id
       IN  /\ i \in Active(chain, act) => inFlight = 0
           /\ quiet' = IF i \in Active(chain, act) /\ ~act[i].enabled
                         THEN quiet \cup {i} ELSE quiet
    /\ Return(t)
    /\ UNCHANGED <<lineVars, applied, inFlight, act, hardware, disp>>

-----------------------------------------------------------------------------
(* ax-plat cpu_online and Registry::cpu_online, run by the booting CPU *)

CpuOnline(cpu) ==
    /\ cpu \in Cpus \ online
    /\ online' = online \cup {cpu}
    /\ Become(cpu, [Idle EXCEPT !.op = "online", !.pc = "pending"])
    /\ UNCHANGED <<lineVars, applied, inFlight, act, controller, errors, disp, quiet>>

(* pending_enables_for_cpu *)
PendingEnables(cpu) ==
    /\ At(cpu, "pending")
    /\ IF \E i \in Active(chain, act) :
             cpu \in act[i].pending /\ ActionMatchesCpu(act[i].scope, cpu)
         THEN Become(cpu, [thread[cpu] EXCEPT !.pc = "apply", !.todo = {cpu}])
         ELSE Return(cpu)
    /\ UNCHANGED <<lineVars, applied, inFlight, act, hardware, disp, quiet>>

(* clear_pending_enable_for_cpu *)
ClearPending(cpu) ==
    /\ At(cpu, "clear")
    /\ act' = [i \in Ids |->
                 IF i \in Linked /\ ActionMatchesCpu(act[i].scope, cpu)
                   THEN [act[i] EXCEPT !.pending = @ \ {cpu}] ELSE act[i]]
    /\ Return(cpu)
    /\ UNCHANGED <<lineVars, applied, inFlight, hardware, disp, quiet>>

-----------------------------------------------------------------------------
(* Registry::dispatch on a CPU *)

Dispatch(c, rec) == disp' = [disp EXCEPT ![c] = rec]

(* The controller signals the CPU: the trap is taken, nothing is locked yet *)
TakeInterrupt(c) ==
    /\ c \in Dispatching \cap online
    /\ disp[c].pc = "idle"
    /\ controller[Global] \/ controller[c]
    /\ Dispatch(c, [NoDispatch EXCEPT !.pc = "begin"])
    /\ UNCHANGED <<lineVars, applied, inFlight, act, hardware, thread, quiet>>

(* Mutant: the dispatch is counted only at its end. *)
BeginDispatchUncounted(c) ==
    /\ disp[c].pc = "begin"
    /\ Dispatch(c, IF chain = <<>> THEN NoDispatch
                    ELSE [disp[c] EXCEPT !.pc = "walk", !.next = Head(chain)])
    /\ UNCHANGED <<lineVars, applied, inFlight, act, hardware, thread, quiet>>

BeginDispatch(c) ==
    /\ disp[c].pc = "begin"
    /\ IF chain = <<>>
         THEN Dispatch(c, NoDispatch) /\ UNCHANGED inFlight
         ELSE /\ inFlight' = inFlight + 1
              /\ Dispatch(c, [disp[c] EXCEPT !.pc = "walk", !.next = Head(chain)])
    /\ UNCHANGED <<lineVars, applied, act, hardware, thread, quiet>>

(* One turn of the loop: load the next pointer, then decide on the action *)
VisitAction(c) ==
    /\ disp[c].pc = "walk"
    /\ disp[c].next # NoId
    /\ LET i == disp[c].next
           runs == /\ ~act[i].detached
                   /\ act[i].enabled
                   /\ ActionMatchesCpu(act[i].scope, c)
       IN  Dispatch(c, [pc |-> IF runs THEN "enter" ELSE "walk",
                        at |-> IF runs THEN i ELSE NoId, next |-> NextAction(i)])
    /\ UNCHANGED <<lineVars, applied, inFlight, act, hardware, thread, quiet>>

(* Mutant: the run guard loads the flag but never sets it. *)
EnterActionUnguarded(c) ==
    /\ disp[c].pc = "enter"
    /\ Dispatch(c, IF act[disp[c].at].running
                     THEN [disp[c] EXCEPT !.pc = "walk", !.at = NoId]
                     ELSE [disp[c] EXCEPT !.pc = "run"])
    /\ UNCHANGED <<lineVars, applied, inFlight, act, hardware, thread, quiet>>

(* ActionRunGuard::enter *)
EnterAction(c) ==
    /\ disp[c].pc = "enter"
    /\ LET i == disp[c].at
       IN  IF act[i].execution = "Concurrent" \/ ~act[i].running
             THEN /\ act' = [act EXCEPT ![i].running = act[i].execution = "NonReentrant"]
                  /\ Dispatch(c, [disp[c] EXCEPT !.pc = "run"])
             ELSE /\ Dispatch(c, [disp[c] EXCEPT !.pc = "walk", !.at = NoId])
                  /\ UNCHANGED act
    /\ UNCHANGED <<lineVars, applied, inFlight, hardware, thread, quiet>>

(* The handler returns and the guard is dropped *)
LeaveAction(c) ==
    /\ disp[c].pc = "run"
    /\ act' = [act EXCEPT ![disp[c].at].running = FALSE]
    /\ Dispatch(c, [disp[c] EXCEPT !.pc = "walk", !.at = NoId])
    /\ UNCHANGED <<lineVars, applied, inFlight, hardware, thread, quiet>>

EndDispatch(c) ==
    /\ disp[c].pc = "walk"
    /\ disp[c].next = NoId
    /\ inFlight' = inFlight - 1
    /\ Dispatch(c, NoDispatch)
    /\ UNCHANGED <<lineVars, applied, act, hardware, thread, quiet>>

-----------------------------------------------------------------------------
(* Specification *)

Init ==
    /\ present = FALSE
    /\ mode = "Exclusive"
    /\ chain = <<>>
    /\ desired = [l \in Lines |-> FALSE]
    /\ applied = [l \in Lines |-> FALSE]
    /\ inFlight = 0
    /\ act = [i \in Ids |-> NoAction]
    /\ controller = [l \in Lines |-> FALSE]
    /\ online = Boot
    /\ errors = 0
    /\ thread = [t \in Threads |-> Idle]
    /\ disp = [c \in Cpus |-> NoDispatch]
    /\ quiet = {}

Start(t) ==
    \/ \E req \in Requests : Request(t, req)
    \/ \E op \in {"enable", "disable", "free", "synchronize"}, i \in Ids : Call(t, op, i)

RequestStep(t) ==
    \/ SnapshotLine(t) \/ MaskLine(t) \/ MarkMasked(t) \/ InsertAction(t)
    \/ ApplyAffinity(t) \/ RestoreLine(t) \/ MarkRestored(t) \/ EndRequest(t)

CallStep(t) ==
    \/ SetActionEnabled(t) \/ ApplyNext(t) \/ DeferEnable(t) \/ CompareLine(t)
    \/ WriteLine(t) \/ MarkApplied(t) \/ DetachAction(t) \/ RemoveAction(t)
    \/ DropAction(t) \/ Synchronize(t)

BootStep(cpu) == CpuOnline(cpu) \/ PendingEnables(cpu) \/ ClearPending(cpu)

DispatchStep(c) ==
    \/ BeginDispatch(c) \/ VisitAction(c) \/ EnterAction(c) \/ LeaveAction(c)
    \/ EndDispatch(c)

Next ==
    \/ \E t \in Callers : Start(t)
    \/ \E t \in Threads : RequestStep(t) \/ CallStep(t)
    \/ \E cpu \in Cpus : BootStep(cpu) \/ TakeInterrupt(cpu) \/ DispatchStep(cpu)

Spec == Init /\ [][Next]_vars

(* A thread inside the registry keeps running, and a CPU inside a dispatch    *)
(* runs it to its end: local interrupts are off and handlers return.  Nothing *)
(* says that drivers call the registry or that the line is ever raised.       *)
Fairness ==
    /\ \A t \in Threads : WF_vars(RequestStep(t) \/ CallStep(t))
    /\ \A c \in Cpus : WF_vars(DispatchStep(c))

FairSpec == Spec /\ Fairness

-----------------------------------------------------------------------------
(* Properties *)

(* The registry's fields, the action boxes and the controller's line masks     *)
(* stay in the ranges their Rust types and the id allocator give them.         *)
TypeOK ==
    /\ present \in BOOLEAN
    /\ mode \in {"Exclusive", "Shared"}
    /\ chain \in Seq(Ids)
    /\ desired \in [Lines -> BOOLEAN]
    /\ applied \in [Lines -> BOOLEAN]
    /\ inFlight \in 0 .. Cardinality(Dispatching)
    /\ act \in [Ids -> [scope : SUBSET Lines,
                        execution : {"Concurrent", "NonReentrant"},
                        enabled : BOOLEAN, detached : BOOLEAN, running : BOOLEAN,
                        pending : SUBSET Cpus, box : {"none", "live", "freed"},
                        given : BOOLEAN]]
    /\ controller \in [Lines -> BOOLEAN]
    /\ online \in SUBSET Cpus
    /\ errors \in 0 .. MaxErrors
    /\ quiet \in SUBSET Ids

Walking(c) == disp[c].pc \in {"walk", "enter", "run"}

(* A dispatch walks the action list without the lock: every action that it is *)
(* running, or that its next pointer designates, is still allocated.  `free'  *)
(* drops an action only after a moment with no dispatch in flight.            *)
NoDanglingAction ==
    \A c \in Cpus : Walking(c) =>
        \A i \in {disp[c].at, disp[c].next} \ {NoId} : act[i].box = "live"

\* Thread t has detached its action and is on its way to drop it.
Freeing(t) ==
    \/ thread[t].op \in {"free", "drop"} /\ thread[t].pc \in {"wait", "drop"}
    \/ thread[t].op = "free" /\ thread[t].pc \in {"apply", "line", "write", "mark"}

(* Handles are Copy, so two drivers may free, or fail to enable and then free, *)
(* the same action: at most one of them gets past detach_action and drops it,  *)
(* and until it does the action is still linked or no longer reachable.        *)
OneFreer ==
    \A t \in Threads : Freeing(t) =>
        /\ act[thread[t].id].box = "live"
        /\ act[thread[t].id].detached
        /\ \A u \in Threads \ {t} : Freeing(u) => thread[u].id # thread[t].id

(* IrqExecution::NonReentrant: "The framework prevents nested/concurrent calls *)
(* to this action", on whatever CPUs the line is dispatched.                   *)
NonReentrant ==
    \A c, d \in Cpus :
        (c # d /\ disp[c].pc = "run" /\ disp[d].pc = "run" /\ disp[c].at = disp[d].at)
        => act[disp[c].at].execution = "Concurrent"

(* ShareMode::Exclusive: "No other action can share the IRQ"; the descriptor's *)
(* mode is the mode of all its active actions, which also share one scope kind.*)
Sharing ==
    \A i, j \in Active(chain, act) : i # j =>
        /\ mode = "Shared"
        /\ act[i].scope = {Global} <=> act[j].scope = {Global}

(* Once synchronize has returned for a disabled action, no CPU runs its        *)
(* handler, or is about to, until it is enabled again.                         *)
QuietAfterSynchronize ==
    \A i \in quiet, c \in Cpus : ~(disp[c].pc \in {"enter", "run"} /\ disp[c].at = i)

Settled == \A t \in Threads : At(t, "idle")

(* When no call is in progress and the controller never failed, every line of  *)
(* an online CPU is enabled in the controller exactly when some enabled action *)
(* wants it: "Enables an IRQ action and its backing line", and disables both.  *)
LinesFollowActions ==
    Settled /\ errors = 0 =>
        \A l \in Lines : ~Offline(l) =>
            (controller[l] <=>
                \E i \in Active(chain, act) : act[i].enabled /\ l \in act[i].scope)

(* When no call is in progress, line_applied is what the controller has, also  *)
(* after a controller failure at any step: apply_line_state relies on it.  The *)
(* lines of a CPU that boots later, where two threads may write, are excepted. *)
AppliedIsController ==
    Settled => \A l \in Lines \ (Cpus \ Boot) : applied[l] = controller[l]

(* When no call is in progress, an action enabled for a CPU that is still      *)
(* offline is recorded as a pending enable of that CPU, to be found when it    *)
(* comes online.                                                               *)
OfflineEnablesPending ==
    Settled => \A i \in Active(chain, act), cpu \in Cpus \ online :
        act[i].enabled /\ cpu \in act[i].scope => cpu \in act[i].pending

(* The free of a line's last action masks the line before it waits for the     *)
(* dispatches in flight, so it gets to drop the action.  On a line that other  *)
(* actions keep enabled the dispatches of two CPUs may overlap for ever.       *)
FreeCompletes ==
    \A t \in Callers :
        At(t, "wait") /\ Active(chain, act) = {} ~> ~At(t, "wait")
=============================================================================
