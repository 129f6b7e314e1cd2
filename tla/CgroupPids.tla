----------------------------- MODULE CgroupPids -----------------------------
(***************************************************************************)
(* The cgroup v2 hierarchy and its pids controller (components/ax-cgroup)   *)
(* together with the StarryOS glue that drives it: clone, exit, execve's    *)
(* de-threading, cgroup.procs writes, mkdir and rmdir in cgroupfs.          *)
(*                                                                          *)
(* One step is one critical section of the ledger lock `STATE', one atomic  *)
(* access to a counter that another step may come in between of, or one     *)
(* thread-group transaction.                                                *)
(***************************************************************************)
EXTENDS Integers, FiniteSets

CONSTANTS
    Nodes,      \* every cgroup directory that may ever be created
    Root,       \* the root cgroup
    Parent,     \* Parent[n]: the directory in which n is created
    Above,      \* Above[n]: n and all the directories above it
    Ids,        \* PID identity generations: task and process identities
    InitId,     \* the first userspace process
    Limits,     \* the values written to pids.max
    Delegating, \* the nodes whose cgroup.subtree_control is written
    Unlimited,  \* the value of pids.max that stands for "max"
    MaxEvents,  \* bound: pids.events entries recorded at a node
    MaxPins,    \* bound: MaxPins[n] namespaces and mounts that pin n
    None        \* absence of an identity

ASSUME HierarchyAssumption ==
    /\ Root \in Nodes
    /\ Parent \in [Nodes \ {Root} -> Nodes]
    /\ Above \in [Nodes -> SUBSET Nodes]
    /\ Above[Root] = {Root}
    /\ \A n \in Nodes \ {Root} :
          /\ Above[n] = {n} \cup Above[Parent[n]]
          /\ n \notin Above[Parent[n]]

ASSUME IdsAssumption ==
    /\ IsFiniteSet(Ids)
    /\ InitId \in Ids
    /\ None \notin Ids

ASSUME BoundsAssumption ==
    /\ Limits \subseteq Nat
    /\ Delegating \subseteq Nodes
    /\ Unlimited \in Nat
    /\ MaxEvents \in Nat
    /\ MaxPins \in [Nodes -> Nat]

VARIABLES
    nstate,     \* life of a directory: linked in its parent, unlinked, freed
    current, maximum, maxEvents,      \* PidsState of every node, without its peak
    members,    \* cgroup.procs of every node
    subtree,    \* pids enabled for the direct children
    pins,       \* CgroupPins that hold the node
    pending,    \* MembershipState::pending_tasks
    tasks,      \* MembershipState::tasks
    guard,      \* the CgroupForkGuard of a clone in progress
    charge,     \* the fork that holds the ledger lock while it charges its path
    procs,      \* ProcessMembership of every process
    group,      \* the thread group of every process
    thread,     \* what a task is doing
    txn         \* holder of the process transaction lock across an exit

nodeVars == <<nstate, members, subtree, pins>>
pidsVars == <<current, maximum, maxEvents>>
ledgerVars == <<pending, tasks, guard, charge>>
procVars == <<procs, group, thread, txn>>
vars == <<nodeVars, pidsVars, ledgerVars, procVars>>

NoTask == [process |-> None, cgroup |-> Root]
NoGuard == [publication |-> "None", kind |-> "Thread", process |-> None,
            cgroup |-> Root, path |-> {}, by |-> None]
NoProc == [state |-> "None", cgroup |-> Root]

\* task is the identity that a fork charges for, locked the process whose
\* transaction lock the caller holds, todo the nodes of the path that are not
\* charged yet; seen and limit are what try_charge loaded at the lowest of them.
NoCharge == [step |-> "free", task |-> None, locked |-> None, todo |-> {}, seen |-> 0, limit |-> 0]

Task == [process : Ids \cup {None}, cgroup : Nodes]
Publication == {"None", "Charging", "Prepared", "Published", "Member", "Uncharge"}
Guard == [publication : Publication, kind : {"Process", "Thread"},
          process : Ids \cup {None}, cgroup : Nodes, path : SUBSET Nodes,
          by : Ids \cup {None}]
Proc == [state : {"None", "Active", "Exited"}, cgroup : Nodes]
Charge == [step : {"free", "current", "maximum", "exchange"},
           task : Ids \cup {None}, locked : Ids \cup {None},
           todo : SUBSET Nodes, seen : Int, limit : Nat]

-----------------------------------------------------------------------------
(* Hierarchy and counters *)

Live(n) == nstate[n] \in {"linked", "unlinked"}

\* CgroupNode::parent upgrades a Weak reference: the walk towards the root
\* stops below the first ancestor that has been freed.
Ancestry(n) ==
    {a \in Above[n] : \A b \in Above[n] \ {n} : a \in Above[b] => Live(b)}

\* An open cgroupfs entry holds the entries of all the directories above it.
Openable(n) == \A a \in Above[n] : Live(a)

HasParent(n) == n # Root /\ Live(Parent[n])

HasPidsInterface(n) == HasParent(n) /\ subtree[Parent[n]]

Charged(path, count) ==
    [n \in Nodes |-> IF n \in path THEN current[n] + count ELSE current[n]]

\* Mutant: reservations are not looked at.
PendingIgnored(p) == FALSE

HasPendingTask(p) == \E t \in Ids : pending[t] = p

Tasks(p) == {t \in Ids : tasks[t].process = p}

-----------------------------------------------------------------------------
(* Fork: reserve, publish, become visible, commit; or roll back *)

\* The identity of a new task is a fresh one: no structure mentions it.
Fresh(t) ==
    /\ thread[t] = "none" /\ guard[t] = NoGuard /\ pending[t] = None
    /\ tasks[t] = NoTask /\ procs[t] = NoProc /\ group[t] = {} /\ txn[t] = None

LedgerFree == charge.step = "free"

\* begin_task_at takes the ledger lock and collects the path to charge.
BeginTaskAt(c, t, p, kind, target, locked) ==
    /\ Fresh(t) /\ LedgerFree
    /\ guard' = [guard EXCEPT ![t] =
                    [publication |-> "Charging", kind |-> kind,
                     process |-> IF kind = "Process" THEN t ELSE p,
                     cgroup |-> target, path |-> {}, by |-> c]]
    /\ charge' = [NoCharge EXCEPT !.step = "current", !.task = t, !.locked = locked,
                                  !.todo = Ancestry(target)]
    /\ UNCHANGED <<nodeVars, pidsVars, pending, tasks, procVars>>

\* A thread that runs and is not inside clone.
Idle(c) == thread[c] = "run" /\ \A t \in Ids : guard[t].by # c

\* clone and fork: the child inherits the process's cgroup under the process
\* transaction lock (ProcessMembership::begin_task).
BeginTask(c, t, kind) ==
    \E p \in Ids :
        /\ c \in group[p] /\ Idle(c) /\ txn[p] = None
        /\ procs[p].state = "Active"
        /\ BeginTaskAt(c, t, p, kind, procs[p].cgroup, p)

\* clone3(CLONE_INTO_CGROUP): the target comes from an open directory, which
\* may have been removed in the meantime. No process lock is taken.
BeginProcessAt(c, t, target) ==
    /\ Idle(c)
    /\ Openable(target)
    /\ BeginTaskAt(c, t, t, "Process", target, None)

\* The lowest node that charge_path has not charged yet.
NextUp(n) == n \in charge.todo /\ charge.todo \subseteq Above[n]

\* try_charge: two loads, then a compare-exchange of pids.current alone. The
\* ledger lock keeps other charges out; uncharges of rolled back clones and
\* writes of pids.max come in between.
LoadCurrent(n) ==
    /\ charge.step = "current" /\ NextUp(n)
    /\ charge' = [charge EXCEPT !.step = "maximum", !.seen = current[n]]
    /\ UNCHANGED <<nodeVars, pidsVars, pending, tasks, guard, procVars>>

\* Mutant: the limit itself is still let through.
FullOffByOne(n) == charge.seen > maximum[n]

Full(n) == charge.seen >= maximum[n]

LoadMaximum(n) ==
    /\ charge.step = "maximum" /\ NextUp(n) /\ ~Full(n)
    /\ charge' = [charge EXCEPT !.step = "exchange", !.limit = maximum[n]]
    /\ UNCHANGED <<nodeVars, pidsVars, pending, tasks, guard, procVars>>

\* The limit is reached: what was charged below is uncharged, and the node and
\* those above it record the event.
ChargeFails(n) ==
    LET t == charge.task
        failed == {m \in charge.todo : HasParent(m) /\ maxEvents[m] < MaxEvents}
    IN  /\ charge.step = "maximum" /\ NextUp(n) /\ Full(n)
        /\ current' = Charged(guard[t].path, -1)
        /\ maxEvents' = [m \in Nodes |-> IF m \in failed THEN maxEvents[m] + 1 ELSE maxEvents[m]]
        /\ guard' = [guard EXCEPT ![t] = NoGuard]
        /\ charge' = NoCharge
        /\ UNCHANGED <<nodeVars, maximum, pending, tasks, procVars>>

\* The last node of the path makes the reservation.
Exchange(n) ==
    LET t == charge.task
        last == charge.todo = {n}
    IN  /\ charge.step = "exchange" /\ NextUp(n) /\ current[n] = charge.seen
        /\ current' = [current EXCEPT ![n] = @ + 1]
        /\ guard' = [guard EXCEPT ![t].path = @ \cup {n},
                                  ![t].publication = IF last THEN "Prepared" ELSE @]
        /\ pending' = IF last THEN [pending EXCEPT ![t] = guard[t].process] ELSE pending
        /\ charge' = IF last THEN NoCharge
                     ELSE [charge EXCEPT !.step = "current", !.todo = @ \ {n},
                                         !.seen = 0, !.limit = 0]
        /\ UNCHANGED <<nodeVars, maximum, maxEvents, tasks, procVars>>

ExchangeFails(n) ==
    /\ charge.step = "exchange" /\ NextUp(n) /\ current[n] # charge.seen
    /\ charge' = [charge EXCEPT !.step = "current", !.seen = 0, !.limit = 0]
    /\ UNCHANGED <<nodeVars, pidsVars, pending, tasks, guard, procVars>>

\* CgroupForkGuard::publish
Publish(t) ==
    LET g == guard[t]
    IN  /\ g.publication = "Prepared" /\ LedgerFree
        /\ pending[t] = g.process /\ tasks[t] = NoTask
        /\ g.kind = "Process" => t \notin members[g.cgroup]
        /\ members' = IF g.kind = "Process"
                      THEN [members EXCEPT ![g.cgroup] = @ \cup {t}] ELSE members
        /\ tasks' = [tasks EXCEPT ![t] = [process |-> g.process, cgroup |-> g.cgroup]]
        /\ guard' = [guard EXCEPT ![t].publication = "Published"]
        /\ UNCHANGED <<nstate, subtree, pins, pidsVars, pending, charge, procVars>>

\* publish_clone: the PID, the process and the thread-group entry appear. It is
\* the last step of clone that can fail.
PublishClone(t) ==
    LET g == guard[t]
    IN  /\ g.publication = "Published" /\ t \notin group[g.process]
        /\ group' = [group EXCEPT ![g.process] = @ \cup {t}]
        /\ procs' = IF g.kind = "Process"
                    THEN [procs EXCEPT ![t] = [state |-> "Active", cgroup |-> g.cgroup]]
                    ELSE procs
        /\ UNCHANGED <<nodeVars, pidsVars, ledgerVars, thread, txn>>

\* CgroupForkGuard::commit, then the scheduler activates the task.
Commit(t) ==
    /\ guard[t].publication = "Published" /\ t \in group[guard[t].process] /\ LedgerFree
    /\ pending' = [pending EXCEPT ![t] = None]
    /\ guard' = [guard EXCEPT ![t] = NoGuard]
    /\ thread' = [thread EXCEPT ![t] = "run"]
    /\ UNCHANGED <<nodeVars, pidsVars, tasks, charge, procs, group, txn>>

\* Mutant: the rollback of a published task forgets its charges.
DropLedgerKeepsCharge(t) ==
    LET g == guard[t]
    IN  /\ g.publication \in {"Prepared", "Published"} /\ t \notin group[g.process] /\ LedgerFree
        /\ pending' = [pending EXCEPT ![t] = None]
        /\ tasks' = [tasks EXCEPT ![t] = NoTask]
        /\ guard' = [guard EXCEPT ![t] = IF g.publication = "Published" THEN NoGuard
                                         ELSE [g EXCEPT !.publication = "Uncharge"]]
        /\ UNCHANGED <<nodeVars, pidsVars, charge, procVars>>

\* A failed clone drops the guard. The ledger entries go under the ledger lock.
DropLedger(t) ==
    LET g == guard[t]
    IN  /\ g.publication \in {"Prepared", "Published"} /\ t \notin group[g.process] /\ LedgerFree
        /\ pending' = [pending EXCEPT ![t] = None]
        /\ tasks' = [tasks EXCEPT ![t] = NoTask]
        /\ guard' = [guard EXCEPT ![t].publication =
                        IF g.publication = "Published" /\ g.kind = "Process"
                        THEN "Member" ELSE "Uncharge"]
        /\ UNCHANGED <<nodeVars, pidsVars, charge, procVars>>

DropMember(t) ==
    /\ guard[t].publication = "Member"
    /\ members' = [members EXCEPT ![guard[t].cgroup] = @ \ {t}]
    /\ guard' = [guard EXCEPT ![t].publication = "Uncharge"]
    /\ UNCHANGED <<nstate, subtree, pins, pidsVars, pending, tasks, charge, procVars>>

\* uncharge_path of the guard runs after the ledger lock was released, one node
\* at a time from the leaf upwards.
DropUncharge(t) ==
    LET g == guard[t]
    IN  /\ g.publication = "Uncharge"
        /\ \E n \in g.path :
              /\ g.path \subseteq Above[n]
              /\ current' = [current EXCEPT ![n] = @ - 1]
              /\ guard' = [guard EXCEPT ![t] = IF g.path = {n} THEN NoGuard
                                               ELSE [g EXCEPT !.path = @ \ {n}]]
        /\ UNCHANGED <<nodeVars, maximum, maxEvents, pending, tasks, charge, procVars>>

-----------------------------------------------------------------------------
(* Migration, exit, execve *)

\* A write to cgroup.procs moves every task of p (ProcessMembership::migrate).
\* Writes that return an error change nothing. For paths of live nodes the
\* common suffix that unique_paths strips is their intersection. The charges are
\* unchecked and commute with all that may come in between them, so they are one
\* step.
Migrate(p, target) ==
    LET old == procs[p].cgroup
        moved == Tasks(p)
        oldUnique == Ancestry(old) \ Ancestry(target)
        targetUnique == Ancestry(target) \ Ancestry(old)
        count == Cardinality(moved)
    IN  /\ procs[p].state = "Active" /\ txn[p] = None /\ LedgerFree
        /\ Openable(target) /\ target # old
        /\ ~HasPendingTask(p)
        /\ moved # {} /\ \A t \in moved : tasks[t].cgroup = old
        /\ p \in members[old] /\ p \notin members[target]
        /\ members' = [members EXCEPT ![old] = @ \ {p}, ![target] = @ \cup {p}]
        /\ tasks' = [t \in Ids |-> IF t \in moved THEN [tasks[t] EXCEPT !.cgroup = target]
                                   ELSE tasks[t]]
        /\ current' = [n \in Nodes |-> current[n]
                          + (IF n \in targetUnique THEN count ELSE 0)
                          - (IF n \in oldUnique THEN count ELSE 0)]
        /\ procs' = [procs EXCEPT ![p].cgroup = target]
        /\ UNCHANGED <<nstate, subtree, pins, maximum, maxEvents, pending, guard, charge,
                       group, thread, txn>>

\* finish_thread_exit, first half: with the process transaction lock held,
\* Process::exit_thread leaves the thread group. The last thread of the first
\* process never exits (do_exit panics).
ExitThread(t) ==
    \E p \in Ids :
        /\ t \in group[p] /\ Idle(t) /\ txn[p] = None /\ charge.locked # p
        /\ p = InitId => group[p] # {t}
        /\ txn' = [txn EXCEPT ![p] = t]
        /\ group' = [group EXCEPT ![p] = @ \ {t}]
        /\ thread' = [thread EXCEPT ![t] = "exiting"]
        /\ UNCHANGED <<nodeVars, pidsVars, ledgerVars, procs>>

\* What ProcessMembership::exit_task demands of the ledger. A failure reaches
\* cgroup_exit_invariant::enforce, which panics.
ExitAccepted(p, t) ==
    /\ tasks[t].process = p /\ tasks[t].cgroup = procs[p].cgroup
    /\ group[p] = {} => ~HasPendingTask(p) /\ Tasks(p) = {t}

\* finish_thread_exit, second half: exit_task and the release of the lock.
ExitTask(t) ==
    \E p \in Ids :
        /\ txn[p] = t /\ procs[p].state = "Active" /\ LedgerFree
        /\ ExitAccepted(p, t)
        /\ tasks' = [tasks EXCEPT ![t] = NoTask]
        /\ members' = IF group[p] = {}
                      THEN [members EXCEPT ![tasks[t].cgroup] = @ \ {p}] ELSE members
        /\ current' = Charged(Ancestry(tasks[t].cgroup), -1)
        /\ procs' = IF group[p] = {} THEN [procs EXCEPT ![p].state = "Exited"] ELSE procs
        /\ txn' = [txn EXCEPT ![p] = None]
        /\ thread' = [thread EXCEPT ![t] = "none"]
        /\ UNCHANGED <<nstate, subtree, pins, maximum, maxEvents, pending,
                       guard, charge, group>>

\* execve by a thread that is alone in its group while the leader's identity is
\* retired: de_thread hands it the leader's identity (rename_task).
ReadyToRename(p, c) == c # p /\ group[p] = {c} /\ Idle(c) /\ txn[p] = None

\* What rename_task demands of the ledger; execve expects it to succeed.
RenameAccepted(p, c) ==
    /\ procs[p].state = "Active"
    /\ tasks[c].process = p /\ tasks[c].cgroup = procs[p].cgroup
    /\ pending[p] = None /\ tasks[p] = NoTask

\* Mutant: the ledger keeps the entry of the old identity.
DeThreadKeepsEntry(p, c) ==
    /\ ReadyToRename(p, c) /\ LedgerFree
    /\ RenameAccepted(p, c)
    /\ tasks' = [tasks EXCEPT ![p] = tasks[c]]
    /\ group' = [group EXCEPT ![p] = {p}]
    /\ thread' = [thread EXCEPT ![c] = "none", ![p] = "run"]
    /\ UNCHANGED <<nodeVars, pidsVars, pending, guard, charge, procs, txn>>

DeThread(p, c) ==
    /\ ReadyToRename(p, c) /\ LedgerFree
    /\ RenameAccepted(p, c)
    /\ tasks' = [tasks EXCEPT ![c] = NoTask, ![p] = tasks[c]]
    /\ group' = [group EXCEPT ![p] = {p}]
    /\ thread' = [thread EXCEPT ![c] = "none", ![p] = "run"]
    /\ UNCHANGED <<nodeVars, pidsVars, pending, guard, charge, procs, txn>>

\* The zombie is waited for and its ProcessData is dropped.
Reap(p) ==
    /\ procs[p].state = "Exited"
    /\ procs' = [procs EXCEPT ![p] = NoProc]
    /\ UNCHANGED <<nodeVars, pidsVars, ledgerVars, group, thread, txn>>

-----------------------------------------------------------------------------
(* cgroupfs *)

\* mkdir: CgroupNode::create_child
CreateChild(n) ==
    /\ nstate[n] = "absent" /\ Openable(Parent[n])
    /\ nstate' = [nstate EXCEPT ![n] = "linked"]
    /\ UNCHANGED <<members, subtree, pins, pidsVars, ledgerVars, procVars>>

\* rmdir: CgroupNode::remove_child asks for no child, no member and no pin. It
\* does not look at the reservations of the ledger.
RemoveChild(n) ==
    /\ n # Root /\ nstate[n] = "linked" /\ Openable(Parent[n])
    /\ \A c \in Nodes \ {Root} : Parent[c] = n => nstate[c] # "linked"
    /\ members[n] = {} /\ pins[n] = 0
    /\ nstate' = [nstate EXCEPT ![n] = "unlinked"]
    /\ UNCHANGED <<members, subtree, pins, pidsVars, ledgerVars, procVars>>

Referenced(n) ==
    \/ pins[n] # 0 \/ n \in charge.todo
    \/ \E t \in Ids : \/ tasks[t].process # None /\ tasks[t].cgroup = n
                      \/ guard[t].publication # "None" /\ n \in guard[t].path \cup {guard[t].cgroup}
                      \/ procs[t].state # "None" /\ procs[t].cgroup = n

\* The last open file of a removed directory is closed and its Arc is dropped,
\* and with it the map that links its children.
Reclaim(n) ==
    /\ nstate[n] = "unlinked" /\ ~Referenced(n)
    /\ nstate' = [m \in Nodes |->
                    IF m = n THEN "freed"
                    ELSE IF m # Root /\ nstate[m] = "linked" /\ Parent[m] = n
                         THEN "unlinked" ELSE nstate[m]]
    /\ UNCHANGED <<members, subtree, pins, pidsVars, ledgerVars, procVars>>

WriteSubtreeControl(n) ==
    /\ n \in Delegating /\ Openable(n) /\ ~subtree[n]
    /\ n = Root \/ HasPidsInterface(n)
    /\ subtree' = [subtree EXCEPT ![n] = TRUE]
    /\ UNCHANGED <<nstate, members, pins, pidsVars, ledgerVars, procVars>>

WritePidsMax(n, max) ==
    /\ Openable(n) /\ HasPidsInterface(n)
    /\ maximum' = [maximum EXCEPT ![n] = max]
    /\ UNCHANGED <<nodeVars, current, maxEvents, ledgerVars, procVars>>

\* CgroupNamespace::new pins the cgroup of the process that unshares.
Pin(n) ==
    /\ pins[n] < MaxPins[n]
    /\ \E p \in Ids : procs[p].state = "Active" /\ procs[p].cgroup = n
    /\ pins' = [pins EXCEPT ![n] = @ + 1]
    /\ UNCHANGED <<nstate, members, subtree, pidsVars, ledgerVars, procVars>>

\* Mutant: a pin is dropped twice.
UnpinTwice(n) ==
    /\ pins[n] > 0
    /\ pins' = [pins EXCEPT ![n] = @ - 2]
    /\ UNCHANGED <<nstate, members, subtree, pidsVars, ledgerVars, procVars>>

Unpin(n) ==
    /\ pins[n] > 0
    /\ pins' = [pins EXCEPT ![n] = @ - 1]
    /\ UNCHANGED <<nstate, members, subtree, pidsVars, ledgerVars, procVars>>

-----------------------------------------------------------------------------
\* After boot: attach_initial_process charged the root for the first process.
Init ==
    /\ nstate = [n \in Nodes |-> IF n = Root THEN "linked" ELSE "absent"]
    /\ current = [n \in Nodes |-> IF n = Root THEN 1 ELSE 0]
    /\ maximum = [n \in Nodes |-> Unlimited]
    /\ maxEvents = [n \in Nodes |-> 0]
    /\ members = [n \in Nodes |-> IF n = Root THEN {InitId} ELSE {}]
    /\ subtree = [n \in Nodes |-> FALSE]
    /\ pins = [n \in Nodes |-> 0]
    /\ pending = [t \in Ids |-> None]
    /\ tasks = [t \in Ids |-> IF t = InitId THEN [process |-> InitId, cgroup |-> Root]
                              ELSE NoTask]
    /\ guard = [t \in Ids |-> NoGuard]
    /\ charge = NoCharge
    /\ procs = [p \in Ids |-> IF p = InitId THEN [state |-> "Active", cgroup |-> Root]
                              ELSE NoProc]
    /\ group = [p \in Ids |-> IF p = InitId THEN {InitId} ELSE {}]
    /\ thread = [t \in Ids |-> IF t = InitId THEN "run" ELSE "none"]
    /\ txn = [p \in Ids |-> None]

Fork(t) ==
    \/ \E c \in Ids, kind \in {"Process", "Thread"} : BeginTask(c, t, kind)
    \/ \E c \in Ids, n \in Nodes : BeginProcessAt(c, t, n)
    \/ Publish(t) \/ PublishClone(t) \/ Commit(t)
    \/ DropLedger(t) \/ DropMember(t) \/ DropUncharge(t)

Process(p) ==
    \/ \E n \in Nodes : Migrate(p, n)
    \/ ExitThread(p) \/ ExitTask(p) \/ Reap(p)
    \/ \E c \in Ids : DeThread(p, c)

Directory(n) ==
    \/ n # Root /\ (CreateChild(n) \/ RemoveChild(n) \/ Reclaim(n))
    \/ WriteSubtreeControl(n) \/ Pin(n) \/ Unpin(n)
    \/ \E max \in Limits \cup {Unlimited} : WritePidsMax(n, max)

Charging(n) ==
    LoadCurrent(n) \/ LoadMaximum(n) \/ ChargeFails(n) \/ Exchange(n) \/ ExchangeFails(n)

Next ==
    \/ \E i \in Ids : Fork(i) \/ Process(i)
    \/ \E n \in Nodes : Charging(n) \/ Directory(n)

Spec == Init /\ [][Next]_vars

-----------------------------------------------------------------------------
(* Properties *)

\* Every variable has its type; a task counter is an integer here so that an
\* underflow of uncharge shows as a negative value.
TypeOK ==
    /\ nstate \in [Nodes -> {"absent", "linked", "unlinked", "freed"}]
    /\ current \in [Nodes -> Int]
    /\ maximum \in [Nodes -> Nat]
    /\ maxEvents \in [Nodes -> Nat]
    /\ members \in [Nodes -> SUBSET Ids]
    /\ subtree \in [Nodes -> BOOLEAN]
    /\ pins \in [Nodes -> Nat]
    /\ pending \in [Ids -> Ids \cup {None}]
    /\ tasks \in [Ids -> Task]
    /\ guard \in [Ids -> Guard]
    /\ charge \in Charge
    /\ procs \in [Ids -> Proc]
    /\ group \in [Ids -> SUBSET Ids]
    /\ thread \in [Ids -> {"none", "run", "exiting"}]
    /\ txn \in [Ids -> Ids \cup {None}]

\* The nodes whose charge for the identity t will be released: the path that its
\* fork guard still owes, or else the path that exit will walk from the cgroup of
\* its ledger entry.
ChargedNodes(t) ==
    IF guard[t].publication # "None" THEN guard[t].path
    ELSE IF tasks[t].process # None THEN Ancestry(tasks[t].cgroup)
    ELSE {}

ChargedIds(n) == {t \in Ids : n \in ChargedNodes(t)}

\* pids.current of every existing cgroup is exactly the number of tasks and fork
\* reservations whose end will release a charge there: the counters stay
\* balanced across fork rollback, thread exit, process exit, execve and
\* migration (docs/design/starry-cgroup-pids-l4.md).
Balanced == \A n \in Nodes : Live(n) => current[n] = Cardinality(ChargedIds(n))

\* No task sits in a cgroup that lost a directory above it.
NoOrphan == \A t \in Ids : tasks[t].process # None => Openable(tasks[t].cgroup)

\* As long as no directory above a task disappears, the counters stay balanced,
\* however deep the hierarchy is.
BalancedUnlessOrphaned == ([]NoOrphan) => []Balanced

\* exit_task and rename_task run where failure is no longer possible: a thread
\* that left its group finds its ledger entry in the cgroup of its process, the
\* last one finds no other entry and no reservation, and a de-threaded task
\* finds the leader's entry gone. Otherwise cgroup_exit_invariant::enforce or
\* the expect in execve stop the kernel.
NeverPanics ==
    /\ \A p, t \in Ids : txn[p] = t => procs[p].state = "Active" /\ ExitAccepted(p, t)
    /\ \A p, c \in Ids : ReadyToRename(p, c) => RenameAccepted(p, c)

\* Migration never splits a thread group: while a process is active it is listed
\* in cgroup.procs of its own cgroup and nowhere else, and every committed task
\* of it is charged to that cgroup.
OneCgroupPerProcess ==
    \A p \in Ids : procs[p].state = "Active" =>
        /\ {n \in Nodes : p \in members[n]} = {procs[p].cgroup}
        /\ \A t \in Tasks(p) : tasks[t].cgroup = procs[p].cgroup

\* pids.max is enforced against fork: a step that raises pids.current beyond the
\* limit moves a process into the subtree, or it is the compare-exchange of a
\* fork that loaded pids.max before it was lowered. The lock admits one such fork
\* for a write, and the outcome is that of a fork that came before the write.
LimitEnforced ==
    [][\A n \in Nodes : current'[n] > current[n] /\ current'[n] > maximum[n] =>
            \/ \E p \in Ids : /\ procs'[p].cgroup # procs[p].cgroup
                              /\ n \in Above[procs'[p].cgroup]
                              /\ n \notin Above[procs[p].cgroup]
            \/ charge.step = "exchange" /\ NextUp(n) /\ maximum[n] < charge.limit]_vars

-----------------------------------------------------------------------------
(* The invariants behind the proofs *)

\* How a fork guard, the ledger and the thread groups hang together.
ForkInv ==
    \A t \in Ids :
        LET g == guard[t]
        IN  /\ thread[t] # "none" => g.publication = "None" /\ tasks[t].process # None
            /\ g.publication = "Published" =>
                  /\ pending[t] = g.process
                  /\ tasks[t] = [process |-> g.process, cgroup |-> g.cgroup]
            /\ g.publication \in {"Charging", "Prepared", "Member", "Uncharge"} =>
                  tasks[t].process = None
            /\ procs[t].state # "None" =>
                  \/ g.publication = "None"
                  \/ g.publication = "Published" /\ t \in group[g.process]
            /\ g.publication \in {"Charging", "Prepared", "Published"} => g.process \in Ids

\* The ledger lock is held for the fork whose guard is being charged: the nodes
\* still to be charged are not charged yet, and the exchange follows a load of
\* pids.current below the limit.
ChargeInv ==
    /\ \A t \in Ids : guard[t].publication = "Charging" <=> charge.task = t
    /\ charge.step = "free" <=> charge.task = None
    /\ charge.step = "free" => charge.todo = {}
    /\ charge.step = "exchange" => charge.seen < charge.limit
    /\ \A t \in Ids : charge.task = t => guard[t].path \cap charge.todo = {}

\* A guard holds the charges of the whole path to the root, or is about to,
\* unless a directory on it was gone before the fork.
PathInv ==
    /\ \A n \in Nodes : nstate[n] # "absent" => \A a \in Above[n] : nstate[a] # "absent"
    /\ \A t \in Ids :
        LET g == guard[t]
        IN  /\ nstate[g.cgroup] # "absent" /\ nstate[procs[t].cgroup] # "absent"
            /\ g.publication \in {"Charging", "Prepared", "Published"} =>
                  \/ g.path \cup (IF g.publication = "Charging" THEN charge.todo ELSE {})
                        = Above[g.cgroup]
                  \/ \E a \in Above[g.cgroup] : nstate[a] = "freed"

\* A clone has its reservation in the ledger, and the process that it adds a
\* thread to stays where it is: a thread of that process is inside clone.
CloneInv ==
    \A t \in Ids :
        LET g == guard[t]
            p == guard[t].process
        IN  /\ pending[t] # None => g.publication \in {"Prepared", "Published"}
            /\ g.publication \in {"Prepared", "Published"} => pending[t] = p
            /\ g.publication \in {"Charging", "Prepared", "Published"} =>
                  /\ g.kind = "Process" =>
                        p = t /\ (procs[t].state = "Active" => procs[t].cgroup = g.cgroup)
                  /\ g.kind = "Thread" =>
                        /\ p # t /\ procs[t].state = "None"
                        /\ procs[p].state = "Active" /\ procs[p].cgroup = g.cgroup
                        /\ g.by \in group[p]

\* A member of a group, or the thread that is leaving it, belongs to the active
\* process of that group.
InGroup(p, t) ==
    t \in group[p] => /\ procs[p].state = "Active" /\ tasks[t].process = p
                      /\ thread[t] = "run" \/ guard[t].publication = "Published"

Leaving(p, t) == txn[p] = t => procs[p].state = "Active" /\ tasks[t].process = p

\* A thread with a ledger entry is in the group of an active process, or on its
\* way into or out of it, and its entry is in the cgroup of that process.
Entered(t) ==
    LET p == tasks[t].process
    IN  p # None =>
          \/ p = t /\ guard[t].publication = "Published"
          \/ /\ procs[p].state = "Active" /\ tasks[t].cgroup = procs[p].cgroup
             /\ t \in group[p] \/ txn[p] = t \/ guard[t].publication = "Published"

\* An identity without a process has an empty entry, and the identity of a
\* process is a thread of no other.
Owned(t) ==
    /\ tasks[t].process = None => tasks[t] = NoTask
    /\ procs[t].state # "None" => tasks[t].process \in {t, None}

GroupInv ==
    /\ \A p, t \in Ids : InGroup(p, t) /\ Leaving(p, t)
    /\ \A t \in Ids : Entered(t) /\ Owned(t)

\* cgroup.procs lists the active processes, each in its cgroup, and those whose
\* clone is still going on.
Listed(p, n) ==
    \/ procs[p].state = "Active" /\ procs[p].cgroup = n
    \/ /\ guard[p].publication \in {"Published", "Member"} /\ guard[p].kind = "Process"
       /\ guard[p].cgroup = n

MemberInv == \A p \in Ids, n \in Nodes : p \in members[n] <=> Listed(p, n)

\* The process lock is held by a thread on its way out, and by no thread twice.
TxnInv ==
    /\ \A p \in Ids : txn[p] # None => thread[txn[p]] = "exiting"
    /\ \A p, q \in Ids : txn[p] # None /\ txn[p] = txn[q] => p = q

\* A directory that something refers to is alive.
LiveInv ==
    /\ nstate[Root] = "linked"
    /\ \A t \in Ids :
        /\ tasks[t].process # None => Live(tasks[t].cgroup)
        /\ guard[t].publication # "None" => Live(guard[t].cgroup)
        /\ procs[t].state # "None" => Live(procs[t].cgroup)

\* The counters are exact at every node, freed or not yet created ones included.
Exact == \A n \in Nodes : current[n] = Cardinality(ChargedIds(n))
=============================================================================
