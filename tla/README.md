# TLA+ models of TGOSKits

TGOSKits is a workspace of operating-system components (schedulers, memory,
interrupts, file systems, drivers, virtualisation) and of the three systems built
from them: the unikernel ArceOS, the Linux-compatible kernel StarryOS and the
hypervisor AxVisor. This directory holds TLA+ models of the parts whose
correctness depends on the order in which threads, CPUs and callbacks act, the
TLC configurations that check them, and TLAPS proofs.

- [Parts of the system](#parts-of-the-system)
- [Modules](#modules): [cgroups](#cgroup-pids-cgrouppids) ·
  [interrupts](#interrupt-registry-irqregistry) ·
  [readiness queues and eventfd](#readiness-queues-and-eventfd-pollset-eventfd) ·
  [park and wake](#park-and-wake-parkops-park-parkwake) ·
  [semaphores](#semaphores-on-a-shared-park-semaphore-rwsem-tasksync)
- [Runs](#runs) · [Fairness](#fairness) · [Refinement](#refinement) · [Proofs](#proofs) ·
  [Disagreements with the code](#disagreements-with-the-code)
- [What is only model-checked](#what-is-only-model-checked) ·
  [What is not modelled](#what-is-not-modelled)

To run a configuration: `tlc -config MCEventFd_sole.cfg MCEventFd`. To check a
proof: `tlapm ParkWake_proofs.tla`; the eight proof modules take from one to twenty
minutes each. `PROJECT.json` maps each definition to the lines it models and lists
the hazards behind the properties.

## Parts of the system

| layer | where | what keeps state and who shares it |
|---|---|---|
| tasks | `components/ax-task`, `axsched`, `timer_list` | thread states, run queues, wait queues, executors; every CPU and every interrupt handler |
| interrupts | `components/irq-framework`, `platforms/ax-plat`, `os/arceos/modules/axipi` | one descriptor per line; drivers, dispatching CPUs, CPUs coming online |
| readiness | `components/axpoll`, `axpoll-set` | queues of wakers owned by files, sockets and devices |
| memory | `memory/*`, `os/arceos/modules/axmm`, `os/StarryOS/kernel/src/mm` | free lists, address-space areas, page tables, page cache |
| synchronisation | `os/arceos/modules/axsync`, `components/ax-lazyinit`, `percpu`, `scope-local` | locks, semaphores, once-cells |
| files and network | `fs/*`, `net/ax-net`, StarryOS `file`, `pseudofs`, `ipc` | inodes, journals, pipes, eventfds, epoll sets, sockets |
| processes | StarryOS `task`, `signal`, `namespace`, `components/ax-cgroup` | thread groups, PIDs, signals, cgroup membership |
| virtualisation | `virtualization/*`, `os/axvisor` | VMs, vCPUs, emulated interrupt controllers and virtio queues, inter-VM channels |
| hardware | `drivers/*`, `platforms/*`, `components/axcpu`, `bootloader` | device registers, boot |
| tools | `xtask`, `scripts`, `tools`, `apps`, `test-suit`, `benchmarks` | host side; not part of the running system |

Some of these meet in the models here. StarryOS's clone, exit, execve and
cgroupfs drive `ax-cgroup` under three different locks. ax-plat puts the
registry of `irq-framework` between drivers and the interrupt controller. A
StarryOS file owns the queues of `axpoll-set`, its system calls are futures of
`kernel/src/task/future.rs`, and the executor of `ax-task` parks the thread that
runs them until a waker calls. Under all of it lies the park of an ax-task thread: a state
word, two locks and a run queue that the thread and its wakers change without
waiting for each other. The sleeping locks of ax-task are built on it, and a
thread that uses several of them has still only one park.

## Modules

| module | models | extends |
|---|---|---|
| `CgroupPids` | ax-cgroup and the StarryOS code that drives it | |
| `CgroupPids_proofs` | proofs: types and directories; processes; counters | `CgroupPids` |
| `IrqRegistry` | irq-framework and the ax-plat CPU hot-plug path | |
| `IrqInvariant_proofs` | the invariant of the registry and its parts | `IrqRegistry` |
| `IrqRegistry_proofs` | every step keeps it; what follows for actions and dispatches | `IrqInvariant_proofs` |
| `IrqLines_proofs` | what each step keeps true of the controller's lines | `IrqInvariant_proofs` |
| `IrqTurns_proofs` | what follows for the lines | both of these |
| `PollSet` | axpoll-set: the operations of one readiness queue | |
| `EventFd` | the StarryOS eventfd, the `poll_io` and `poll_shared` futures; the executor as a wait on a condition | `PollSet` |
| `EventFd_proofs` | its invariant and what follows from it | `EventFd` |
| `ParkOps` | the park of one thread as its users see it: a state and a sticky notification | |
| `Park` | what park and wake calls promise: the abstract specification | `ParkOps` |
| `ParkWake` | the scheduler's handshake between a park and its wakers; instantiates `Park` | |
| `ParkWake_proofs` | its invariants, and that it implements `Park` | `ParkWake` |
| `Semaphore`, `RwSem` | ax-task's counting and reader-writer semaphore | `ParkOps` |
| `TaskSync` | both semaphores on the same threads and parks | instantiates both |
| `TaskSync_proofs` | proofs: the reader-writer semaphore, then the counting one | `TaskSync` |
| `MCCgroupPids`, `MCIrqRegistry`, `MCEventFd`, `MCParkWake`, `MCTaskSync` | instances for TLC | |

In all of them one step is one critical section, or one atomic access made
outside of any. Definitions marked "Mutant" are wrong variants of the definition
below them. They are used by no specification; each shows that some property
notices that particular mistake.

### cgroup pids (`CgroupPids`)

State: `nstate`, `members`, `subtree` and `pins` are a `CgroupNode`; `current`,
`maximum` and `maxEvents` its `PidsState`; `pending` and `tasks` the ledger
`MembershipState`; `guard` the `CgroupForkGuard` that lives on the stack of a clone;
`charge` the fork that holds the ledger lock while it charges its path; `procs` every `ProcessMembership`; `group`, `thread` and `txn` the thread
groups, what each thread does, and who holds the process transaction lock.

| actions | code |
|---|---|
| `BeginTask`, `BeginProcessAt` (both through `BeginTaskAt`) | take the ledger lock, collect the path to the root |
| `LoadCurrent`, `LoadMaximum`, `Exchange`, `ExchangeFails` | charge the path from below, node by node: two loads and a compare-exchange of the count, again if the count has changed; the last node makes the reservation |
| `ChargeFails` | the node is full: give back what was charged below it, record the event there and above |
| `Publish`, `PublishClone`, `Commit` | the clone becomes a ledger entry, then visible, then runs |
| `DropLedger`, `DropMember`, `DropUncharge` | a failing clone drops its guard: the entry under the ledger lock, the charge afterwards, node by node |
| `Migrate` | a write to cgroup.procs |
| `ExitThread`, `ExitTask`, `Reap` | the two halves of a thread's exit, and the wait for the zombie |
| `DeThread` | execve gives the surviving thread the leader's identity |
| `CreateChild`, `RemoveChild`, `Reclaim` | mkdir, rmdir, and the last reference to a removed directory |
| `WriteSubtreeControl`, `WritePidsMax`, `Pin`, `Unpin` | interface files and cgroup namespaces |

Identities are generations, never reused, as in the code. A directory name may be
used once, and `Parent` and `Above` are constants: a behaviour chooses which of
them exist and when. `current` is an integer, so that an underflow would show as a
negative number rather than wrap.

A fork holds the ledger lock from `BeginTaskAt` to its last `Exchange` or to
`ChargeFails`, so no other step that takes that lock (`LedgerFree`) comes in between.
Two kinds of steps do: a rolled back clone uncharges without the lock, which makes the
exchange fail and try again, and a write of pids.max stores the limit without it,
which the fork does not notice if it has already loaded the old one. `LimitEnforced`
therefore says that a count rises above its limit only by a migration, which looks at
no limit, or by an exchange whose fork loaded a limit higher than the present one.
The uncharges inside the lock are one step, since each is a subtraction and nobody
reads a count to act on it but a fork. `pids.peak`, raised by an atomic of its own
after the count and read by its interface file alone, is left out.

`Ancestry` deserves a word: `CgroupNode::parent` upgrades a `Weak`, so a walk to
the root stops below the first freed directory. Charge and uncharge may therefore
walk different paths; this is where `Balanced` fails in a deep hierarchy.

### Interrupt registry (`IrqRegistry`)

One interrupt line with a descriptor (`present`, `mode`, `chain`, `desired`,
`applied`, `inFlight`), the actions ever allocated (`act`, with `box` telling
whether the Rust box is still there), the interrupt controller (`controller`),
the online CPUs, a program counter per driver (`thread`) and per dispatching CPU
(`disp`). A line has a global enable and one per CPU.

The registry drops its lock around every controller access, so each call is a
sequence of steps: a request masks its lines one by one (`SnapshotLine`,
`MaskLine`, `MarkMasked`), inserts (`InsertAction`), sets the affinity
(`ApplyAffinity`) and restores (`RestoreLine`, `MarkRestored`, `EndRequest`).
Enable and disable change the action (`SetActionEnabled`) and then compare, write
and record each line of its scope until desired and applied agree (`ApplyNext`,
`CompareLine`, `WriteLine`, `MarkApplied`), or leave a pending enable for an
offline CPU (`DeferEnable`). Free detaches, masks, waits for the dispatches in
flight and drops (`DetachAction`, `RemoveAction`, `DropAction`). A CPU coming
online runs `CpuOnline`, `PendingEnables`, the same compare loop, and
`ClearPending`. A dispatch counts itself in (`BeginDispatch`), walks the list
without the lock (`VisitAction`, `EnterAction`, `LeaveAction`) and counts itself
out (`EndDispatch`). The controller may fail at each access, `MaxErrors` times.

`op`, `req` and `k` in a thread's record say which public call is running and
where a nested one returns to: `request_irq` enables what it requested, rolls a
failed enable back, and then frees.

### Readiness queues and eventfd (`PollSet`, `EventFd`)

`PollSet` gives the critical sections of a queue as operators on its value:
register, unregister (the position of an id, then the removal at that position), the
boundary of a wake, which entry a wake takes next.
`closed` is left out, because close runs in `Drop`, when no call is left.

In `EventFd` a task is one system call: read, write, poll(2), or one of the two
kernel completion calls. `Operate` is the atomic update of the counter, with the
refused and saturating cases; `CopyOutFails` is the read whose copy to user memory
fails after the update. A call that would block registers (`Register`), tries
again, and sleeps (`WouldBlock`, `Pending`); `Resume` is the executor polling it
again once it was woken or aborted. The exchange of NOTIFIED, PARKING and PARKED by
which the executor and a waker agree on that (`executor/mod.rs:226-254`, `464-473`)
is not modelled: the sleep is a wait for the condition, and the wake of the owner
thread, whose result the executor ignores, is taken to arrive. `DropLease` is one
registration dropped, at the reset before the next poll or at the end. `Boundary`, `TakeEntry`, `Fire` and `EndWake` are `PollSet::wake`,
which unlocks between unlinking an entry and calling its waker. `Abort` is a
signal or a deadline. `MaxCount` stands for `u64::MAX`; 2 or 3 keeps all the
boundary cases (empty, one below the ceiling, ceiling, saturation) apart.

### Park and wake (`ParkOps`, `Park`, `ParkWake`)

`ParkWake` follows one thread and any number of wakers. `word` is the
`ThreadLifecycle` atomic (state, `WAKE_PENDING`, `PARK_NOTIFIED`), `gen` the park
generation, `entity`, `delayed` and `marker` say where the active scheduling state
is (run queue, on its way, detached slot) and whether the slot carries the
publication marker, `onRq`, `taskCpu` and `onCpu` are `SchedulerPlacement`,
`taskLock` and `rqLock` the two locks, `pc` and `waker` the positions of the
thread and of each wake call, and `claim` is the `WaitWakeClaim` of the last park.
`fatal` becomes true where the code calls `fatal_invariant`, panics on the slot's
single owner, or has a lifecycle transition refused.

| actions | code |
|---|---|
| `TakeNotified`, `Prepare`, `GenerationExhausted` | `prepare_current_park`, three atomics and no lock |
| `Withdraw`, `Cancel` | the claim is deactivated, the park cancelled |
| `EnterRq`, `TakeInRq`, `ResumeTaken`, `BeginPublication`, `PublishInRq`, `DelayInRq`, `DequeueInRq`, `FinishPublication`, `PickNext` | the commit under the run-queue lock alone; a waker can come between any two |
| `CommitLocked` | the commit under both locks |
| `SwitchTail`, `PickDelayed`, `SetNextTask` | the CPU leaves the stack, completes a delayed dequeue, runs the thread again |
| `CallWake`, `LockTask`, `PublishWake`, `PlaceWake` | an ordinary wake |
| `CallClaim`, `LockClaim`, `NotifyClaim`, `RelockClaim` | a wait-queue notification for one park generation |
| `WakeOnRq`, `Activate`, `ReportUnavailable` | the end of either: reactivated on its queue, enqueued after switch tail, or refused |

A critical section is cut where an actor that does not hold its lock reads or
writes the same word. The comment at `request.rs:112` says that Parking and its
transition to Blocked are serialised by the thread lock; that is so for the commit
under both locks, not for the fast path, and `NotifyClaim` with `RelockClaim` is how
the code copes. Thread exit, the RT-lock overlay of the word, deadline throttling
and migration of a queued thread are left out.

### Semaphores on a shared park (`Semaphore`, `RwSem`, `TaskSync`)

`Semaphore` has `permits` and `waiters` (the state under the raw lock), `acq`, the
acquisition of each thread with the waiter's `granted` and `handoff` flags, and
`handing` and `woke`, the up() that each context is in the middle of. An
acquisition samples its interruption and deadline, decides under the lock
(`CheckGrant`, `CheckStop`, `CheckWait`), prepares the park, looks again, arms the
deadline and commits. The errors of these calls (`BeginFails`, `ArmFails`,
`CommitFails`, and `ResumeFails` when the deadline cannot be cancelled after the
sleep) leave through `DropRegistration`, which hands a granted permit back by an up()
of its own. An error of `park.cancel()?` itself (`semaphore.rs:184`, `190`) is left out:
no deadline is armed there, and a park that its own thread cannot cancel is what
`commit` treats as a fatal invariant. up() grants or counts
(`UpGrant`, `UpPermit`, `UpOverflow`), wakes outside the lock (`UpWake`) and marks
the handoff complete (`UpComplete`).

`RwSem` has the `gate`, the `readers` count and the `drain` slot. The reader's
count and its visit to the slot are separate steps (`UnlockShared`, `TakeDrain`,
`WakeDrain`), as are the writer's preparation of the park, publication of its
handle under the slot's lock, commit, and removal of what is left of the handle
(`BeginPark`, `PublishDrain`, `CommitDrain`, `ClearDrain`, `RecheckReaders`).

Both use `ParkOps` for the park: each call of it is one step, which is what
`ParkWake` is shown to implement. As there, the wake of a blocked thread may be
refused because no CPU may take it (`Unavailable`, `request.rs:138-140`). up(), the
timer and `DrainWake::wake` ignore the result (`semaphore.rs:100`, `rwsem.rs:38-40`),
and the thread stays asleep until somebody wakes it again; `refused` is the set of the
threads whose last wake ended so. An interruption is published once: the predicate
becomes true (`Interrupt`), and the publisher wakes the thread once (`InterruptWake`),
as the comment of `down_interruptible` demands, perhaps after the call has returned.

`TaskSync` puts the two over the same threads and the same `park`, and lets a thread
be in one call at a time. A reader that took a writer's handle and is slow to wake
it, or a slow publisher of an interruption, therefore wakes that thread in the middle
of a later wait, of either kind.

## Runs

Passing runs (distinct states in brackets):

| run | instance | shows |
|---|---|---|
| `cgroup_flat` (290,132) | root and one cgroup, four identities, limits 1 and max, one event, one pin | `Balanced`, `NeverPanics`, `OneCgroupPerProcess`, `LimitEnforced`, `TypeOK` |
| `irq_dispatch` (84,101) | two CPUs dispatching, one driver, two actions: shared, exclusive and per-CPU | `NoDanglingAction`, `NonReentrant`, `QuietAfterSynchronize`, `LinesFollowActions`, `FreeCompletes`, `TypeOK` |
| `irq_drivers` (819,375) | two drivers, one dispatching CPU | `OneFreer`, `Sharing` |
| `irq_boot` (105,271) | a CPU coming online, one controller failure at any step | `AppliedIsController`, `OfflineEnablesPending` |
| `eventfd_consumers` (869,387) | two readers, one with a copy that fails, a writer, a poll(2) that may be cancelled | `ExactLeases`, `OncePerWake`, `ObserversWoken` |
| `eventfd_sole` (118,336) | one reader, one writer, one producer, blocking or not, interrupted or not | `NoStrandedConsumer`, `AbortedCallReturns`, `SoleConsumerServed`, `TypeOK` |
| `park` (46,510) | one thread, three wakers, two CPUs, two parks | `NeverFatal`, `RunnableIsQueued`, `ImplementsPark`, `CallsReturn`, `TypeOK` |
| `task_sync` (80,042) | two threads, one interruptible and one with a deadline, one producer, two releases; any wake refused | `PermitsConserved`, `NoStrandedWaiter`, `WaiterOutlivesHandoff`, `GrantReturns`, `StoppedReturns`, `Exclusive`, `OneDrainWaiter`, `WriterDrains`, `TypeOK` |

Runs that end in a violation, each about a sentence in the repository:
`cgroup_removed_parent`, `irq_line_race`, `irq_lost_enable`, `eventfd_stranded`
(see [Disagreements with the code](#disagreements-with-the-code)).

Why the bounds are enough for the cases meant:

- Three identities make a process with two threads beside a clone in progress,
  which is what execve's identity transfer, the last-thread exit and a migration
  between reserve and publish need. The fourth lets one clone roll back while another
  charges, so that a compare-exchange fails. The three that init may clone are
  interchangeable, hence the symmetry. Limit 1 is met by the
  first fork into the child cgroup, or passed by one that loaded max before.
  `Unlimited = 9` is above any count four identities can reach.
- A chain of two, in `cgroup_removed_parent`, is the shortest hierarchy in which a
  directory can vanish above a task's cgroup. What holds in such hierarchies
  (`BalancedUnlessOrphaned`) is proved for all of them and has no run.
- Two CPUs and two actions give overlapping dispatches of one action and a list
  with an element to unlink in the middle of a walk. `MaxActions` counts refused
  requests too, as the id allocator does.
- `irq_drivers` has one dispatching CPU and two interchangeable drivers, hence
  the symmetry; no property of that run is a temporal one.
- Three wakers let two claims of different parks and an ordinary wake meet; two
  CPUs let a wake move the thread; `MaxGen = 2` gives a second park for a stale claim
  to hit and the exhausted generation as well.
- Two threads are a reader and a draining writer, or two waiters, or one of each
  semaphore. `MaxPermits = 1` makes the count overflow within two releases.
- Deadlock is checked in the interrupt and park runs. In the cgroup runs
  identities and names run out, in the eventfd runs all calls may have returned
  or be rightly asleep, and in `task_sync` a refused wake may leave every thread
  asleep, so the system may stop; those turn the check off.

## Fairness

Safety runs use no fairness. `irq_dispatch` assumes that a thread inside a
registry call keeps running and that a CPU inside a dispatch runs it to the end:
interrupts are off there and handlers return. It does not assume that a driver
calls anything or that the line is ever raised. `eventfd_sole` assumes that a
thread inside a call, runnable and not parked, is eventually scheduled: weak
fairness of `Step(t)` for each task. Calls, signals and timeouts need not come.
`park` assumes weak fairness of a commit and of a wake call in progress, which run
with interrupts or preemption off, and strong fairness of taking the thread lock,
which is a ticket lock: whoever waits gets its turn although others come back. It
does not assume that the thread parks or that anyone wakes it. `task_sync` assumes
weak fairness of every thread inside a call and of every up() in progress, that an
armed deadline which has expired fires, once, that whoever interrupts a thread also
wakes it, once (the contract of `down_interruptible`), and that a reader leaves its
critical section; not that anyone releases a permit. Nothing is assumed of a wake
that is refused: `GrantReturns`, `StoppedReturns` and `WriterDrains` except a thread
while its last wake was refused, and only then. Wakes that belong to neither semaphore
are left out: a writer that is woken without end for other reasons may go round its
loop for ever (`rwsem.rs:88-92`).

`FreeCompletes` is therefore stated for the free of a
line's last active action, whose line has been masked: on a line that other
actions keep enabled, two CPUs whose dispatches always overlap keep `inFlight`
positive for ever and weak fairness allows it, as the code does.

## Refinement

`Park` is what the users of a park rely on. A thread's park has a state (running,
parking, blocked) and a notification. A wake call takes effect once between its
start and its return: it unblocks the thread, or leaves the notification that the
next commit consumes. Calls in progress may share one effect (`TakeEffect(S)`). A
claim is made for one park generation, unblocks no other, and may be declined once
that park is over. A call may be refused only while the thread is blocked.

`ImplementsPark` says that `ParkWake` implements it under the mapping `absPark`,
`absCall`. Waking is still blocked, since the thread is on no queue yet; a taken
notification or a withdrawn waiter has already ended the park; the notification bit
counts only while the thread is not asleep, because the consumer of a wake clears
it; and a claim that came back to the lock and finds the thread awake, or in a later
park, has been served by whoever woke it. TLC checks this in `park`; TLAPS proves it
for any number of wakers and CPUs. The abstract specification has no fairness:
that calls return is `CallsReturn`, a property of `ParkWake` itself.

## Proofs

### cgroups

For every hierarchy, set of identities and set of limits that satisfy
`HierarchyAssumption` (a tree given by parent and ancestor functions),
`IdsAssumption` (finitely many identities, `None` not one of them) and
`BoundsAssumption`:

| theorem | statement |
|---|---|
| `TypeCorrect` | `Spec => []TypeOK` |
| `StructureCorrect` | `Spec => [](TypeOK /\ ChargeInv /\ ForkInv /\ TxnInv /\ PathInv /\ LiveInv)` |
| `ProcessInvariant` | `Spec => [](TypeOK /\ ChargeInv /\ ForkInv /\ TxnInv /\ ProcInv)` |
| `ExitNeverPanics` | `Spec => []NeverPanics` |
| `ProcessesStayTogether` | `Spec => []OneCgroupPerProcess` |
| `CountersBalanced` | `Spec => BalancedUnlessOrphaned` |
| `FlatBalanced` | if every cgroup is a child of the root, `Spec => []Balanced` |
| `LimitKept` | `Spec /\ []NoOrphan => LimitEnforced` |
| `FlatLimitKept` | if every cgroup is a child of the root, `Spec => LimitEnforced` |

`Balanced` is not inductive. It speaks of live directories only, while a counter
of a directory not yet created has to be 0 for it to hold after mkdir. It counts
by the path a guard or an entry will release, so publishing a clone must not
change that path: the entry and the guard must agree on the cgroup. And uncharge
walks the directories that still exist, so the directory of a task must still
be there. Hence the strengthening:

- `Exact`: the counters are right at all nodes, existing or not;
- `ChargeInv`: the ledger lock is held by the one fork whose guard is charging, what it
  has charged and what it has yet to charge are apart, and what it is about to exchange
  is below the limit it loaded;
- `ForkInv`: a guard, the ledger entry of its identity, the reservation and the
  thread group agree in each stage of a clone;
- `PathInv`: a guard holds the charges of the whole path to the root, or while it
  charges is about to, unless a
  directory on it was already freed; an existing directory has existing ancestors;
- `LiveInv`: the directory of every task, guard and process is alive;
- `TxnInv`: the process lock is held by an exiting thread, and by none twice.

The first part of `CgroupPids_proofs` shows that each action keeps `TypeOK`, `ForkInv` and
`TxnInv`, then how one step may change the life of a directory (`LifeStep`) and the
directory something names (`CgroupStep`), and from these that `PathInv` and
`LiveInv` are kept. The last part reduces each action to one
counting lemma: when a finite set of identities moves from the nodes A to the
nodes B, the counters that were exact stay exact if each changes by the size of
the set where A and B differ (`CountMove`, `ExactMove`; `ExactSwap` is the execve
case, where two identities trade places). The hypothesis `NoOrphan` is what makes
the path that exit will walk from a task's cgroup the whole path to the root. It is
used in `Commit`, where the duty to uncharge passes from the guard to the ledger
entry, and in the directory actions, since freeing a directory then changes
nobody's path. In a
flat hierarchy the only directory above another is the root, which is never
freed, and the hypothesis falls away. `LimitKept` has it for a similar reason: a
migration charges what lies above the new cgroup and not above the old one, and the
old path as the code walks it ends at a freed directory, so what is above that
directory would be charged although the process does not come into its subtree.
The other exception of `LimitEnforced` comes from `ChargeInv`: the exchange writes
`seen + 1`, which is at most the limit that was loaded, so a count above the present
limit means that the limit was lowered since. `cgroup_flat` reaches this case. The
undo of a charge that fails above its first node needs a deeper hierarchy with a
limit at an ancestor; it is covered by `CountersBalanced`.

Nor is `NeverPanics`. Whether exit_task is accepted depends on the ledger, the
process membership and the thread group together, and these are changed by clone,
execve, migration and exit under different locks. `ProcInv` ties them to each other:

- `CloneInv`: a clone in progress has its reservation; if it adds a thread, that
  process is active and still in the cgroup of the guard, and the thread that clones
  is still in the group. The reservation is what makes a migration wait;
- `GroupInv`: a thread of a group has its ledger entry (`InGroup`, and `Leaving` for
  the one that holds the process transaction). Conversely an entry belongs to such a
  thread or to a clone just published, and it is in the cgroup of the process
  (`Entered`). No process has the identity of another one's thread (`Owned`);
- `MemberInv`: cgroup.procs lists a process exactly where `Listed` says, which also
  covers a clone that fails between the drop of its entry and of its membership.

With them the last thread to leave finds one entry, its own, and no reservation; and
execve finds the leader's entry gone when it renames the survivor.

### Interrupts

For any finite sets of CPUs and of drivers, any kinds of requests, and any number of
actions and of controller failures (`CpusAssumption`, `RequestsAssumption`):

| theorem | statement |
|---|---|
| `IrqInvariant` | `Spec => []IrqInv` |
| `NoDangling` | `Spec => []NoDanglingAction` |
| `FreedOnce` | `Spec => []OneFreer` |
| `RunsAlone` | `Spec => []NonReentrant` |
| `SynchronizedQuiet` | `Spec => []QuietAfterSynchronize` |
| `SharedLine` | `Spec => []Sharing` |
| `IrqTypeCorrect` | `Spec => []TypeOK` |
| `LinesRecorded`, `DesiredByActions` | `Spec => []LineInv`, `Spec => []DesiredInv` |
| `AppliedInTurns` | `Spec /\ []DriversTakeTurns => []AppliedIsController` |
| `PendingInTurns` | `Spec /\ []DriversTakeTurns => []OfflineEnablesPending` |
| `LinesFollowInTurns` | `Spec /\ []LinesTakeTurns => []LinesFollowActions` |
| `OneDriver` | with one driver, `Spec => [](AppliedIsController /\ OfflineEnablesPending)` |
| `OneDriverLines` | with one driver and all CPUs online, `Spec => []LinesFollowActions` |

The registry reclaims memory by quiescence. A dispatch walks the list of actions
without the lock, so a box may be dropped only when no walk can reach it, and the
one thing that says so is `inFlight`. `IrqInv` makes the argument explicit:
`inFlight` is the number of CPUs that walk, and every pointer a walk holds (the
action it runs and the one it visits next) is linked (`DispatchInv`); linked actions
are allocated, and each is linked once (`ChainInv`); a thread past detach_action owns
its action, which stays linked until that thread unlinks it at a moment when
`inFlight` is 0, and then nobody points to it (`FreeInv`). For the other two, a
non-reentrant action that runs has its flag set (`RunInv`), and a quiet action is
disabled, so that no CPU enters it again (`QuietInv`). What a driver may do next is a
fact of its own record (`ThreadsLegal`), and a request that has passed its checks
finds an identifier (`IdsReserved`).

`IrqInvariant_proofs` has the invariant and what it says of one thread, one action
and the list; `IrqRegistry_proofs` has one lemma per step, those of a dispatch first.

The last six rows are about the lines. `line_desired` is recomputed in the critical
section that changes an action, so it is right at every step and for any number of
drivers (`DesiredByActions`). The controller is written outside of the lock and the
write is recorded afterwards, so what is recorded of a line is right only if nobody
else writes that line in between. The hypotheses say just this, of the threads and
not of the lines: `DriversTakeTurns` that no two drivers' calls are in progress at
once, `LinesTakeTurns` that, besides, no CPU runs its cpu_online during one. Both are
met by many behaviours with many drivers, and neither can be dropped:
`irq_line_race` and `irq_lost_enable` are behaviours without the one and without the
other. `OneDriver` and `OneDriverLines` replace them by conditions on the constants,
under which they hold by themselves; those are the instances of `irq_boot` and
`irq_dispatch`.

The three properties speak of moments with no call in progress; the invariants say
what a call in progress still owes.

- `LineInv` (no hypothesis): a booting CPU is in cpu_online and visits its own line
  only; a line without actions has nothing recorded; `DesiredInv`; a thread past the
  check for offline CPUs visits a line that is online.
- `AppliedAt(l)`: with no writer of l at work, `applied` is `controller`; with one, they
  differ only between its write and its record, when the controller has what is about
  to be recorded, and a line that a request keeps masked is off in both (`Written`).
- `PendingInv`: an enable for an offline CPU is pending, or the call in progress is on
  its way to record it (`Enabling`).
- `SettleInv`: while the controller has not failed, `applied` is `desired` on each
  line that is online, unless a thread still owes the line a visit (`Owes`); what a
  request will restore its lines to is what is desired of them (`SnapOk`), and no
  enable is rolled back (`NeverFails`).

`IrqLines_proofs` shows for each action that it keeps the first, and the others
wherever the hypothesis holds before and after the step (`Kept`). TLC finds these
invariants to hold on the instances of `irq_boot` (`SettleInv` aside, for a CPU comes
online there during a call) and `irq_dispatch`.

### Readiness queues and eventfd

For any sets of reads, writes, producers and poll(2) calls, where a task is one call
of one of these kinds, any values and any `MaxCount` of at least 2
(`ConstantsAssumption`):

| theorem | statement |
|---|---|
| `EventInvariant` | `Spec => []EventInv` |
| `EventTypeCorrect` | `Spec => []TypeOK` |
| `LeasesAreExact` | `Spec => []ExactLeases` |
| `WakesOnce` | `Spec => []OncePerWake` |
| `ObserversAreWoken` | `Spec => []ObserversWoken` |
| `ConsumersInTurns` | `Spec /\ []CallsTakeTurns => [](Undisturbed => NoStrandedConsumer)` |
| `SoleConsumers` | with one reader, one writer and no failing copies, `Spec => []NoStrandedConsumer` |

`ExactLeases` is close to inductive: `PairInv` adds that an entry carries the
interests and the mode of its call, `IdInv` that an id is given out once per queue
and is in the leases of one call, and `PlaceInv` how many leases a call has at each of its
positions, one per queue, in the order in which it registers.

`OncePerWake` needs to know why a task that was taken cannot be taken again although
it may be back in the queue: all its entries have ids from behind the boundary
(`WakeInv`). The part about the exclusive consumer needs that the budget, once spent,
leaves only observers to take.

`ObserversWoken` is about calls of several tasks. While a poll(2) is asleep on a
ready event, either its lease was notified, and then it has been woken or the waker
that took its entry is about to fire (`NotifiedInv`), or some wake will still take the entry
(`ObserverInv`): one that has not yet read its boundary, or whose boundary is behind
the entry. That such a wake exists comes from the update that made the event ready,
because each update announces every event that it makes ready on the queue that
event is registered with (lemma `Announced`), and from the second check, after
registering, for what was ready before. It is lost by no other step: a wake ends
only when it has nothing left to take, and a shared entry is never passed over. A
read that fails to copy out is the exception that the property makes, too
(`Undisturbed`).

`NoStrandedConsumer` says the same of a read or a write, which is an exclusive waiter:
a wake takes one of them at most, so the argument above fails for two at once, and the
program, too (`eventfd_stranded`). Under `CallsTakeTurns` (no two reads and no two
writes are in progress at once) a queue has one exclusive entry at most. A wake that
has spent its budget took that entry, and if the call has registered again since, the
new entry is behind the boundary of the wake (`SpentInv`). `ConsumerInv` then has the
form of `ObserverInv`: a blocked call that could complete and was not notified has a
wake ahead that will take its entry. Here readiness is not enough, since a write of v
needs room for v; it is the update that makes the call succeed that must announce it
(`ConsumerAnnounced`). TLC finds `SpentInv` and `ConsumerInv` to hold on the instance
of `eventfd_sole`.

### Park and wake

For any sets of wakers and CPUs without `none`, and any last generation
(`ConstantsAssumption`):

| theorem | statement |
|---|---|
| `ParkInvariant` | `Spec => []ParkInv` |
| `HandshakeNeverFatal` | `Spec => []NeverFatal` |
| `RunningIsQueued` | `Spec => []RunnableIsQueued` |
| `HandshakeTypes` | `Spec => []TypeOK` |
| `HandshakeImplementsPark` | `Spec => ImplementsPark` |

None of these is inductive, since each `fatal_invariant` relies on what another
actor did earlier. `ParkInv` adds: the thread lock is held by the one waker whose
position says so (`TaskLockInv`); at each position of the thread, what the word, the
locks and the marker are (`ParkerInv`); where the entity is, and that on_rq and the
delayed flag agree with it (`PlaceInv`); what a waker past the lock may rely on: a
waker about to place the thread finds it Blocked with its wake pending, and Waking
has a waker behind it that will enqueue the thread (`WakerInv`); how a call's kind
and generation go with its position (`CallInv`); that a claim on its way back to the lock in its own park
finds its notification pending or the thread woken (`RelockInv`); and that one waker
at most holds the selected claim (`ClaimInv`). There is one lemma per action; the
placing steps of the two wake paths share `PlacedStep` and `UnavailableStep`.
The second half of the module takes the same invariant and shows, action by action,
which abstract step (or stutter) is taken. TLC finds `ParkInv`, and `LockInv` and
`PermitInv` below, to hold on the instances of `park` and `task_sync`.

### Semaphores

For any finite set of threads, any producers and any permit counts
(`ThreadsAssumption`, `SemaphoreAssumption`, `BoundsAssumption`):

| theorem | statement |
|---|---|
| `WritersExclude`, `DrainSlotOwned` | `Spec => []Exclusive`, `Spec => []OneDrainWaiter` |
| `PermitsAreConserved` | `Spec => []PermitsConserved` |
| `NobodyIsStranded` | `Spec => []NoStrandedWaiter` |
| `HandoffIsOutlived` | `Spec => []WaiterOutlivesHandoff` |
| `SemaphoreTypes` | `Spec => []TypeOK` |

For the first two, `LockInv` says that a thread in a position that holds the gate is
its owner, that `readers` is the number of threads reading, that a writer in its
critical section saw that number at zero, and that a handle in the slot belongs to a
thread about to sleep or asleep. For the others, `PermitInv` says that only a waiting
thread is granted, that a queued thread waits, is not granted and is queued once
(`QueueInv`), and that an up() in progress hands over to a granted thread whose
handoff is not complete, no two to the same one (`HandoffInv`). Each step then changes
`Reserved` by at most one thread, or moves one reservation from one thread to
another, which `PermitsConserved` needs. Neither invariant speaks of the parks, so
late and refused wakes cannot disturb them; that a grant or a last reader does wake
its thread is liveness, and TLC's part. `SemaphoreTypes` adds the types of the parks
(`ParkTypes`).

## Disagreements with the code

- **A task below a removed and freed directory leaves its charge behind**
  (`cgroup_removed_parent`, `membership.rs:412`). rmdir does not look at fork
  reservations, so a clone can be published into a removed directory; once the
  directory's removed parent is freed, the exit uncharges only the part of the
  path it can still reach. The design note says the counters stay balanced.
- **Two calls on one line can leave the controller different from what they
  recorded** (`irq_line_race`, `registry.rs:560`). The write to the controller and
  its record are two steps, and two threads may take them in opposite orders. From an
  enabled action, two disables and one enable of it end with every call successful,
  the action enabled and its line disabled. The comment on `enable` says that it
  enables the action and its backing line.
- **An enable can be lost to a CPU coming online** (`irq_lost_enable`,
  `registry.rs:436`). The CPU is looked up before the lock is taken and not again
  under it. For the same reason `AppliedIsController` excepts the lines of a
  CPU that boots later.
- **An exclusive waiter can be left asleep while its call could complete**
  (`eventfd_stranded`, `event.rs:104`). One wake selects one consumer, and the
  consumer does not pass on what it leaves: a write of 2 to a semaphore eventfd
  with two blocked readers serves one of them.

Some more observations have no run of their own. A limit that is lowered between a
fork's load of it and the exchange of the count is exceeded by that fork
(`pids.rs:34-43`), which `LimitEnforced` allows. The wake of a granted waiter or of a
draining writer may be refused, and nobody repeats it (`semaphore.rs:100`,
`rwsem.rs:38-40`). The notification is also dropped
when the selected consumer returns for another reason (interrupted, non-blocking,
or already satisfied by its recheck). And a read whose copy to user memory fails
has taken the counter but returns before waking the writers (`event.rs:118`); what
such a read leaves behind is excepted from `ObserversWoken`. A semaphore acquisition
that fails after its grant returns the permit with `up().expect(..)`, which panics if
the count has meanwhile reached `usize::MAX` (`semaphore.rs:289`, `UpOverflow`).
In `ax-lazyinit`, which is not modelled, a caller that waits for another's
initialisation loads the state twice (`lib.rs:159-162`). If that attempt fails and a
third caller starts its own between the two loads, the second load sees INITIALIZING
again, which is only compared with UNINIT, and the waiting call returns a reference to a value
that does not exist yet, although the comment says "the acquire load observed
INITED". The exchange whose failure is taken for INITED "with acquire ordering" has
`Relaxed` as its failure ordering.

## What is only model-checked

Every safety property that a passing run checks is a theorem, six of them under a
hypothesis without which they fail. `Balanced` and `LimitEnforced` need
that no task outlives a directory above its cgroup. `LinesFollowActions`,
`AppliedIsController`, `OfflineEnablesPending` and `NoStrandedConsumer` are about calls
that take turns. With two drivers that enable and disable one action, the second and
the third of these fail as the first does in `irq_line_race`, because each call reads
what it will write, or whether it is to write, in a critical section of its own.

Liveness (`FreeCompletes`, `AbortedCallReturns`, `SoleConsumerServed`, `CallsReturn`,
`GrantReturns`, `StoppedReturns`, `WriterDrains`) is out of the prover's reach and
stays with TLC, and so would facts that need induction over a recursive definition.

## What is not modelled

Inside the modelled parts: text formats of interface files (the values written
are the inputs), error codes where every error leaves the state alone, logging,
statistics counters, the pids files' read side, the map from IRQ ids to
descriptors in irq-framework (the model is one id's descriptor), memory ordering
weaker than the acquire and release the code asks for, and reuse of a directory
name while the old directory is open.

In ax-task: the wait queue around the claim (its selection order, requeue and
storage), timer bases, thread exit and join, migration and load balancing, priority
inheritance and the RT-lock variants of the waits. The gate of the reader-writer
semaphore is an atomic mutex; its reader count cannot overflow with finitely many
threads, and a park whose generations are exhausted, a panic there, is an error path
of `Semaphore` and `ParkWake` only. The vruntime and bandwidth arithmetic of the policies
is quantitative; a park may be delayed or not, and a wake may choose any CPU.

The models cover a small part of the repository, which has about a million lines:
most of them are drivers, register definitions, file-system layouts, ports of
foreign subsystems, tools and tests. `PROJECT.json` lists every part with its reason.
Drivers, platforms and boot code are traffic with hardware; macros, wrappers and
tools have no protocol; the network stack keeps its protocol state in an external
library; the large ones (AxVM, ext4, the StarryOS memory manager, DRM) rest on
smaller ones that are not modelled. The next in line would be the wait queue, on top
of `ParkWake`'s claim, then futexes, pipes and epoll above it, and the once-cell of
`ax-lazyinit`.
