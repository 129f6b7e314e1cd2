-------------------------- MODULE IrqTurns_proofs ---------------------------
(***************************************************************************)
(* The lines of the controller, for any number of drivers, CPUs, actions    *)
(* and controller failures.  In every behaviour in which the calls of       *)
(* drivers take turns, line_applied is what the controller has and a CPU    *)
(* that is offline finds its enables pending; and if no CPU comes online    *)
(* during a call either, the controller has what the enabled actions want.  *)
(***************************************************************************)
EXTENDS IrqRegistry_proofs, IrqLines_proofs

(* A step that names no prover is tried with Zenon, then with SMT. *)
USE ZenonT(30), SMTT(30)

(* Every step keeps what is recorded of the lines. *)
LEMMA NextKept == IrqInv /\ LineInv /\ [Next]_vars => Kept
<1> SUFFICES ASSUME IrqInv, LineInv, [Next]_vars  PROVE Kept
  OBVIOUS
<1>0. IrqInv'
  BY NextIrqInv
<1>1. CASE \E t \in Callers : Start(t)
  BY <1>0, <1>1, RequestKept, CallKept DEF Start
<1>2. CASE \E t \in Threads : RequestStep(t)
  <2>1. ASSUME NEW t \in Threads, thread[t].pc \in Inserting  PROVE NewIdFree
    <3>1. t \in Callers
      BY <2>1 DEF IrqInv, ThreadsLegal, Legal
    <3>. QED  BY <2>1, <3>1, NewIdUnused DEF NewIdFree
  <2>. QED  BY <1>0, <1>2, <2>1, SnapshotLineKept, MaskLineKept, MarkMaskedKept,
              InsertActionKept, ApplyAffinityKept, RestoreLineKept, MarkRestoredKept,
              EndRequestKept DEF RequestStep
<1>3. CASE \E t \in Threads : CallStep(t)
  BY <1>0, <1>3, SetActionEnabledKept, ApplyNextKept, DeferEnableKept, CompareLineKept,
     WriteLineKept, MarkAppliedKept, DetachActionKept, RemoveActionKept, DropActionKept,
     SynchronizeKept DEF CallStep
<1>4. CASE \E c \in Cpus : BootStep(c)
  BY <1>0, <1>4, CpuOnlineKept, PendingEnablesKept, ClearPendingKept DEF BootStep
<1>5. CASE \E c \in Cpus : TakeInterrupt(c) \/ DispatchStep(c)
  BY <1>5, DispatchKept
<1>6. CASE UNCHANGED vars
  <2>1. UNCHANGED <<present, chain, desired, applied, controller, online, errors, thread, act>>
    BY <1>6 DEF vars, lineVars, hardware
  <2>. QED  BY <2>1, AsideKept DEF SameWants
<1>. QED  BY <1>1, <1>2, <1>3, <1>4, <1>5, <1>6 DEF Next

(* Whatever the drivers and the CPUs do: a CPU that comes online writes no     *)
(* line but its own, a line is written only while it is online, and            *)
(* line_desired is what the active actions want.                               *)
THEOREM LinesRecorded == Spec => []LineInv
<1>1. Init => LineInv
  BY InitLines
<1>2. IrqInv /\ LineInv /\ [Next]_vars => LineInv'
  BY NextKept DEF Kept
<1>. QED  BY <1>1, <1>2, IrqInvariant, PTL DEF Spec

(* line_desired, which recompute_line_desired keeps line by line, is what the  *)
(* enabled actions of the list want, at every step and whatever fails.         *)
THEOREM DesiredByActions == Spec => []DesiredInv
<1>1. LineInv => DesiredInv
  BY DEF LineInv
<1>. QED  BY <1>1, LinesRecorded, PTL

(* The lines that one thread at a time writes when the drivers take turns: the *)
(* line of a CPU that was online from the start has no other writer.           *)
SteadyLines == Lines \ (Cpus \ Boot)
SteadyInv == \A l \in SteadyLines : AppliedAt(l)

SteadyWriters == \A l \in SteadyLines : OneWriter(l)

LEMMA SteadyTurns == LineInv /\ DriversTakeTurns => SteadyWriters
<1> SUFFICES ASSUME LineInv, DriversTakeTurns, NEW l \in SteadyLines  PROVE OneWriter(l)
  BY DEF SteadyWriters
<1>1. \A c \in Cpus \cap {l} : ~Busy(c)
  BY DEF LineInv, CpuInv, SteadyLines
<1>. QED  BY <1>1 DEF OneWriter, MayWrite, DriversTakeTurns

(* While the calls of drivers take turns, apply_line_state may rely on         *)
(* line_applied: between two calls it is what the controller has, also after a *)
(* controller failure at any step.                                             *)
THEOREM AppliedInTurns == Spec /\ []DriversTakeTurns => []AppliedIsController
<1>1. Init => SteadyInv
  BY InitLines DEF SteadyInv, SteadyLines
<1>2. IrqInv /\ LineInv /\ SteadyWriters /\ SteadyInv /\ [Next]_vars /\ SteadyWriters' => SteadyInv'
  <2> SUFFICES ASSUME IrqInv, LineInv, SteadyWriters, SteadyInv, [Next]_vars, SteadyWriters'
               PROVE  SteadyInv'
    OBVIOUS
  <2>1. SteadyLines \subseteq Lines /\ SteadyLines' = SteadyLines
    BY DEF SteadyLines, Lines
  <2>2. ASSUME NEW l \in SteadyLines  PROVE AppliedAt(l)'
    BY <2>1, NextKept DEF Kept, AppliedKept, SteadyInv, SteadyWriters
  <2>. QED  BY <2>1, <2>2 DEF SteadyInv
<1>3. SteadyInv => AppliedIsController
  <2>1. \A l \in Lines : MayWrite(l) \subseteq Threads
    BY DEF MayWrite, Threads
  <2>. QED  BY <2>1 DEF SteadyInv, SteadyLines, AppliedIsController, Settled, AppliedAt, Busy
<1>. QED  BY <1>1, <1>2, <1>3, SteadyTurns, IrqInvariant, LinesRecorded, PTL DEF Spec

(* While the calls of drivers take turns, the enables for a CPU that is        *)
(* offline are pending when the call has ended: cpu_online will find them.     *)
THEOREM PendingInTurns == Spec /\ []DriversTakeTurns => []OfflineEnablesPending
<1>1. Init => PendingInv
  BY InitLines
<1>2. IrqInv /\ LineInv /\ DriversTakeTurns /\ PendingInv /\ [Next]_vars /\ DriversTakeTurns'
        => PendingInv'
  BY NextKept DEF Kept, PendingKept
<1>3. PendingInv => OfflineEnablesPending
  <2>1. ASSUME Settled  PROVE \A t \in Callers : \A c : ~Enabling(thread[t], c)
    BY <2>1, IdleEnables DEF Settled, At, Threads
  <2>. QED  BY <2>1 DEF PendingInv, OfflineEnablesPending, WantedBy
<1>. QED  BY <1>1, <1>2, <1>3, IrqInvariant, LinesRecorded, PTL DEF Spec

(* While no two threads are at work on one line, and the controller has not    *)
(* failed, every line that is online is enabled in the controller, between two *)
(* calls, exactly when an enabled action wants it: no order of requests,       *)
(* enables, disables, frees and CPUs coming online leaves a line behind.       *)
THEOREM LinesFollowInTurns == Spec /\ []LinesTakeTurns => []LinesFollowActions
<1> DEFINE Inv == (\A l \in Lines : AppliedAt(l)) /\ PendingInv /\ SettleInv
<1>1. Init => Inv
  BY InitLines
<1>2. LinesTakeTurns => DriversTakeTurns
  <2>1. Global \in Lines
    BY DEF Lines
  <2>. QED  BY <2>1 DEF LinesTakeTurns, DriversTakeTurns, OneWriter, MayWrite
<1>3. LinesTakeTurns' => DriversTakeTurns'
  BY <1>2, PTL
<1>4. /\ IrqInv /\ LineInv /\ LinesTakeTurns /\ Inv /\ [Next]_vars /\ LinesTakeTurns' => Inv'
  <2> SUFFICES ASSUME IrqInv, LineInv, LinesTakeTurns, Inv, [Next]_vars, LinesTakeTurns'
               PROVE  Inv'
    OBVIOUS
  <2>1. Kept
    BY NextKept
  <2>2. ASSUME NEW l \in Lines  PROVE AppliedAt(l)'
    BY <2>1 DEF Kept, AppliedKept, LinesTakeTurns
  <2>3. PendingInv' /\ SettleInv'
    BY <1>2, <1>3, <2>1 DEF Kept, PendingKept, SettleKept
  <2>. QED  BY <2>2, <2>3
<1>5. LineInv /\ Inv => LinesFollowActions
  <2> SUFFICES ASSUME LineInv, Inv, Settled, errors = 0, NEW l \in Lines, ~Offline(l)
               PROVE  controller[l] <=>
                        \E i \in Active(chain, act) : act[i].enabled /\ l \in act[i].scope
    BY DEF LinesFollowActions
  <2>1. \A t \in MayWrite(l) : ~Busy(t)
    BY DEF MayWrite, Threads, Settled, Busy
  <2>2. applied[l] = controller[l] /\ applied[l] = desired[l]
    BY <2>1 DEF AppliedAt, SettleInv, SettleAt
  <2>. QED  BY <2>2 DEF LineInv, DesiredInv, WantedBy
<1>. QED  BY <1>1, <1>4, <1>5, IrqInvariant, LinesRecorded, PTL DEF Spec

(* One driver takes turns with itself: whatever it does, line_applied is what  *)
(* the controller has and an offline CPU's enables are pending between calls.  *)
THEOREM OneDriver ==
    ASSUME \A t, u \in Callers : t = u
    PROVE  Spec => [](AppliedIsController /\ OfflineEnablesPending)
<1>1. DriversTakeTurns
  BY DEF DriversTakeTurns
<1>. QED  BY <1>1, AppliedInTurns, PendingInTurns, PTL

(* And if every CPU was online from the start, the controller has what the     *)
(* driver's enabled actions want.                                              *)
THEOREM OneDriverLines ==
    ASSUME \A t, u \in Callers : t = u, Boot = Cpus
    PROVE  Spec => []LinesFollowActions
<1>1. LineInv => LinesTakeTurns
  <2>1. LineInv => \A c \in Cpus : ~Busy(c)
    BY DEF LineInv, CpuInv
  <2>. QED  BY <2>1 DEF LinesTakeTurns, OneWriter, MayWrite
<1>. QED  BY <1>1, LinesRecorded, LinesFollowInTurns, PTL
=============================================================================
