-------------------------- MODULE IrqLines_proofs ---------------------------
(***************************************************************************)
(* What the registry records about a line, and what the controller has.     *)
(* The controller is written without the lock, so two calls on one line can *)
(* leave it different from what both recorded.  This module says what has   *)
(* to hold of the calls in progress for that not to happen, and that each   *)
(* action then keeps what is recorded true (one lemma per action);          *)
(* IrqTurns_proofs has the theorems.                                        *)
(***************************************************************************)
EXTENDS IrqInvariant_proofs

(* A step that names no prover is tried with Zenon, then with SMT. *)
USE ZenonT(30), SMTT(30)

Busy(t) == ~At(t, "idle")

(* The threads that may write the line l: a driver, or the CPU that owns it *)
MayWrite(l) == Callers \cup ({l} \cap Cpus)
OneWriter(l) == \A t, u \in MayWrite(l) : Busy(t) /\ Busy(u) => t = u

(* The calls of drivers follow one another ... *)
DriversTakeTurns == \A t, u \in Callers : Busy(t) /\ Busy(u) => t = u
(* ... and no CPU comes online during one. *)
LinesTakeTurns == \A l \in Lines : OneWriter(l)

-----------------------------------------------------------------------------
(* Facts that hold whatever the drivers do *)

(* A CPU that comes online works on its own line. *)
BootPcs == {"idle", "pending", "apply", "line", "write", "mark", "clear"}
CpuInv ==
    /\ Boot \subseteq online
    /\ \A c \in Cpus :
         /\ thread[c].pc \in BootPcs
         /\ Busy(c) => /\ c \in online \ Boot /\ thread[c].op = "online"
                       /\ thread[c].todo \subseteq {c}

(* Before the line has its first action there is nothing to restore. *)
NothingKept(r) ==
    /\ r.was = {}
    /\ r.pc \in {"mask", "masked"} => ~r.value
    /\ r.pc \notin {"write", "mark"}
PresentInv ==
    ~present =>
        /\ chain = <<>>
        /\ \A l \in Lines : ~applied[l] /\ ~desired[l]
        /\ \A t \in Threads : NothingKept(thread[t])

(* line_desired is what the active actions want. *)
WantedBy(l, i) == act[i].enabled /\ l \in act[i].scope
DesiredInv ==
    /\ \A i \in Ids : act[i].scope = {Global} \/ act[i].scope \subseteq Cpus
    /\ \A l \in Lines : desired[l] <=> \E i \in Active(chain, act) : WantedBy(l, i)

(* A thread that writes a line has found it online. *)
Applying == {"apply", "defer", "line", "write", "mark"}
Visitor(t, r) ==
    /\ r.pc \in Inserting \cup {"affinity"} => r.ok
    /\ r.ok => r.k = "idle"
    /\ t \in Callers /\ r.pc \in Applying => r.op \in {"enable", "disable", "rollback", "free"}
    /\ r.pc \in {"mask", "masked", "line", "write", "mark"} => ~Offline(FirstLine(r.todo))
VisitInv == \A t \in Threads : Visitor(t, thread[t])

LineInv == CpuInv /\ PresentInv /\ DesiredInv /\ VisitInv

-----------------------------------------------------------------------------
(* While one thread at a time may write a line *)

(* The thread has written l and has yet to record it. *)
Recording(r, l) == r.pc \in {"masked", "restored", "mark"} /\ FirstLine(r.todo) = l

(* The request has masked l and has yet to restore it. *)
Masks(r, l) ==
    \/ /\ l \in r.snap
       /\ \/ r.pc \in Inserting \cup {"affinity"}
          \/ r.pc \in {"detach", "wait", "drop"} /\ r.op = "drop" /\ r.k = "restore"
    \/ r.pc = "restore" /\ l \in r.todo
    \/ r.pc = "restored" /\ l \in r.todo /\ l # FirstLine(r.todo)

(* What the line is while the thread has it: a recorded, c in the controller *)
Written(r, l, a, c) ==
    /\ ~Recording(r, l) => a = c
    /\ r.pc = "masked" /\ Recording(r, l) => ~c
    /\ r.pc = "restored" /\ Recording(r, l) => (c <=> l \in r.was)
    /\ r.pc = "mark" /\ Recording(r, l) => (c <=> r.value)
    /\ Masks(r, l) => ~a /\ ~c

AppliedAt(l) ==
    /\ (\A t \in MayWrite(l) : ~Busy(t)) => applied[l] = controller[l]
    /\ \A t \in MayWrite(l) : Busy(t) => Written(thread[t], l, applied[l], controller[l])

(* The call will still record the pending enable of CPU c, or drop the action. *)
Enabling(r, c) ==
    \/ r.pc \in {"affinity", "restore", "restored"} /\ r.ok /\ r.req.auto
    \/ r.pc \in {"set", "detach"}
    \/ r.pc \in Applying /\ r.op = "enable" /\ c \in r.todo

PendingInv ==
    /\ \A i \in Active(chain, act), c \in Cpus \ online :
         WantedBy(c, i) =>
            \/ c \in act[i].pending
            \/ \E t \in Callers : thread[t].id = i /\ Enabling(thread[t], c)
    /\ \A t \in Callers :
         /\ thread[t].pc \in Applying /\ thread[t].op \in {"disable", "rollback"}
         /\ thread[t].id \in Active(chain, act)
         => ~act[thread[t].id].enabled

-----------------------------------------------------------------------------
(* While moreover no CPU comes online during a call, and the controller works *)

Asks(r) == r.req # NoRequest
Restoring == {"affinity", "restore", "restored"}

(* The thread will still bring line_applied of l to line_desired. *)
Owes(t, r, l) ==
    \/ r.pc \in Inserting \cup {"affinity"} /\ l \in r.snap
    \/ r.pc \in Restoring /\ r.ok /\ r.req.auto /\ l \in r.req.scope
    \/ r.pc \in {"restore", "restored"} /\ l \in r.todo
    \/ r.pc = "set" /\ Asks(r) /\ l \in r.req.scope
    \/ r.pc \in Applying /\ l \in r.todo
    \/ r.pc = "pending" /\ t = l

SettleAt(l) ==
    ~Offline(l) => \/ applied[l] = desired[l]
                   \/ \E t \in MayWrite(l) : Busy(t) /\ Owes(t, thread[t], l)

(* The snapshot of a request is what the line is to be restored to. *)
SnapOk(r) ==
    /\ r.pc \in Inserting => /\ r.todo \subseteq r.req.scope /\ r.snap \cap r.todo = {}
                             /\ r.was \subseteq r.snap
                             /\ \A l \in r.snap : l \in r.was <=> desired[l]
    /\ r.pc \in Inserting \cup Restoring =>
          r.snap \subseteq r.req.scope /\ r.snap \subseteq online \cup {Global}
    /\ r.pc \in {"restore", "restored"} => r.todo \subseteq r.snap
    /\ r.pc \in {"mask", "masked"} => (r.value <=> desired[FirstLine(r.todo)])
    /\ r.pc \in Restoring /\ ~(r.ok /\ r.req.auto) =>
          \A l \in r.snap : l \in r.was <=> desired[l]

(* No call fails. *)
NeverFails(r) ==
    /\ r.op \notin {"rollback", "drop"}
    /\ r.op = "free" => ~Asks(r)
    /\ \/ r.pc = "affinity"
       \/ r.pc \in {"restore", "restored"} /\ r.ok
       \/ r.pc = "set" /\ Asks(r)
       => r.id \in Active(chain, act) /\ act[r.id].scope = r.req.scope
    /\ r.pc \in Applying /\ r.op \in {"enable", "disable"} => r.id \in Active(chain, act)
    /\ r.pc = "defer" => Offline(FirstLine(r.todo))

SettleInv ==
    errors = 0 =>
        /\ \A l \in Lines : SettleAt(l)
        /\ \A t \in Callers : Busy(t) => SnapOk(thread[t]) /\ NeverFails(thread[t])
        /\ \A c \in Cpus : c \notin online \/ At(c, "pending") => ~applied[c]
        /\ \A c \in Cpus, i \in Active(chain, act) :
              At(c, "pending") /\ WantedBy(c, i) => c \in act[i].pending

-----------------------------------------------------------------------------
(* What a step is shown to keep *)

AppliedKept == \A l \in Lines : AppliedAt(l) /\ OneWriter(l) /\ OneWriter(l)' => AppliedAt(l)'
PendingKept == PendingInv /\ DriversTakeTurns /\ DriversTakeTurns' => PendingInv'
SettleKept == SettleInv /\ PendingInv /\ LinesTakeTurns /\ LinesTakeTurns' => SettleInv'
Kept == LineInv' /\ AppliedKept /\ PendingKept /\ SettleKept

(* One thread moves. *)
Moves(t) ==
    /\ \A u \in Threads \ {t} : thread'[u] = thread[u]
    /\ Busy(t) \/ Busy(t)'

(* The actions and their list want what they wanted. *)
SameWants ==
    /\ UNCHANGED <<chain, desired>>
    /\ \A i \in Ids : /\ act'[i].scope = act[i].scope
                      /\ act'[i].enabled = act[i].enabled
                      /\ act'[i].detached = act[i].detached

LEMMA MovesBecome ==
    ASSUME IrqInv, NEW t \in Threads, NEW r, Become(t, r), thread[t].pc # "idle" \/ r.pc # "idle"
    PROVE  Moves(t) /\ thread'[t] = r
<1>1. thread'[t] = r /\ \A u \in Threads \ {t} : thread'[u] = thread[u]
  BY ThreadFacts DEF Become
<1>. QED  BY <1>1 DEF Moves, Busy, At

LEMMA SameWantsFacts ==
    ASSUME IrqInv, SameWants
    PROVE  /\ Active(chain, act)' = Active(chain, act) /\ Active(chain, act) \subseteq Ids
           /\ \A l \in Lines, i \in Ids : WantedBy(l, i)' = WantedBy(l, i)
<1>1. Linked \subseteq Ids
  BY Pointers DEF IrqInv, IrqTypes
<1>. QED  BY <1>1 DEF Active, Linked, SameWants, WantedBy

LEMMA DesiredFrame ==
    ASSUME IrqInv, DesiredInv, SameWants
    PROVE  DesiredInv'
<1>1. \A i \in Ids : act'[i].scope = {Global} \/ act'[i].scope \subseteq Cpus
  BY DEF DesiredInv, SameWants
<1>2. ASSUME NEW l \in Lines
      PROVE  desired'[l] <=> \E i \in Active(chain, act)' : WantedBy(l, i)'
  BY SameWantsFacts DEF DesiredInv, SameWants
<1>. QED  BY <1>1, <1>2 DEF DesiredInv

(* The facts of LineInv, when a thread moves *)
LEMMA LineMove ==
    ASSUME IrqInv, IrqInv', LineInv, NEW t \in Threads, Moves(t),
           online \subseteq online',
           t \in Cpus => /\ thread'[t].pc \in BootPcs
                         /\ thread'[t].pc # "idle" =>
                              /\ t \in online' \ Boot /\ thread'[t].op = "online"
                              /\ thread'[t].todo \subseteq {t},
           ~present' => ~present /\ UNCHANGED <<chain, desired, applied>> /\ NothingKept(thread'[t]),
           Visitor(t, thread[t])',
           DesiredInv'
    PROVE  LineInv'
<1>1. CpuInv'
  BY CpusAssumption DEF LineInv, CpuInv, Moves, Threads, Busy, At
<1>2. PresentInv'
  BY DEF LineInv, PresentInv, Moves, NothingKept
<1>3. VisitInv'
  <2>1. ASSUME NEW u \in Threads, u # t  PROVE Visitor(u, thread[u])'
    BY <2>1 DEF LineInv, VisitInv, Visitor, Moves, Offline
  <2>. QED  BY <2>1 DEF VisitInv
<1>. QED  BY <1>1, <1>2, <1>3 DEF LineInv

(* The line l, when one thread at a time may write it *)
LEMMA AppliedMove ==
    ASSUME IrqInv, NEW t \in Threads, Moves(t), NEW l \in Lines,
           AppliedAt(l), OneWriter(l), OneWriter(l)',
           t \notin MayWrite(l) => applied'[l] = applied[l] /\ controller'[l] = controller[l],
           Written(thread[t], l, applied[l], controller[l])
             => Written(thread'[t], l, applied'[l], controller'[l])
    PROVE  AppliedAt(l)'
<1>0. MayWrite(l) \subseteq Threads
  BY DEF MayWrite, Threads
<1>1. CASE t \in MayWrite(l)
  <2>1. \A u \in MayWrite(l) \ {t} : ~Busy(u) /\ ~Busy(u)'
    BY <1>0, <1>1 DEF OneWriter, Moves, Busy, At, MayWrite
  <2>2. \A r : r.pc = "idle" => ~Recording(r, l) /\ ~Masks(r, l)
    BY DEF Recording, Masks, Inserting
  <2>3. Written(thread[t], l, applied[l], controller[l])
    BY <1>1, <2>1, <2>2 DEF AppliedAt, Written, Busy, At
  <2>4. ~Busy(t)' => applied'[l] = controller'[l]
    BY <2>2, <2>3 DEF Written, Busy, At
  <2>. QED  BY <1>1, <2>1, <2>3, <2>4 DEF AppliedAt, MayWrite
<1>2. CASE t \notin MayWrite(l)
  <2>1. \A u \in MayWrite(l) : thread'[u] = thread[u]
    BY <1>0, <1>2 DEF Moves
  <2>. QED  BY <1>2, <2>1 DEF AppliedAt, Busy, At, MayWrite
<1>. QED  BY <1>1, <1>2

(* The pending enables, as the one driver at work leaves them *)
PendingOf(t) ==
    /\ \A i \in Active(chain, act), c \in Cpus \ online :
         WantedBy(c, i) =>
            c \in act[i].pending \/ (thread[t].id = i /\ Enabling(thread[t], c))
    /\ /\ thread[t].pc \in Applying /\ thread[t].op \in {"disable", "rollback"}
       /\ thread[t].id \in Active(chain, act)
       => ~act[thread[t].id].enabled

LEMMA IdleEnables ==
    ASSUME NEW r, r.pc = "idle"
    PROVE  r.pc \notin Applying /\ \A c : ~Enabling(r, c)
  BY DEF Enabling, Applying

LEMMA PendingMove ==
    ASSUME NEW t \in Callers, Moves(t), DriversTakeTurns, DriversTakeTurns', PendingInv,
           PendingOf(t) => PendingOf(t)'
    PROVE  PendingInv'
<1>1. \A u \in Callers \ {t} : thread[u].pc = "idle" /\ thread'[u].pc = "idle"
  BY DEF DriversTakeTurns, Moves, Busy, At, Threads
<1>2. PendingOf(t)
  BY <1>1, IdleEnables DEF PendingInv, PendingOf
<1>. QED  BY <1>1, <1>2, IdleEnables DEF PendingInv, PendingOf

(* Driver t is alone at work: what it still owes *)
SettleOf(t) ==
    /\ \A l \in Lines : ~Offline(l) => applied[l] = desired[l] \/ Owes(t, thread[t], l)
    /\ Busy(t) => SnapOk(thread[t]) /\ NeverFails(thread[t])
    /\ \A c \in Cpus \ online : ~applied[c]

LEMMA IdleOwes ==
    ASSUME NEW t, NEW l, NEW r, r.pc = "idle"
    PROVE  ~Owes(t, r, l)
  BY DEF Owes, Inserting, Restoring, Applying

LEMMA SettleMove ==
    ASSUME NEW t \in Callers, Moves(t), LinesTakeTurns, LinesTakeTurns', SettleInv,
           errors' = 0 => errors = 0 /\ (SettleOf(t) => SettleOf(t)')
    PROVE  SettleInv'
<1> SUFFICES ASSUME errors' = 0
             PROVE  /\ \A l \in Lines : SettleAt(l)'
                    /\ \A u \in Callers : Busy(u)' => SnapOk(thread[u])' /\ NeverFails(thread[u])'
                    /\ \A c \in Cpus : c \notin online' \/ At(c, "pending")' => ~applied'[c]
                    /\ \A c \in Cpus, i \in Active(chain, act)' :
                          At(c, "pending")' /\ WantedBy(c, i)' => c \in act'[i].pending
  BY DEF SettleInv
<1>0. t \in Threads /\ t \notin Cpus /\ \A l \in Lines : t \in MayWrite(l)
  BY CpusAssumption DEF Threads, MayWrite
<1>1. \A u \in Threads \ {t} : ~Busy(u) /\ ~Busy(u)' /\ thread'[u].pc = "idle"
  <2>1. \A u \in Threads : \E l \in Lines : t \in MayWrite(l) /\ u \in MayWrite(l)
    BY DEF Threads, Lines, MayWrite
  <2>2. \A u \in Threads \ {t} : ~Busy(u) /\ ~Busy(u)'
    BY <1>0, <2>1, SMTT(30) DEF LinesTakeTurns, OneWriter, Moves, Busy, At, MayWrite
  <2>. QED  BY <2>2 DEF Busy, At
<1>2. \A l \in Lines : MayWrite(l) \subseteq Threads
  BY DEF MayWrite, Threads
<1>3. SettleOf(t)
  BY <1>1, <1>2 DEF SettleInv, SettleOf, SettleAt
<1>4. SettleOf(t)'
  BY <1>3
<1>5. \A l \in Lines : SettleAt(l)'
  BY <1>0, <1>4, IdleOwes DEF SettleOf, SettleAt, Busy, At, MayWrite
<1>6. \A c \in Cpus : ~At(c, "pending")'
  BY <1>0, <1>1 DEF At, Threads
<1>7. \A u \in Callers : Busy(u)' => SnapOk(thread[u])' /\ NeverFails(thread[u])'
  BY <1>1, <1>4 DEF SettleOf, Threads
<1>. QED  BY <1>4, <1>5, <1>6, <1>7 DEF SettleOf

(* A driver moves. *)
LEMMA DriverKept ==
    ASSUME IrqInv, IrqInv', LineInv, NEW t \in Callers, Moves(t), UNCHANGED online,
           ~present' => ~present /\ UNCHANGED <<chain, desired, applied>> /\ NothingKept(thread'[t]),
           Visitor(t, thread[t])',
           DesiredInv',
           \A l \in Lines : Written(thread[t], l, applied[l], controller[l])
                              => Written(thread'[t], l, applied'[l], controller'[l]),
           PendingOf(t) => PendingOf(t)',
           errors' = 0 => errors = 0 /\ (SettleOf(t) => SettleOf(t)')
    PROVE  Kept
<1>0. t \in Threads /\ t \notin Cpus /\ online \subseteq online' /\ \A l \in Lines : t \in MayWrite(l)
  BY CpusAssumption DEF Threads, MayWrite
<1>1. LineInv'
  BY <1>0, LineMove
<1>2. AppliedKept
  BY <1>0, AppliedMove DEF AppliedKept
<1>3. PendingKept
  BY PendingMove DEF PendingKept
<1>4. SettleKept
  BY SettleMove DEF SettleKept
<1>. QED  BY <1>1, <1>2, <1>3, <1>4 DEF Kept

(* CPU c comes online: what it still owes its own line *)
OfCpu(c) ==
    /\ c \in online => applied[c] = desired[c] \/ Owes(c, thread[c], c)
    /\ c \notin online \/ At(c, "pending") => ~applied[c]
    /\ \A i \in Active(chain, act) :
         (c \notin online \/ At(c, "pending")) /\ WantedBy(c, i) => c \in act[i].pending

LEMMA SettleCpu ==
    ASSUME IrqInv, NEW c \in Cpus, Moves(c), c \in online', online' = online \cup {c},
           SameWants, \A i \in Ids : act[i].pending \ {c} \subseteq act'[i].pending,
           \A l \in Lines \ {c} : applied'[l] = applied[l],
           LinesTakeTurns, LinesTakeTurns', SettleInv, PendingInv,
           errors' = 0 => errors = 0 /\ (OfCpu(c) => OfCpu(c)')
    PROVE  SettleInv'
<1> SUFFICES ASSUME errors' = 0
             PROVE  /\ \A l \in Lines : SettleAt(l)'
                    /\ \A u \in Callers : Busy(u)' => SnapOk(thread[u])' /\ NeverFails(thread[u])'
                    /\ \A d \in Cpus : d \notin online' \/ At(d, "pending")' => ~applied'[d]
                    /\ \A d \in Cpus, i \in Active(chain, act)' :
                          At(d, "pending")' /\ WantedBy(d, i)' => d \in act'[i].pending
  BY DEF SettleInv
<1>0. /\ c \in Threads /\ c \notin Callers /\ c \in Lines /\ c \in MayWrite(c) /\ c # Global
      /\ Global \notin Cpus
  BY CpusAssumption, SMTT(30) DEF Threads, Lines, MayWrite, Global
<1>1. \A u \in Callers : thread[u].pc = "idle" /\ thread'[u].pc = "idle"
  <2>1. \A u \in Callers : u \in Threads \ {c} /\ u \in MayWrite(c)
    BY <1>0 DEF Threads, MayWrite
  <2>. QED  BY <1>0, <2>1, SMTT(30) DEF LinesTakeTurns, OneWriter, Moves, Busy, At, MayWrite
<1>2. /\ Active(chain, act)' = Active(chain, act) /\ Active(chain, act) \subseteq Ids
      /\ \A l \in Lines, i \in Ids : WantedBy(l, i)' = WantedBy(l, i)
      /\ desired' = desired
  BY SameWantsFacts DEF SameWants
<1>3. OfCpu(c)'
  <2>1. c \in online => applied[c] = desired[c] \/ Owes(c, thread[c], c)
    BY <1>0, <1>1 DEF SettleInv, SettleAt, Offline, MayWrite, Busy, At
  <2>2. \A i \in Active(chain, act) :
          (c \notin online \/ At(c, "pending")) /\ WantedBy(c, i) => c \in act[i].pending
    BY <1>1, IdleEnables, SMTT(30) DEF SettleInv, PendingInv
  <2>. QED  BY <2>1, <2>2 DEF SettleInv, OfCpu
<1>4. ASSUME NEW l \in Lines  PROVE SettleAt(l)'
  <2>1. CASE l = c
    BY <1>0, <1>3, <2>1, IdleOwes DEF OfCpu, SettleAt, MayWrite, Busy, At
  <2>2. CASE l # c
    <3>1. \A u \in MayWrite(l) : thread'[u] = thread[u]
      BY <1>0, <2>2 DEF MayWrite, Moves, Threads
    <3>2. Offline(l)' = Offline(l) /\ applied'[l] = applied[l] /\ desired'[l] = desired[l]
      BY <1>2, <2>2 DEF Offline
    <3>. QED  BY <3>1, <3>2 DEF SettleInv, SettleAt, Busy, At, MayWrite
  <2>. QED  BY <2>1, <2>2
<1>5. ASSUME NEW d \in Cpus
      PROVE  /\ d \notin online' \/ At(d, "pending")' => ~applied'[d]
             /\ \A i \in Active(chain, act)' :
                   At(d, "pending")' /\ WantedBy(d, i)' => d \in act'[i].pending
  <2>1. CASE d = c
    BY <1>3, <2>1 DEF OfCpu
  <2>2. CASE d # c
    <3>1. d \in Lines /\ thread'[d] = thread[d] /\ applied'[d] = applied[d]
      BY <2>2 DEF Moves, Threads, Lines
    <3>. QED  BY <1>2, <2>2, <3>1 DEF SettleInv, At
  <2>. QED  BY <2>1, <2>2
<1>. QED  BY <1>1, <1>4, <1>5 DEF Busy, At

(* A CPU that comes online moves. *)
LEMMA CpuKept ==
    ASSUME IrqInv, IrqInv', LineInv, NEW c \in Cpus, Moves(c),
           c \in online' \ Boot, online' = online \cup {c},
           thread'[c].pc \in BootPcs,
           thread'[c].pc # "idle" => thread'[c].op = "online" /\ thread'[c].todo \subseteq {c},
           ~present' => ~present /\ UNCHANGED applied /\ NothingKept(thread'[c]),
           Visitor(c, thread[c])',
           SameWants, \A i \in Ids : act[i].pending \ {c} \subseteq act'[i].pending,
           \A l \in Lines \ {c} : applied'[l] = applied[l] /\ controller'[l] = controller[l],
           Written(thread[c], c, applied[c], controller[c])
             => Written(thread'[c], c, applied'[c], controller'[c]),
           errors' = 0 => errors = 0 /\ (OfCpu(c) => OfCpu(c)')
    PROVE  Kept
<1>0. c \in Threads /\ c \notin Callers /\ online \subseteq online'
  BY CpusAssumption DEF Threads
<1>1. LineInv'
  BY <1>0, LineMove, DesiredFrame DEF LineInv, SameWants
<1>2. AppliedKept
  <2>1. ASSUME NEW l \in Lines, AppliedAt(l), OneWriter(l), OneWriter(l)', l = c
        PROVE  AppliedAt(l)'
    BY <1>0, <2>1, AppliedMove DEF MayWrite
  <2>2. ASSUME NEW l \in Lines, AppliedAt(l), OneWriter(l), OneWriter(l)', l # c
        PROVE  AppliedAt(l)'
    <3>1. \A u \in MayWrite(l) : thread'[u] = thread[u]
      BY <1>0, <2>2 DEF MayWrite, Moves, Threads
    <3>. QED  BY <2>2, <3>1 DEF AppliedAt, Busy, At, MayWrite
  <2>. QED  BY <2>1, <2>2 DEF AppliedKept
<1>3. PendingKept
  <2>1. \A u \in Callers : thread'[u] = thread[u]
    BY <1>0 DEF Moves, Threads
  <2>2. /\ Active(chain, act)' = Active(chain, act) /\ Active(chain, act) \subseteq Ids
        /\ \A l \in Lines, i \in Ids : WantedBy(l, i)' = WantedBy(l, i)
    BY SameWantsFacts
  <2>. QED  BY <2>1, <2>2, SMTT(30) DEF PendingKept, PendingInv, Lines, SameWants
<1>4. SettleKept
  BY SettleCpu DEF SettleKept
<1>. QED  BY <1>1, <1>2, <1>3, <1>4 DEF Kept

(* No thread moves. *)
LEMMA AsideKept ==
    ASSUME IrqInv, LineInv, SameWants, \A i \in Ids : act'[i].pending = act[i].pending,
           UNCHANGED <<present, applied, controller, online, errors, thread>>
    PROVE  Kept
<1>1. /\ Active(chain, act)' = Active(chain, act) /\ Active(chain, act) \subseteq Ids
      /\ \A l \in Lines, i \in Ids : WantedBy(l, i)' = WantedBy(l, i)
      /\ UNCHANGED <<chain, desired>>
  BY SameWantsFacts DEF SameWants
<1>2. LineInv'
  <2>1. DesiredInv'
    BY DesiredFrame DEF LineInv
  <2>2. CpuInv' /\ PresentInv' /\ VisitInv'
    BY <1>1 DEF LineInv, CpuInv, PresentInv, VisitInv, Visitor, NothingKept, Busy, At, Offline
  <2>. QED  BY <2>1, <2>2 DEF LineInv
<1>3. AppliedKept
  BY DEF AppliedKept, AppliedAt, Busy, At, MayWrite
<1>4. PendingKept
  BY <1>1, SMTT(30) DEF PendingKept, PendingInv, SameWants, Lines
<1>5. SettleKept
  <2>1. \A l \in Lines : SettleAt(l)' <=> SettleAt(l)
    BY <1>1 DEF SettleAt, Busy, At, Offline, MayWrite
  <2>2. \A t \in Callers : /\ SnapOk(thread[t])' <=> SnapOk(thread[t])
                           /\ NeverFails(thread[t])' <=> NeverFails(thread[t])
    <3> TAKE t \in Callers
    <3>1. SnapOk(thread[t])' <=> SnapOk(thread[t])
      BY <1>1 DEF SnapOk
    <3>2. \A i \in Active(chain, act) : act'[i].scope = act[i].scope
      BY <1>1 DEF SameWants
    <3>3. NeverFails(thread[t])' <=> NeverFails(thread[t])
      BY <1>1, <3>2 DEF NeverFails, Offline
    <3>. QED  BY <3>1, <3>3
  <2>. QED  BY <1>1, <2>1, <2>2 DEF SettleKept, SettleInv, Busy, At, Lines
<1>. QED  BY <1>2, <1>3, <1>4, <1>5 DEF Kept

-----------------------------------------------------------------------------
(* Steps of a request *)

LEMMA IdleFields ==
    /\ Idle.pc = "idle" /\ Idle.op = "none" /\ Idle.req = NoRequest /\ Idle.todo = {}
    /\ Idle.snap = {} /\ Idle.was = {} /\ Idle.ok = TRUE /\ Idle.k = "idle"
  BY DEF Idle

LEMMA NotCpu ==
    ASSUME LineInv, NEW t \in Threads, thread[t].pc \notin BootPcs
    PROVE  t \in Callers
  BY DEF LineInv, CpuInv, Threads

LEMMA PendingSame ==
    ASSUME IrqInv, NEW t \in Callers, SameWants, UNCHANGED online,
           \A i \in Ids : act'[i].pending = act[i].pending,
           \A c \in Cpus \ online : Enabling(thread[t], c) /\ thread[t].id \in Active(chain, act) =>
                Enabling(thread'[t], c) /\ thread'[t].id = thread[t].id,
           thread'[t].pc \in Applying /\ thread'[t].op \in {"disable", "rollback"} =>
                /\ thread[t].pc \in Applying /\ thread[t].op = thread'[t].op
                /\ thread'[t].id = thread[t].id
    PROVE  PendingOf(t) => PendingOf(t)'
<1>1. /\ Active(chain, act)' = Active(chain, act) /\ Active(chain, act) \subseteq Ids
      /\ \A l \in Lines, i \in Ids : WantedBy(l, i)' = WantedBy(l, i)
  BY SameWantsFacts
<1>. QED  BY <1>1 DEF PendingOf, SameWants, Lines

(* No action changes. *)
LEMMA SameActs ==
    ASSUME UNCHANGED <<lineVars, act>>
    PROVE  /\ SameWants /\ UNCHANGED present /\ \A i \in Ids : act'[i].pending = act[i].pending
           /\ Active(chain, act)' = Active(chain, act)
  BY DEF SameWants, lineVars, Active

LEMMA RequestKept ==
    ASSUME IrqInv, IrqInv', LineInv, NEW t \in Callers, NEW req \in Requests, Request(t, req)
    PROVE  Kept
<1> DEFINE r == [Idle EXCEPT !.pc = "snapshot", !.req = req, !.todo = req.scope]
<1>0. t \in Threads /\ thread[t].pc = "idle"
  BY DEF Threads, Request, At
<1>1. /\ r.pc = "snapshot" /\ r.op = "none" /\ r.req = req /\ r.todo = req.scope /\ r.snap = {}
      /\ r.was = {} /\ r.ok = TRUE /\ r.k = "idle"
  BY DEF Idle
<1>2. Become(t, r) /\ UNCHANGED <<lineVars, applied, act, hardware>>
  BY DEF Request
<1> HIDE DEF r
<1>3. Moves(t) /\ thread'[t] = r
  BY <1>0, <1>1, <1>2, MovesBecome
<1>4. /\ SameWants /\ UNCHANGED present /\ \A i \in Ids : act'[i].pending = act[i].pending
      /\ UNCHANGED <<chain, desired, applied, controller, online, errors>>
  BY <1>2, SameActs DEF SameWants, hardware
<1>5. ~present' => ~present /\ UNCHANGED <<chain, desired, applied>> /\ NothingKept(thread'[t])
  BY <1>1, <1>3, <1>4 DEF NothingKept
<1>6. Visitor(t, thread[t])' /\ DesiredInv'
  BY <1>1, <1>3, <1>4, DesiredFrame DEF Visitor, Applying, LineInv
<1>7. \A l \in Lines : Written(thread[t], l, applied[l], controller[l])
                         => Written(thread'[t], l, applied'[l], controller'[l])
  BY <1>0, <1>1, <1>3, <1>4 DEF Written, Recording, Masks
<1>8. PendingOf(t) => PendingOf(t)'
  BY <1>0, <1>1, <1>3, <1>4, IdleEnables, PendingSame DEF Applying
<1>9. errors' = 0 => errors = 0 /\ (SettleOf(t) => SettleOf(t)')
  <2>1. SnapOk(thread[t])' /\ NeverFails(thread[t])'
    BY <1>1, <1>3 DEF SnapOk, NeverFails, Restoring, Applying
  <2>. QED  BY <1>0, <1>4, <2>1, IdleOwes DEF SettleOf, Offline
<1>. QED  BY <1>3, <1>4, <1>5, <1>6, <1>7, <1>8, <1>9, DriverKept

LEMMA CallKept ==
    ASSUME IrqInv, IrqInv', LineInv, NEW t \in Callers,
           NEW op \in {"enable", "disable", "free", "synchronize"}, NEW i \in Ids, Call(t, op, i)
    PROVE  Kept
<1> DEFINE r == [Idle EXCEPT !.op = op, !.id = i,
                   !.pc = IF op = "free" THEN "detach"
                          ELSE IF op = "synchronize" THEN "sync" ELSE "set"]
<1>0. t \in Threads /\ thread[t].pc = "idle"
  BY DEF Threads, Call, At
<1>1. /\ r.pc \in {"detach", "sync", "set"} /\ r.op = op /\ r.req = NoRequest
      /\ r.was = {} /\ r.k = "idle"
  BY DEF Idle
<1>2. Become(t, r) /\ UNCHANGED <<lineVars, applied, act, hardware>>
  BY DEF Call
<1> HIDE DEF r
<1>3. Moves(t) /\ thread'[t] = r
  BY <1>0, <1>1, <1>2, MovesBecome
<1>4. /\ SameWants /\ UNCHANGED present /\ \A j \in Ids : act'[j].pending = act[j].pending
      /\ UNCHANGED <<chain, desired, applied, controller, online, errors>>
  BY <1>2, SameActs DEF SameWants, hardware
<1>5. ~present' => ~present /\ UNCHANGED <<chain, desired, applied>> /\ NothingKept(thread'[t])
  BY <1>1, <1>3, <1>4 DEF NothingKept
<1>6. Visitor(t, thread[t])' /\ DesiredInv'
  BY <1>1, <1>3, <1>4, DesiredFrame DEF Visitor, Applying, Inserting, LineInv
<1>7. \A l \in Lines : Written(thread[t], l, applied[l], controller[l])
                         => Written(thread'[t], l, applied'[l], controller'[l])
  BY <1>0, <1>1, <1>3, <1>4 DEF Written, Recording, Masks, Inserting
<1>8. PendingOf(t) => PendingOf(t)'
  BY <1>0, <1>1, <1>3, <1>4, IdleEnables, PendingSame DEF Applying
<1>9. errors' = 0 => errors = 0 /\ (SettleOf(t) => SettleOf(t)')
  <2>1. SnapOk(thread[t])' /\ NeverFails(thread[t])'
    BY <1>1, <1>3 DEF SnapOk, NeverFails, Restoring, Applying, Inserting, Asks
  <2>. QED  BY <1>0, <1>4, <2>1, IdleOwes DEF SettleOf, Offline
<1>. QED  BY <1>3, <1>4, <1>5, <1>6, <1>7, <1>8, <1>9, DriverKept

LEMMA SnapshotLineKept ==
    ASSUME IrqInv, IrqInv', LineInv, NEW t \in Threads, SnapshotLine(t)
    PROVE  Kept
<1> DEFINE l == Visiting(t)
           skip == AfterSnapshot(Done(t))
           mask == [thread[t] EXCEPT !.pc = "mask", !.value = present /\ applied[l]]
           r == IF Offline(l) THEN skip ELSE mask
<1>0. /\ thread[t] \in ThreadRec /\ Legal(t, thread[t]) /\ thread[t].pc = "snapshot"
      /\ l \in thread[t].todo /\ l \in Lines /\ l = FirstLine(thread[t].todo) /\ t \in Callers
  BY ThreadFacts, NotCpu DEF SnapshotLine, At, Legal, Visits, BootPcs, Visiting
<1>1. /\ skip.pc \in {"insert", "snapshot"} /\ skip.op = thread[t].op /\ skip.req = thread[t].req
      /\ skip.todo = thread[t].todo \ {l} /\ skip.snap = thread[t].snap
      /\ skip.was = thread[t].was /\ skip.ok = thread[t].ok /\ skip.k = thread[t].k
  BY <1>0, SMTT(30) DEF AfterSnapshot, Done, ThreadRec
<1>2. /\ mask.pc = "mask" /\ mask.op = thread[t].op /\ mask.req = thread[t].req
      /\ mask.todo = thread[t].todo /\ mask.snap = thread[t].snap
      /\ mask.was = thread[t].was /\ mask.ok = thread[t].ok /\ mask.k = thread[t].k
      /\ mask.value = (present /\ applied[l])
  BY <1>0, SMTT(30) DEF ThreadRec
<1>3. Become(t, r) /\ UNCHANGED <<lineVars, applied, act, hardware>>
  BY DEF SnapshotLine
<1>4. r = IF Offline(l) THEN skip ELSE mask
  OBVIOUS
<1> HIDE DEF l, r, skip, mask
<1>5. /\ r.pc \in Inserting /\ r.op = thread[t].op /\ r.req = thread[t].req
      /\ r.todo \subseteq thread[t].todo /\ r.snap = thread[t].snap
      /\ r.was = thread[t].was /\ r.ok = thread[t].ok /\ r.k = thread[t].k
      /\ r.pc \in {"insert", "snapshot", "mask"}
      /\ r.pc = "mask" => ~Offline(l) /\ FirstLine(r.todo) = l /\ r.value = (present /\ applied[l])
  BY <1>0, <1>1, <1>2, <1>4 DEF Inserting
<1>6. Moves(t) /\ thread'[t] = r
  BY <1>0, <1>3, MovesBecome
<1>7. /\ SameWants /\ UNCHANGED present /\ \A j \in Ids : act'[j].pending = act[j].pending
      /\ UNCHANGED <<chain, desired, applied, controller, online, errors>>
  BY <1>3, SameActs DEF SameWants, hardware
<1>8. Visitor(t, thread[t]) /\ (~present => NothingKept(thread[t]))
  BY <1>0 DEF LineInv, VisitInv, PresentInv
<1>9. ~present' => ~present /\ UNCHANGED <<chain, desired, applied>> /\ NothingKept(thread'[t])
  BY <1>5, <1>6, <1>7, <1>8 DEF NothingKept
<1>10. Visitor(t, thread[t])' /\ DesiredInv'
  BY <1>0, <1>5, <1>6, <1>7, <1>8, DesiredFrame DEF Visitor, Applying, Inserting, LineInv, Offline
<1>11. \A m \in Lines : Written(thread[t], m, applied[m], controller[m])
                          => Written(thread'[t], m, applied'[m], controller'[m])
  BY <1>0, <1>5, <1>6, <1>7 DEF Written, Recording, Masks, Inserting
<1>12. PendingOf(t) => PendingOf(t)'
  BY <1>0, <1>5, <1>6, <1>7, PendingSame DEF Applying, Enabling, Inserting
<1>13. errors' = 0 => errors = 0 /\ (SettleOf(t) => SettleOf(t)')
  <2> SUFFICES ASSUME SettleOf(t)  PROVE SettleOf(t)'
    BY <1>7
  <2>1. SnapOk(thread[t]) /\ NeverFails(thread[t])
    BY <1>0 DEF SettleOf, Busy, At
  <2>2. r.pc = "mask" => (r.value <=> desired[FirstLine(r.todo)])
    <3>1. l \notin thread[t].snap
      BY <1>0, <2>1 DEF SnapOk, Inserting
    <3>2. ~Offline(l) => applied[l] = desired[l]
      BY <1>0, <3>1 DEF SettleOf, Owes, Inserting, Restoring, Applying
    <3>3. ~present => ~applied[l] /\ ~desired[l]
      BY <1>0 DEF LineInv, PresentInv
    <3>4. r.pc = "mask" => ~Offline(l) /\ FirstLine(r.todo) = l /\ r.value = (present /\ applied[l])
      BY <1>5
    <3>. QED  BY <3>2, <3>3, <3>4
  <2>3. SnapOk(thread[t])'
    BY <1>0, <1>5, <1>6, <1>7, <2>1, <2>2 DEF SnapOk, Inserting, Restoring
  <2>4. NeverFails(thread[t])'
    BY <1>5, <1>6, <1>7, <2>1 DEF NeverFails, Inserting, Applying, Asks
  <2>5. \A m \in Lines : Owes(t, thread[t], m) => Owes(t, thread'[t], m)
    BY <1>0, <1>5, <1>6 DEF Owes, Inserting, Restoring, Applying
  <2>. QED  BY <1>7, <2>3, <2>4, <2>5 DEF SettleOf, Offline
<1>. QED  BY <1>0, <1>6, <1>7, <1>9, <1>10, <1>11, <1>12, <1>13, DriverKept

(* A driver moves and leaves alone what the actions want. *)
LEMMA PlainKept ==
    ASSUME IrqInv, IrqInv', LineInv, NEW t \in Callers, Moves(t), UNCHANGED <<present, online>>,
           SameWants, \A j \in Ids : act'[j].pending = act[j].pending,
           ~present => UNCHANGED applied /\ NothingKept(thread'[t]),
           Visitor(t, thread'[t]),
           \A l \in Lines : Written(thread[t], l, applied[l], controller[l])
                              => Written(thread'[t], l, applied'[l], controller'[l]),
           \A c \in Cpus \ online : Enabling(thread[t], c) /\ thread[t].id \in Active(chain, act) =>
                Enabling(thread'[t], c) /\ thread'[t].id = thread[t].id,
           thread'[t].pc \in Applying /\ thread'[t].op \in {"disable", "rollback"} =>
                /\ thread[t].pc \in Applying /\ thread[t].op = thread'[t].op
                /\ thread'[t].id = thread[t].id,
           errors' = 0 => errors = 0 /\ (SettleOf(t) => SettleOf(t)')
    PROVE  Kept
<1>1. UNCHANGED <<chain, desired>>
  BY DEF SameWants
<1>2. Visitor(t, thread[t])'
  BY DEF Visitor, Offline
<1>3. DesiredInv'
  BY DesiredFrame DEF LineInv
<1>4. PendingOf(t) => PendingOf(t)'
  BY PendingSame
<1>. QED  BY <1>1, <1>2, <1>3, <1>4, DriverKept

(* What a driver owes, when nothing but its record changes *)
LEMMA SettleSame ==
    ASSUME NEW t, SettleOf(t), UNCHANGED <<desired, applied, online>>,
           \A l \in Lines : ~Offline(l) /\ Owes(t, thread[t], l) =>
                applied[l] = desired[l] \/ Owes(t, thread'[t], l),
           thread'[t].pc # "idle" => SnapOk(thread[t])' /\ NeverFails(thread[t])'
    PROVE  SettleOf(t)'
  BY DEF SettleOf, Offline, Busy, At

LEMMA ErrorsCount ==
    ASSUME IrqInv
    PROVE  ControllerFails => errors' # 0
  BY RequestsAssumption, SMTT(30) DEF IrqInv, IrqTypes, ControllerFails

LEMMA MaskLineKept ==
    ASSUME IrqInv, IrqInv', LineInv, NEW t \in Threads, MaskLine(t)
    PROVE  Kept
<1> DEFINE l == Visiting(t)
           masked == [thread[t] EXCEPT !.pc = "masked"]
           restore == [thread[t] EXCEPT !.pc = "restore", !.ok = FALSE, !.todo = thread[t].snap]
<1>0. /\ thread[t] \in ThreadRec /\ Legal(t, thread[t]) /\ thread[t].pc = "mask"
      /\ l \in thread[t].todo /\ l \in Lines /\ l = FirstLine(thread[t].todo) /\ t \in Callers
  BY ThreadFacts, NotCpu DEF MaskLine, At, Legal, Visits, BootPcs, Visiting
<1>1. /\ masked.pc = "masked" /\ masked.op = thread[t].op /\ masked.req = thread[t].req
      /\ masked.todo = thread[t].todo /\ masked.snap = thread[t].snap
      /\ masked.was = thread[t].was /\ masked.ok = thread[t].ok /\ masked.value = thread[t].value
      /\ masked.k = thread[t].k
  BY <1>0, SMTT(30) DEF ThreadRec
<1>2. /\ restore.pc = "restore" /\ restore.ok = FALSE /\ restore.todo = thread[t].snap
      /\ restore.was = thread[t].was
  BY <1>0, SMTT(30) DEF ThreadRec
<1>3. UNCHANGED <<lineVars, act, applied, online>>
  BY DEF MaskLine, SetController, ControllerFails
<1>4. Visitor(t, thread[t]) /\ (~present => NothingKept(thread[t]))
  BY <1>0 DEF LineInv, VisitInv, PresentInv
<1>5. controller \in [Lines -> BOOLEAN]
  BY DEF IrqInv, IrqTypes
<1>6. CASE SetController(l, FALSE) /\ Become(t, masked)
  <2> HIDE DEF l, masked, restore
  <2>1. Moves(t) /\ thread'[t] = masked
    BY <1>0, <1>6, MovesBecome
  <2>2. /\ controller'[l] = FALSE /\ UNCHANGED errors
        /\ \A m \in Lines : m # l => controller'[m] = controller[m]
    BY <1>0, <1>5, <1>6 DEF SetController
  <2>3. ~present => UNCHANGED applied /\ NothingKept(thread'[t])
    BY <1>0, <1>1, <1>3, <1>4, <2>1 DEF NothingKept
  <2>4. Visitor(t, thread'[t])
    BY <1>0, <1>1, <1>4, <2>1 DEF Visitor, Inserting, Applying
  <2>5. \A m \in Lines : Written(thread[t], m, applied[m], controller[m])
                           => Written(thread'[t], m, applied'[m], controller'[m])
    BY <1>0, <1>1, <1>3, <2>1, <2>2 DEF Written, Recording, Masks, Inserting
  <2>6. thread[t].pc \notin Applying /\ thread'[t].pc \notin Applying /\ \A c : ~Enabling(thread[t], c)
    BY <1>0, <1>1, <2>1 DEF Enabling, Applying
  <2>7. ASSUME SettleOf(t)  PROVE SettleOf(t)'
    <3>1. SnapOk(thread[t]) /\ NeverFails(thread[t])
      BY <1>0, <2>7 DEF SettleOf, Busy, At
    <3>2. UNCHANGED <<desired, act, chain>>
      BY <1>3 DEF lineVars
    <3>3. SnapOk(thread[t])' /\ NeverFails(thread[t])'
      BY <1>0, <1>1, <1>3, <2>1, <3>1, <3>2 DEF SnapOk, NeverFails, Inserting, Restoring, Applying, Asks
    <3>4. \A m \in Lines : Owes(t, thread[t], m) => Owes(t, thread'[t], m)
      BY <1>0, <1>1, <2>1 DEF Owes, Inserting, Restoring, Applying
    <3>. QED  BY <1>3, <2>7, <3>2, <3>3, <3>4, SettleSame
  <2>. QED  BY <1>0, <1>3, <2>1, <2>2, <2>3, <2>4, <2>5, <2>6, <2>7, SameActs, PlainKept
<1>7. CASE ControllerFails /\ Become(t, restore)
  <2> HIDE DEF l, masked, restore
  <2>1. Moves(t) /\ thread'[t] = restore
    BY <1>0, <1>7, MovesBecome
  <2>2. errors' # 0 /\ UNCHANGED controller
    BY <1>7, ErrorsCount DEF ControllerFails
  <2>3. ~present => UNCHANGED applied /\ NothingKept(thread'[t])
    BY <1>2, <1>3, <1>4, <2>1 DEF NothingKept
  <2>4. Visitor(t, thread'[t])
    BY <1>2, <2>1 DEF Visitor, Inserting, Applying
  <2>5. \A m \in Lines : Written(thread[t], m, applied[m], controller[m])
                           => Written(thread'[t], m, applied'[m], controller'[m])
    BY <1>0, <1>2, <1>3, <2>1, <2>2 DEF Written, Recording, Masks, Inserting
  <2>6. thread[t].pc \notin Applying /\ thread'[t].pc \notin Applying /\ \A c : ~Enabling(thread[t], c)
    BY <1>0, <1>2, <2>1 DEF Enabling, Applying
  <2>. QED  BY <1>0, <1>3, <2>1, <2>2, <2>3, <2>4, <2>5, <2>6, SameActs, PlainKept
<1>. QED  BY <1>6, <1>7 DEF MaskLine, Goto

LEMMA MarkMaskedKept ==
    ASSUME IrqInv, IrqInv', LineInv, NEW t \in Threads, MarkMasked(t)
    PROVE  Kept
<1> DEFINE l == Visiting(t)
           r == AfterSnapshot([Done(t) EXCEPT !.snap = @ \cup {l},
                                 !.was = IF Done(t).value THEN @ \cup {l} ELSE @])
<1>0. /\ thread[t] \in ThreadRec /\ Legal(t, thread[t]) /\ thread[t].pc = "masked"
      /\ l \in thread[t].todo /\ l \in Lines /\ l = FirstLine(thread[t].todo) /\ t \in Callers
  BY ThreadFacts, NotCpu DEF MarkMasked, At, Legal, Visits, BootPcs, Visiting
<1>1. /\ r.pc \in {"insert", "snapshot"} /\ r.op = thread[t].op /\ r.req = thread[t].req
      /\ r.todo = thread[t].todo \ {l} /\ r.snap = thread[t].snap \cup {l}
      /\ r.was = (IF thread[t].value THEN thread[t].was \cup {l} ELSE thread[t].was)
      /\ r.ok = thread[t].ok /\ r.k = thread[t].k
  BY <1>0, SMTT(30) DEF AfterSnapshot, Done, ThreadRec
<1>2. Become(t, r) /\ SetAppliedIfPresent(l, FALSE) /\ UNCHANGED <<lineVars, act, hardware>>
  BY DEF MarkMasked
<1> HIDE DEF r, l
<1>3. Moves(t) /\ thread'[t] = r /\ UNCHANGED <<lineVars, act, online, controller, errors>>
  BY <1>0, <1>2, MovesBecome DEF hardware
<1>4. Visitor(t, thread[t]) /\ (~present => NothingKept(thread[t]) /\ ~applied[l])
  BY <1>0 DEF LineInv, VisitInv, PresentInv
<1>5. /\ applied'[l] = FALSE /\ \A m \in Lines : m # l => applied'[m] = applied[m]
      /\ ~present => UNCHANGED applied
  <2>1. applied \in [Lines -> BOOLEAN]
    BY DEF IrqInv, IrqTypes
  <2>. QED  BY <1>0, <1>2, <1>4, <2>1 DEF SetAppliedIfPresent, SetApplied
<1>6. ~present => UNCHANGED applied /\ NothingKept(thread'[t])
  BY <1>0, <1>1, <1>3, <1>4, <1>5 DEF NothingKept
<1>7. Visitor(t, thread'[t])
  BY <1>0, <1>1, <1>3, <1>4 DEF Visitor, Inserting, Applying
<1>8. \A m \in Lines : Written(thread[t], m, applied[m], controller[m])
                         => Written(thread'[t], m, applied'[m], controller'[m])
  <2>1. controller[l] \in BOOLEAN
    BY <1>0 DEF IrqInv, IrqTypes
  <2>2. Written(thread[t], l, applied[l], controller[l])
          => Written(thread'[t], l, applied'[l], controller'[l])
    BY <1>0, <1>1, <1>3, <1>5, <2>1 DEF Written, Recording, Masks, Inserting
  <2>3. ASSUME NEW m \in Lines, m # l
        PROVE  Written(thread[t], m, applied[m], controller[m])
                 => Written(thread'[t], m, applied'[m], controller'[m])
    BY <1>0, <1>1, <1>3, <1>5, <2>3 DEF Written, Recording, Masks, Inserting
  <2>. QED  BY <2>2, <2>3
<1>9. thread[t].pc \notin Applying /\ thread'[t].pc \notin Applying /\ \A c : ~Enabling(thread[t], c)
  BY <1>0, <1>1, <1>3 DEF Enabling, Applying
<1>10. ASSUME SettleOf(t)  PROVE SettleOf(t)'
  <2>1. SnapOk(thread[t]) /\ NeverFails(thread[t])
    BY <1>0, <1>10 DEF SettleOf, Busy, At
  <2>2. UNCHANGED <<desired, act, chain>>
    BY <1>3 DEF lineVars
  <2>3. ~Offline(l) /\ (thread[t].value <=> desired[l])
    BY <1>0, <1>4, <2>1 DEF Visitor, SnapOk
  <2>4. SnapOk(thread[t])'
    <3>1. thread[t].pc \in Inserting /\ r.pc \in Inserting
      BY <1>0, <1>1 DEF Inserting
    <3>2. \A m \in r.snap : m \in r.was <=> desired[m]
      BY <1>0, <1>1, <2>1, <2>3, <3>1 DEF SnapOk
    <3>3. /\ r.todo \subseteq r.req.scope /\ r.snap \cap r.todo = {} /\ r.was \subseteq r.snap
          /\ r.snap \subseteq r.req.scope /\ r.snap \subseteq online \cup {Global}
      BY <1>0, <1>1, <2>1, <2>3, <3>1 DEF SnapOk, Offline
    <3>. QED  BY <1>1, <1>3, <2>2, <3>2, <3>3 DEF SnapOk, Restoring
  <2>5. NeverFails(thread[t])'
    BY <1>0, <1>1, <1>3, <2>1, <2>2 DEF NeverFails, Applying, Asks
  <2>6. \A m \in Lines : Owes(t, thread[t], m) => Owes(t, thread'[t], m)
    BY <1>0, <1>1, <1>3 DEF Owes, Inserting, Restoring, Applying
  <2>7. Owes(t, thread'[t], l)
    BY <1>1, <1>3 DEF Owes, Inserting
  <2>. QED  BY <1>0, <1>3, <1>5, <1>10, <2>2, <2>4, <2>5, <2>6, <2>7 DEF SettleOf, Offline, Lines
<1>. QED  BY <1>0, <1>3, <1>6, <1>7, <1>8, <1>9, <1>10, SameActs, PlainKept

(* recompute_line_desired looks at the kind of a scope, not only at its CPUs: *)
(* the two agree because the actions of a line are of one kind.               *)
LEMMA DesiredRecompute ==
    ASSUME IrqInv, DesiredInv, NEW ch, NEW ac, NEW scope,
           scope = {Global} \/ scope \subseteq Cpus,
           desired' = Recompute(ch, ac, scope),
           \A j \in Active(ch, ac) : /\ ac[j].scope = {Global} \/ ac[j].scope \subseteq Cpus
                                     /\ ac[j].scope = {Global} <=> scope = {Global},
           \A l \in Lines \ scope :
                (\E j \in Active(ch, ac) : ac[j].enabled /\ l \in ac[j].scope)
                <=> (\E j \in Active(chain, act) : WantedBy(l, j))
    PROVE  \A l \in Lines :
              desired'[l] <=> \E j \in Active(ch, ac) : ac[j].enabled /\ l \in ac[j].scope
<1>0. Global \notin Cpus
  BY CpusAssumption, SMTT(30) DEF Global
<1>1. ASSUME NEW l \in Lines, l \in scope
      PROVE  Wanted(ch, ac, l) <=> \E j \in Active(ch, ac) : ac[j].enabled /\ l \in ac[j].scope
  <2>1. CASE scope = {Global}
    BY <1>1, <2>1 DEF Wanted
  <2>2. CASE scope # {Global}
    <3>1. l # Global /\ \A j \in Active(ch, ac) : ac[j].scope # {Global}
      BY <1>0, <1>1, <2>2
    <3>. QED  BY <3>1 DEF Wanted, ActionMatchesCpu
  <2>. QED  BY <2>1, <2>2
<1>2. \A l \in Lines : desired'[l] = IF l \in scope THEN Wanted(ch, ac, l) ELSE desired[l]
  BY DEF Recompute
<1>. QED  BY <1>1, <1>2 DEF DesiredInv

LEMMA DesiredNext ==
    ASSUME IrqInv, DesiredInv, NEW scope, scope = {Global} \/ scope \subseteq Cpus,
           desired' = Recompute(chain', act', scope),
           \A j \in Ids : act'[j].scope = {Global} \/ act'[j].scope \subseteq Cpus,
           Active(chain, act)' \subseteq Ids,
           \A j \in Active(chain, act)' : act'[j].scope = {Global} <=> scope = {Global},
           \A l \in Lines \ scope : (\E j \in Active(chain, act)' : WantedBy(l, j)')
                                      <=> (\E j \in Active(chain, act) : WantedBy(l, j))
    PROVE  DesiredInv'
<1>1. PICK ch, ac : ch = chain' /\ ac = act'
  OBVIOUS
<1>2. desired' = Recompute(ch, ac, scope)
  BY <1>1
<1>3. \A j \in Active(ch, ac) : /\ ac[j].scope = {Global} \/ ac[j].scope \subseteq Cpus
                                /\ ac[j].scope = {Global} <=> scope = {Global}
  BY <1>1
<1>4. \A l \in Lines \ scope :
        (\E j \in Active(ch, ac) : ac[j].enabled /\ l \in ac[j].scope)
        <=> (\E j \in Active(chain, act) : WantedBy(l, j))
  BY <1>1 DEF WantedBy
<1>5. \A l \in Lines :
        desired'[l] <=> \E j \in Active(ch, ac) : ac[j].enabled /\ l \in ac[j].scope
  BY <1>2, <1>3, <1>4, DesiredRecompute
<1>. QED  BY <1>1, <1>5 DEF DesiredInv, WantedBy

LEMMA InsertActionKept ==
    ASSUME IrqInv, IrqInv', LineInv, NEW t \in Threads, InsertAction(t),
           thread[t].pc \in Inserting => NewIdFree
    PROVE  Kept
<1> DEFINE req == thread[t].req
           new == [NoAction EXCEPT !.scope = req.scope, !.execution = req.execution,
                                   !.enabled = req.auto, !.box = "live"]
           inserted == [thread[t] EXCEPT !.pc = "affinity", !.id = NewId]
           refused == [thread[t] EXCEPT !.pc = "restore", !.ok = FALSE, !.todo = thread[t].snap]
<1>0. /\ thread[t] \in ThreadRec /\ Legal(t, thread[t]) /\ thread[t].pc = "insert"
      /\ thread[t].pc \in Inserting /\ t \in Callers /\ act \in [Ids -> ActRec]
      /\ Linked \subseteq Ids /\ chain \in Seq(Ids)
  BY ThreadFacts, NotCpu, Pointers DEF InsertAction, At, BootPcs, Inserting, IrqInv, IrqTypes
<1>1. PICK i \in Ids : i = NewId
  BY <1>0 DEF NewIdFree
<1>2. act[i].box = "none" /\ i \notin Linked
  BY <1>0, <1>1 DEF NewIdFree
<1>3. req \in Requests
  BY <1>0 DEF Legal, ThreadRec, MaybeRequest
<1>4. /\ req.scope = {Global} \/ req.scope \subseteq Cpus
      /\ req.auto \in BOOLEAN
  BY <1>3, RequestFacts
<1>5. UNCHANGED <<applied, controller, online, errors>>
  BY DEF InsertAction, hardware
<1>6. Visitor(t, thread[t]) /\ (~present => NothingKept(thread[t])) /\ DesiredInv
  BY <1>0 DEF LineInv, VisitInv, PresentInv
<1>7. CASE Compatible(req)
  <2>1. /\ present' = TRUE /\ chain' = <<i>> \o chain /\ act' = [act EXCEPT ![i] = new]
        /\ desired' = Recompute(chain', act', req.scope) /\ Become(t, inserted)
    BY <1>1, <1>7 DEF InsertAction, NewId
  <2>2. /\ new.scope = req.scope /\ new.enabled = req.auto /\ new.detached = FALSE
    BY DEF NoAction
  <2>3. /\ inserted.pc = "affinity" /\ inserted.op = thread[t].op /\ inserted.req = req
        /\ inserted.id = i /\ inserted.snap = thread[t].snap /\ inserted.was = thread[t].was
        /\ inserted.ok = thread[t].ok /\ inserted.k = thread[t].k
    BY <1>0, <1>1, SMTT(30) DEF ThreadRec
  <2>4. /\ act'[i].scope = req.scope /\ act'[i].enabled = req.auto /\ act'[i].detached = FALSE
        /\ \A j \in Ids : j # i => act'[j] = act[j]
    BY <1>0, <2>1, <2>2
  <2>5. Range(chain') = Linked \cup {i}
    BY <1>0, <1>2, <2>1, LinkHead DEF IrqInv
  <2>6. Moves(t) /\ thread'[t] = inserted
    BY <1>0, <2>1, MovesBecome
  <2> HIDE DEF new, inserted, refused
  <2>7. /\ Active(chain, act)' = Active(chain, act) \cup {i} /\ Active(chain, act) \subseteq Ids
        /\ i \notin Active(chain, act)
    BY <1>0, <1>2, <2>4, <2>5 DEF Active, Linked
  <2>8. DesiredInv'
    <3>1. \A j \in Ids : act'[j].scope = {Global} \/ act'[j].scope \subseteq Cpus
      BY <1>4, <1>6, <2>4 DEF DesiredInv
    <3>2. \A j \in Active(chain, act)' : act'[j].scope = {Global} <=> req.scope = {Global}
      BY <1>7, <2>4, <2>7 DEF Compatible
    <3>3. \A l \in Lines \ req.scope : (\E j \in Active(chain, act)' : WantedBy(l, j)')
                                         <=> (\E j \in Active(chain, act) : WantedBy(l, j))
      BY <2>4, <2>7 DEF WantedBy
    <3>4. PICK scope : scope = req.scope
      OBVIOUS
    <3>5. /\ scope = {Global} \/ scope \subseteq Cpus
          /\ DesiredInv /\ desired' = Recompute(chain', act', scope)
          /\ Active(chain, act)' \subseteq Ids
      BY <1>4, <1>6, <2>1, <2>7, <3>4
    <3>6. /\ \A j \in Active(chain, act)' : act'[j].scope = {Global} <=> scope = {Global}
          /\ \A l \in Lines \ scope : (\E j \in Active(chain, act)' : WantedBy(l, j)')
                                       <=> (\E j \in Active(chain, act) : WantedBy(l, j))
      BY <3>2, <3>3, <3>4
    <3>. QED  BY <3>1, <3>5, <3>6, DesiredNext
  <2>9. Visitor(t, thread[t])'
    BY <1>0, <1>6, <2>3, <2>6 DEF Visitor, Inserting, Applying
  <2>10. \A l \in Lines : Written(thread[t], l, applied[l], controller[l])
                            => Written(thread'[t], l, applied'[l], controller'[l])
    BY <1>0, <1>5, <2>3, <2>6 DEF Written, Recording, Masks, Inserting
  <2>11. ASSUME PendingOf(t)  PROVE PendingOf(t)'
    <3>1. \A c : ~Enabling(thread[t], c)
      BY <1>0 DEF Enabling, Applying
    <3>2. req.auto => \A c : Enabling(thread'[t], c)
      BY <1>0, <1>6, <2>3, <2>6 DEF Enabling, Visitor
    <3>3. ASSUME NEW j \in Active(chain, act)', NEW c \in Cpus \ online', WantedBy(c, j)'
          PROVE  c \in act'[j].pending \/ (thread'[t].id = j /\ Enabling(thread'[t], c))
      <4>1. CASE j = i
        BY <2>3, <2>4, <2>6, <3>2, <3>3, <4>1 DEF WantedBy
      <4>2. CASE j # i
        BY <1>5, <2>4, <2>7, <2>11, <3>1, <3>3, <4>2 DEF WantedBy, PendingOf
      <4>. QED  BY <4>1, <4>2
    <3>4. thread'[t].pc \notin Applying
      BY <2>3, <2>6 DEF Applying
    <3>. QED  BY <3>3, <3>4 DEF PendingOf
  <2>12. ASSUME SettleOf(t)  PROVE SettleOf(t)'
    <3>1. SnapOk(thread[t]) /\ NeverFails(thread[t])
      BY <1>0, <2>12 DEF SettleOf, Busy, At
    <3>2. \A l \in Lines : l \notin req.scope \/ ~req.auto => desired'[l] = desired[l]
      <4>1. ASSUME NEW l \in Lines, l \notin req.scope \/ ~req.auto
            PROVE  desired'[l] <=> desired[l]
        BY <1>6, <2>4, <2>7, <2>8, <4>1 DEF DesiredInv, WantedBy
      <4>. QED  BY <4>1 DEF IrqInv, IrqTypes
    <3>3. SnapOk(thread[t])'
      <4>1. /\ thread[t].snap \subseteq req.scope /\ thread[t].snap \subseteq online \cup {Global}
            /\ \A l \in thread[t].snap : l \in thread[t].was <=> desired[l]
        BY <1>0, <3>1 DEF SnapOk
      <4>2. thread[t].snap \subseteq Lines /\ thread[t].ok
        BY <1>0, <1>6 DEF ThreadRec, Visitor
      <4>3. ~req.auto => \A l \in thread[t].snap : l \in thread[t].was <=> desired'[l]
        BY <3>2, <4>1, <4>2
      <4>. QED  BY <1>5, <2>3, <2>6, <4>1, <4>2, <4>3 DEF SnapOk, Inserting
    <3>4. NeverFails(thread[t])'
      BY <1>0, <2>3, <2>4, <2>6, <2>7, <3>1 DEF NeverFails, Applying, Asks
    <3>5. ASSUME NEW l \in Lines, ~Offline(l)'
          PROVE  applied'[l] = desired'[l] \/ Owes(t, thread'[t], l)
      <4>1. ~Offline(l)
        BY <1>5, <3>5 DEF Offline
      <4>2. Owes(t, thread[t], l) => l \in thread[t].snap
        BY <1>0 DEF Owes, Restoring, Applying
      <4>3. l \in thread[t].snap => Owes(t, thread'[t], l)
        BY <2>3, <2>6 DEF Owes
      <4>4. l \in req.scope /\ req.auto => Owes(t, thread'[t], l)
        BY <1>0, <1>6, <2>3, <2>6 DEF Owes, Restoring, Visitor
      <4>. QED  BY <1>5, <2>12, <3>2, <4>1, <4>2, <4>3, <4>4 DEF SettleOf
    <3>6. \A c \in Cpus \ online' : ~applied'[c]
      BY <1>5, <2>12 DEF SettleOf
    <3>. QED  BY <3>3, <3>4, <3>5, <3>6 DEF SettleOf
  <2>. QED  BY <1>0, <1>5, <2>1, <2>6, <2>8, <2>9, <2>10, <2>11, <2>12, DriverKept
<1>8. CASE ~Compatible(req)
  <2>1. /\ UNCHANGED lineVars /\ act' = [act EXCEPT ![i].box = "freed"] /\ Become(t, refused)
    BY <1>1, <1>8 DEF InsertAction, NewId
  <2>2. /\ refused.pc = "restore" /\ refused.op = thread[t].op /\ refused.req = req
        /\ refused.todo = thread[t].snap /\ refused.snap = thread[t].snap
        /\ refused.was = thread[t].was /\ refused.ok = FALSE
    BY <1>0, SMTT(30) DEF ThreadRec
  <2> HIDE DEF new, inserted, refused
  <2>3. Moves(t) /\ thread'[t] = refused
    BY <1>0, <2>1, MovesBecome
  <2>4. SameWants /\ UNCHANGED <<present, chain, desired>>
        /\ \A j \in Ids : act'[j].pending = act[j].pending
    BY <1>0, <2>1, SMTT(30) DEF SameWants, lineVars, ActRec
  <2>5. ~present' => ~present /\ UNCHANGED <<chain, desired, applied>> /\ NothingKept(thread'[t])
    BY <1>5, <1>6, <2>2, <2>3, <2>4 DEF NothingKept
  <2>6. Visitor(t, thread[t])' /\ DesiredInv'
    BY <1>6, <2>2, <2>3, <2>4, DesiredFrame DEF Visitor, Inserting, Applying
  <2>7. \A l \in Lines : Written(thread[t], l, applied[l], controller[l])
                           => Written(thread'[t], l, applied'[l], controller'[l])
    BY <1>0, <1>5, <2>2, <2>3 DEF Written, Recording, Masks, Inserting
  <2>8. PendingOf(t) => PendingOf(t)'
    BY <1>0, <1>5, <2>2, <2>3, <2>4, PendingSame DEF Applying, Enabling
  <2>9. ASSUME SettleOf(t)  PROVE SettleOf(t)'
    <3>1. SnapOk(thread[t]) /\ NeverFails(thread[t])
      BY <1>0, <2>9 DEF SettleOf, Busy, At
    <3>2. SnapOk(thread[t])'
      BY <1>0, <1>5, <2>2, <2>3, <2>4, <3>1 DEF SnapOk, Inserting, Restoring
    <3>3. NeverFails(thread[t])'
      BY <2>2, <2>3, <3>1 DEF NeverFails, Applying, Asks
    <3>4. \A l \in Lines : Owes(t, thread[t], l) => Owes(t, thread'[t], l)
      BY <1>0, <2>2, <2>3 DEF Owes, Inserting, Restoring, Applying
    <3>. QED  BY <1>5, <2>4, <2>9, <3>2, <3>3, <3>4, SettleSame
  <2>. QED  BY <1>0, <1>5, <2>3, <2>4, <2>5, <2>6, <2>7, <2>8, <2>9, DriverKept
<1>. QED  BY <1>7, <1>8

LEMMA ApplyAffinityKept ==
    ASSUME IrqInv, IrqInv', LineInv, NEW t \in Threads, ApplyAffinity(t)
    PROVE  Kept
<1> DEFINE restore == [thread[t] EXCEPT !.pc = "restore", !.todo = thread[t].snap]
           drop == [thread[t] EXCEPT !.pc = "detach", !.op = "drop", !.ok = FALSE, !.k = "restore"]
<1>0. /\ thread[t] \in ThreadRec /\ thread[t].pc = "affinity" /\ t \in Callers
  BY ThreadFacts, NotCpu DEF ApplyAffinity, At, BootPcs
<1>1. /\ restore.pc = "restore" /\ restore.op = thread[t].op /\ restore.req = thread[t].req
      /\ restore.id = thread[t].id /\ restore.todo = thread[t].snap /\ restore.snap = thread[t].snap
      /\ restore.was = thread[t].was /\ restore.ok = thread[t].ok /\ restore.k = thread[t].k
  BY <1>0, SMTT(30) DEF ThreadRec
<1>2. /\ drop.pc = "detach" /\ drop.op = "drop" /\ drop.id = thread[t].id /\ drop.snap = thread[t].snap
      /\ drop.was = thread[t].was /\ drop.ok = FALSE /\ drop.k = "restore"
  BY <1>0, SMTT(30) DEF ThreadRec
<1>3. UNCHANGED <<lineVars, act, applied, online, controller>>
  BY DEF ApplyAffinity, hardware, ControllerFails
<1>4. Visitor(t, thread[t]) /\ (~present => NothingKept(thread[t]))
  BY <1>0 DEF LineInv, VisitInv, PresentInv
<1>5. CASE Become(t, restore) /\ UNCHANGED hardware
  <2> HIDE DEF restore, drop
  <2>1. Moves(t) /\ thread'[t] = restore /\ UNCHANGED errors
    BY <1>0, <1>5, MovesBecome DEF hardware
  <2>2. ~present => UNCHANGED applied /\ NothingKept(thread'[t])
    BY <1>1, <1>3, <1>4, <2>1 DEF NothingKept
  <2>3. Visitor(t, thread'[t])
    BY <1>1, <1>4, <2>1 DEF Visitor, Inserting, Applying
  <2>4. \A m \in Lines : Written(thread[t], m, applied[m], controller[m])
                           => Written(thread'[t], m, applied'[m], controller'[m])
    BY <1>0, <1>1, <1>3, <2>1 DEF Written, Recording, Masks, Inserting
  <2>5. /\ thread'[t].pc \notin Applying /\ thread'[t].id = thread[t].id
        /\ \A c : Enabling(thread[t], c) => Enabling(thread'[t], c)
    BY <1>0, <1>1, <2>1 DEF Enabling, Applying
  <2>6. ASSUME SettleOf(t)  PROVE SettleOf(t)'
    <3>1. SnapOk(thread[t]) /\ NeverFails(thread[t])
      BY <1>0, <2>6 DEF SettleOf, Busy, At
    <3>2. UNCHANGED <<desired, act, chain>>
      BY <1>3 DEF lineVars
    <3>3. SnapOk(thread[t])'
      BY <1>0, <1>1, <1>3, <2>1, <3>1, <3>2 DEF SnapOk, Inserting, Restoring
    <3>4. NeverFails(thread[t])'
      BY <1>0, <1>1, <1>3, <2>1, <3>1, <3>2 DEF NeverFails, Applying, Asks
    <3>5. \A m \in Lines : Owes(t, thread[t], m) => Owes(t, thread'[t], m)
      BY <1>0, <1>1, <2>1 DEF Owes, Inserting, Restoring, Applying
    <3>. QED  BY <1>3, <2>6, <3>2, <3>3, <3>4, <3>5, SettleSame
  <2>. QED  BY <1>0, <1>3, <2>1, <2>2, <2>3, <2>4, <2>5, <2>6, SameActs, PlainKept
<1>6. CASE Become(t, drop) /\ ControllerFails
  <2> HIDE DEF restore, drop
  <2>1. Moves(t) /\ thread'[t] = drop /\ errors' # 0
    BY <1>0, <1>6, MovesBecome, ErrorsCount
  <2>2. ~present => UNCHANGED applied /\ NothingKept(thread'[t])
    BY <1>2, <1>3, <1>4, <2>1 DEF NothingKept
  <2>3. Visitor(t, thread'[t])
    BY <1>2, <2>1 DEF Visitor, Inserting, Applying
  <2>4. \A m \in Lines : Written(thread[t], m, applied[m], controller[m])
                           => Written(thread'[t], m, applied'[m], controller'[m])
    BY <1>0, <1>2, <1>3, <2>1 DEF Written, Recording, Masks, Inserting
  <2>5. /\ thread'[t].pc \notin Applying /\ thread'[t].id = thread[t].id
        /\ \A c : Enabling(thread'[t], c)
    BY <1>2, <2>1 DEF Enabling, Applying
  <2>. QED  BY <1>0, <1>3, <2>1, <2>2, <2>3, <2>4, <2>5, SameActs, PlainKept
<1>. QED  BY <1>5, <1>6 DEF ApplyAffinity

LEMMA RestoreLineKept ==
    ASSUME IrqInv, IrqInv', LineInv, NEW t \in Threads, RestoreLine(t)
    PROVE  Kept
<1> DEFINE l == Visiting(t)
           restored == [thread[t] EXCEPT !.pc = "restored"]
           drop == [thread[t] EXCEPT !.pc = "detach", !.op = "drop", !.ok = FALSE, !.todo = {}]
<1>0. /\ thread[t] \in ThreadRec /\ thread[t].pc = "restore" /\ t \in Callers
      /\ l \in thread[t].todo /\ l \in Lines /\ l = FirstLine(thread[t].todo)
  BY ThreadFacts, NotCpu DEF RestoreLine, At, BootPcs, Visiting
<1>1. /\ restored.pc = "restored" /\ restored.op = thread[t].op /\ restored.req = thread[t].req
      /\ restored.id = thread[t].id /\ restored.todo = thread[t].todo
      /\ restored.snap = thread[t].snap /\ restored.was = thread[t].was
      /\ restored.ok = thread[t].ok /\ restored.k = thread[t].k
  BY <1>0, SMTT(30) DEF ThreadRec
<1>2. /\ drop.pc = "detach" /\ drop.op = "drop" /\ drop.id = thread[t].id
      /\ drop.was = thread[t].was /\ drop.ok = FALSE /\ drop.k = thread[t].k
  BY <1>0, SMTT(30) DEF ThreadRec
<1>3. UNCHANGED <<lineVars, act, applied, online>>
  BY DEF RestoreLine, SetController, hardware, ControllerFails
<1>4. Visitor(t, thread[t]) /\ (~present => NothingKept(thread[t]))
  BY <1>0 DEF LineInv, VisitInv, PresentInv
<1>5. controller \in [Lines -> BOOLEAN]
  BY DEF IrqInv, IrqTypes
<1>6. CASE /\ IF l \in thread[t].was THEN SetController(l, TRUE) ELSE UNCHANGED hardware
           /\ Become(t, restored)
  <2> HIDE DEF l, restored, drop
  <2>1. Moves(t) /\ thread'[t] = restored
    BY <1>0, <1>6, MovesBecome
  <2>2. /\ controller'[l] = (IF l \in thread[t].was THEN TRUE ELSE controller[l]) /\ UNCHANGED errors
        /\ \A m \in Lines : m # l => controller'[m] = controller[m]
    BY <1>0, <1>5, <1>6 DEF SetController, hardware
  <2>3. ~present => UNCHANGED applied /\ NothingKept(thread'[t])
    BY <1>1, <1>3, <1>4, <2>1 DEF NothingKept
  <2>4. Visitor(t, thread'[t])
    BY <1>1, <1>4, <2>1 DEF Visitor, Inserting, Applying
  <2>5. \A m \in Lines : Written(thread[t], m, applied[m], controller[m])
                           => Written(thread'[t], m, applied'[m], controller'[m])
    <3>1. Written(thread[t], l, applied[l], controller[l])
            => Written(thread'[t], l, applied'[l], controller'[l])
      BY <1>0, <1>1, <1>3, <2>1, <2>2 DEF Written, Recording, Masks, Inserting
    <3>2. ASSUME NEW m \in Lines, m # l
          PROVE  Written(thread[t], m, applied[m], controller[m])
                   => Written(thread'[t], m, applied'[m], controller'[m])
      BY <1>0, <1>1, <1>3, <2>1, <2>2, <3>2 DEF Written, Recording, Masks, Inserting
    <3>. QED  BY <3>1, <3>2
  <2>6. /\ thread'[t].pc \notin Applying /\ thread'[t].id = thread[t].id
        /\ \A c : Enabling(thread[t], c) => Enabling(thread'[t], c)
    BY <1>0, <1>1, <2>1 DEF Enabling, Applying
  <2>7. ASSUME SettleOf(t)  PROVE SettleOf(t)'
    <3>1. SnapOk(thread[t]) /\ NeverFails(thread[t])
      BY <1>0, <2>7 DEF SettleOf, Busy, At
    <3>2. UNCHANGED <<desired, act, chain>>
      BY <1>3 DEF lineVars
    <3>3. SnapOk(thread[t])'
      BY <1>0, <1>1, <1>3, <2>1, <3>1, <3>2 DEF SnapOk, Inserting, Restoring
    <3>4. NeverFails(thread[t])'
      BY <1>0, <1>1, <1>3, <2>1, <3>1, <3>2 DEF NeverFails, Applying, Asks
    <3>5. \A m \in Lines : Owes(t, thread[t], m) => Owes(t, thread'[t], m)
      BY <1>0, <1>1, <2>1 DEF Owes, Inserting, Restoring, Applying
    <3>. QED  BY <1>3, <2>7, <3>2, <3>3, <3>4, <3>5, SettleSame
  <2>. QED  BY <1>0, <1>3, <2>1, <2>2, <2>3, <2>4, <2>5, <2>6, <2>7, SameActs, PlainKept
<1>7. ASSUME ControllerFails, NEW r, Become(t, r),
             IF thread[t].ok THEN r = drop ELSE r = Idle
      PROVE  Kept
  <2>1. /\ r.pc \in {"detach", "idle"} /\ r.was \in {thread[t].was, {}}
        /\ r.ok => r.k = "idle"
        /\ r.pc = "detach" => r.id = thread[t].id /\ thread[t].ok /\ r.k = thread[t].k
        /\ r.pc = "idle" => ~thread[t].ok
    <3>1. CASE thread[t].ok
      BY <1>2, <1>7, <3>1
    <3>2. CASE ~thread[t].ok
      BY <1>7, <3>2, IdleFields
    <3>. QED  BY <3>1, <3>2
  <2> HIDE DEF l, restored, drop
  <2>2. Moves(t) /\ thread'[t] = r /\ errors' # 0 /\ UNCHANGED controller
    BY <1>0, <1>7, MovesBecome, ErrorsCount DEF ControllerFails
  <2>3. ~present => UNCHANGED applied /\ NothingKept(thread'[t])
    BY <1>3, <1>4, <2>1, <2>2 DEF NothingKept
  <2>4. Visitor(t, thread'[t])
    BY <2>1, <2>2 DEF Visitor, Inserting, Applying
  <2>5. \A m \in Lines : Written(thread[t], m, applied[m], controller[m])
                           => Written(thread'[t], m, applied'[m], controller'[m])
    BY <1>0, <1>3, <1>4, <2>1, <2>2 DEF Visitor, Written, Recording, Masks, Inserting
  <2>6. /\ thread'[t].pc \notin Applying
        /\ \A c : Enabling(thread[t], c) => Enabling(thread'[t], c) /\ thread'[t].id = thread[t].id
    BY <1>0, <2>1, <2>2 DEF Enabling, Applying
  <2>. QED  BY <1>0, <1>3, <2>2, <2>3, <2>4, <2>5, <2>6, SameActs, PlainKept
<1>8. CASE ControllerFails /\ (IF thread[t].ok THEN Become(t, drop) ELSE Become(t, Idle))
  BY <1>7, <1>8
<1>. QED  BY <1>6, <1>8 DEF RestoreLine, Goto, Return

LEMMA MarkRestoredKept ==
    ASSUME IrqInv, IrqInv', LineInv, NEW t \in Threads, MarkRestored(t)
    PROVE  Kept
<1> DEFINE l == Visiting(t)
           r == [Done(t) EXCEPT !.pc = "restore"]
<1>0. /\ thread[t] \in ThreadRec /\ Legal(t, thread[t]) /\ thread[t].pc = "restored" /\ t \in Callers
      /\ l \in thread[t].todo /\ l \in Lines /\ l = FirstLine(thread[t].todo)
  BY ThreadFacts, NotCpu DEF MarkRestored, At, BootPcs, Visiting, Legal, Visits
<1>1. /\ r.pc = "restore" /\ r.op = thread[t].op /\ r.req = thread[t].req /\ r.id = thread[t].id
      /\ r.todo = thread[t].todo \ {l} /\ r.snap = thread[t].snap /\ r.was = thread[t].was
      /\ r.ok = thread[t].ok /\ r.k = thread[t].k
  BY <1>0, SMTT(30) DEF Done, ThreadRec
<1>2. /\ Become(t, r) /\ SetAppliedIfPresent(l, l \in thread[t].was)
      /\ UNCHANGED <<lineVars, act, hardware>>
  BY DEF MarkRestored
<1> HIDE DEF r, l
<1>3. Moves(t) /\ thread'[t] = r /\ UNCHANGED <<lineVars, act, online, controller, errors>>
  BY <1>0, <1>2, MovesBecome DEF hardware
<1>4. Visitor(t, thread[t]) /\ (~present => NothingKept(thread[t]) /\ ~applied[l] /\ ~desired[l])
  BY <1>0 DEF LineInv, VisitInv, PresentInv
<1>5. /\ applied'[l] <=> l \in thread[t].was
      /\ \A m \in Lines : m # l => applied'[m] = applied[m]
      /\ ~present => UNCHANGED applied
  <2>1. applied \in [Lines -> BOOLEAN]
    BY DEF IrqInv, IrqTypes
  <2>. QED  BY <1>0, <1>2, <1>4, <2>1 DEF SetAppliedIfPresent, SetApplied, NothingKept
<1>6. ~present => UNCHANGED applied /\ NothingKept(thread'[t])
  BY <1>1, <1>3, <1>4, <1>5 DEF NothingKept
<1>7. Visitor(t, thread'[t])
  BY <1>1, <1>3, <1>4 DEF Visitor, Inserting, Applying
<1>8. \A m \in Lines : Written(thread[t], m, applied[m], controller[m])
                         => Written(thread'[t], m, applied'[m], controller'[m])
  <2>1. controller[l] \in BOOLEAN /\ applied'[l] \in BOOLEAN
    BY <1>0 DEF IrqInv, IrqTypes
  <2>2. Written(thread[t], l, applied[l], controller[l])
          => Written(thread'[t], l, applied'[l], controller'[l])
    BY <1>0, <1>1, <1>3, <1>5, <2>1 DEF Written, Recording, Masks, Inserting
  <2>3. ASSUME NEW m \in Lines, m # l
        PROVE  Written(thread[t], m, applied[m], controller[m])
                 => Written(thread'[t], m, applied'[m], controller'[m])
    BY <1>0, <1>1, <1>3, <1>5, <2>3 DEF Written, Recording, Masks, Inserting
  <2>. QED  BY <2>2, <2>3
<1>9. /\ thread'[t].pc \notin Applying /\ thread'[t].id = thread[t].id
      /\ \A c : Enabling(thread[t], c) => Enabling(thread'[t], c)
  BY <1>0, <1>1, <1>3 DEF Enabling, Applying
<1>10. ASSUME SettleOf(t)  PROVE SettleOf(t)'
  <2>1. SnapOk(thread[t]) /\ NeverFails(thread[t])
    BY <1>0, <1>10 DEF SettleOf, Busy, At
  <2>2. UNCHANGED <<desired, act, chain>>
    BY <1>3 DEF lineVars
  <2>3. l \in thread[t].snap /\ ~Offline(l) /\ l \in thread[t].req.scope
    BY <1>0, <2>1 DEF SnapOk, Inserting, Restoring, Offline
  <2>4. SnapOk(thread[t])'
    BY <1>0, <1>1, <1>3, <2>1, <2>2 DEF SnapOk, Inserting, Restoring
  <2>5. NeverFails(thread[t])'
    BY <1>0, <1>1, <1>3, <2>1, <2>2 DEF NeverFails, Applying, Asks
  <2>6. \A m \in Lines \ {l} : Owes(t, thread[t], m) => Owes(t, thread'[t], m)
    BY <1>0, <1>1, <1>3 DEF Owes, Inserting, Restoring, Applying
  <2>7. applied'[l] = desired'[l] \/ Owes(t, thread'[t], l)
    <3>1. CASE thread[t].ok /\ thread[t].req.auto
      BY <1>1, <1>3, <2>3, <3>1 DEF Owes, Restoring
    <3>2. CASE ~(thread[t].ok /\ thread[t].req.auto)
      <4>1. l \in thread[t].was <=> desired[l]
        BY <1>0, <2>1, <2>3, <3>2 DEF SnapOk, Restoring
      <4>2. applied'[l] \in BOOLEAN /\ desired[l] \in BOOLEAN
        BY <1>0 DEF IrqInv, IrqTypes
      <4>. QED  BY <1>5, <2>2, <4>1, <4>2
    <3>. QED  BY <3>1, <3>2
  <2>8. \A m \in Lines : ~Offline(m)' => applied'[m] = desired'[m] \/ Owes(t, thread'[t], m)
    BY <1>3, <1>5, <1>10, <2>2, <2>6, <2>7 DEF SettleOf, Offline
  <2>9. \A c \in Cpus \ online' : ~applied'[c]
    <3>1. \A c \in Cpus : c \in Lines /\ c # Global
      BY CpusAssumption, SMTT(30) DEF Lines, Global
    <3>. QED  BY <1>3, <1>5, <1>10, <2>3, <3>1 DEF SettleOf, Offline
  <2>. QED  BY <2>4, <2>5, <2>8, <2>9 DEF SettleOf
<1>. QED  BY <1>0, <1>3, <1>6, <1>7, <1>8, <1>9, <1>10, SameActs, PlainKept

LEMMA EndRequestKept ==
    ASSUME IrqInv, IrqInv', LineInv, NEW t \in Threads, EndRequest(t)
    PROVE  Kept
<1> DEFINE enable == [thread[t] EXCEPT !.pc = "set", !.op = "enable"]
<1>0. /\ thread[t] \in ThreadRec /\ thread[t].pc = "restore" /\ thread[t].todo = {} /\ t \in Callers
  BY ThreadFacts, NotCpu DEF EndRequest, At, BootPcs
<1>1. /\ enable.pc = "set" /\ enable.op = "enable" /\ enable.req = thread[t].req
      /\ enable.id = thread[t].id /\ enable.was = thread[t].was /\ enable.ok = thread[t].ok
      /\ enable.k = thread[t].k
  BY <1>0, SMTT(30) DEF ThreadRec
<1>2. /\ UNCHANGED <<lineVars, applied, controller, online, errors>>
      /\ SameWants /\ UNCHANGED <<present, chain, desired>>
      /\ \A j \in Ids : act'[j].pending = act[j].pending
  <2>1. UNCHANGED <<lineVars, applied, hardware>>
    BY DEF EndRequest
  <2>2. act' = act \/ act' = [act EXCEPT ![thread[t].id].given = TRUE]
    BY DEF EndRequest
  <2>. QED  BY <2>1, <2>2, SetGiven DEF lineVars, hardware, SameWants, SameAction
<1>3. PICK r : /\ Become(t, r)
               /\ IF thread[t].ok /\ thread[t].req.auto THEN r = enable ELSE r = Idle
  BY DEF EndRequest, Return
<1>4. /\ r.pc \in {"set", "idle"} /\ r.was \in {thread[t].was, {}}
      /\ r.ok => r.k = "idle" \/ (r.k = thread[t].k /\ thread[t].ok)
      /\ r.pc = "set" => /\ r.op = "enable" /\ r.req = thread[t].req /\ r.id = thread[t].id
                         /\ thread[t].ok /\ thread[t].req.auto
      /\ r.pc = "idle" => ~(thread[t].ok /\ thread[t].req.auto)
  <2>1. CASE thread[t].ok /\ thread[t].req.auto
    BY <1>1, <1>3, <2>1
  <2>2. CASE ~(thread[t].ok /\ thread[t].req.auto)
    BY <1>3, <2>2, IdleFields
  <2>. QED  BY <2>1, <2>2
<1> HIDE DEF enable
<1>5. Moves(t) /\ thread'[t] = r
  BY <1>0, <1>3, MovesBecome
<1>6. Visitor(t, thread[t]) /\ (~present => NothingKept(thread[t]))
  BY <1>0 DEF LineInv, VisitInv, PresentInv
<1>7. ~present => UNCHANGED applied /\ NothingKept(thread'[t])
  BY <1>2, <1>4, <1>5, <1>6 DEF NothingKept
<1>8. Visitor(t, thread'[t])
  BY <1>4, <1>5, <1>6 DEF Visitor, Inserting, Applying
<1>9. \A m \in Lines : Written(thread[t], m, applied[m], controller[m])
                         => Written(thread'[t], m, applied'[m], controller'[m])
  BY <1>0, <1>2, <1>4, <1>5 DEF Written, Recording, Masks, Inserting
<1>10. /\ thread'[t].pc \notin Applying
       /\ \A c : Enabling(thread[t], c) => Enabling(thread'[t], c) /\ thread'[t].id = thread[t].id
  BY <1>0, <1>4, <1>5 DEF Enabling, Applying
<1>11. ASSUME SettleOf(t)  PROVE SettleOf(t)'
  <2>1. SnapOk(thread[t]) /\ NeverFails(thread[t])
    BY <1>0, <1>11 DEF SettleOf, Busy, At
  <2>2. thread'[t].pc # "idle" => SnapOk(thread[t])' /\ NeverFails(thread[t])'
    <3>1. Active(chain, act)' = Active(chain, act) /\ Active(chain, act) \subseteq Ids
      BY <1>2, SameWantsFacts
    <3>2. \A j \in Ids : act'[j].scope = act[j].scope
      BY <1>2 DEF SameWants
    <3>. QED  BY <1>0, <1>4, <1>5, <2>1, <3>1, <3>2
              DEF SnapOk, NeverFails, Inserting, Restoring, Applying, Asks
  <2>3. \A m \in Lines : Owes(t, thread[t], m) => Owes(t, thread'[t], m)
    <3>1. NoRequest.auto = FALSE
      BY DEF NoRequest
    <3>. QED  BY <1>0, <1>4, <1>5, <3>1 DEF Owes, Inserting, Restoring, Applying, Asks
  <2>. QED  BY <1>2, <1>11, <2>2, <2>3, SettleSame
<1>. QED  BY <1>0, <1>2, <1>5, <1>7, <1>8, <1>9, <1>10, <1>11, PlainKept

-----------------------------------------------------------------------------
(* Steps of a call *)

(* The records a call goes on with when it has ended *)
After(r, q) ==
    /\ r.was \in {q.was, {}}
    /\ r.ok => r.k = "idle" \/ (r.k = q.k /\ q.ok)

LEMMA FailedFields ==
    ASSUME NEW t, thread[t] \in ThreadRec
    PROVE  /\ After(Failed(t), thread[t])
           /\ Failed(t).pc \in {"idle", "set", "detach", "wait"}
           /\ Failed(t).pc # "idle" => Failed(t).id = thread[t].id /\ Failed(t).req = thread[t].req
           /\ Failed(t).pc \in {"detach", "wait"} => Failed(t).op = "free"
           /\ thread[t].op = "enable" => Failed(t).pc = "set"
           /\ thread[t].op = "free" <=> Failed(t).pc = "wait"
           /\ thread[t].op = "online" => Failed(t) = Idle
<1> DEFINE rec == [thread[t] EXCEPT !.todo = {}]
           set == [rec EXCEPT !.op = "rollback", !.pc = "set"]
           detach == [rec EXCEPT !.op = "free", !.pc = "detach"]
           wait == [rec EXCEPT !.pc = "wait"]
<1>1. /\ set.pc = "set" /\ set.id = thread[t].id /\ set.req = thread[t].req
      /\ set.was = thread[t].was /\ set.k = thread[t].k /\ set.ok = thread[t].ok
  BY SMTT(30) DEF ThreadRec
<1>2. /\ detach.pc = "detach" /\ detach.id = thread[t].id /\ detach.req = thread[t].req
      /\ detach.was = thread[t].was /\ detach.k = thread[t].k /\ detach.ok = thread[t].ok
      /\ detach.op = "free"
  BY SMTT(30) DEF ThreadRec
<1>3. /\ wait.pc = "wait" /\ wait.id = thread[t].id /\ wait.req = thread[t].req
      /\ wait.was = thread[t].was /\ wait.k = thread[t].k /\ wait.ok = thread[t].ok
      /\ wait.op = thread[t].op
  BY SMTT(30) DEF ThreadRec
<1>4. rec.op = thread[t].op
  BY SMTT(30) DEF ThreadRec
<1>5. Failed(t) = IF thread[t].op = "enable" THEN set
                  ELSE IF thread[t].op = "rollback" /\ InRequest(t) THEN detach
                  ELSE IF thread[t].op = "free" THEN wait ELSE Idle
  BY <1>4 DEF Failed
<1> HIDE DEF rec, set, detach, wait
<1>. QED  BY <1>1, <1>2, <1>3, <1>5, IdleFields DEF After

LEMMA SucceededFields ==
    ASSUME NEW t, thread[t] \in ThreadRec
    PROVE  /\ thread[t].op # "online" =>
                /\ After(Succeeded(t), thread[t])
                /\ Succeeded(t).pc \in {"idle", "detach", "wait", "set"}
                /\ Succeeded(t).pc # "idle" => Succeeded(t).req = thread[t].req
                /\ Succeeded(t).pc \in {"detach", "wait"} => Succeeded(t).op = "free"
                /\ thread[t].op = "free" <=> Succeeded(t).pc = "wait"
                /\ thread[t].op \in {"enable", "disable"} => Succeeded(t).pc = "idle"
           /\ thread[t].op = "online" =>
                /\ Succeeded(t).pc = "clear" /\ Succeeded(t).op = "online"
                /\ Succeeded(t).todo = thread[t].todo /\ Succeeded(t).was = thread[t].was
                /\ Succeeded(t).ok = thread[t].ok /\ Succeeded(t).k = thread[t].k
<1> DEFINE clear == [thread[t] EXCEPT !.pc = "clear"]
<1>1. /\ clear.pc = "clear" /\ clear.op = thread[t].op /\ clear.todo = thread[t].todo
      /\ clear.was = thread[t].was /\ clear.ok = thread[t].ok /\ clear.k = thread[t].k
  BY SMTT(30) DEF ThreadRec
<1>2. Succeeded(t) = IF thread[t].op = "online" THEN clear
                     ELSE IF thread[t].op \in {"rollback", "free"} THEN Failed(t) ELSE Idle
  BY DEF Succeeded
<1> HIDE DEF clear
<1>3. CASE thread[t].op = "online"
  BY <1>1, <1>2, <1>3
<1>4. CASE thread[t].op \in {"rollback", "free"}
  BY <1>2, <1>4, FailedFields
<1>5. CASE thread[t].op \notin {"online", "rollback", "free"}
  BY <1>2, <1>5, IdleFields DEF After
<1>. QED  BY <1>3, <1>4, <1>5

LEMMA NotFoundFields ==
    ASSUME NEW t, thread[t] \in ThreadRec
    PROVE  /\ After(NotFound(t), thread[t])
           /\ NotFound(t).pc \in {"idle", "detach"}
           /\ NotFound(t).pc = "detach" => NotFound(t).op = "free" /\ InRequest(t)
<1> DEFINE detach == [thread[t] EXCEPT !.op = "free", !.pc = "detach", !.todo = {}]
<1>1. /\ detach.pc = "detach" /\ detach.op = "free" /\ detach.was = thread[t].was
      /\ detach.k = thread[t].k /\ detach.ok = thread[t].ok
  BY SMTT(30) DEF ThreadRec
<1>2. NotFound(t) = IF InRequest(t) /\ thread[t].op # "free" THEN detach ELSE Idle
  BY DEF NotFound
<1> HIDE DEF detach
<1>. QED  BY <1>1, <1>2, IdleFields DEF After

LEMMA AfterDropFields ==
    ASSUME NEW t, thread[t] \in ThreadRec
    PROVE  /\ After(AfterDrop(t), thread[t])
           /\ AfterDrop(t).pc \in {"idle", "restore"}
           /\ AfterDrop(t).pc = "restore" =>
                /\ thread[t].op = "drop" /\ thread[t].k = "restore"
                /\ AfterDrop(t).todo = thread[t].snap
<1> DEFINE restore == [thread[t] EXCEPT !.pc = "restore", !.todo = thread[t].snap]
<1>1. /\ restore.pc = "restore" /\ restore.todo = thread[t].snap /\ restore.was = thread[t].was
      /\ restore.k = thread[t].k /\ restore.ok = thread[t].ok
  BY SMTT(30) DEF ThreadRec
<1>2. AfterDrop(t) = IF thread[t].op = "drop" /\ thread[t].k = "restore" THEN restore ELSE Idle
  BY DEF AfterDrop
<1> HIDE DEF restore
<1>. QED  BY <1>1, <1>2, IdleFields DEF After

(* Such a record visits no line. *)
LEMMA AfterKept ==
    ASSUME LineInv, NEW t \in Threads, After(thread'[t], thread[t]),
           thread'[t].pc \in {"idle", "set", "detach", "wait", "restore"}
    PROVE  /\ ~present => NothingKept(thread'[t])
           /\ Visitor(t, thread'[t]) /\ thread'[t].pc \notin Applying
<1>1. Visitor(t, thread[t]) /\ (~present => NothingKept(thread[t]))
  BY DEF LineInv, VisitInv, PresentInv
<1>. QED  BY <1>1 DEF After, NothingKept, Visitor, Inserting, Applying

LEMMA SetActionEnabledKept ==
    ASSUME IrqInv, IrqInv', LineInv, NEW t \in Threads, SetActionEnabled(t)
    PROVE  Kept
<1>0. /\ thread[t] \in ThreadRec /\ Legal(t, thread[t]) /\ thread[t].pc = "set" /\ t \in Callers
      /\ act \in [Ids -> ActRec] /\ Linked \subseteq Ids
  BY ThreadFacts, NotCpu, Pointers DEF SetActionEnabled, At, BootPcs, IrqInv, IrqTypes
<1>1. PICK i : i = thread[t].id
  OBVIOUS
<1>2. UNCHANGED <<present, chain, applied, controller, online, errors>>
  BY DEF SetActionEnabled, hardware
<1>3. /\ Visitor(t, thread[t]) /\ DesiredInv
      /\ thread[t].op \in {"enable", "disable", "rollback"}
  BY <1>0 DEF LineInv, VisitInv, Legal
<1>4. CASE i \in Active(chain, act)
  <2> DEFINE r == [thread[t] EXCEPT !.pc = "apply", !.todo = act[i].scope]
  <2>1. i \in Ids /\ act[i].scope \in SUBSET Lines /\ Active(chain, act) \subseteq Ids
    BY <1>0, <1>4 DEF Active, Linked, ActRec
  <2>2. PICK e \in BOOLEAN : e <=> thread[t].op = "enable"
    OBVIOUS
  <2>3. /\ act' = [act EXCEPT ![i].enabled = e, ![i].pending = {}]
        /\ desired' = Recompute(chain', act', act[i].scope) /\ Become(t, r)
    <3>1. (thread[t].op = "enable") = e
      BY <2>2
    <3>. QED  BY <1>1, <1>2, <1>4, <3>1 DEF SetActionEnabled
  <2>4. /\ r.pc = "apply" /\ r.op = thread[t].op /\ r.req = thread[t].req /\ r.id = i
        /\ r.todo = act[i].scope /\ r.was = thread[t].was /\ r.ok = thread[t].ok /\ r.k = thread[t].k
    BY <1>0, <1>1, SMTT(30) DEF ThreadRec
  <2> HIDE DEF r
  <2>5. Moves(t) /\ thread'[t] = r
    BY <1>0, <2>3, MovesBecome
  <2>6. /\ \A j \in Ids : act'[j].scope = act[j].scope /\ act'[j].detached = act[j].detached
        /\ \A j \in Ids : act'[j].enabled = IF j = i THEN e ELSE act[j].enabled
        /\ \A j \in Ids : act'[j].pending = IF j = i THEN {} ELSE act[j].pending
    <3>1. PICK p \in SUBSET Cpus : p = {}
      OBVIOUS
    <3>2. act' = [act EXCEPT ![i].enabled = e, ![i].pending = p]
      BY <2>3, <3>1
    <3>3. /\ \A j \in Ids : SameAction(j)
          /\ \A j \in Ids : act'[j].enabled = IF j = i THEN e ELSE act[j].enabled
          /\ \A j \in Ids : act'[j].pending = IF j = i THEN p ELSE act[j].pending
      <4>1. i \in Ids
        BY <2>1
      <4>. QED  BY <3>2, <4>1, SetEnabledTypes
    <3>. QED  BY <3>1, <3>3 DEF SameAction
  <2>7. Active(chain, act)' = Active(chain, act)
    BY <1>0, <1>2, <2>6 DEF Active, Linked
  <2>8. present
    <3>1. chain = <<>> => Linked = {}
      BY SMTT(30) DEF Linked, Range
    <3>. QED  BY <1>4, <3>1 DEF LineInv, PresentInv, Active, Linked
  <2>9. DesiredInv'
    <3>1. act[i].scope = {Global} \/ act[i].scope \subseteq Cpus
      BY <1>3, <2>1 DEF DesiredInv
    <3>2. \A j \in Ids : act'[j].scope = {Global} \/ act'[j].scope \subseteq Cpus
      BY <1>3, <2>6 DEF DesiredInv
    <3>3. \A j \in Active(chain, act)' : act'[j].scope = {Global} <=> act[i].scope = {Global}
      BY <1>4, <2>1, <2>6, <2>7 DEF IrqInv, Sharing
    <3>4. \A l \in Lines \ act[i].scope : (\E j \in Active(chain, act)' : WantedBy(l, j)')
                                           <=> (\E j \in Active(chain, act) : WantedBy(l, j))
      BY <2>1, <2>6, <2>7 DEF WantedBy
    <3>. QED  BY <1>3, <2>1, <2>3, <2>7, <3>1, <3>2, <3>3, <3>4, DesiredNext
  <2>10. Visitor(t, thread[t])'
    BY <1>3, <2>4, <2>5 DEF Visitor, Inserting, Applying
  <2>11. \A l \in Lines : Written(thread[t], l, applied[l], controller[l])
                            => Written(thread'[t], l, applied'[l], controller'[l])
    BY <1>0, <1>2, <2>4, <2>5 DEF Written, Recording, Masks, Inserting
  <2>12. ASSUME PendingOf(t)  PROVE PendingOf(t)'
    <3>1. ASSUME NEW j \in Active(chain, act)', NEW c \in Cpus \ online', WantedBy(c, j)'
          PROVE  c \in act'[j].pending \/ (thread'[t].id = j /\ Enabling(thread'[t], c))
      <4>1. CASE j = i
        BY <2>1, <2>2, <2>4, <2>5, <2>6, <3>1, <4>1 DEF WantedBy, Enabling, Applying
      <4>2. CASE j # i
        BY <1>1, <1>2, <2>1, <2>6, <2>7, <2>12, <3>1, <4>2 DEF WantedBy, PendingOf
      <4>. QED  BY <4>1, <4>2
    <3>2. thread'[t].op \in {"disable", "rollback"} => ~act'[thread'[t].id].enabled
      BY <2>1, <2>2, <2>4, <2>5, <2>6
    <3>. QED  BY <3>1, <3>2 DEF PendingOf
  <2>13. ASSUME SettleOf(t)  PROVE SettleOf(t)'
    <3>1. SnapOk(thread[t]) /\ NeverFails(thread[t])
      BY <1>0, <2>13 DEF SettleOf, Busy, At
    <3>2. \A l \in Lines \ act[i].scope : desired'[l] = desired[l]
      BY <2>3 DEF Recompute
    <3>3. SnapOk(thread[t])'
      BY <2>4, <2>5 DEF SnapOk, Inserting, Restoring
    <3>4. NeverFails(thread[t])'
      BY <1>0, <1>3, <1>4, <2>4, <2>5, <2>7, <3>1 DEF NeverFails
    <3>5. \A l \in Lines : Owes(t, thread[t], l) => l \in act[i].scope
      BY <1>0, <1>1, <3>1 DEF Owes, NeverFails, Inserting, Restoring, Applying
    <3>6. \A l \in act[i].scope : Owes(t, thread'[t], l)
      BY <2>4, <2>5 DEF Owes, Applying
    <3>. QED  BY <1>2, <2>13, <3>2, <3>3, <3>4, <3>5, <3>6 DEF SettleOf, Offline
  <2>. QED  BY <1>0, <1>2, <2>5, <2>8, <2>9, <2>10, <2>11, <2>12, <2>13, DriverKept
<1>5. CASE i \notin Active(chain, act)
  <2>1. Become(t, NotFound(t)) /\ UNCHANGED <<act, desired>>
    BY <1>1, <1>5 DEF SetActionEnabled
  <2>2. Moves(t) /\ thread'[t] = NotFound(t)
    BY <1>0, <2>1, MovesBecome
  <2>3. SameWants /\ \A j \in Ids : act'[j].pending = act[j].pending
    BY <1>2, <2>1 DEF SameWants
  <2>4. /\ ~present => NothingKept(thread'[t])
        /\ Visitor(t, thread'[t]) /\ thread'[t].pc \notin Applying
    BY <1>0, <2>2, NotFoundFields, AfterKept
  <2>5. \A l \in Lines : Written(thread[t], l, applied[l], controller[l])
                           => Written(thread'[t], l, applied'[l], controller'[l])
    BY <1>0, <1>2, <2>2, NotFoundFields DEF Written, Recording, Masks, Inserting
  <2>6. ASSUME SettleOf(t)  PROVE SettleOf(t)'
    <3>1. NeverFails(thread[t])
      BY <1>0, <2>6 DEF SettleOf, Busy, At
    <3>2. ~Asks(thread[t])
      BY <1>0, <1>1, <1>5, <3>1 DEF NeverFails
    <3>3. thread'[t].pc = "idle"
      BY <1>0, <2>2, <3>2, NotFoundFields DEF Asks, InRequest
    <3>4. \A l \in Lines : ~Owes(t, thread[t], l)
      BY <1>0, <3>2 DEF Owes, Inserting, Restoring, Applying
    <3>. QED  BY <1>2, <2>1, <2>6, <3>3, <3>4, SettleSame
  <2>. QED  BY <1>0, <1>1, <1>2, <1>5, <2>2, <2>3, <2>4, <2>5, <2>6, PlainKept
<1>. QED  BY <1>4, <1>5

(* A CPU at work is coming online, and its line is its own. *)
LEMMA CpuFacts ==
    ASSUME LineInv, NEW c \in Cpus, thread[c].pc # "idle"
    PROVE  /\ c \in online \ Boot /\ online \cup {c} = online /\ c \in Threads /\ c \in Lines
           /\ c # Global /\ c \notin Callers /\ ~Offline(c)
           /\ thread[c].op = "online" /\ thread[c].todo \subseteq {c}
           /\ Visitor(c, thread[c]) /\ (~present => NothingKept(thread[c]))
<1>1. c \in Threads /\ c \in Lines /\ c # Global /\ c \notin Callers
  BY CpusAssumption, SMTT(30) DEF Threads, Lines, Global
<1>2. /\ c \in online \ Boot /\ thread[c].op = "online" /\ thread[c].todo \subseteq {c}
  BY DEF LineInv, CpuInv, Busy, At
<1>. QED  BY <1>1, <1>2 DEF LineInv, VisitInv, PresentInv, Offline

(* A CPU that comes online moves and leaves the actions and the list alone. *)
LEMMA CpuPlain ==
    ASSUME IrqInv, IrqInv', LineInv, NEW c \in Cpus, thread[c].pc # "idle", Moves(c),
           UNCHANGED <<lineVars, act, online>>,
           thread'[c].pc \in BootPcs,
           thread'[c].pc # "idle" => thread'[c].op = "online" /\ thread'[c].todo \subseteq {c},
           ~present => UNCHANGED applied /\ NothingKept(thread'[c]),
           Visitor(c, thread'[c]),
           \A l \in Lines \ {c} : applied'[l] = applied[l] /\ controller'[l] = controller[l],
           Written(thread[c], c, applied[c], controller[c])
             => Written(thread'[c], c, applied'[c], controller'[c]),
           errors' = 0 => errors = 0 /\ (OfCpu(c) => OfCpu(c)')
    PROVE  Kept
<1>1. Visitor(c, thread[c])'
  BY DEF Visitor, Offline
<1>2. /\ SameWants /\ UNCHANGED present /\ \A j \in Ids : act[j].pending \ {c} \subseteq act'[j].pending
  BY SameActs
<1>3. c \in online' \ Boot /\ online' = online \cup {c}
  BY CpuFacts
<1>. QED  BY <1>1, <1>2, <1>3, CpuKept

LEMMA ApplyNextEnds ==
    ASSUME IrqInv, IrqInv', LineInv, NEW t \in Threads, ApplyNext(t), thread[t].todo = {}
    PROVE  Kept
<1>0. /\ thread[t] \in ThreadRec /\ thread[t].pc = "apply" /\ Become(t, Succeeded(t))
      /\ UNCHANGED <<lineVars, applied, hardware>>
  BY ThreadFacts DEF ApplyNext, At
<1>1. Moves(t) /\ thread'[t] = Succeeded(t) /\ UNCHANGED <<present, applied, controller, online, errors>>
  BY <1>0, MovesBecome DEF lineVars, hardware
<1>2. SameWants /\ \A j \in Ids : act'[j].pending = act[j].pending
  <2>1. act' = act \/ act' = [act EXCEPT ![thread[t].id].given = TRUE]
    BY DEF ApplyNext
  <2>. QED  BY <1>0, <2>1, SetGiven DEF lineVars, SameWants, SameAction
<1>3. CASE t \in Callers
  <2>1. Visitor(t, thread[t]) /\ thread[t].op \in {"enable", "disable", "rollback", "free"}
    BY <1>0, <1>3 DEF LineInv, VisitInv, Visitor, Applying
  <2>2. /\ ~present => NothingKept(thread'[t])
        /\ Visitor(t, thread'[t]) /\ thread'[t].pc \notin Applying
    BY <1>0, <1>1, <2>1, SucceededFields, AfterKept
  <2>3. \A m \in Lines : Written(thread[t], m, applied[m], controller[m])
                           => Written(thread'[t], m, applied'[m], controller'[m])
    BY <1>0, <1>1, <2>1, SucceededFields DEF Written, Recording, Masks, Inserting
  <2>4. \A c : ~Enabling(thread[t], c)
    BY <1>0 DEF Enabling
  <2>5. ASSUME SettleOf(t)  PROVE SettleOf(t)'
    <3>1. NeverFails(thread[t])
      BY <1>0, <2>5 DEF SettleOf, Busy, At
    <3>2. /\ thread'[t].pc \in {"idle", "wait"}
          /\ thread'[t].pc = "wait" => /\ thread'[t].op = "free" /\ thread[t].op = "free"
                                       /\ thread'[t].req = thread[t].req
      BY <1>0, <1>1, <2>1, <3>1, SucceededFields DEF NeverFails
    <3>3. thread'[t].pc # "idle" => SnapOk(thread[t])' /\ NeverFails(thread[t])'
      BY <3>1, <3>2 DEF SnapOk, NeverFails, Inserting, Restoring, Applying, Asks
    <3>4. \A m \in Lines : ~Owes(t, thread[t], m)
      BY <1>0 DEF Owes, Inserting, Restoring, Applying
    <3>. QED  BY <1>1, <1>2, <2>5, <3>3, <3>4, SettleSame DEF SameWants
  <2>. QED  BY <1>1, <1>2, <1>3, <2>2, <2>3, <2>4, <2>5, PlainKept
<1>4. CASE t \in Cpus
  <2>1. /\ t \in online \ Boot /\ online \cup {t} = online /\ thread[t].op = "online"
        /\ Visitor(t, thread[t]) /\ (~present => NothingKept(thread[t])) /\ t \notin Callers
    BY <1>0, <1>4, CpuFacts
  <2>2. /\ thread'[t].pc = "clear" /\ thread'[t].op = "online" /\ thread'[t].todo = {}
        /\ thread'[t].was = thread[t].was
        /\ thread'[t].ok = thread[t].ok /\ thread'[t].k = thread[t].k
    BY <1>0, <1>1, <2>1, SucceededFields
  <2>3. NothingKept(thread[t]) => NothingKept(thread'[t])
    BY <2>2 DEF NothingKept
  <2>4. Visitor(t, thread[t])'
    BY <2>1, <2>2 DEF Visitor, Inserting, Applying
  <2>5. Written(thread[t], t, applied[t], controller[t])
          => Written(thread'[t], t, applied'[t], controller'[t])
    BY <1>0, <1>1, <2>2 DEF Written, Recording, Masks, Inserting
  <2>6. ASSUME OfCpu(t)  PROVE OfCpu(t)'
    <3>1. ~Owes(t, thread[t], t)
      BY <1>0 DEF Owes, Inserting, Restoring, Applying
    <3>. QED  BY <1>1, <1>2, <2>1, <2>2, <2>6, <3>1 DEF OfCpu, At, SameWants
  <2>7. /\ t \in online' \ Boot /\ online' = online \cup {t} /\ thread'[t].pc \in BootPcs
        /\ ~present' => ~present /\ UNCHANGED applied /\ NothingKept(thread'[t])
        /\ \A i \in Ids : act[i].pending \ {t} \subseteq act'[i].pending
    BY <1>1, <1>2, <2>1, <2>2, <2>3 DEF BootPcs
  <2>. QED  BY <1>1, <1>2, <1>4, <2>2, <2>4, <2>5, <2>6, <2>7, CpuKept
<1>. QED  BY <1>3, <1>4 DEF Threads

LEMMA ApplyNextKept ==
    ASSUME IrqInv, IrqInv', LineInv, NEW t \in Threads, ApplyNext(t)
    PROVE  Kept
<1>. SUFFICES ASSUME thread[t].todo # {}  PROVE Kept
  BY ApplyNextEnds
<1> DEFINE l == Visiting(t)
           line == [thread[t] EXCEPT !.pc = "line"]
           defer == [thread[t] EXCEPT !.pc = "defer"]
           skip == Done(t)
<1>0. /\ thread[t] \in ThreadRec /\ thread[t].pc = "apply"
      /\ l \in thread[t].todo /\ l \in Lines /\ l = FirstLine(thread[t].todo)
      /\ UNCHANGED <<lineVars, act, applied, hardware>>
  BY ThreadFacts DEF ApplyNext, At, Visiting
<1>1. PICK r : /\ Become(t, r)
               /\ IF ~Offline(l) THEN r = line
                  ELSE IF thread[t].op = "free" THEN r = skip ELSE r = defer
  BY DEF ApplyNext, Goto
<1>2. \A x \in {line, defer} :
        /\ x.op = thread[t].op /\ x.req = thread[t].req /\ x.id = thread[t].id
        /\ x.todo = thread[t].todo /\ x.was = thread[t].was /\ x.ok = thread[t].ok
        /\ x.k = thread[t].k
  BY <1>0, SMTT(30) DEF ThreadRec
<1>3. /\ skip.op = thread[t].op /\ skip.req = thread[t].req /\ skip.id = thread[t].id
      /\ skip.todo = thread[t].todo \ {l} /\ skip.was = thread[t].was /\ skip.ok = thread[t].ok
      /\ skip.k = thread[t].k /\ skip.pc = "apply" /\ line.pc = "line" /\ defer.pc = "defer"
  BY <1>0, SMTT(30) DEF Done, ThreadRec
<1> HIDE DEF l, line, defer, skip
<1>4. /\ r.op = thread[t].op /\ r.req = thread[t].req /\ r.id = thread[t].id
      /\ r.was = thread[t].was /\ r.ok = thread[t].ok /\ r.k = thread[t].k
      /\ r.pc \in {"line", "defer", "apply"}
      /\ r.pc = "line" => r.todo = thread[t].todo /\ ~Offline(l)
      /\ r.pc = "defer" => r.todo = thread[t].todo /\ Offline(l)
      /\ r.pc = "apply" => /\ r.todo = thread[t].todo \ {l} /\ Offline(l)
                           /\ thread[t].op = "free"
  BY <1>1, <1>2, <1>3
<1>5. Moves(t) /\ thread'[t] = r /\ UNCHANGED <<present, controller, online, errors>>
  BY <1>0, <1>1, MovesBecome DEF lineVars, hardware
<1>6. Visitor(t, thread[t]) /\ (~present => NothingKept(thread[t]))
  BY DEF LineInv, VisitInv, PresentInv
<1>7. ~present => UNCHANGED applied /\ NothingKept(thread'[t])
  BY <1>0, <1>4, <1>5, <1>6 DEF NothingKept
<1>8. Visitor(t, thread'[t])
  BY <1>0, <1>4, <1>5, <1>6 DEF Visitor, Inserting, Applying
<1>9. \A m \in Lines : Written(thread[t], m, applied[m], controller[m])
                         => Written(thread'[t], m, applied'[m], controller'[m])
  BY <1>0, <1>4, <1>5 DEF Written, Recording, Masks, Inserting
<1>10. CASE t \in Callers
  <2>1. /\ thread[t].pc \in Applying /\ thread'[t].op = thread[t].op /\ thread'[t].id = thread[t].id
        /\ \A c : Enabling(thread[t], c) => Enabling(thread'[t], c)
    BY <1>0, <1>4, <1>5 DEF Enabling, Applying
  <2>2. ASSUME SettleOf(t)  PROVE SettleOf(t)'
    <3>1. SnapOk(thread[t]) /\ NeverFails(thread[t])
      BY <1>0, <2>2 DEF SettleOf, Busy, At
    <3>2. UNCHANGED <<desired, act, chain>>
      BY <1>0 DEF lineVars
    <3>3. SnapOk(thread[t])'
      BY <1>4, <1>5 DEF SnapOk, Inserting, Restoring
    <3>4. NeverFails(thread[t])'
      <4>1. /\ thread'[t].op = thread[t].op /\ thread'[t].id = thread[t].id
            /\ thread'[t].req = thread[t].req
            /\ thread'[t].pc \in {"line", "defer", "apply"}
        BY <1>4, <1>5
      <4>2. thread'[t].pc = "defer" => Offline(FirstLine(thread[t].todo))'
        BY <1>0, <1>4, <1>5 DEF Offline
      <4>3. thread[t].pc \in Applying
        BY <1>0 DEF Applying
      <4>. QED  BY <3>1, <3>2, <4>1, <4>2, <4>3 DEF NeverFails, Applying, Asks
    <3>5. \A m \in Lines : ~Offline(m) /\ Owes(t, thread[t], m) => Owes(t, thread'[t], m)
      BY <1>0, <1>4, <1>5 DEF Owes, Inserting, Restoring, Applying
    <3>. QED  BY <1>0, <1>5, <2>2, <3>2, <3>3, <3>4, <3>5, SettleSame
  <2>. QED  BY <1>0, <1>5, <1>7, <1>8, <1>9, <1>10, <2>1, <2>2, SameActs, PlainKept
<1>11. CASE t \in Cpus
  <2>1. /\ t \in Lines /\ ~Offline(t) /\ thread[t].op = "online" /\ thread[t].todo \subseteq {t}
    BY <1>0, <1>11, CpuFacts
  <2>2. thread'[t].pc = "line" /\ thread'[t].op = "online" /\ thread'[t].todo = thread[t].todo
    BY <1>0, <1>4, <1>5, <2>1
  <2>3. OfCpu(t) => OfCpu(t)'
    <3>1. Owes(t, thread'[t], t)
      BY <1>0, <2>1, <2>2 DEF Owes, Applying
    <3>2. t \in online
      BY <1>0, <1>11, CpuFacts
    <3>. QED  BY <1>0, <1>5, <2>2, <3>1, <3>2 DEF OfCpu, At
  <2>4. thread'[t].pc \in BootPcs /\ thread[t].pc # "idle"
    BY <1>0, <2>2 DEF BootPcs
  <2>. QED  BY <1>0, <1>5, <1>7, <1>8, <1>9, <1>11, <2>1, <2>2, <2>3, <2>4, CpuPlain
<1>. QED  BY <1>10, <1>11 DEF Threads

LEMMA DeferEnableKept ==
    ASSUME IrqInv, IrqInv', LineInv, NEW t \in Threads, DeferEnable(t)
    PROVE  Kept
<1> DEFINE l == Visiting(t)
           r == [Done(t) EXCEPT !.pc = "apply"]
<1>0. /\ thread[t] \in ThreadRec /\ Legal(t, thread[t]) /\ thread[t].pc = "defer" /\ t \in Callers
      /\ l \in thread[t].todo /\ l \in Lines /\ l = FirstLine(thread[t].todo)
      /\ act \in [Ids -> ActRec] /\ Linked \subseteq Ids
  BY ThreadFacts, NotCpu, Pointers DEF DeferEnable, At, BootPcs, Visiting, Legal, Visits, IrqInv, IrqTypes
<1>1. UNCHANGED <<present, chain, desired, applied, controller, online, errors>>
  BY DEF DeferEnable, lineVars, hardware
<1>2. /\ Visitor(t, thread[t]) /\ DesiredInv /\ (~present => NothingKept(thread[t]))
      /\ thread[t].op \in {"enable", "disable", "rollback"} /\ l # Global
  BY <1>0 DEF LineInv, VisitInv, PresentInv, Legal, Visitor, Applying
<1>3. CASE thread[t].id \in Active(chain, act)
  <2>1. PICK i \in Ids : i = thread[t].id
    BY <1>0, <1>3 DEF Active, Linked
  <2>2. PICK p \in SUBSET Cpus : p = IF thread[t].op = "enable" THEN act[i].pending \cup {l}
                                     ELSE act[i].pending \ {l}
    BY <1>0, <1>2 DEF ActRec, Lines
  <2>3. act' = [act EXCEPT ![i].pending = p] /\ Become(t, r)
    <3>1. /\ act' = [act EXCEPT ![i].pending = IF thread[t].op = "enable" THEN @ \cup {l} ELSE @ \ {l}]
          /\ Become(t, r)
      BY <1>3, <2>1 DEF DeferEnable
    <3> HIDE DEF l, r
    <3>. QED  BY <2>2, <3>1
  <2>4. /\ r.pc = "apply" /\ r.op = thread[t].op /\ r.req = thread[t].req /\ r.id = i
        /\ r.todo = thread[t].todo \ {l} /\ r.was = thread[t].was /\ r.ok = thread[t].ok
        /\ r.k = thread[t].k
    BY <1>0, <2>1, SMTT(30) DEF Done, ThreadRec
  <2> HIDE DEF r, l
  <2>5. Moves(t) /\ thread'[t] = r
    BY <1>0, <2>3, MovesBecome
  <2>6. /\ SameWants
        /\ \A j \in Ids : act'[j].pending = IF j = i THEN p ELSE act[j].pending
    <3>1. ASSUME NEW j \in Ids
          PROVE  /\ act'[j].scope = act[j].scope /\ act'[j].enabled = act[j].enabled
                 /\ act'[j].detached = act[j].detached
                 /\ act'[j].pending = IF j = i THEN p ELSE act[j].pending
      BY <1>0, <2>3, SMTT(30) DEF ActRec
    <3>. QED  BY <1>1, <3>1 DEF SameWants
  <2>7. /\ Active(chain, act)' = Active(chain, act) /\ Active(chain, act) \subseteq Ids
        /\ \A m \in Lines, j \in Ids : WantedBy(m, j)' = WantedBy(m, j)
        /\ \A j \in Ids : act'[j].scope = act[j].scope /\ act'[j].enabled = act[j].enabled
    BY <2>6, SameWantsFacts DEF SameWants
  <2>8. Visitor(t, thread[t])' /\ DesiredInv'
    BY <1>2, <2>4, <2>5, <2>6, DesiredFrame DEF Visitor, Inserting, Applying
  <2>9. ~present' => ~present /\ UNCHANGED <<chain, desired, applied>> /\ NothingKept(thread'[t])
    BY <1>1, <1>2, <2>4, <2>5 DEF NothingKept
  <2>10. \A m \in Lines : Written(thread[t], m, applied[m], controller[m])
                            => Written(thread'[t], m, applied'[m], controller'[m])
    BY <1>0, <1>1, <2>4, <2>5 DEF Written, Recording, Masks, Inserting
  <2>11. ASSUME PendingOf(t)  PROVE PendingOf(t)'
    <3>1. thread[t].op \in {"disable", "rollback"} => ~act[i].enabled
      BY <1>0, <1>3, <2>1, <2>11 DEF PendingOf, Applying
    <3>2. ASSUME NEW j \in Active(chain, act), NEW c \in Cpus \ online, WantedBy(c, j)
          PROVE  c \in act'[j].pending \/ (thread'[t].id = j /\ Enabling(thread'[t], c))
      <4>1. CASE j = i
        <5>1. thread[t].op = "enable"
          BY <1>2, <3>1, <3>2, <4>1 DEF WantedBy
        <5>2. c \in act[i].pending \/ c \in thread[t].todo
          BY <1>0, <2>11, <3>2, <4>1 DEF PendingOf, Enabling
        <5>. QED  BY <2>1, <2>2, <2>4, <2>5, <2>6, <4>1, <5>1, <5>2 DEF Enabling, Applying
      <4>2. CASE j # i
        BY <2>1, <2>6, <2>7, <2>11, <3>2, <4>2 DEF PendingOf
      <4>. QED  BY <4>1, <4>2
    <3>3. thread'[t].op \in {"disable", "rollback"} => ~act'[thread'[t].id].enabled
      BY <2>4, <2>5, <2>7, <3>1
    <3>4. \A c \in Cpus : c \in Lines
      BY DEF Lines
    <3>. QED  BY <1>1, <2>7, <3>2, <3>3, <3>4 DEF PendingOf
  <2>12. ASSUME SettleOf(t)  PROVE SettleOf(t)'
    <3>1. SnapOk(thread[t]) /\ NeverFails(thread[t])
      BY <1>0, <2>12 DEF SettleOf, Busy, At
    <3>2. SnapOk(thread[t])'
      BY <2>4, <2>5 DEF SnapOk, Inserting, Restoring
    <3>3. NeverFails(thread[t])'
      BY <1>3, <2>1, <2>4, <2>5, <2>7, <3>1 DEF NeverFails, Asks
    <3>4. Offline(l)
      BY <1>0, <3>1 DEF NeverFails
    <3>5. \A m \in Lines : ~Offline(m) /\ Owes(t, thread[t], m) => Owes(t, thread'[t], m)
      BY <1>0, <2>4, <2>5, <3>4 DEF Owes, Inserting, Restoring, Applying
    <3>. QED  BY <1>1, <2>12, <3>2, <3>3, <3>5, SettleSame
  <2>. QED  BY <1>0, <1>1, <2>5, <2>8, <2>9, <2>10, <2>11, <2>12, DriverKept
<1>4. CASE thread[t].id \notin Active(chain, act)
  <2>1. Become(t, Failed(t)) /\ UNCHANGED act
    BY <1>4 DEF DeferEnable
  <2>2. Moves(t) /\ thread'[t] = Failed(t)
    BY <1>0, <2>1, MovesBecome
  <2>3. SameWants /\ \A j \in Ids : act'[j].pending = act[j].pending
    BY <1>1, <2>1 DEF SameWants
  <2>4. /\ ~present => NothingKept(thread'[t])
        /\ Visitor(t, thread'[t]) /\ thread'[t].pc \notin Applying
    BY <1>0, <2>2, FailedFields, AfterKept
  <2>5. \A m \in Lines : Written(thread[t], m, applied[m], controller[m])
                           => Written(thread'[t], m, applied'[m], controller'[m])
    BY <1>0, <1>1, <2>2, FailedFields DEF Written, Recording, Masks, Inserting
  <2>6. ~SettleOf(t)
    BY <1>0, <1>2, <1>4 DEF SettleOf, NeverFails, Busy, At, Applying
  <2>. QED  BY <1>0, <1>1, <1>4, <2>2, <2>3, <2>4, <2>5, <2>6, PlainKept
<1>. QED  BY <1>3, <1>4

LEMMA CompareLineKept ==
    ASSUME IrqInv, IrqInv', LineInv, NEW t \in Threads, CompareLine(t)
    PROVE  Kept
<1> DEFINE l == Visiting(t)
           apply == [Done(t) EXCEPT !.pc = "apply"]
           write == [thread[t] EXCEPT !.pc = "write", !.value = desired[l]]
<1>0. /\ thread[t] \in ThreadRec /\ Legal(t, thread[t]) /\ thread[t].pc = "line"
      /\ l \in thread[t].todo /\ l \in Lines /\ l = FirstLine(thread[t].todo)
      /\ UNCHANGED <<lineVars, act, applied, hardware>>
  BY ThreadFacts DEF CompareLine, At, Visiting, Legal, Visits
<1>1. PICK r : Become(t, r) /\ r = IF desired[l] = applied[l] THEN apply ELSE write
  BY DEF CompareLine
<1>2. /\ apply.op = thread[t].op /\ apply.req = thread[t].req /\ apply.id = thread[t].id
      /\ apply.todo = thread[t].todo \ {l} /\ apply.was = thread[t].was
      /\ apply.ok = thread[t].ok /\ apply.k = thread[t].k /\ apply.pc = "apply"
  BY <1>0, SMTT(30) DEF Done, ThreadRec
<1>3. /\ write.op = thread[t].op /\ write.req = thread[t].req /\ write.id = thread[t].id
      /\ write.todo = thread[t].todo /\ write.was = thread[t].was
      /\ write.ok = thread[t].ok /\ write.k = thread[t].k /\ write.pc = "write"
      /\ write.value = desired[l]
  BY <1>0, SMTT(30) DEF ThreadRec
<1> HIDE DEF l, apply, write
<1>4. /\ r.op = thread[t].op /\ r.req = thread[t].req /\ r.id = thread[t].id
      /\ r.was = thread[t].was /\ r.ok = thread[t].ok /\ r.k = thread[t].k
      /\ r.pc \in {"apply", "write"}
      /\ r.pc = "apply" => r.todo = thread[t].todo \ {l} /\ desired[l] = applied[l]
      /\ r.pc = "write" => r.todo = thread[t].todo /\ desired[l] # applied[l]
  BY <1>1, <1>2, <1>3
<1>5. Moves(t) /\ thread'[t] = r /\ UNCHANGED <<present, controller, online, errors>>
  BY <1>0, <1>1, MovesBecome DEF lineVars, hardware
<1>6. Visitor(t, thread[t]) /\ (~present => NothingKept(thread[t]) /\ ~applied[l] /\ ~desired[l])
  BY <1>0 DEF LineInv, VisitInv, PresentInv
<1>7. ~present => UNCHANGED applied /\ NothingKept(thread'[t])
  <2>1. applied[l] \in BOOLEAN /\ desired[l] \in BOOLEAN
    BY <1>0 DEF IrqInv, IrqTypes
  <2>. QED  BY <1>0, <1>4, <1>5, <1>6, <2>1 DEF NothingKept
<1>8. Visitor(t, thread'[t]) /\ ~Offline(l)
  BY <1>0, <1>4, <1>5, <1>6 DEF Visitor, Inserting, Applying
<1>9. \A m \in Lines : Written(thread[t], m, applied[m], controller[m])
                         => Written(thread'[t], m, applied'[m], controller'[m])
  BY <1>0, <1>4, <1>5 DEF Written, Recording, Masks, Inserting
<1>10. CASE t \in Callers
  <2>1. /\ thread[t].pc \in Applying /\ thread'[t].op = thread[t].op /\ thread'[t].id = thread[t].id
        /\ \A c \in Cpus \ online : Enabling(thread[t], c) => Enabling(thread'[t], c)
    <3>1. l \notin Cpus \ online
      BY <1>8, CpusAssumption, SMTT(30) DEF Offline, Global
    <3>. QED  BY <1>0, <1>4, <1>5, <3>1 DEF Enabling, Applying
  <2>2. ASSUME SettleOf(t)  PROVE SettleOf(t)'
    <3>1. SnapOk(thread[t]) /\ NeverFails(thread[t])
      BY <1>0, <2>2 DEF SettleOf, Busy, At
    <3>2. UNCHANGED <<desired, act, chain>>
      BY <1>0 DEF lineVars
    <3>3. SnapOk(thread[t])'
      BY <1>4, <1>5 DEF SnapOk, Inserting, Restoring
    <3>4. NeverFails(thread[t])'
      BY <1>0, <1>4, <1>5, <3>1, <3>2 DEF NeverFails, Applying, Asks
    <3>5. \A m \in Lines : ~Offline(m) /\ Owes(t, thread[t], m) =>
                              applied[m] = desired[m] \/ Owes(t, thread'[t], m)
      <4> SUFFICES ASSUME NEW m \in Lines, Owes(t, thread[t], m), applied[m] # desired[m]
                   PROVE  Owes(t, thread'[t], m)
        OBVIOUS
      <4>1. m \in thread[t].todo
        BY <1>0 DEF Owes, Inserting, Restoring
      <4>2. m \in thread'[t].todo /\ thread'[t].pc \in Applying
        BY <1>0, <1>4, <1>5, <4>1 DEF Applying
      <4>. QED  BY <4>2 DEF Owes
    <3>. QED  BY <1>0, <1>5, <2>2, <3>2, <3>3, <3>4, <3>5, SettleSame
  <2>. QED  BY <1>0, <1>5, <1>7, <1>8, <1>9, <1>10, <2>1, <2>2, SameActs, PlainKept
<1>11. CASE t \in Cpus
  <2>1. /\ t \in Lines /\ t \in online /\ thread[t].op = "online" /\ thread[t].todo \subseteq {t}
    BY <1>0, <1>11, CpuFacts
  <2>2. thread'[t].op = "online" /\ thread'[t].todo \subseteq {t} /\ l = t
    BY <1>0, <1>4, <1>5, <2>1
  <2>3. OfCpu(t) => OfCpu(t)'
    <3>1. applied[t] = desired[t] \/ Owes(t, thread'[t], t)
      BY <1>0, <1>4, <1>5, <2>2 DEF Owes, Applying
    <3>2. UNCHANGED desired
      BY <1>0 DEF lineVars
    <3>. QED  BY <1>0, <1>4, <1>5, <2>1, <3>1, <3>2 DEF OfCpu, At
  <2>4. thread'[t].pc \in BootPcs /\ thread[t].pc # "idle"
    BY <1>0, <1>4, <1>5 DEF BootPcs
  <2>. QED  BY <1>0, <1>5, <1>7, <1>8, <1>9, <1>11, <2>1, <2>2, <2>3, <2>4, CpuPlain
<1>. QED  BY <1>10, <1>11 DEF Threads

LEMMA WriteLineKept ==
    ASSUME IrqInv, IrqInv', LineInv, NEW t \in Threads, WriteLine(t)
    PROVE  Kept
<1> DEFINE l == Visiting(t)
           mark == [thread[t] EXCEPT !.pc = "mark"]
<1>0. /\ thread[t] \in ThreadRec /\ Legal(t, thread[t]) /\ thread[t].pc = "write"
      /\ l \in thread[t].todo /\ l \in Lines /\ l = FirstLine(thread[t].todo)
  BY ThreadFacts DEF WriteLine, At, Visiting, Legal, Visits
<1>1. UNCHANGED <<lineVars, act, applied, online>> /\ UNCHANGED <<present, desired>>
  BY DEF WriteLine, SetController, ControllerFails, lineVars
<1>2. /\ Visitor(t, thread[t]) /\ present
      /\ t \in Callers => thread[t].op \in {"enable", "disable", "rollback", "free"}
  BY <1>0 DEF LineInv, VisitInv, PresentInv, NothingKept, Visitor, Applying
<1>3. /\ mark.pc = "mark" /\ mark.op = thread[t].op /\ mark.req = thread[t].req
      /\ mark.id = thread[t].id /\ mark.todo = thread[t].todo /\ mark.was = thread[t].was
      /\ mark.ok = thread[t].ok /\ mark.k = thread[t].k /\ mark.value = thread[t].value
  BY <1>0, SMTT(30) DEF ThreadRec
<1>4. t \in Cpus => /\ t \in online /\ thread[t].op = "online" /\ thread[t].todo \subseteq {t} /\ l = t
  BY <1>0, CpuFacts
<1>5. CASE SetController(l, thread[t].value) /\ Become(t, mark)
  <2> HIDE DEF l, mark
  <2>1. Moves(t) /\ thread'[t] = mark
    BY <1>0, <1>5, MovesBecome
  <2>2. /\ controller'[l] = thread[t].value /\ UNCHANGED errors
        /\ \A m \in Lines : m # l => controller'[m] = controller[m]
    <3>1. controller \in [Lines -> BOOLEAN]
      BY DEF IrqInv, IrqTypes
    <3>. QED  BY <1>0, <1>5, <3>1 DEF SetController
  <2>3. Visitor(t, thread'[t])
    BY <1>0, <1>2, <1>3, <2>1 DEF Visitor, Inserting, Applying
  <2>4. \A m \in Lines : Written(thread[t], m, applied[m], controller[m])
                           => Written(thread'[t], m, applied'[m], controller'[m])
    BY <1>0, <1>1, <1>3, <2>1, <2>2 DEF Written, Recording, Masks, Inserting
  <2>5. CASE t \in Callers
    <3>1. /\ thread[t].pc \in Applying /\ thread'[t].op = thread[t].op /\ thread'[t].id = thread[t].id
          /\ \A c : Enabling(thread[t], c) => Enabling(thread'[t], c)
      BY <1>0, <1>3, <2>1 DEF Enabling, Applying
    <3>2. ASSUME SettleOf(t)  PROVE SettleOf(t)'
      <4>1. SnapOk(thread[t]) /\ NeverFails(thread[t])
        BY <1>0, <3>2 DEF SettleOf, Busy, At
      <4>2. UNCHANGED <<desired, act, chain>>
        BY <1>1 DEF lineVars
      <4>3. SnapOk(thread[t])'
        BY <1>3, <2>1 DEF SnapOk, Inserting, Restoring
      <4>4. NeverFails(thread[t])'
        BY <1>0, <1>3, <2>1, <4>1, <4>2 DEF NeverFails, Applying, Asks
      <4>5. \A m \in Lines : Owes(t, thread[t], m) => Owes(t, thread'[t], m)
        BY <1>0, <1>3, <2>1 DEF Owes, Inserting, Restoring, Applying
      <4>. QED  BY <1>1, <3>2, <4>3, <4>4, <4>5, SettleSame
    <3>. QED  BY <1>1, <1>2, <2>1, <2>2, <2>3, <2>4, <2>5, <3>1, <3>2, SameActs, PlainKept
  <2>6. CASE t \in Cpus
    <3>1. Owes(t, thread'[t], t)
      BY <1>0, <1>3, <1>4, <2>1, <2>6 DEF Owes, Applying
    <3>2. OfCpu(t) => OfCpu(t)'
      BY <1>0, <1>1, <1>3, <1>4, <2>1, <2>6, <3>1 DEF OfCpu, At
    <3>3. thread'[t].pc \in BootPcs /\ thread[t].pc # "idle" /\ t \in Lines
      BY <1>0, <1>3, <2>1, <2>6 DEF BootPcs, Lines
    <3>. QED  BY <1>1, <1>2, <1>3, <1>4, <2>1, <2>2, <2>3, <2>4, <2>6, <3>2, <3>3, CpuPlain
  <2>. QED  BY <2>5, <2>6 DEF Threads
<1>6. CASE ControllerFails /\ Become(t, Failed(t))
  <2> HIDE DEF l, mark
  <2>1. Moves(t) /\ thread'[t] = Failed(t) /\ errors' # 0 /\ UNCHANGED controller
    BY <1>0, <1>6, MovesBecome, ErrorsCount DEF ControllerFails
  <2>2. Visitor(t, thread'[t]) /\ thread'[t].pc \notin Applying
    BY <1>0, <2>1, FailedFields, AfterKept
  <2>3. \A m \in Lines : Written(thread[t], m, applied[m], controller[m])
                           => Written(thread'[t], m, applied'[m], controller'[m])
    BY <1>0, <1>1, <2>1, FailedFields DEF Written, Recording, Masks, Inserting
  <2>4. CASE t \in Callers
    <3>1. \A c : Enabling(thread[t], c) => Enabling(thread'[t], c) /\ thread'[t].id = thread[t].id
      BY <1>0, <2>1, FailedFields DEF Enabling
    <3>. QED  BY <1>1, <1>2, <2>1, <2>2, <2>3, <2>4, <3>1, SameActs, PlainKept
  <2>5. CASE t \in Cpus
    <3>1. thread'[t].pc = "idle" /\ thread'[t].pc \in BootPcs /\ thread[t].pc # "idle" /\ t \in Lines
      BY <1>0, <1>4, <2>1, <2>5, FailedFields, IdleFields DEF BootPcs, Lines
    <3>. QED  BY <1>1, <1>2, <2>1, <2>2, <2>3, <2>5, <3>1, CpuPlain
  <2>. QED  BY <2>4, <2>5 DEF Threads
<1>. QED  BY <1>5, <1>6 DEF WriteLine, Goto

LEMMA MarkAppliedKept ==
    ASSUME IrqInv, IrqInv', LineInv, NEW t \in Threads, MarkApplied(t)
    PROVE  Kept
<1> DEFINE l == Visiting(t)
           r == [thread[t] EXCEPT !.pc = "line"]
<1>0. /\ thread[t] \in ThreadRec /\ Legal(t, thread[t]) /\ thread[t].pc = "mark"
      /\ l \in thread[t].todo /\ l \in Lines /\ l = FirstLine(thread[t].todo)
  BY ThreadFacts DEF MarkApplied, At, Visiting, Legal, Visits
<1>1. /\ r.pc = "line" /\ r.op = thread[t].op /\ r.req = thread[t].req
      /\ r.id = thread[t].id /\ r.todo = thread[t].todo /\ r.was = thread[t].was
      /\ r.ok = thread[t].ok /\ r.k = thread[t].k
  BY <1>0, SMTT(30) DEF ThreadRec
<1>2. Become(t, r) /\ SetApplied(l, thread[t].value) /\ UNCHANGED <<lineVars, act, hardware>>
  BY DEF MarkApplied, Goto
<1>3. /\ Visitor(t, thread[t]) /\ present
      /\ t \in Callers => thread[t].op \in {"enable", "disable", "rollback", "free"}
  BY <1>0 DEF LineInv, VisitInv, PresentInv, NothingKept, Visitor, Applying
<1>4. t \in Cpus => /\ t \in online /\ thread[t].op = "online" /\ thread[t].todo \subseteq {t} /\ l = t
  BY <1>0, CpuFacts
<1> HIDE DEF l, r
<1>5. /\ Moves(t) /\ thread'[t] = r
      /\ UNCHANGED <<lineVars, act, present, desired, chain, controller, online, errors>>
  BY <1>0, <1>2, MovesBecome DEF lineVars, hardware
<1>6. applied'[l] = thread[t].value /\ \A m \in Lines : m # l => applied'[m] = applied[m]
  <2>1. applied \in [Lines -> BOOLEAN]
    BY DEF IrqInv, IrqTypes
  <2>. QED  BY <1>0, <1>2, <2>1 DEF SetApplied
<1>7. Visitor(t, thread'[t])
  BY <1>0, <1>1, <1>3, <1>5 DEF Visitor, Inserting, Applying
<1>8. \A m \in Lines : Written(thread[t], m, applied[m], controller[m])
                         => Written(thread'[t], m, applied'[m], controller'[m])
  <2>1. controller[l] \in BOOLEAN /\ thread[t].value \in BOOLEAN
    BY <1>0 DEF IrqInv, IrqTypes, ThreadRec
  <2>2. Written(thread[t], l, applied[l], controller[l])
          => Written(thread'[t], l, applied'[l], controller'[l])
    BY <1>0, <1>1, <1>5, <1>6, <2>1 DEF Written, Recording, Masks, Inserting
  <2>3. ASSUME NEW m \in Lines, m # l
        PROVE  Written(thread[t], m, applied[m], controller[m])
                 => Written(thread'[t], m, applied'[m], controller'[m])
    BY <1>0, <1>1, <1>5, <1>6, <2>3 DEF Written, Recording, Masks, Inserting
  <2>. QED  BY <2>2, <2>3
<1>9. CASE t \in Callers
  <2>1. /\ thread[t].pc \in Applying /\ thread'[t].op = thread[t].op /\ thread'[t].id = thread[t].id
        /\ \A c : Enabling(thread[t], c) => Enabling(thread'[t], c)
    BY <1>0, <1>1, <1>5 DEF Enabling, Applying
  <2>2. ASSUME SettleOf(t)  PROVE SettleOf(t)'
    <3>1. SnapOk(thread[t]) /\ NeverFails(thread[t])
      BY <1>0, <2>2 DEF SettleOf, Busy, At
    <3>2. SnapOk(thread[t])'
      BY <1>1, <1>5 DEF SnapOk, Inserting, Restoring
    <3>3. NeverFails(thread[t])'
      BY <1>0, <1>1, <1>5, <3>1 DEF NeverFails, Applying, Asks
    <3>4. \A m \in Lines : Owes(t, thread[t], m) => Owes(t, thread'[t], m)
      BY <1>0, <1>1, <1>5 DEF Owes, Inserting, Restoring, Applying
    <3>5. Owes(t, thread'[t], l)
      BY <1>0, <1>1, <1>5 DEF Owes, Applying
    <3>6. \A m \in Lines : ~Offline(m)' => applied'[m] = desired'[m] \/ Owes(t, thread'[t], m)
      BY <1>5, <1>6, <2>2, <3>4, <3>5 DEF SettleOf, Offline
    <3>7. \A c \in Cpus \ online' : ~applied'[c]
      <4>1. ~Offline(l)
        BY <1>0, <1>3 DEF Visitor
      <4>2. \A c \in Cpus : c \in Lines /\ c # Global
        BY CpusAssumption, SMTT(30) DEF Lines, Global
      <4>. QED  BY <1>5, <1>6, <2>2, <4>1, <4>2 DEF SettleOf, Offline
    <3>. QED  BY <3>2, <3>3, <3>6, <3>7 DEF SettleOf
  <2>. QED  BY <1>3, <1>5, <1>7, <1>8, <1>9, <2>1, <2>2, SameActs, PlainKept
<1>10. CASE t \in Cpus
  <2>1. Owes(t, thread'[t], t)
    BY <1>0, <1>1, <1>4, <1>5, <1>10 DEF Owes, Applying
  <2>2. OfCpu(t) => OfCpu(t)'
    BY <1>0, <1>1, <1>4, <1>5, <1>10, <2>1 DEF OfCpu, At
  <2>3. thread'[t].pc \in BootPcs /\ thread[t].pc # "idle" /\ t \in Lines
    BY <1>0, <1>1, <1>5, <1>10 DEF BootPcs, Lines
  <2>. QED  BY <1>1, <1>3, <1>4, <1>5, <1>6, <1>7, <1>8, <1>10, <2>2, <2>3, CpuPlain
<1>. QED  BY <1>9, <1>10 DEF Threads

LEMMA AfterDropKept ==
    ASSUME IrqInv, IrqInv', LineInv, NEW t \in Callers, thread[t].pc \in {"detach", "drop"},
           Become(t, AfterDrop(t)), UNCHANGED <<present, applied, controller, online, errors>>,
           SameWants, \A j \in Ids : act'[j].pending = act[j].pending,
           thread[t].pc = "detach" => thread[t].id \notin Active(chain, act)
    PROVE  Kept
<1>0. t \in Threads /\ thread[t] \in ThreadRec
  BY ThreadFacts DEF Threads
<1>1. Moves(t) /\ thread'[t] = AfterDrop(t)
  BY <1>0, MovesBecome
<1>2. /\ ~present => NothingKept(thread'[t])
      /\ Visitor(t, thread'[t]) /\ thread'[t].pc \notin Applying
  BY <1>0, <1>1, AfterDropFields, AfterKept
<1>3. \A l \in Lines : Written(thread[t], l, applied[l], controller[l])
                         => Written(thread'[t], l, applied'[l], controller'[l])
  BY <1>0, <1>1, AfterDropFields DEF Written, Recording, Masks, Inserting
<1>4. \A c : Enabling(thread[t], c) => thread[t].pc = "detach"
  BY DEF Enabling, Applying
<1>5. ASSUME SettleOf(t)  PROVE SettleOf(t)'
  <2>1. NeverFails(thread[t])
    BY <1>5 DEF SettleOf, Busy, At
  <2>2. thread'[t].pc = "idle"
    BY <1>0, <1>1, <2>1, AfterDropFields DEF NeverFails
  <2>3. \A l \in Lines : ~Owes(t, thread[t], l)
    BY DEF Owes, Inserting, Restoring, Applying
  <2>4. UNCHANGED desired
    BY DEF SameWants
  <2>. QED  BY <1>5, <2>2, <2>3, <2>4, SettleSame
<1>. QED  BY <1>1, <1>2, <1>3, <1>4, <1>5, PlainKept

LEMMA DetachFields ==
    ASSUME IrqInv, NEW i \in Ids,
           act' = [act EXCEPT ![i].detached = TRUE, ![i].enabled = FALSE, ![i].pending = {}]
    PROVE  /\ act'[i].detached /\ ~act'[i].enabled /\ act'[i].scope = act[i].scope
           /\ \A j \in Ids : j # i => act'[j] = act[j]
<1> DEFINE new == [act[i] EXCEPT !.detached = TRUE, !.enabled = FALSE, !.pending = {}]
<1>1. act \in [Ids -> ActRec] /\ act[i] \in ActRec
  BY DEF IrqInv, IrqTypes
<1>2. new.detached /\ ~new.enabled /\ new.scope = act[i].scope
  BY <1>1, SMTT(30) DEF ActRec
<1>3. act' = [act EXCEPT ![i] = new]
  BY <1>1
<1> HIDE DEF new
<1>. QED  BY <1>1, <1>2, <1>3

LEMMA LinkedPresent ==
    ASSUME LineInv, Linked # {}
    PROVE  present
<1>1. chain = <<>> => Linked = {}
  BY SMTT(30) DEF Linked, Range
<1>. QED  BY <1>1 DEF LineInv, PresentInv

LEMMA DetachActionKept ==
    ASSUME IrqInv, IrqInv', LineInv, NEW t \in Threads, DetachAction(t)
    PROVE  Kept
<1>0. /\ thread[t] \in ThreadRec /\ Legal(t, thread[t]) /\ thread[t].pc = "detach" /\ t \in Callers
      /\ act \in [Ids -> ActRec] /\ Linked \subseteq Ids /\ thread[t].op \in {"free", "drop"}
  BY ThreadFacts, NotCpu, Pointers DEF DetachAction, At, BootPcs, IrqInv, IrqTypes, Legal
<1>1. PICK i : i = thread[t].id
  OBVIOUS
<1>2. UNCHANGED <<present, chain, applied, controller, online, errors>>
  BY DEF DetachAction, hardware
<1>3. Visitor(t, thread[t]) /\ DesiredInv
  BY DEF LineInv, VisitInv
<1>4. CASE i \in Active(chain, act)
  <2> DEFINE apply == [thread[t] EXCEPT !.pc = "apply", !.todo = act[i].scope]
             wait == [thread[t] EXCEPT !.pc = "wait"]
             r == IF thread[t].op = "free" THEN apply ELSE wait
  <2>1. /\ i \in Ids /\ i \in Linked /\ act[i].scope \in SUBSET Lines
        /\ Active(chain, act) \subseteq Ids
    BY <1>0, <1>4 DEF Active, Linked, ActRec
  <2>2. /\ act' = [act EXCEPT ![i].detached = TRUE, ![i].enabled = FALSE, ![i].pending = {}]
        /\ desired' = Recompute(chain', act', act[i].scope) /\ Become(t, r)
    BY <1>1, <1>2, <1>4 DEF DetachAction
  <2>3. /\ apply.pc = "apply" /\ apply.op = thread[t].op /\ apply.todo = act[i].scope
        /\ apply.ok = thread[t].ok /\ apply.k = thread[t].k /\ apply.req = thread[t].req
        /\ wait.pc = "wait" /\ wait.op = thread[t].op /\ wait.snap = thread[t].snap
        /\ wait.ok = thread[t].ok /\ wait.k = thread[t].k
    BY <1>0, SMTT(30) DEF ThreadRec
  <2>4. /\ thread[t].op = "free" => r = apply
        /\ thread[t].op = "drop" => r = wait
    BY <1>0
  <2>5. r.pc # "idle"
    BY <1>0, <2>3, <2>4
  <2> HIDE DEF r, apply, wait
  <2>6. Moves(t) /\ thread'[t] = r
    BY <1>0, <2>2, <2>5, MovesBecome
  <2>7. /\ act'[i].detached /\ ~act'[i].enabled /\ act'[i].scope = act[i].scope
        /\ \A j \in Ids : j # i => act'[j] = act[j]
    BY <2>1, <2>2, DetachFields
  <2>8. Active(chain, act)' = Active(chain, act) \ {i}
    BY <1>0, <1>2, <2>7 DEF Active, Linked
  <2>9. present
    BY <2>1, LinkedPresent
  <2>10. DesiredInv'
    <3>1. act[i].scope = {Global} \/ act[i].scope \subseteq Cpus
      BY <1>3, <2>1 DEF DesiredInv
    <3>2. \A j \in Ids : act'[j].scope = act[j].scope
      BY <2>7
    <3>3. \A j \in Ids : act'[j].scope = {Global} \/ act'[j].scope \subseteq Cpus
      BY <1>3, <3>2 DEF DesiredInv
    <3>4. \A j \in Active(chain, act)' : act'[j].scope = {Global} <=> act[i].scope = {Global}
      BY <1>4, <2>1, <2>8, <3>2 DEF IrqInv, Sharing
    <3>5. \A l \in Lines \ act[i].scope : (\E j \in Active(chain, act)' : WantedBy(l, j)')
                                           <=> (\E j \in Active(chain, act) : WantedBy(l, j))
      BY <2>1, <2>7, <2>8 DEF WantedBy
    <3>. QED  BY <1>3, <2>1, <2>2, <2>8, <3>1, <3>3, <3>4, <3>5, DesiredNext
  <2>11. Visitor(t, thread[t])'
    BY <1>0, <1>3, <2>3, <2>4, <2>6 DEF Visitor, Inserting, Applying
  <2>12. \A l \in Lines : Written(thread[t], l, applied[l], controller[l])
                            => Written(thread'[t], l, applied'[l], controller'[l])
    BY <1>0, <1>2, <2>3, <2>4, <2>6 DEF Written, Recording, Masks, Inserting
  <2>13. ASSUME PendingOf(t)  PROVE PendingOf(t)'
    <3>1. ASSUME NEW j \in Active(chain, act)', NEW c \in Cpus \ online', WantedBy(c, j)'
          PROVE  c \in act'[j].pending
      <4>1. j \in Active(chain, act) /\ j # i /\ j \in Ids /\ act'[j] = act[j]
        BY <2>1, <2>7, <2>8, <3>1
      <4>. QED  BY <1>1, <1>2, <2>13, <3>1, <4>1 DEF WantedBy, PendingOf
    <3>2. thread'[t].op \notin {"disable", "rollback"}
      BY <1>0, <2>3, <2>4, <2>6
    <3>. QED  BY <3>1, <3>2 DEF PendingOf
  <2>14. ASSUME SettleOf(t)  PROVE SettleOf(t)'
    <3>1. NeverFails(thread[t])
      BY <1>0, <2>14 DEF SettleOf, Busy, At
    <3>2. thread[t].op = "free" /\ r = apply /\ ~Asks(thread[t])
      BY <1>0, <2>4, <3>1 DEF NeverFails
    <3>3. \A l \in Lines \ act[i].scope : desired'[l] = desired[l]
      BY <2>2 DEF Recompute
    <3>4. SnapOk(thread[t])'
      BY <2>3, <2>6, <3>2 DEF SnapOk, Inserting, Restoring
    <3>5. NeverFails(thread[t])'
      BY <2>3, <2>6, <3>2 DEF NeverFails, Asks
    <3>6. \A l \in Lines : ~Owes(t, thread[t], l)
      BY <1>0 DEF Owes, Inserting, Restoring, Applying
    <3>7. \A l \in act[i].scope : Owes(t, thread'[t], l)
      BY <2>3, <2>6, <3>2 DEF Owes, Applying
    <3>. QED  BY <1>2, <2>14, <3>3, <3>4, <3>5, <3>6, <3>7 DEF SettleOf, Offline
  <2>. QED  BY <1>0, <1>2, <2>6, <2>9, <2>10, <2>11, <2>12, <2>13, <2>14, DriverKept
<1>5. CASE i \notin Active(chain, act)
  <2>1. Become(t, AfterDrop(t)) /\ UNCHANGED <<act, desired>>
    BY <1>1, <1>5 DEF DetachAction
  <2>2. SameWants /\ \A j \in Ids : act'[j].pending = act[j].pending
    BY <1>2, <2>1 DEF SameWants
  <2>. QED  BY <1>0, <1>1, <1>2, <1>5, <2>1, <2>2, AfterDropKept
<1>. QED  BY <1>4, <1>5

LEMMA RemoveActionKept ==
    ASSUME IrqInv, IrqInv', LineInv, NEW t \in Threads, RemoveAction(t)
    PROVE  Kept
<1> DEFINE r == [thread[t] EXCEPT !.pc = "drop"]
<1>0. /\ thread[t] \in ThreadRec /\ Legal(t, thread[t]) /\ thread[t].pc = "wait" /\ t \in Callers
      /\ thread[t].op \in {"free", "drop"}
  BY ThreadFacts, NotCpu DEF RemoveAction, At, BootPcs, Legal
<1>1. PICK i : i = thread[t].id
  OBVIOUS
<1>2. /\ UNCHANGED <<present, desired, applied, controller, online, errors, act>>
      /\ chain' = Unlink(i) /\ Become(t, r)
  BY <1>1 DEF RemoveAction, Goto, hardware
<1>3. /\ r.pc = "drop" /\ r.op = thread[t].op /\ r.snap = thread[t].snap /\ r.req = thread[t].req
      /\ r.ok = thread[t].ok /\ r.k = thread[t].k
  BY <1>0, SMTT(30) DEF ThreadRec
<1> HIDE DEF r
<1>4. Moves(t) /\ thread'[t] = r
  BY <1>0, <1>2, <1>3, MovesBecome
<1>5. i \in Linked /\ act[i].detached
  BY <1>0, <1>1 DEF IrqInv, FreeInv, Frees
<1>6. Active(chain, act)' = Active(chain, act)
  <2>1. Linked' = Linked \ {i}
    BY <1>2, <1>5, UnlinkOne DEF IrqInv, IrqTypes, Linked
  <2>. QED  BY <1>2, <1>5, <2>1 DEF Active, Linked
<1>7. present
  BY <1>5, LinkedPresent
<1>8. DesiredInv'
  BY <1>2, <1>6 DEF LineInv, DesiredInv, WantedBy
<1>9. Visitor(t, thread[t])'
  BY <1>3, <1>4 DEF LineInv, VisitInv, Visitor, Inserting, Applying
<1>10. \A l \in Lines : Written(thread[t], l, applied[l], controller[l])
                          => Written(thread'[t], l, applied'[l], controller'[l])
  BY <1>0, <1>2, <1>3, <1>4 DEF Written, Recording, Masks, Inserting
<1>11. PendingOf(t) => PendingOf(t)'
  BY <1>0, <1>2, <1>3, <1>4, <1>6 DEF PendingOf, WantedBy, Enabling, Applying
<1>12. ASSUME SettleOf(t)  PROVE SettleOf(t)'
  <2>1. SnapOk(thread[t])' /\ NeverFails(thread[t])'
    BY <1>0, <1>3, <1>4, <1>12
    DEF SettleOf, Busy, At, SnapOk, NeverFails, Asks, Inserting, Restoring, Applying
  <2>2. \A l \in Lines : ~Owes(t, thread[t], l)
    BY <1>0 DEF Owes, Inserting, Restoring, Applying
  <2>. QED  BY <1>2, <1>12, <2>1, <2>2, SettleSame
<1>. QED  BY <1>0, <1>2, <1>4, <1>7, <1>8, <1>9, <1>10, <1>11, <1>12, DriverKept

LEMMA DropActionKept ==
    ASSUME IrqInv, IrqInv', LineInv, NEW t \in Threads, DropAction(t)
    PROVE  Kept
<1>0. /\ thread[t].pc = "drop" /\ t \in Callers /\ act \in [Ids -> ActRec]
      /\ Legal(t, thread[t])
  BY ThreadFacts, NotCpu DEF DropAction, At, BootPcs, IrqInv, IrqTypes
<1>1. PICK i : i = thread[t].id
  OBVIOUS
<1>2. /\ UNCHANGED <<present, chain, desired, applied, controller, online, errors>>
      /\ act' = [act EXCEPT ![i].box = "freed"] /\ Become(t, AfterDrop(t))
  BY <1>1 DEF DropAction, hardware, lineVars
<1>3. i \in Ids
  BY <1>0, <1>1 DEF IrqInv, FreeInv, Frees, Legal
<1>4. SameWants /\ \A j \in Ids : act'[j].pending = act[j].pending
  <2> DEFINE new == [act[i] EXCEPT !.box = "freed"]
  <2>1. /\ new.scope = act[i].scope /\ new.enabled = act[i].enabled
        /\ new.detached = act[i].detached /\ new.pending = act[i].pending
    BY <1>0, <1>3, SMTT(30) DEF ActRec
  <2>2. act' = [act EXCEPT ![i] = new]
    BY <1>2
  <2> HIDE DEF new
  <2>3. \A j \in Ids : act'[j] = IF j = i THEN new ELSE act[j]
    BY <1>0, <2>2
  <2>. QED  BY <1>2, <2>1, <2>3 DEF SameWants
<1>. QED  BY <1>0, <1>2, <1>4, AfterDropKept

LEMMA SynchronizeKept ==
    ASSUME IrqInv, IrqInv', LineInv, NEW t \in Threads, Synchronize(t)
    PROVE  Kept
<1>0. thread[t].pc = "sync" /\ t \in Callers
  BY NotCpu DEF Synchronize, At, BootPcs
<1>1. /\ UNCHANGED <<lineVars, act, present, desired, applied, controller, online, errors>>
      /\ Become(t, Idle)
  BY DEF Synchronize, Return, hardware, lineVars
<1>2. Moves(t) /\ thread'[t] = Idle
  BY <1>0, <1>1, MovesBecome
<1>3. /\ NothingKept(thread'[t]) /\ Visitor(t, thread'[t]) /\ thread'[t].pc = "idle"
      /\ thread'[t].pc \notin Applying
  BY <1>2, IdleFields DEF NothingKept, Visitor, Inserting, Applying
<1>4. \A l \in Lines : Written(thread[t], l, applied[l], controller[l])
                         => Written(thread'[t], l, applied'[l], controller'[l])
  BY <1>0, <1>1, <1>3 DEF Written, Recording, Masks, Inserting
<1>5. \A c : ~Enabling(thread[t], c)
  BY <1>0 DEF Enabling, Applying
<1>6. SettleOf(t) => SettleOf(t)'
  <2>1. \A l \in Lines : ~Owes(t, thread[t], l)
    BY <1>0 DEF Owes, Inserting, Restoring, Applying
  <2>. QED  BY <1>1, <1>3, <2>1, SettleSame
<1>. QED  BY <1>0, <1>1, <1>2, <1>3, <1>4, <1>5, <1>6, SameActs, PlainKept

-----------------------------------------------------------------------------
(* Steps of a CPU that comes online *)

LEMMA CpuOnlineKept ==
    ASSUME IrqInv, IrqInv', LineInv, NEW c \in Cpus, CpuOnline(c)
    PROVE  Kept
<1> DEFINE r == [Idle EXCEPT !.op = "online", !.pc = "pending"]
<1>0. c \notin online /\ c \notin Boot /\ thread[c].pc = "idle" /\ c \in Threads /\ c \in Lines
  BY DEF CpuOnline, LineInv, CpuInv, Busy, At, Threads, Lines
<1>1. /\ UNCHANGED <<lineVars, act, present, desired, chain, applied, controller, errors>>
      /\ online' = online \cup {c} /\ Become(c, r)
  BY DEF CpuOnline, lineVars
<1>2. /\ r.pc = "pending" /\ r.op = "online" /\ r.todo = {} /\ r.was = {} /\ r.k = "idle"
  BY SMTT(30) DEF Idle
<1> HIDE DEF r
<1>3. Moves(c) /\ thread'[c] = r
  BY <1>0, <1>1, <1>2, MovesBecome
<1>4. SameWants /\ \A i \in Ids : act'[i].pending = act[i].pending
  BY <1>1, SameActs
<1>5. NothingKept(thread'[c]) /\ thread'[c].pc \in BootPcs /\ Visitor(c, thread[c])'
  BY <1>2, <1>3 DEF NothingKept, BootPcs, Visitor, Inserting, Applying
<1>6. Written(thread[c], c, applied[c], controller[c])
        => Written(thread'[c], c, applied'[c], controller'[c])
  BY <1>0, <1>1, <1>2, <1>3 DEF Written, Recording, Masks, Inserting
<1>7. OfCpu(c) => OfCpu(c)'
  <2>1. Owes(c, thread'[c], c)
    BY <1>2, <1>3 DEF Owes
  <2>2. Active(chain, act)' = Active(chain, act) /\ \A i : WantedBy(c, i)' = WantedBy(c, i)
    BY <1>1 DEF Active, WantedBy
  <2>. QED  BY <1>0, <1>1, <2>1, <2>2 DEF OfCpu
<1>. QED  BY <1>0, <1>1, <1>2, <1>3, <1>4, <1>5, <1>6, <1>7, CpuKept

LEMMA PendingEnablesKept ==
    ASSUME IrqInv, IrqInv', LineInv, NEW c \in Cpus, PendingEnables(c)
    PROVE  Kept
<1> DEFINE apply == [thread[c] EXCEPT !.pc = "apply", !.todo = {c}]
<1>0. thread[c].pc = "pending" /\ c \in Threads /\ c \in Lines /\ thread[c] \in ThreadRec
  BY ThreadFacts DEF PendingEnables, At, Threads, Lines
<1>1. UNCHANGED <<lineVars, act, online>> /\ UNCHANGED <<desired, applied, controller, errors>>
  BY DEF PendingEnables, lineVars, hardware
<1>2. /\ c \in online /\ thread[c].op = "online" /\ Visitor(c, thread[c])
      /\ ~present => NothingKept(thread[c])
  BY <1>0, CpuFacts
<1>3. CASE \E i \in Active(chain, act) : c \in act[i].pending /\ ActionMatchesCpu(act[i].scope, c)
  <2>1. Become(c, apply)
    BY <1>3 DEF PendingEnables
  <2>2. /\ apply.pc = "apply" /\ apply.op = thread[c].op /\ apply.todo = {c}
        /\ apply.was = thread[c].was /\ apply.ok = thread[c].ok /\ apply.k = thread[c].k
    BY <1>0, SMTT(30) DEF ThreadRec
  <2> HIDE DEF apply
  <2>3. Moves(c) /\ thread'[c] = apply
    BY <1>0, <2>1, MovesBecome
  <2>4. /\ ~present => NothingKept(thread'[c])
        /\ thread'[c].pc \in BootPcs /\ Visitor(c, thread'[c])
    BY <1>2, <2>2, <2>3, CpusAssumption DEF NothingKept, BootPcs, Visitor, Inserting, Applying
  <2>5. Written(thread[c], c, applied[c], controller[c])
          => Written(thread'[c], c, applied'[c], controller'[c])
    BY <1>0, <1>1, <2>2, <2>3 DEF Written, Recording, Masks, Inserting
  <2>6. OfCpu(c)'
    BY <1>1, <1>2, <2>2, <2>3 DEF OfCpu, Owes, Applying, At
  <2>. QED  BY <1>0, <1>1, <1>2, <2>2, <2>3, <2>4, <2>5, <2>6, CpuPlain
<1>4. CASE ~\E i \in Active(chain, act) : c \in act[i].pending /\ ActionMatchesCpu(act[i].scope, c)
  <2>1. Become(c, Idle)
    BY <1>4 DEF PendingEnables, Return
  <2>2. Moves(c) /\ thread'[c] = Idle
    BY <1>0, <2>1, MovesBecome
  <2>3. /\ thread'[c].pc \in BootPcs /\ NothingKept(thread'[c]) /\ Visitor(c, thread'[c])
        /\ thread'[c].pc = "idle"
    BY <2>2, IdleFields DEF NothingKept, BootPcs, Visitor, Inserting, Applying
  <2>4. Written(thread[c], c, applied[c], controller[c])
          => Written(thread'[c], c, applied'[c], controller'[c])
    BY <1>0, <1>1, <2>3 DEF Written, Recording, Masks, Inserting
  <2>5. ASSUME OfCpu(c)  PROVE OfCpu(c)'
    <3>1. ~applied[c] /\ \A i \in Active(chain, act) : ~WantedBy(c, i)
      BY <1>0, <1>4, <2>5 DEF OfCpu, At, WantedBy, ActionMatchesCpu
    <3>2. ~desired[c]
      BY <1>0, <3>1 DEF LineInv, DesiredInv
    <3>3. applied[c] = desired[c]
      BY <1>0, <3>1, <3>2 DEF IrqInv, IrqTypes
    <3>. QED  BY <1>1, <1>2, <2>3, <3>3 DEF OfCpu, At
  <2>. QED  BY <1>0, <1>1, <2>2, <2>3, <2>4, <2>5, CpuPlain
<1>. QED  BY <1>3, <1>4

LEMMA ClearPendingKept ==
    ASSUME IrqInv, IrqInv', LineInv, NEW c \in Cpus, ClearPending(c)
    PROVE  Kept
<1>0. thread[c].pc = "clear" /\ c \in Threads /\ c \in Lines /\ act \in [Ids -> ActRec]
  BY DEF ClearPending, At, Threads, Lines, IrqInv, IrqTypes
<1>1. /\ UNCHANGED <<lineVars, present, chain, desired, online, applied, controller, errors>>
      /\ Become(c, Idle)
  BY DEF ClearPending, Return, lineVars, hardware
<1>2. c \in online \ Boot /\ online \cup {c} = online
  BY <1>0, CpuFacts
<1>3. Moves(c) /\ thread'[c] = Idle
  BY <1>0, <1>1, MovesBecome
<1>4. /\ thread'[c].pc \in BootPcs /\ NothingKept(thread'[c]) /\ Visitor(c, thread[c])'
      /\ thread'[c].pc = "idle"
  BY <1>3, IdleFields DEF NothingKept, BootPcs, Visitor, Inserting, Applying
<1>5. SameWants /\ \A i \in Ids : act[i].pending \ {c} \subseteq act'[i].pending
  <2>1. ASSUME NEW i \in Ids
        PROVE  /\ act'[i].scope = act[i].scope /\ act'[i].enabled = act[i].enabled
               /\ act'[i].detached = act[i].detached /\ act[i].pending \ {c} \subseteq act'[i].pending
    <3>1. act'[i] = act[i] \/ act'[i] = [act[i] EXCEPT !.pending = @ \ {c}]
      BY DEF ClearPending
    <3>2. CASE act'[i] = [act[i] EXCEPT !.pending = @ \ {c}]
      BY <1>0, <3>2, SMTT(30) DEF ActRec
    <3>. QED  BY <3>1, <3>2
  <2>. QED  BY <1>1, <2>1 DEF SameWants
<1>6. Written(thread[c], c, applied[c], controller[c])
        => Written(thread'[c], c, applied'[c], controller'[c])
  BY <1>0, <1>1, <1>4 DEF Written, Recording, Masks, Inserting
<1>7. OfCpu(c) => OfCpu(c)'
  <2>1. ~Owes(c, thread[c], c)
    BY <1>0 DEF Owes, Inserting, Restoring, Applying
  <2>. QED  BY <1>1, <1>2, <1>4, <2>1 DEF OfCpu, At
<1>. QED  BY <1>1, <1>2, <1>3, <1>4, <1>5, <1>6, <1>7, CpuKept

-----------------------------------------------------------------------------
(* Steps of a dispatch *)

LEMMA DispatchKept ==
    ASSUME IrqInv, LineInv, NEW c \in Cpus, TakeInterrupt(c) \/ DispatchStep(c)
    PROVE  Kept
<1>1. UNCHANGED <<lineVars, applied, hardware, thread>>
  BY DEF TakeInterrupt, DispatchStep, BeginDispatch, VisitAction, EnterAction, LeaveAction,
         EndDispatch
<1>2. UNCHANGED <<present, chain, desired, applied, controller, online, errors, thread>>
  BY <1>1 DEF lineVars, hardware
<1>3. \/ UNCHANGED act
      \/ \E i \in Linked, v \in BOOLEAN : act' = [act EXCEPT ![i].running = v]
  <2>1. disp[c].pc \in {"enter", "run"} => disp[c].at \in Linked
    BY DEF IrqInv, DispatchInv
  <2>2. CASE EnterAction(c)
    <3>1. PICK v \in BOOLEAN : v = (act[disp[c].at].execution = "NonReentrant")
      OBVIOUS
    <3>. QED  BY <2>1, <2>2, <3>1 DEF EnterAction
  <2>3. CASE LeaveAction(c)
    BY <2>1, <2>3 DEF LeaveAction
  <2>. QED  BY <2>2, <2>3 DEF TakeInterrupt, DispatchStep, BeginDispatch, VisitAction, EndDispatch
<1>4. \A i \in Ids : /\ act'[i].scope = act[i].scope /\ act'[i].enabled = act[i].enabled
                     /\ act'[i].detached = act[i].detached /\ act'[i].pending = act[i].pending
  <2>1. Linked \subseteq Ids
    BY Pointers DEF IrqInv, IrqTypes
  <2>. QED  BY <1>3, <2>1, SetRunning
<1>. QED  BY <1>2, <1>4, AsideKept DEF SameWants

-----------------------------------------------------------------------------
(* At the start nothing is recorded and nothing is enabled *)

LEMMA InitLines ==
    Init => LineInv /\ (\A l \in Lines : AppliedAt(l)) /\ PendingInv /\ SettleInv
<1> SUFFICES ASSUME Init
             PROVE  LineInv /\ (\A l \in Lines : AppliedAt(l)) /\ PendingInv /\ SettleInv
  OBVIOUS
<1>1. \A t \in Threads : thread[t] = Idle /\ thread[t].pc = "idle" /\ ~Busy(t)
  BY IdleFields DEF Init, Busy, At
<1>2. Active(chain, act) = {} /\ \A l \in Lines : ~desired[l] /\ ~applied[l]
  <2>1. Range(chain) = {}
    BY SMTT(30) DEF Init, Range
  <2>. QED  BY <2>1 DEF Init, Active
<1>3. \A l \in Lines : applied[l] = desired[l] /\ applied[l] = controller[l]
  BY DEF Init
<1>4. \A l \in Lines : MayWrite(l) \subseteq Threads
  BY DEF MayWrite, Threads
<1>5. CpuInv
  BY <1>1 DEF Init, CpuInv, BootPcs, Threads
<1>6. PresentInv
  <2>1. \A t \in Threads : NothingKept(thread[t])
    BY <1>1, IdleFields DEF NothingKept
  <2>. QED  BY <1>2, <2>1 DEF Init, PresentInv
<1>7. DesiredInv
  <2>1. \A i \in Ids : act[i].scope = {}
    BY DEF Init, NoAction
  <2>. QED  BY <1>2, <2>1 DEF DesiredInv
<1>8. VisitInv
  BY <1>1, IdleFields DEF VisitInv, Visitor, Inserting, Applying
<1>9. \A l \in Lines : AppliedAt(l)
  BY <1>1, <1>3, <1>4 DEF AppliedAt
<1>10. PendingInv
  BY <1>1, <1>2 DEF PendingInv, Applying, Threads
<1>11. SettleInv
  BY <1>1, <1>2, <1>3 DEF SettleInv, SettleAt, Threads, Lines
<1>. QED  BY <1>5, <1>6, <1>7, <1>8, <1>9, <1>10, <1>11 DEF LineInv
=============================================================================
