------------------------- MODULE CgroupPids_proofs --------------------------
(*****************************************************************************)
(* Proofs about CgroupPids, for every hierarchy and every set of identities. *)
(* First, type correctness, the invariants that tie the fork guards and the  *)
(* exit transactions to the ledger and its lock (ChargeInv, ForkInv, TxnInv),*)
(* and that the directories named by guards, ledger and processes are alive  *)
(* (PathInv, LiveInv).  Then, the ledger, the thread groups, the process     *)
(* membership and cgroup.procs agree (CloneInv, GroupInv, MemberInv), so     *)
(* that neither exit nor execve ever finds an entry that it does not expect. *)
(* Last, pids.current of every cgroup is the number of the tasks charged to  *)
(* it, and a fork takes it above no limit that it could see.                 *)
(*****************************************************************************)
EXTENDS CgroupPids, FiniteSetTheorems, TLAPS

(* A step that names no prover is tried with Zenon, then with SMT. *)
USE ZenonT(30), SMTT(30)

\* A fork that takes the ledger lock keeps the types.
LEMMA BeginType ==
    ASSUME TypeOK, NEW c \in Ids, NEW t \in Ids, NEW p \in Ids,
           NEW kind \in {"Process", "Thread"}, NEW target \in Nodes,
           NEW locked \in Ids \cup {None}, BeginTaskAt(c, t, p, kind, target, locked)
    PROVE  TypeOK'
<1> DEFINE process == IF kind = "Process" THEN t ELSE p
           g == [publication |-> "Charging", kind |-> kind, process |-> process,
                 cgroup |-> target, path |-> {}, by |-> c]
<1>1. Ancestry(target) \in SUBSET Nodes
  BY HierarchyAssumption DEF Ancestry
<1>2. process \in Ids
  OBVIOUS
<1>3. /\ guard' = [guard EXCEPT ![t] = g]
      /\ charge' = [NoCharge EXCEPT !.step = "current", !.task = t, !.locked = locked,
                                    !.todo = Ancestry(target)]
      /\ UNCHANGED <<nodeVars, pidsVars, pending, tasks, procVars>>
  BY DEF BeginTaskAt
<1>4. g \in Guard
  <2> HIDE DEF process
  <2>. QED  BY <1>2 DEF Guard, Publication
<1>5. guard' \in [Ids -> Guard]
  <2> HIDE DEF g
  <2>. QED  BY <1>3, <1>4 DEF TypeOK
<1>6. charge' \in Charge
  <2>1. 0 \in Int /\ 0 \in Nat
    BY SMTT(30)
  <2>. QED  BY <1>1, <1>3, <2>1, ZenonT(30) DEF Charge, NoCharge
<1>. QED  BY <1>3, <1>5, <1>6 DEF TypeOK, nodeVars, pidsVars, procVars

\* The steps of a charge keep the types.
LEMMA ChargingType ==
    ASSUME TypeOK, NEW n \in Nodes, Charging(n)
    PROVE  TypeOK'
<1> DEFINE t == charge.task
<1>a. /\ charge \in Charge /\ NoCharge \in Charge /\ NoGuard \in Guard
      /\ current[n] \in Int /\ maximum[n] \in Nat /\ 0 \in Int /\ 0 \in Nat
  BY HierarchyAssumption, SMTT(30)
     DEF TypeOK, Charge, NoCharge, NoGuard, Guard, Publication
<1>1. CASE LoadCurrent(n)
  <2>1. charge' \in Charge
    BY <1>1, <1>a, ZenonT(30) DEF LoadCurrent, Charge
  <2>. QED  BY <1>1, <2>1 DEF LoadCurrent, TypeOK, nodeVars, pidsVars, procVars
<1>2. CASE LoadMaximum(n)
  <2>1. charge' \in Charge
    BY <1>2, <1>a, ZenonT(30) DEF LoadMaximum, Charge
  <2>. QED  BY <1>2, <2>1 DEF LoadMaximum, TypeOK, nodeVars, pidsVars, procVars
<1>3. CASE ExchangeFails(n)
  <2>1. charge' \in Charge
    BY <1>3, <1>a, ZenonT(30) DEF ExchangeFails, Charge
  <2>. QED  BY <1>3, <2>1 DEF ExchangeFails, TypeOK, nodeVars, pidsVars, procVars
<1>4. CASE ChargeFails(n)
  <2> DEFINE failed == {m \in charge.todo : HasParent(m) /\ maxEvents[m] < MaxEvents}
  <2>1. /\ current' = Charged(guard[t].path, -1)
        /\ maxEvents' = [m \in Nodes |-> IF m \in failed THEN maxEvents[m] + 1 ELSE maxEvents[m]]
        /\ guard' = [guard EXCEPT ![t] = NoGuard] /\ charge' = NoCharge
        /\ UNCHANGED <<nodeVars, maximum, pending, tasks, procVars>>
    BY <1>4 DEF ChargeFails
  <2> HIDE DEF failed, t
  <2>2. current' \in [Nodes -> Int]
    BY <2>1, SMTT(30) DEF Charged, TypeOK
  <2>3. maxEvents' \in [Nodes -> Nat]
    BY <2>1, SMTT(30) DEF TypeOK
  <2>4. guard' \in [Ids -> Guard]
    BY <2>1, <1>a DEF TypeOK
  <2>. QED  BY <1>a, <2>1, <2>2, <2>3, <2>4 DEF TypeOK, nodeVars, procVars
<1>5. CASE Exchange(n)
  <2> DEFINE last == charge.todo = {n}
  <2>1. /\ current' = [current EXCEPT ![n] = @ + 1]
        /\ guard' = [guard EXCEPT ![t].path = @ \cup {n},
                                  ![t].publication = IF last THEN "Prepared" ELSE @]
        /\ pending' = IF last THEN [pending EXCEPT ![t] = guard[t].process] ELSE pending
        /\ charge' = IF last THEN NoCharge
                     ELSE [charge EXCEPT !.step = "current", !.todo = @ \ {n},
                                         !.seen = 0, !.limit = 0]
        /\ UNCHANGED <<nodeVars, maximum, maxEvents, tasks, procVars>>
    BY <1>5 DEF Exchange
  <2>2. charge' \in Charge
    <3>1. charge.todo \ {n} \in SUBSET Nodes
      BY <1>a DEF Charge
    <3>2. [charge EXCEPT !.step = "current", !.todo = @ \ {n}, !.seen = 0, !.limit = 0] \in Charge
      BY <1>a, <3>1, ZenonT(30) DEF Charge
    <3>. QED  BY <1>a, <2>1, <3>2
  <2> HIDE DEF last, t
  <2>3. current' \in [Nodes -> Int]
    BY <2>1, <1>a, SMTT(30) DEF TypeOK
  <2>4. \A g \in Guard : [g EXCEPT !.path = @ \cup {n},
                                   !.publication = IF last THEN "Prepared" ELSE @] \in Guard
    <3> SUFFICES ASSUME NEW g \in Guard
                 PROVE  [g EXCEPT !.path = @ \cup {n},
                                  !.publication = IF last THEN "Prepared" ELSE @] \in Guard
      OBVIOUS
    <3>1. /\ g.path \cup {n} \in SUBSET Nodes
          /\ (IF last THEN "Prepared" ELSE g.publication) \in Publication
      BY DEF Guard, Publication
    <3>. QED  BY <3>1, ZenonT(30) DEF Guard
  <2>5. guard' \in [Ids -> Guard]
    BY <2>1, <2>4 DEF TypeOK
  <2>6. \A i \in Ids : guard[i].process \in Ids \cup {None}
    BY DEF TypeOK, Guard
  <2>7. pending' \in [Ids -> Ids \cup {None}]
    BY <2>1, <2>6 DEF TypeOK
  <2>. QED  BY <2>1, <2>2, <2>3, <2>5, <2>7 DEF TypeOK, nodeVars, procVars
<1>. QED  BY <1>1, <1>2, <1>3, <1>4, <1>5 DEF Charging

\* Every step keeps every variable in its type.
LEMMA TypeStep == TypeOK /\ [Next]_vars => TypeOK'
<1> SUFFICES ASSUME TypeOK, [Next]_vars
             PROVE  TypeOK'
  OBVIOUS
<1>a. NoTask \in Task /\ NoGuard \in Guard /\ NoProc \in Proc
  BY HierarchyAssumption DEF NoTask, Task, NoGuard, Guard, Publication, NoProc, Proc
<1>b. \A i \in Ids : /\ guard[i] \in Guard /\ tasks[i] \in Task /\ procs[i] \in Proc
                     /\ guard[i].cgroup \in Nodes /\ guard[i].path \in SUBSET Nodes
                     /\ guard[i].process \in Ids \cup {None}
                     /\ tasks[i].cgroup \in Nodes /\ procs[i].cgroup \in Nodes
  BY DEF TypeOK, Guard, Task, Proc
<1>c. \A g \in Guard : /\ \A x \in Publication : [g EXCEPT !.publication = x] \in Guard
                       /\ \A q \in SUBSET Nodes : [g EXCEPT !.path = q] \in Guard
  BY DEF Guard
<1>d. /\ \A x \in Task, n \in Nodes : [x EXCEPT !.cgroup = n] \in Task
      /\ \A x \in Proc, n \in Nodes : [x EXCEPT !.cgroup = n] \in Proc
      /\ \A x \in Proc : [x EXCEPT !.state = "Exited"] \in Proc
  BY DEF Task, Proc
<1>e. {"Prepared", "Published", "Member", "Uncharge"} \subseteq Publication
  BY DEF Publication
<1>0. CASE UNCHANGED vars
  BY <1>0 DEF vars, nodeVars, pidsVars, ledgerVars, procVars, TypeOK
<1>1. ASSUME NEW c \in Ids, NEW t \in Ids, NEW kind \in {"Process", "Thread"}, BeginTask(c, t, kind)
      PROVE  TypeOK'
  <2>1. PICK p \in Ids : BeginTaskAt(c, t, p, kind, procs[p].cgroup, p)
    BY <1>1 DEF BeginTask
  <2>. QED  BY <1>b, <2>1, BeginType
<1>2. ASSUME NEW c \in Ids, NEW t \in Ids, NEW target \in Nodes, BeginProcessAt(c, t, target)
      PROVE  TypeOK'
  BY <1>2, BeginType DEF BeginProcessAt
<1>3. ASSUME NEW t \in Ids, Publish(t)
      PROVE  TypeOK'
  <2>1. guard' \in [Ids -> Guard]
    BY <1>3, <1>b, <1>c, <1>e DEF Publish, TypeOK
  <2>2. [process |-> guard[t].process, cgroup |-> guard[t].cgroup] \in Task
    BY <1>b DEF Task
  <2>3. tasks' \in [Ids -> Task]
    BY <1>3, <2>2 DEF Publish, TypeOK
  <2>4. members' \in [Nodes -> SUBSET Ids]
    BY <1>3, <1>b DEF Publish, TypeOK
  <2>. QED  BY <1>3, <2>1, <2>3, <2>4 DEF Publish, TypeOK, pidsVars, procVars
<1>4. ASSUME NEW t \in Ids, PublishClone(t)
      PROVE  TypeOK'
  <2>1. [state |-> "Active", cgroup |-> guard[t].cgroup] \in Proc
    BY <1>b DEF Proc
  <2>2. procs' \in [Ids -> Proc]
    BY <1>4, <2>1 DEF PublishClone, TypeOK
  <2>3. group' \in [Ids -> SUBSET Ids]
    BY <1>4 DEF PublishClone, TypeOK
  <2>. QED  BY <1>4, <2>2, <2>3 DEF PublishClone, TypeOK, nodeVars, pidsVars, ledgerVars
<1>5. ASSUME NEW t \in Ids, Commit(t)
      PROVE  TypeOK'
  BY <1>5, <1>a DEF Commit, TypeOK, nodeVars, pidsVars
<1>6. ASSUME NEW t \in Ids, DropLedger(t)
      PROVE  TypeOK'
  <2>1. guard' \in [Ids -> Guard]
    BY <1>6, <1>b, <1>c, <1>e DEF DropLedger, TypeOK
  <2>. QED  BY <1>6, <1>a, <2>1 DEF DropLedger, TypeOK, nodeVars, pidsVars, procVars
<1>7. ASSUME NEW t \in Ids, DropMember(t)
      PROVE  TypeOK'
  <2>1. guard' \in [Ids -> Guard]
    BY <1>7, <1>b, <1>c, <1>e DEF DropMember, TypeOK
  <2>2. members' \in [Nodes -> SUBSET Ids]
    BY <1>7, <1>b DEF DropMember, TypeOK
  <2>. QED  BY <1>7, <2>1, <2>2 DEF DropMember, TypeOK, pidsVars, procVars
<1>8. ASSUME NEW t \in Ids, DropUncharge(t)
      PROVE  TypeOK'
  <2>1. PICK n \in guard[t].path :
           /\ current' = [current EXCEPT ![n] = @ - 1]
           /\ guard' = [guard EXCEPT ![t] = IF guard[t].path = {n} THEN NoGuard
                                            ELSE [guard[t] EXCEPT !.path = @ \ {n}]]
    BY <1>8 DEF DropUncharge
  <2>2. [guard[t] EXCEPT !.path = @ \ {n}] \in Guard
    BY <1>b DEF Guard
  <2>3. guard' \in [Ids -> Guard]
    BY <1>a, <2>1, <2>2 DEF TypeOK
  <2>4. current' \in [Nodes -> Int]
    BY <1>b, <2>1, SMTT(30) DEF TypeOK
  <2>. QED  BY <1>8, <2>3, <2>4 DEF DropUncharge, TypeOK, nodeVars, procVars
<1>9. ASSUME NEW p \in Ids, NEW target \in Nodes, Migrate(p, target)
      PROVE  TypeOK'
  <2> DEFINE count == Cardinality(Tasks(p))
             up == Ancestry(target) \ Ancestry(procs[p].cgroup)
             down == Ancestry(procs[p].cgroup) \ Ancestry(target)
  <2>1. count \in Nat
    <3>1. IsFiniteSet(Tasks(p))
      BY IdsAssumption, FS_Subset DEF Tasks
    <3>. QED  BY <3>1, FS_CardinalityType
  <2>3. current' \in [Nodes -> Int]
    <3>1. current' = [n \in Nodes |-> current[n] + (IF n \in up THEN count ELSE 0)
                                                 - (IF n \in down THEN count ELSE 0)]
      BY <1>9 DEF Migrate
    <3> HIDE DEF up, down, count
    <3>. QED  BY <3>1, <2>1, SMTT(30) DEF TypeOK
  <2>4. tasks' \in [Ids -> Task]
    BY <1>9, <1>b, <1>d DEF Migrate
  <2>5. members' \in [Nodes -> SUBSET Ids]
    BY <1>9, <1>b DEF Migrate, TypeOK
  <2>6. procs' \in [Ids -> Proc]
    BY <1>9, <1>b, <1>d DEF Migrate, TypeOK
  <2>. QED  BY <1>9, <2>3, <2>4, <2>5, <2>6 DEF Migrate, TypeOK
<1>10. ASSUME NEW t \in Ids, ExitThread(t)
       PROVE  TypeOK'
  BY <1>10, SMTT(30) DEF ExitThread, TypeOK, nodeVars, pidsVars, ledgerVars
<1>11. ASSUME NEW t \in Ids, ExitTask(t)
       PROVE  TypeOK'
  <2>1. PICK p \in Ids :
           /\ members' = IF group[p] = {}
                         THEN [members EXCEPT ![tasks[t].cgroup] = @ \ {p}] ELSE members
           /\ procs' = IF group[p] = {} THEN [procs EXCEPT ![p].state = "Exited"] ELSE procs
           /\ txn' = [txn EXCEPT ![p] = None]
    BY <1>11 DEF ExitTask
  <2>2. procs' \in [Ids -> Proc]
    BY <2>1, <1>b, <1>d DEF TypeOK
  <2>3. members' \in [Nodes -> SUBSET Ids] /\ txn' \in [Ids -> Ids \cup {None}]
    BY <2>1, <1>b DEF TypeOK
  <2>4. current' \in [Nodes -> Int]
    BY <1>11, SMTT(30) DEF ExitTask, Charged, TypeOK
  <2>5. tasks' \in [Ids -> Task] /\ thread' \in [Ids -> {"none", "run", "exiting"}]
    BY <1>11, <1>a, SMTT(30) DEF ExitTask, TypeOK
  <2>. QED  BY <1>11, <2>2, <2>3, <2>4, <2>5, SMTT(30) DEF ExitTask, TypeOK
<1>12. ASSUME NEW p \in Ids, NEW c \in Ids, DeThread(p, c)
       PROVE  TypeOK'
  <2>1. tasks' \in [Ids -> Task]
    BY <1>12, <1>a, <1>b DEF DeThread, TypeOK
  <2>2. group' \in [Ids -> SUBSET Ids] /\ thread' \in [Ids -> {"none", "run", "exiting"}]
    BY <1>12 DEF DeThread, TypeOK
  <2>. QED  BY <1>12, <2>1, <2>2 DEF DeThread, TypeOK, nodeVars, pidsVars
<1>13. ASSUME NEW p \in Ids, Reap(p)
       PROVE  TypeOK'
  BY <1>13, <1>a DEF Reap, TypeOK, nodeVars, pidsVars, ledgerVars
<1>14. ASSUME NEW n \in Nodes, CreateChild(n) \/ RemoveChild(n)
       PROVE  TypeOK'
  BY <1>14 DEF CreateChild, RemoveChild, TypeOK, pidsVars, ledgerVars, procVars
<1>15. ASSUME NEW n \in Nodes, Reclaim(n)
       PROVE  TypeOK'
  <2>1. nstate' \in [Nodes -> {"absent", "linked", "unlinked", "freed"}]
    BY <1>15 DEF Reclaim, TypeOK
  <2>. QED  BY <1>15, <2>1 DEF Reclaim, TypeOK, pidsVars, ledgerVars, procVars
<1>16. ASSUME NEW n \in Nodes, WriteSubtreeControl(n) \/ Pin(n) \/ Unpin(n)
       PROVE  TypeOK'
  <2>1. subtree' \in [Nodes -> BOOLEAN]
    BY <1>16 DEF WriteSubtreeControl, Pin, Unpin, TypeOK
  <2>2. pins' \in [Nodes -> Nat]
    <3>1. CASE WriteSubtreeControl(n)
      BY <3>1 DEF WriteSubtreeControl, TypeOK
    <3>2. CASE Pin(n)
      BY <3>2, SMTT(30) DEF Pin, TypeOK
    <3>3. CASE Unpin(n)
      <4>1. pins[n] \in Nat /\ pins[n] > 0 /\ pins' = [pins EXCEPT ![n] = pins[n] - 1]
        BY <3>3 DEF Unpin, TypeOK
      <4>2. pins[n] - 1 \in Nat
        BY <4>1, SMTT(30)
      <4>. QED  BY <4>1, <4>2 DEF TypeOK
    <3>. QED  BY <1>16, <3>1, <3>2, <3>3
  <2>. QED
    BY <1>16, <2>1, <2>2 DEF WriteSubtreeControl, Pin, Unpin, TypeOK, pidsVars, ledgerVars, procVars
<1>17. ASSUME NEW n \in Nodes, NEW max \in Limits \cup {Unlimited}, WritePidsMax(n, max)
       PROVE  TypeOK'
  BY <1>17, BoundsAssumption DEF WritePidsMax, TypeOK, nodeVars, ledgerVars, procVars
<1>18. ASSUME NEW n \in Nodes, Charging(n)
       PROVE  TypeOK'
  BY <1>18, ChargingType
<1>. QED
  BY <1>0, <1>1, <1>2, <1>3, <1>4, <1>5, <1>6, <1>7, <1>8, <1>9, <1>10, <1>11, <1>12,
     <1>13, <1>14, <1>15, <1>16, <1>17, <1>18 DEF Next, Fork, Process, Directory

\* Type correctness: in every reachable state of every hierarchy the variables
\* of the model have their types.
THEOREM TypeCorrect == Spec => []TypeOK
<1>1. Init => TypeOK
  BY HierarchyAssumption, IdsAssumption, BoundsAssumption, SMTT(30)
     DEF Init, TypeOK, Task, Guard, Publication, Proc, Charge, NoTask, NoGuard, NoProc, NoCharge
<1>. QED  BY <1>1, TypeStep, PTL DEF Spec

-----------------------------------------------------------------------------
(* The charge of a fork *)

\* What a step of a charge does for the fork t that holds the ledger lock: it
\* moves on without an effect, takes everything back, or charges a node.
ChargeWaits(t) ==
    /\ UNCHANGED <<current, pending, guard>>
    /\ charge'.task = t /\ charge'.todo = charge.todo

ChargeUndone(t) ==
    /\ current' = Charged(guard[t].path, -1)
    /\ guard' = [guard EXCEPT ![t] = NoGuard]
    /\ charge' = NoCharge /\ UNCHANGED pending

ChargeGrows(t, n) ==
    /\ current' = [current EXCEPT ![n] = @ + 1]
    /\ guard'[t].path = guard[t].path \cup {n}
    /\ guard'[t].kind = guard[t].kind /\ guard'[t].process = guard[t].process
    /\ guard'[t].cgroup = guard[t].cgroup /\ guard'[t].by = guard[t].by
    /\ \/ /\ guard'[t].publication = "Charging" /\ UNCHANGED pending
          /\ charge'.task = t /\ charge'.todo = charge.todo \ {n}
       \/ /\ guard'[t].publication = "Prepared"
          /\ pending' = [pending EXCEPT ![t] = guard[t].process]
          /\ charge' = NoCharge /\ charge.todo = {n}

ChargeOf(t, n) ==
    /\ charge.task = t /\ guard[t].publication = "Charging"
    /\ n \in charge.todo /\ n \notin guard[t].path
    /\ UNCHANGED <<nodeVars, maximum, tasks, procVars>>
    /\ \A i \in Ids \ {t} : guard'[i] = guard[i] /\ pending'[i] = pending[i]
    /\ ChargeWaits(t) \/ ChargeUndone(t) \/ ChargeGrows(t, n)

LEMMA ChargingEffect ==
    ASSUME TypeOK, ChargeInv, NEW n \in Nodes, Charging(n)
    PROVE  \E t \in Ids : ChargeOf(t, n)
<1>1. charge.step # "free" /\ n \in charge.todo
  BY SMTT(30) DEF Charging, LoadCurrent, LoadMaximum, ChargeFails, Exchange, ExchangeFails, NextUp
<1>2. charge.task \in Ids
  BY <1>1 DEF TypeOK, Charge, ChargeInv
<1>3. PICK t \in Ids : charge.task = t
  BY <1>2
<1>4. guard[t].publication = "Charging" /\ n \notin guard[t].path
  BY <1>1, <1>3 DEF ChargeInv
<1>5. charge \in Charge /\ guard \in [Ids -> Guard] /\ pending \in [Ids -> Ids \cup {None}]
  BY DEF TypeOK
<1>6. CASE LoadCurrent(n) \/ LoadMaximum(n) \/ ExchangeFails(n)
  <2>1. /\ UNCHANGED <<nodeVars, maximum, tasks, procVars>>
        /\ UNCHANGED <<current, pending, guard>>
    BY <1>6 DEF LoadCurrent, LoadMaximum, ExchangeFails, pidsVars
  <2>2. charge'.task = t /\ charge'.todo = charge.todo
    <3>1. CASE LoadCurrent(n)
      BY <3>1, <1>3, <1>5, ZenonT(30) DEF LoadCurrent, Charge
    <3>2. CASE LoadMaximum(n)
      BY <3>2, <1>3, <1>5, ZenonT(30) DEF LoadMaximum, Charge
    <3>3. CASE ExchangeFails(n)
      BY <3>3, <1>3, <1>5, ZenonT(30) DEF ExchangeFails, Charge
    <3>. QED  BY <1>6, <3>1, <3>2, <3>3
  <2>3. ChargeWaits(t)
    BY <2>1, <2>2 DEF ChargeWaits
  <2>. QED  BY <1>1, <1>3, <1>4, <2>1, <2>3 DEF ChargeOf
<1>7. CASE ChargeFails(n)
  <2>1. /\ UNCHANGED <<nodeVars, maximum, tasks, procVars>>
        /\ ChargeUndone(t)
    BY <1>3, <1>7 DEF ChargeFails, ChargeUndone
  <2>2. \A i \in Ids \ {t} : guard'[i] = guard[i] /\ pending'[i] = pending[i]
    BY <2>1, <1>5 DEF ChargeUndone
  <2>. QED  BY <1>1, <1>3, <1>4, <2>1, <2>2 DEF ChargeOf
<1>8. CASE Exchange(n)
  <2> DEFINE last == charge.todo = {n}
             g == [guard[t] EXCEPT !.path = @ \cup {n},
                                   !.publication = IF last THEN "Prepared" ELSE @]
             c == [charge EXCEPT !.step = "current", !.todo = @ \ {n}, !.seen = 0, !.limit = 0]
  <2>1. /\ UNCHANGED <<nodeVars, maximum, tasks, procVars>>
        /\ current' = [current EXCEPT ![n] = @ + 1]
        /\ pending' = IF last THEN [pending EXCEPT ![t] = guard[t].process] ELSE pending
        /\ charge' = IF last THEN NoCharge ELSE c
    BY <1>3, <1>8 DEF Exchange
  <2>2. guard' = [guard EXCEPT ![t].path = @ \cup {n},
                               ![t].publication = IF last THEN "Prepared" ELSE @]
    BY <1>3, <1>8 DEF Exchange
  <2>3. guard'[t] = g /\ \A i \in Ids \ {t} : guard'[i] = guard[i]
    <3> HIDE DEF last
    <3>. QED  BY <1>5, <2>2
  <2>4. /\ g.path = guard[t].path \cup {n} /\ g.kind = guard[t].kind
        /\ g.process = guard[t].process /\ g.cgroup = guard[t].cgroup /\ g.by = guard[t].by
        /\ g.publication = IF last THEN "Prepared" ELSE guard[t].publication
    <3>1. guard[t] \in Guard
      BY <1>5
    <3> HIDE DEF last
    <3>. QED  BY <3>1, ZenonT(30) DEF Guard
  <2>5. c.task = charge.task /\ c.todo = charge.todo \ {n}
    BY <1>5, ZenonT(30) DEF Charge
  <2>6. \A i \in Ids \ {t} : pending'[i] = pending[i]
    BY <2>1, <1>5
  <2> HIDE DEF g, c
  <2>7. \/ /\ guard'[t].publication = "Charging" /\ UNCHANGED pending
           /\ charge'.task = t /\ charge'.todo = charge.todo \ {n}
        \/ /\ guard'[t].publication = "Prepared"
           /\ pending' = [pending EXCEPT ![t] = guard[t].process]
           /\ charge' = NoCharge /\ charge.todo = {n}
    <3>1. CASE last
      BY <2>1, <2>3, <2>4, <3>1
    <3>2. CASE ~last
      BY <1>3, <1>4, <2>1, <2>3, <2>4, <2>5, <3>2
    <3>. QED  BY <3>1, <3>2
  <2>8. ChargeGrows(t, n)
    BY <2>1, <2>3, <2>4, <2>7 DEF ChargeGrows
  <2>. QED  BY <1>1, <1>3, <1>4, <2>1, <2>3, <2>6, <2>8 DEF ChargeOf
<1>. QED  BY <1>6, <1>7, <1>8 DEF Charging

\* What the first step of a fork does.
BeginOf(c, t, p, kind, target) ==
    /\ Fresh(t) /\ LedgerFree
    /\ UNCHANGED <<nodeVars, pidsVars, pending, tasks, procVars>>
    /\ \A i \in Ids \ {t} : guard'[i] = guard[i]
    /\ guard'[t].publication = "Charging" /\ guard'[t].kind = kind
    /\ guard'[t].process = (IF kind = "Process" THEN t ELSE p)
    /\ guard'[t].process \in Ids
    /\ guard'[t].cgroup = target /\ guard'[t].path = {} /\ guard'[t].by = c
    /\ charge'.task = t /\ charge'.todo = Ancestry(target) /\ charge'.step = "current"

\* A fork takes the ledger lock for a fresh identity and charges nothing yet.
LEMMA BeginEffect ==
    ASSUME TypeOK, NEW c \in Ids, NEW t \in Ids, NEW p \in Ids,
           NEW kind \in {"Process", "Thread"}, NEW target \in Nodes, NEW locked,
           BeginTaskAt(c, t, p, kind, target, locked)
    PROVE  BeginOf(c, t, p, kind, target)
<1> DEFINE process == IF kind = "Process" THEN t ELSE p
           g == [publication |-> "Charging", kind |-> kind, process |-> process,
                 cgroup |-> target, path |-> {}, by |-> c]
<1>1. process \in Ids
  OBVIOUS
<1>2. /\ Fresh(t) /\ LedgerFree
      /\ UNCHANGED <<nodeVars, pidsVars, pending, tasks, procVars>>
      /\ guard' = [guard EXCEPT ![t] = g]
      /\ charge' = [NoCharge EXCEPT !.step = "current", !.task = t, !.locked = locked,
                                    !.todo = Ancestry(target)]
  BY DEF BeginTaskAt
<1>3. charge'.task = t /\ charge'.todo = Ancestry(target) /\ charge'.step = "current"
  BY <1>2 DEF NoCharge
<1>4. guard'[t] = g /\ \A i \in Ids \ {t} : guard'[i] = guard[i]
  <2> HIDE DEF g
  <2>. QED  BY <1>2 DEF TypeOK
<1>. QED  BY <1>1, <1>2, <1>3, <1>4 DEF BeginOf

\* An identity that is not in use has no task, no process and no thread.
LEMMA FreshAt ==
    ASSUME NEW t \in Ids, Fresh(t)
    PROVE  /\ tasks[t].process = None /\ procs[t].state = "None" /\ thread[t] = "none"
           /\ guard[t].publication = "None" /\ pending[t] = None
<1>1. /\ tasks[t] = NoTask /\ procs[t] = NoProc /\ thread[t] = "none" /\ guard[t] = NoGuard
      /\ pending[t] = None
  BY DEF Fresh
<1>2. NoTask.process = None /\ NoProc.state = "None" /\ NoGuard.publication = "None"
  BY DEF NoTask, NoProc, NoGuard
<1>. QED  BY <1>1, <1>2

\* The record of a charge after each of its steps.
LEMMA ChargingRecord ==
    ASSUME TypeOK, NEW n \in Nodes, Charging(n)
    PROVE  /\ charge' = NoCharge \/ (charge'.step # "free" /\ charge'.task = charge.task)
           /\ charge'.step = "exchange" => charge'.seen < charge'.limit
<1>a. charge \in Charge /\ charge.seen \in Int /\ maximum[n] \in Nat
  BY DEF TypeOK, Charge
<1>b. NoCharge.step = "free"
  BY DEF NoCharge
<1>1. CASE LoadCurrent(n)
  <2>1. charge'.step = "maximum" /\ charge'.task = charge.task
    BY <1>1, <1>a, ZenonT(30) DEF LoadCurrent, Charge
  <2>. QED  BY <2>1
<1>2. CASE LoadMaximum(n)
  <2>1. /\ charge'.step = "exchange" /\ charge'.task = charge.task
        /\ charge'.seen = charge.seen /\ charge'.limit = maximum[n]
    BY <1>2, <1>a, ZenonT(30) DEF LoadMaximum, Charge
  <2>2. charge.seen < maximum[n]
    BY <1>2, <1>a, SMTT(30) DEF LoadMaximum, Full
  <2>. QED  BY <2>1, <2>2
<1>3. CASE ExchangeFails(n)
  <2>1. charge'.step = "current" /\ charge'.task = charge.task
    BY <1>3, <1>a, ZenonT(30) DEF ExchangeFails, Charge
  <2>. QED  BY <2>1
<1>4. CASE ChargeFails(n)
  <2>1. charge' = NoCharge
    BY <1>4 DEF ChargeFails
  <2>. QED  BY <1>b, <2>1
<1>5. CASE Exchange(n)
  <2> DEFINE c == [charge EXCEPT !.step = "current", !.todo = @ \ {n}, !.seen = 0, !.limit = 0]
  <2>1. charge' = NoCharge \/ charge' = c
    BY <1>5 DEF Exchange
  <2>2. c.step = "current" /\ c.task = charge.task
    BY <1>a, ZenonT(30) DEF Charge
  <2> HIDE DEF c
  <2>. QED  BY <1>b, <2>1, <2>2
<1>. QED  BY <1>1, <1>2, <1>3, <1>4, <1>5 DEF Charging

\* Nobody charges while the ledger lock is free.
LEMMA FreeLedger ==
    ASSUME ChargeInv, LedgerFree, NEW i \in Ids
    PROVE  guard[i].publication # "Charging" /\ charge.task = None /\ charge.todo = {}
<1>1. charge.task = None /\ charge.todo = {}
  BY DEF ChargeInv, LedgerFree
<1>. QED  BY <1>1, IdsAssumption DEF ChargeInv

\* ChargeInv is kept by every step: only a fork that finds the ledger lock free
\* starts to charge, and nothing else touches its guard until it is done.
LEMMA ChargeStep == TypeOK /\ ChargeInv /\ [Next]_vars => ChargeInv'
<1> SUFFICES ASSUME TypeOK, ChargeInv, [Next]_vars
             PROVE  ChargeInv'
  OBVIOUS
<1> USE IdsAssumption
<1>a. \A i \in Ids : guard[i] \in Guard
  BY DEF TypeOK
<1>f. ASSUME UNCHANGED charge,
             \A i \in Ids : \/ guard'[i] = guard[i]
                            \/ /\ guard[i].publication # "Charging"
                               /\ guard'[i].publication # "Charging"
      PROVE  ChargeInv'
  BY <1>f DEF ChargeInv
<1>b. ASSUME NEW c \in Ids, NEW t \in Ids, NEW p \in Ids,
             NEW kind \in {"Process", "Thread"}, NEW target \in Nodes, NEW locked,
             BeginTaskAt(c, t, p, kind, target, locked)
      PROVE  ChargeInv'
  <2>0. BeginOf(c, t, p, kind, target)
    BY <1>b, BeginEffect
  <2>1. /\ \A i \in Ids \ {t} : guard'[i] = guard[i]
        /\ guard'[t].publication = "Charging" /\ guard'[t].path = {}
        /\ charge'.task = t /\ charge'.step = "current" /\ LedgerFree
    BY <2>0 DEF BeginOf
  <2>2. \A i \in Ids : guard[i].publication # "Charging"
    BY <2>1, FreeLedger
  <2>. QED  BY <2>1, <2>2 DEF ChargeInv
<1>c. ASSUME NEW n \in Nodes, Charging(n)
      PROVE  ChargeInv'
  <2>1. PICK t \in Ids : ChargeOf(t, n)
    BY <1>c, ChargingEffect
  <2>2. /\ charge.task = t /\ guard[t].path \cap charge.todo = {}
        /\ \A i \in Ids \ {t} : guard'[i] = guard[i] /\ guard[i].publication # "Charging"
        /\ guard[t].publication = "Charging"
    BY <2>1 DEF ChargeOf, ChargeInv
  <2>3. /\ charge' = NoCharge \/ (charge'.step # "free" /\ charge'.task = t)
        /\ charge'.step = "exchange" => charge'.seen < charge'.limit
    BY <1>c, <2>2, ChargingRecord
  <2>4. NoCharge.step = "free" /\ NoCharge.task = None /\ NoCharge.todo = {}
    BY DEF NoCharge
  <2>5. /\ charge'.step = "free" <=> charge'.task = None
        /\ charge'.step = "free" => charge'.todo = {}
    BY <2>3, <2>4
  <2>6. /\ guard'[t].publication = "Charging" <=> charge'.task = t
        /\ charge'.task = t => guard'[t].path \cap charge'.todo = {}
        /\ charge'.task \in {t, None}
    <3>1. CASE ChargeWaits(t)
      BY <2>2, <3>1 DEF ChargeWaits
    <3>2. CASE ChargeUndone(t)
      BY <2>4, <3>2, <1>a DEF ChargeUndone, TypeOK, NoGuard
    <3>3. CASE ChargeGrows(t, n)
      BY <2>2, <2>4, <3>3 DEF ChargeGrows
    <3>. QED  BY <2>1, <3>1, <3>2, <3>3 DEF ChargeOf
  <2>. QED  BY <2>2, <2>3, <2>5, <2>6 DEF ChargeInv
<1>0. CASE UNCHANGED vars
  BY <1>0, <1>f DEF vars, ledgerVars
<1>1. ASSUME NEW c \in Ids, NEW t \in Ids, NEW kind \in {"Process", "Thread"}, BeginTask(c, t, kind)
      PROVE  ChargeInv'
  <2>1. PICK p \in Ids : BeginTaskAt(c, t, p, kind, procs[p].cgroup, p)
    BY <1>1 DEF BeginTask
  <2>2. procs[p].cgroup \in Nodes
    BY DEF TypeOK, Proc
  <2>. QED  BY <1>b, <2>1, <2>2
<1>2. ASSUME NEW c \in Ids, NEW t \in Ids, NEW target \in Nodes, BeginProcessAt(c, t, target)
      PROVE  ChargeInv'
  BY <1>2, <1>b DEF BeginProcessAt
<1>3. ASSUME NEW t \in Ids, Publish(t) \/ Commit(t) \/ DropLedger(t) \/ DropMember(t)
      PROVE  ChargeInv'
  <2>1. UNCHANGED charge
    BY <1>3 DEF Publish, Commit, DropLedger, DropMember
  <2>2. \A i \in Ids \ {t} : guard'[i] = guard[i]
    BY <1>3 DEF Publish, Commit, DropLedger, DropMember, TypeOK
  <2>3. guard[t].publication # "Charging"
    BY <1>3 DEF Publish, Commit, DropLedger, DropMember
  <2>4. guard'[t].publication # "Charging"
    <3>1. CASE Commit(t)
      BY <3>1 DEF Commit, TypeOK, NoGuard
    <3>2. CASE Publish(t)
      BY <3>2, <1>a DEF Publish, TypeOK, Guard
    <3>3. CASE DropLedger(t)
      BY <3>3, <1>a DEF DropLedger, TypeOK, Guard
    <3>4. CASE DropMember(t)
      BY <3>4, <1>a DEF DropMember, TypeOK, Guard
    <3>. QED  BY <1>3, <3>1, <3>2, <3>3, <3>4
  <2>. QED  BY <1>f, <2>1, <2>2, <2>3, <2>4
<1>4. ASSUME NEW t \in Ids, DropUncharge(t)
      PROVE  ChargeInv'
  <2>1. UNCHANGED charge /\ guard[t].publication = "Uncharge"
    BY <1>4 DEF DropUncharge
  <2>2. \A i \in Ids \ {t} : guard'[i] = guard[i]
    BY <1>4 DEF DropUncharge, TypeOK
  <2>3. guard'[t].publication \in {"None", "Uncharge"}
    BY <1>4, <1>a, SMTT(30) DEF DropUncharge, TypeOK, Guard, NoGuard
  <2>. QED  BY <1>f, <2>1, <2>2, <2>3
<1>5. ASSUME NEW t \in Ids, PublishClone(t) \/ Process(t)
      PROVE  ChargeInv'
  <2>1. UNCHANGED <<guard, charge>>
    BY <1>5 DEF PublishClone, Process, Migrate, ExitThread, ExitTask, DeThread, Reap, ledgerVars
  <2>. QED  BY <1>f, <2>1
<1>6. ASSUME NEW n \in Nodes, Directory(n)
      PROVE  ChargeInv'
  <2>1. UNCHANGED <<guard, charge>>
    BY <1>6 DEF Directory, CreateChild, RemoveChild, Reclaim, WriteSubtreeControl, Pin, Unpin,
                WritePidsMax, ledgerVars
  <2>. QED  BY <1>f, <2>1
<1>. QED  BY <1>0, <1>1, <1>2, <1>3, <1>4, <1>5, <1>6, <1>c DEF Next, Fork

-----------------------------------------------------------------------------
(* The fork and transaction invariants *)

\* ForkInv, identity by identity.
LEMMA ForkAt ==
    ASSUME ForkInv, NEW t \in Ids
    PROVE  /\ thread[t] # "none" => guard[t].publication = "None" /\ tasks[t].process # None
           /\ guard[t].publication = "Published" =>
                 /\ pending[t] = guard[t].process /\ guard[t].process \in Ids
                 /\ tasks[t].process = guard[t].process /\ tasks[t].cgroup = guard[t].cgroup
                 /\ thread[t] = "none"
           /\ guard[t].publication \in {"Charging", "Prepared", "Member", "Uncharge"} =>
                 tasks[t].process = None /\ thread[t] = "none"
           /\ procs[t].state # "None" =>
                 \/ guard[t].publication = "None"
                 \/ guard[t].publication = "Published" /\ t \in group[guard[t].process]
<1>1. /\ thread[t] # "none" => guard[t].publication = "None" /\ tasks[t].process # None
      /\ guard[t].publication = "Published" =>
            /\ pending[t] = guard[t].process /\ guard[t].process \in Ids
            /\ tasks[t] = [process |-> guard[t].process, cgroup |-> guard[t].cgroup]
      /\ guard[t].publication \in {"Charging", "Prepared", "Member", "Uncharge"} =>
            tasks[t].process = None
      /\ procs[t].state # "None" =>
            \/ guard[t].publication = "None"
            \/ guard[t].publication = "Published" /\ t \in group[guard[t].process]
  BY DEF ForkInv
<1>2. guard[t].publication \in {"Charging", "Prepared", "Published", "Member", "Uncharge"} =>
         thread[t] = "none"
  BY <1>1
<1>. QED  BY <1>1, <1>2, SMTT(30)

\* ForkInv and TxnInv are kept by every step.
LEMMA ForkStep ==
    TypeOK /\ ChargeInv /\ ForkInv /\ TxnInv /\ [Next]_vars => ForkInv' /\ TxnInv'
<1> SUFFICES ASSUME TypeOK, ChargeInv, ForkInv, TxnInv, [Next]_vars
             PROVE  ForkInv' /\ TxnInv'
  OBVIOUS
<1> USE IdsAssumption
<1>a. \A i \in Ids : /\ guard[i] \in Guard /\ tasks[i] \in Task /\ procs[i] \in Proc
                     /\ group[i] \in SUBSET Ids
  BY DEF TypeOK
<1>r. ASSUME NEW c \in Ids, NEW t \in Ids, NEW p \in Ids,
             NEW kind \in {"Process", "Thread"}, NEW target \in Nodes, NEW locked,
             BeginTaskAt(c, t, p, kind, target, locked)
      PROVE  ForkInv' /\ TxnInv'
  <2>0. BeginOf(c, t, p, kind, target)
    BY <1>r, BeginEffect
  <2>1. UNCHANGED <<pending, tasks, procs, group, thread, txn>> /\ Fresh(t)
    BY <2>0 DEF BeginOf, procVars
  <2>2. TxnInv'
    BY <2>1 DEF TxnInv
  <2>3. /\ guard'[t].publication = "Charging" /\ guard'[t].process \in Ids
        /\ \A i \in Ids \ {t} : guard'[i] = guard[i]
    BY <2>0 DEF BeginOf
  <2>4. tasks[t].process = None /\ procs[t].state = "None" /\ thread[t] = "none"
    BY <2>1, FreshAt
  <2>5. ForkInv'
    <3> SUFFICES ASSUME NEW i \in Ids  PROVE ForkInv!(i)'
      BY DEF ForkInv
    <3>1. CASE i = t
      BY <2>1, <2>3, <2>4, <3>1
    <3>2. CASE i # t
      <4>1. guard'[i] = guard[i]
        BY <2>3, <3>2
      <4>2. ForkInv!(i)
        BY DEF ForkInv
      <4>. QED  BY <2>1, <4>1, <4>2
    <3>. QED  BY <3>1, <3>2
  <2>. QED  BY <2>2, <2>5
<1>c. ASSUME NEW n \in Nodes, Charging(n)
      PROVE  ForkInv' /\ TxnInv'
  <2>1. PICK t \in Ids : ChargeOf(t, n)
    BY <1>c, ChargingEffect
  <2>2. /\ UNCHANGED <<tasks, procs, group, thread, txn>> /\ guard[t].publication = "Charging"
        /\ \A i \in Ids \ {t} : guard'[i] = guard[i] /\ pending'[i] = pending[i]
    BY <2>1 DEF ChargeOf, procVars
  <2>3. TxnInv'
    BY <2>2 DEF TxnInv
  <2>4. /\ guard'[t].publication \in {"Charging", "None", "Prepared"}
        /\ guard'[t].publication # "None" => guard'[t].process = guard[t].process
    <3>1. CASE ChargeWaits(t)
      BY <2>2, <3>1 DEF ChargeWaits
    <3>2. CASE ChargeUndone(t)
      BY <3>2 DEF ChargeUndone, TypeOK, NoGuard
    <3>3. CASE ChargeGrows(t, n)
      BY <3>3 DEF ChargeGrows
    <3>. QED  BY <2>1, <3>1, <3>2, <3>3 DEF ChargeOf
  <2>5. ForkInv'
    <3> SUFFICES ASSUME NEW i \in Ids  PROVE ForkInv!(i)'
      BY DEF ForkInv
    <3>0. ForkInv!(i)
      BY DEF ForkInv
    <3>1. CASE i = t
      <4>1. tasks[t].process = None /\ thread[t] = "none" /\ procs[t].state = "None"
        BY <2>2, ForkAt
      <4>2. guard[t].process \in Ids
        BY <2>2, <3>0, <3>1
      <4>. QED  BY <2>2, <2>4, <3>1, <4>1, <4>2
    <3>2. CASE i # t
      <4>1. guard'[i] = guard[i] /\ pending'[i] = pending[i]
        BY <2>2, <3>2
      <4>. QED  BY <2>2, <3>0, <4>1
    <3>. QED  BY <3>1, <3>2
  <2>. QED  BY <2>3, <2>5
<1>0. CASE UNCHANGED vars
  BY <1>0 DEF vars, ledgerVars, procVars, ForkInv, TxnInv
<1>1. ASSUME NEW c \in Ids, NEW t \in Ids, NEW kind \in {"Process", "Thread"}, BeginTask(c, t, kind)
      PROVE  ForkInv' /\ TxnInv'
  <2>1. PICK p \in Ids : BeginTaskAt(c, t, p, kind, procs[p].cgroup, p)
    BY <1>1 DEF BeginTask
  <2>2. procs[p].cgroup \in Nodes
    BY <1>a DEF Proc
  <2>. QED  BY <2>1, <2>2, <1>r
<1>2. ASSUME NEW c \in Ids, NEW t \in Ids, NEW target \in Nodes, BeginProcessAt(c, t, target)
      PROVE  ForkInv' /\ TxnInv'
  BY <1>2, <1>r DEF BeginProcessAt
<1>3. ASSUME NEW t \in Ids, Publish(t)
      PROVE  ForkInv' /\ TxnInv'
  <2>1. TxnInv'
    BY <1>3 DEF Publish, procVars, TxnInv
  <2>2. ForkInv'
    BY <1>3, <1>a, SMTT(30) DEF Publish, procVars, ForkInv, TypeOK, Guard
  <2>. QED  BY <2>1, <2>2
<1>4. ASSUME NEW t \in Ids, PublishClone(t)
      PROVE  ForkInv' /\ TxnInv'
  <2>1. TxnInv'
    BY <1>4 DEF PublishClone, TxnInv
  <2>2. guard[t].process \in Ids
    BY <1>4 DEF PublishClone, ForkInv
  <2>3. ForkInv'
    <3>1. UNCHANGED <<pending, tasks, guard, thread>> /\ guard[t].publication = "Published"
      BY <1>4 DEF PublishClone, ledgerVars
    <3>2. /\ t \in group'[guard[t].process]
          /\ \A q \in Ids : group[q] \subseteq group'[q]
      BY <1>4, <2>2 DEF PublishClone, TypeOK
    <3>3. \A i \in Ids \ {t} : procs'[i] = procs[i]
      BY <1>4 DEF PublishClone, TypeOK
    <3> SUFFICES ASSUME NEW i \in Ids  PROVE ForkInv!(i)'
      BY DEF ForkInv
    <3>4. ForkInv!(i)
      BY DEF ForkInv
    <3>5. CASE i = t
      BY <2>2, <3>1, <3>2, <3>4, <3>5
    <3>6. CASE i # t
      BY <3>1, <3>2, <3>3, <3>4, <3>6
    <3>. QED  BY <3>5, <3>6
  <2>. QED  BY <2>1, <2>3
<1>5. ASSUME NEW t \in Ids, Commit(t)
      PROVE  ForkInv' /\ TxnInv'
  <2>1. thread[t] = "none" /\ tasks[t].process # None
    <3>1. guard[t].publication = "Published"
      BY <1>5 DEF Commit
    <3>2. thread[t] = "none" /\ tasks[t].process \in Ids
      BY <3>1, ForkAt
    <3>. QED  BY <3>2
  <2>2. TxnInv'
    BY <1>5, <2>1 DEF Commit, TxnInv, TypeOK
  <2>3. ForkInv'
    <3>1. /\ UNCHANGED <<tasks, procs, group>> /\ guard'[t].publication = "None"
          /\ \A i \in Ids \ {t} : /\ guard'[i] = guard[i] /\ pending'[i] = pending[i]
                                   /\ thread'[i] = thread[i]
      BY <1>5 DEF Commit, TypeOK, NoGuard
    <3> SUFFICES ASSUME NEW i \in Ids  PROVE ForkInv!(i)'
      BY DEF ForkInv
    <3>2. CASE i = t
      BY <2>1, <3>1, <3>2
    <3>3. CASE i # t
      <4>1. guard'[i] = guard[i] /\ pending'[i] = pending[i] /\ thread'[i] = thread[i]
        BY <3>1, <3>3
      <4>2. ForkInv!(i)
        BY DEF ForkInv
      <4>. QED  BY <3>1, <4>1, <4>2
    <3>. QED  BY <3>2, <3>3
  <2>. QED  BY <2>2, <2>3
<1>6. ASSUME NEW t \in Ids, DropLedger(t)
      PROVE  ForkInv' /\ TxnInv'
  <2>1. TxnInv'
    BY <1>6 DEF DropLedger, procVars, TxnInv
  <2>2. guard'[t].publication \in {"Member", "Uncharge"} /\ tasks'[t].process = None
    BY <1>6, <1>a DEF DropLedger, TypeOK, Guard, NoTask
  <2>3. \A i \in Ids \ {t} : /\ guard'[i] = guard[i] /\ tasks'[i] = tasks[i]
                             /\ pending'[i] = pending[i]
    BY <1>6 DEF DropLedger, TypeOK
  <2>4. procs[t].state = "None" /\ thread[t] = "none"
    BY <1>6, ForkAt DEF DropLedger
  <2>5. ForkInv'
    BY <1>6, <2>2, <2>3, <2>4, SMTT(30) DEF DropLedger, procVars, ForkInv
  <2>. QED  BY <2>1, <2>5
<1>7. ASSUME NEW t \in Ids, DropMember(t)
      PROVE  ForkInv' /\ TxnInv'
  <2>1. TxnInv'
    BY <1>7 DEF DropMember, procVars, TxnInv
  <2>2. ForkInv'
    BY <1>7, <1>a, SMTT(30) DEF DropMember, procVars, ForkInv, TypeOK, Guard
  <2>. QED  BY <2>1, <2>2
<1>8. ASSUME NEW t \in Ids, DropUncharge(t)
      PROVE  ForkInv' /\ TxnInv'
  <2>1. TxnInv'
    BY <1>8 DEF DropUncharge, procVars, TxnInv
  <2>2. guard'[t].publication \in {"None", "Uncharge"}
    BY <1>8, <1>a, SMTT(30) DEF DropUncharge, TypeOK, Guard, NoGuard
  <2>3. \A i \in Ids \ {t} : guard'[i] = guard[i]
    BY <1>8 DEF DropUncharge, TypeOK
  <2>4. UNCHANGED <<pending, tasks, procs, group, thread>> /\ guard[t].publication = "Uncharge"
    BY <1>8 DEF DropUncharge, procVars
  <2>5. ForkInv'
    <3> SUFFICES ASSUME NEW i \in Ids
                 PROVE  ForkInv!(i)'
      BY DEF ForkInv
    <3>1. CASE i = t
      BY <2>2, <2>4, <3>1, ForkAt DEF ForkInv
    <3>2. CASE i # t
      BY <2>3, <2>4, <3>2, SMTT(30) DEF ForkInv
    <3>. QED  BY <3>1, <3>2
  <2>. QED  BY <2>1, <2>5
<1>9. ASSUME NEW p \in Ids, NEW target \in Nodes, Migrate(p, target)
      PROVE  ForkInv' /\ TxnInv'
  <2>1. TxnInv'
    BY <1>9 DEF Migrate, TxnInv
  <2>2. \A i \in Ids : tasks[i].process = p => guard[i].publication = "None"
    <3> SUFFICES ASSUME NEW i \in Ids, tasks[i].process = p, guard[i].publication # "None"
                 PROVE  FALSE
      OBVIOUS
    <3>1. guard[i].publication \in {"Charging", "Prepared", "Published", "Member", "Uncharge"}
      BY <1>a DEF Guard, Publication
    <3>2. pending[i] = p
      BY <3>1, ForkAt
    <3>. QED  BY <1>9, <3>2 DEF Migrate, HasPendingTask
  <2>3. \A i \in Ids : /\ tasks'[i].process = tasks[i].process
                       /\ tasks[i].process # p => tasks'[i] = tasks[i]
    BY <1>9, <1>a, SMTT(30) DEF Migrate, Tasks, Task
  <2>4. \A i \in Ids : procs'[i].state = procs[i].state
    BY <1>9, <1>a DEF Migrate, TypeOK, Proc
  <2>5. UNCHANGED <<pending, guard, group, thread>>
    BY <1>9 DEF Migrate
  <2>6. ForkInv'
    <3> SUFFICES ASSUME NEW i \in Ids  PROVE ForkInv!(i)'
      BY DEF ForkInv
    <3>1. /\ ForkInv!(i)
          /\ guard[i].publication = "Published" => tasks[i].process # p
      BY <2>2 DEF ForkInv
    <3>. QED  BY <2>3, <2>4, <2>5, <3>1
  <2>. QED  BY <2>1, <2>6
<1>10. ASSUME NEW t \in Ids, ExitThread(t)
       PROVE  ForkInv' /\ TxnInv'
  <2>1. PICK p \in Ids : /\ t \in group[p] /\ txn[p] = None
                         /\ txn' = [txn EXCEPT ![p] = t]
                         /\ group' = [group EXCEPT ![p] = @ \ {t}]
    BY <1>10 DEF ExitThread
  <2>2. thread[t] = "run" /\ thread' = [thread EXCEPT ![t] = "exiting"]
    BY <1>10 DEF ExitThread, Idle
  <2>3. UNCHANGED <<pending, tasks, guard, procs>>
    BY <1>10 DEF ExitThread, ledgerVars
  <2>4. TxnInv'
    BY <2>1, <2>2 DEF TxnInv, TypeOK
  <2>5. ForkInv'
    BY <2>1, <2>2, <2>3, <1>a DEF ForkInv, TypeOK
  <2>. QED  BY <2>4, <2>5
<1>11. ASSUME NEW t \in Ids, ExitTask(t)
       PROVE  ForkInv' /\ TxnInv'
  <2>1. PICK p \in Ids : /\ txn[p] = t /\ txn' = [txn EXCEPT ![p] = None]
                         /\ procs[p].state = "Active"
                         /\ procs' = IF group[p] = {} THEN [procs EXCEPT ![p].state = "Exited"]
                                     ELSE procs
    BY <1>11 DEF ExitTask
  <2>2. thread[t] = "exiting" /\ guard[t].publication = "None"
    BY <2>1 DEF TxnInv, ForkInv
  <2>3. /\ tasks' = [tasks EXCEPT ![t] = NoTask] /\ thread' = [thread EXCEPT ![t] = "none"]
        /\ UNCHANGED <<pending, guard, group>>
    BY <1>11 DEF ExitTask
  <2>4. TxnInv'
    BY <2>1, <2>2, <2>3 DEF TxnInv, TypeOK
  <2>5. \A i \in Ids : procs'[i].state # "None" => procs[i].state # "None"
    BY <2>1, <1>a DEF TypeOK, Proc
  <2>6. ForkInv'
    BY <2>2, <2>3, <2>5 DEF ForkInv, TypeOK, NoTask
  <2>. QED  BY <2>4, <2>6
<1>12. ASSUME NEW p \in Ids, NEW c \in Ids, DeThread(p, c)
       PROVE  ForkInv' /\ TxnInv'
  <2>1. /\ c # p /\ group[p] = {c} /\ thread[c] = "run"
        /\ procs[p].state = "Active" /\ tasks[c].process = p /\ tasks[p].process = None
        /\ tasks' = [tasks EXCEPT ![c] = NoTask, ![p] = tasks[c]]
        /\ group' = [group EXCEPT ![p] = {p}]
        /\ thread' = [thread EXCEPT ![c] = "none", ![p] = "run"]
        /\ UNCHANGED <<pending, guard, procs, txn>>
    BY <1>12, SMTT(30) DEF DeThread, ReadyToRename, RenameAccepted, Idle, NoTask
  <2>2. guard[c].publication = "None" /\ guard[p].publication = "None" /\ thread[p] = "none"
    <3>1. guard[c].publication = "None"
      BY <2>1, ForkAt
    <3>2. thread[p] = "none"
      BY <2>1, ForkAt
    <3>3. guard[p].publication # "Published"
      BY <2>1, ForkAt
    <3>4. guard[p].publication = "None"
      BY <2>1, <3>3, ForkAt
    <3>. QED  BY <3>1, <3>2, <3>4
  <2>3. TxnInv'
    BY <2>1, <2>2, SMTT(30) DEF TxnInv, TypeOK
  <2>4. /\ thread'[c] = "none" /\ tasks'[p].process = p /\ p # None
        /\ \A i \in Ids \ {p, c} : thread'[i] = thread[i] /\ tasks'[i] = tasks[i]
        /\ \A i \in Ids : group'[i] = IF i = p THEN {p} ELSE group[i]
    BY <2>1 DEF TypeOK
  <2>5. ForkInv'
    <3> SUFFICES ASSUME NEW i \in Ids
                 PROVE  ForkInv!(i)'
      BY DEF ForkInv
    <3>1. CASE i = p
      BY <2>1, <2>2, <2>4, <3>1
    <3>2. CASE i = c
      BY <2>1, <2>2, <2>4, <3>2
    <3>3. CASE i \notin {p, c}
      <4>1. guard[i].publication = "Published" =>
               \/ group'[guard[i].process] = group[guard[i].process]
               \/ i \notin group[guard[i].process]
        BY <2>1, <2>4, <3>3, ForkAt, SMTT(30)
      <4>2. guard'[i] = guard[i] /\ tasks'[i] = tasks[i] /\ thread'[i] = thread[i]
              /\ pending'[i] = pending[i] /\ procs'[i] = procs[i]
        BY <2>1, <2>4, <3>3
      <4>3. ForkInv!(i)
        BY DEF ForkInv
      <4>. QED  BY <4>1, <4>2, <4>3
    <3>. QED  BY <3>1, <3>2, <3>3
  <2>. QED  BY <2>3, <2>5
<1>13. ASSUME NEW p \in Ids, Reap(p)
       PROVE  ForkInv' /\ TxnInv'
  <2>1. TxnInv'
    BY <1>13 DEF Reap, TxnInv
  <2>2. ForkInv'
    BY <1>13 DEF Reap, ledgerVars, ForkInv, TypeOK, NoProc
  <2>. QED  BY <2>1, <2>2
<1>14. ASSUME NEW n \in Nodes, Directory(n)
       PROVE  ForkInv' /\ TxnInv'
  <2>1. UNCHANGED <<ledgerVars, procVars>>
    BY <1>14 DEF Directory, CreateChild, RemoveChild, Reclaim, WriteSubtreeControl, Pin, Unpin,
                 WritePidsMax
  <2>. QED  BY <2>1 DEF ledgerVars, procVars, ForkInv, TxnInv
<1>. QED
  BY <1>0, <1>1, <1>2, <1>3, <1>4, <1>5, <1>6, <1>7, <1>8, <1>9, <1>10, <1>11, <1>12,
     <1>13, <1>14, <1>c DEF Next, Fork, Process


-----------------------------------------------------------------------------
(* The directories *)


\* Every directory is above itself, and the walk to the root covers all of the
\* directories above when all of them are alive.
LEMMA Walk ==
    ASSUME NEW n \in Nodes
    PROVE  /\ n \in Above[n] /\ Above[n] \in SUBSET Nodes
           /\ Openable(n) => Ancestry(n) = Above[n] /\ Live(n)
           /\ Ancestry(n) # Above[n] => \E a \in Above[n] : ~Live(a)
<1>1. n \in Above[n] /\ Above[n] \in SUBSET Nodes
  BY HierarchyAssumption, SMTT(30)
<1>. QED  BY <1>1 DEF Openable, Ancestry

\* What a step may do to the life of directories: it never makes one absent
\* again, never revives a freed one, frees none that is referred to, and creates
\* one only below live directories.
LEMMA LifeStep ==
    ASSUME TypeOK, [Next]_vars, NEW m \in Nodes
    PROVE  /\ nstate[m] # "absent" => nstate'[m] # "absent"
           /\ nstate[m] = "freed" => nstate'[m] = "freed"
           /\ Live(m) /\ Referenced(m) => Live(m)'
           /\ nstate[Root] = "linked" => nstate'[Root] = "linked"
           /\ nstate[m] = "absent" /\ nstate'[m] # "absent" =>
                 m # Root /\ \A a \in Above[Parent[m]] : Live(a)
<1>1. CASE UNCHANGED nstate
  BY <1>1 DEF Live
<1>2. ASSUME NEW n \in Nodes \ {Root}, CreateChild(n)
      PROVE  /\ nstate' = [nstate EXCEPT ![n] = "linked"] /\ nstate[n] = "absent"
             /\ \A a \in Above[Parent[n]] : Live(a)
  BY <1>2 DEF CreateChild, Openable
<1>3. ASSUME NEW n \in Nodes \ {Root}, RemoveChild(n)
      PROVE  nstate' = [nstate EXCEPT ![n] = "unlinked"] /\ nstate[n] = "linked"
  BY <1>3 DEF RemoveChild
<1>4. ASSUME NEW n \in Nodes \ {Root}, Reclaim(n)
      PROVE  /\ nstate[n] = "unlinked" /\ ~Referenced(n) /\ nstate'[n] = "freed"
             /\ \A k \in Nodes \ {n} : \/ nstate'[k] = nstate[k]
                                       \/ k # Root /\ nstate[k] = "linked" /\ nstate'[k] = "unlinked"
  BY <1>4 DEF Reclaim
<1>5. \/ UNCHANGED nstate
      \/ \E n \in Nodes \ {Root} : CreateChild(n) \/ RemoveChild(n) \/ Reclaim(n)
  <2>1. CASE UNCHANGED vars
    BY <2>1 DEF vars, nodeVars
  <2>2. ASSUME NEW t \in Ids, Fork(t)
        PROVE  UNCHANGED nstate
    BY <2>2 DEF Fork, BeginTask, BeginProcessAt, BeginTaskAt, Publish, PublishClone, Commit, DropLedger,
                DropMember, DropUncharge, nodeVars
  <2>3. ASSUME NEW p \in Ids, Process(p)
        PROVE  UNCHANGED nstate
    BY <2>3 DEF Process, Migrate, ExitThread, ExitTask, DeThread, Reap, nodeVars
  <2>4. ASSUME NEW n \in Nodes, Directory(n)
        PROVE  \/ UNCHANGED nstate
               \/ n # Root /\ (CreateChild(n) \/ RemoveChild(n) \/ Reclaim(n))
    BY <2>4 DEF Directory, WriteSubtreeControl, Pin, Unpin, WritePidsMax, nodeVars
  <2>5. ASSUME NEW n \in Nodes, Charging(n)
        PROVE  UNCHANGED nstate
    BY <2>5 DEF Charging, LoadCurrent, LoadMaximum, ChargeFails, Exchange, ExchangeFails, nodeVars
  <2>. QED  BY <2>1, <2>2, <2>3, <2>4, <2>5 DEF Next
<1>6. ASSUME NEW n \in Nodes \ {Root}, CreateChild(n) \/ RemoveChild(n)
      PROVE  /\ nstate[m] # "absent" => nstate'[m] # "absent"
             /\ nstate[m] = "freed" => nstate'[m] = "freed"
             /\ Live(m) => Live(m)'
             /\ nstate[Root] = "linked" => nstate'[Root] = "linked"
             /\ nstate[m] = "absent" /\ nstate'[m] # "absent" =>
                   m # Root /\ \A a \in Above[Parent[m]] : Live(a)
  <2>1. nstate \in [Nodes -> {"absent", "linked", "unlinked", "freed"}]
    BY DEF TypeOK
  <2>2. CASE CreateChild(n)
    BY <1>2, <2>1, <2>2, HierarchyAssumption, SMTT(30) DEF Live
  <2>3. CASE RemoveChild(n)
    BY <1>3, <2>1, <2>3, HierarchyAssumption, SMTT(30) DEF Live
  <2>. QED  BY <1>6, <2>2, <2>3
<1>7. ASSUME NEW n \in Nodes \ {Root}, Reclaim(n)
      PROVE  /\ nstate[m] # "absent" => nstate'[m] # "absent"
             /\ nstate[m] = "freed" => nstate'[m] = "freed"
             /\ Live(m) /\ Referenced(m) => Live(m)'
             /\ nstate[Root] = "linked" => nstate'[Root] = "linked"
             /\ nstate[m] = "absent" => nstate'[m] = "absent"
  <2>1. CASE m = n
    BY <1>4, <1>7, <2>1, HierarchyAssumption
  <2>2. CASE m # n
    BY <1>4, <1>7, <2>2, HierarchyAssumption DEF Live
  <2>. QED  BY <2>1, <2>2
<1>. QED  BY <1>1, <1>5, <1>6, <1>7

\* The nodes that the fork of t has charged or is about to charge.
Promised(t) == guard[t].path \cup (IF guard[t].publication = "Charging" THEN charge.todo ELSE {})

\* The directories that guards, ledger entries and processes name change only as
\* follows.
LEMMA CgroupStep ==
    ASSUME TypeOK, ChargeInv, ForkInv, [Next]_vars, NEW i \in Ids
    PROVE  /\ \/ tasks'[i] = tasks[i]
              \/ tasks'[i].process = None
              \/ guard[i].publication = "Prepared" /\ tasks'[i].cgroup = guard[i].cgroup
              \/ Openable(tasks'[i].cgroup)
              \/ \E c \in Ids : tasks[c].process # None /\ tasks'[i] = tasks[c]
           /\ \/ guard'[i] = guard[i] /\ Promised(i)' = Promised(i)
              \/ guard'[i] = NoGuard
              \/ /\ guard[i].publication # "None" /\ guard'[i].cgroup = guard[i].cgroup
                 /\ \/ guard'[i].publication \notin {"Charging", "Prepared", "Published"}
                    \/ /\ guard[i].publication \in {"Charging", "Prepared"}
                       /\ Promised(i)' = Promised(i)
              \/ /\ Promised(i)' = Ancestry(guard'[i].cgroup)
                 /\ \/ Openable(guard'[i].cgroup)
                    \/ \E p \in Ids : procs[p].state # "None" /\ guard'[i].cgroup = procs[p].cgroup
           /\ \/ procs'[i] = procs[i]
              \/ procs'[i] = NoProc
              \/ procs[i].state # "None" /\ procs'[i].cgroup = procs[i].cgroup
              \/ Openable(procs'[i].cgroup)
              \/ guard[i].publication # "None" /\ procs'[i].cgroup = guard[i].cgroup
<1>a. \A k \in Ids : /\ guard[k] \in Guard /\ tasks[k] \in Task /\ procs[k] \in Proc
  BY DEF TypeOK
<1>b. /\ guard \in [Ids -> Guard] /\ tasks \in [Ids -> Task] /\ procs \in [Ids -> Proc]
  BY DEF TypeOK
<1> DEFINE TasksOK ==
              \/ tasks'[i] = tasks[i]
              \/ tasks'[i].process = None
              \/ guard[i].publication = "Prepared" /\ tasks'[i].cgroup = guard[i].cgroup
              \/ Openable(tasks'[i].cgroup)
              \/ \E c \in Ids : tasks[c].process # None /\ tasks'[i] = tasks[c]
           GuardOK ==
              \/ guard'[i] = guard[i] /\ Promised(i)' = Promised(i)
              \/ guard'[i] = NoGuard
              \/ /\ guard[i].publication # "None" /\ guard'[i].cgroup = guard[i].cgroup
                 /\ \/ guard'[i].publication \notin {"Charging", "Prepared", "Published"}
                    \/ /\ guard[i].publication \in {"Charging", "Prepared"}
                       /\ Promised(i)' = Promised(i)
              \/ /\ Promised(i)' = Ancestry(guard'[i].cgroup)
                 /\ \/ Openable(guard'[i].cgroup)
                    \/ \E p \in Ids : procs[p].state # "None" /\ guard'[i].cgroup = procs[p].cgroup
           ProcsOK ==
              \/ procs'[i] = procs[i]
              \/ procs'[i] = NoProc
              \/ procs[i].state # "None" /\ procs'[i].cgroup = procs[i].cgroup
              \/ Openable(procs'[i].cgroup)
              \/ guard[i].publication # "None" /\ procs'[i].cgroup = guard[i].cgroup
<1> SUFFICES TasksOK /\ GuardOK /\ ProcsOK
  OBVIOUS
<1>p. UNCHANGED charge /\ guard'[i] = guard[i] => Promised(i)' = Promised(i)
  BY DEF Promised
<1>r. ASSUME NEW c \in Ids, NEW t \in Ids, NEW p \in Ids,
             NEW kind \in {"Process", "Thread"}, NEW target \in Nodes, NEW locked,
             BeginTaskAt(c, t, p, kind, target, locked),
             Openable(target) \/ (procs[p].state # "None" /\ target = procs[p].cgroup)
      PROVE  TasksOK /\ GuardOK /\ ProcsOK
  <2>0. BeginOf(c, t, p, kind, target)
    BY <1>r, BeginEffect
  <2>1. UNCHANGED <<tasks, procs>> /\ LedgerFree
    BY <2>0 DEF BeginOf, procVars
  <2>2. /\ \A k \in Ids \ {t} : guard'[k] = guard[k]
        /\ guard'[t].publication = "Charging" /\ guard'[t].cgroup = target
        /\ guard'[t].path = {} /\ charge'.todo = Ancestry(target)
    BY <2>0 DEF BeginOf
  <2>3. CASE i = t
    <3>1. Promised(i)' = Ancestry(target)
      BY <2>2, <2>3 DEF Promised
    <3>. QED  BY <1>r, <2>1, <2>2, <2>3, <3>1
  <2>4. CASE i # t
    <3>1. guard[i].publication # "Charging"
      BY <2>1, FreeLedger
    <3>2. guard'[i] = guard[i]
      BY <2>2, <2>4
    <3>3. Promised(i)' = Promised(i)
      BY <3>1, <3>2 DEF Promised
    <3>. QED  BY <2>1, <3>2, <3>3
  <2>. QED  BY <2>3, <2>4
<1>c. ASSUME NEW n \in Nodes, Charging(n)
      PROVE  TasksOK /\ GuardOK /\ ProcsOK
  <2>1. PICK t \in Ids : ChargeOf(t, n)
    BY <1>c, ChargingEffect
  <2>2. /\ UNCHANGED <<tasks, procs>> /\ charge.task = t /\ guard[t].publication = "Charging"
        /\ \A k \in Ids \ {t} : guard'[k] = guard[k]
        /\ n \in charge.todo
    BY <2>1 DEF ChargeOf, procVars
  <2>3. CASE i = t
    <3>1. CASE ChargeWaits(t)
      <4>1. guard'[i] = guard[i] /\ Promised(i)' = Promised(i)
        BY <3>1 DEF ChargeWaits, Promised
      <4>. QED  BY <2>2, <4>1
    <3>2. CASE ChargeUndone(t)
      BY <1>b, <2>2, <2>3, <3>2 DEF ChargeUndone
    <3>3. CASE ChargeGrows(t, n)
      <4>1. /\ guard'[t].cgroup = guard[t].cgroup /\ guard'[t].path = guard[t].path \cup {n}
            /\ \/ guard'[t].publication = "Charging" /\ charge'.todo = charge.todo \ {n}
               \/ guard'[t].publication = "Prepared" /\ charge.todo = {n}
        BY <3>3 DEF ChargeGrows
      <4>2. Promised(t)' = Promised(t)
        BY <2>2, <4>1 DEF Promised
      <4>. QED  BY <2>2, <2>3, <4>1, <4>2
    <3>. QED  BY <2>1, <3>1, <3>2, <3>3 DEF ChargeOf
  <2>4. CASE i # t
    <3>1. guard[i].publication # "Charging" /\ guard'[i] = guard[i]
      BY <2>2, <2>4 DEF ChargeInv
    <3>2. Promised(i)' = Promised(i)
      BY <3>1 DEF Promised
    <3>. QED  BY <2>2, <3>1, <3>2
  <2>. QED  BY <2>3, <2>4
<1>0. CASE UNCHANGED <<tasks, guard, charge, procs>>
  BY <1>0, <1>p
<1>1. ASSUME NEW c \in Ids, NEW t \in Ids, NEW kind \in {"Process", "Thread"}, BeginTask(c, t, kind)
      PROVE  TasksOK /\ GuardOK /\ ProcsOK
  <2>1. PICK p \in Ids : /\ procs[p].state = "Active"
                         /\ BeginTaskAt(c, t, p, kind, procs[p].cgroup, p)
    BY <1>1 DEF BeginTask
  <2>2. procs[p].cgroup \in Nodes
    BY <1>a DEF Proc
  <2>. QED  BY <2>1, <2>2, <1>r
<1>2. ASSUME NEW c \in Ids, NEW t \in Ids, NEW target \in Nodes, BeginProcessAt(c, t, target)
      PROVE  TasksOK /\ GuardOK /\ ProcsOK
  <2>1. BeginTaskAt(c, t, t, "Process", target, None) /\ Openable(target)
    BY <1>2 DEF BeginProcessAt
  <2>2. Openable(target) \/ (procs[t].state # "None" /\ target = procs[t].cgroup)
    BY <2>1 DEF Openable
  <2>. QED  BY <2>1, <2>2, <1>r
<1>3. ASSUME NEW t \in Ids, Publish(t)
      PROVE  TasksOK /\ GuardOK /\ ProcsOK
  <2>1. ProcsOK
    BY <1>3 DEF Publish, procVars
  <2>2. TasksOK
    BY <1>3, <1>b DEF Publish
  <2>3. GuardOK
    <3>1. CASE i = t
      <4>1. /\ guard[i].publication = "Prepared" /\ guard'[i].publication = "Published"
            /\ guard'[i].cgroup = guard[i].cgroup /\ guard'[i].path = guard[i].path
        BY <1>3, <1>a, <1>b, <3>1 DEF Publish, Guard
      <4>2. Promised(i)' = Promised(i)
        BY <4>1 DEF Promised
      <4>. QED  BY <4>1, <4>2
    <3>2. CASE i # t
      BY <1>3, <1>b, <1>p, <3>2 DEF Publish
    <3>. QED  BY <3>1, <3>2
  <2>. QED  BY <2>1, <2>2, <2>3
<1>4. ASSUME NEW t \in Ids, PublishClone(t)
      PROVE  TasksOK /\ GuardOK /\ ProcsOK
  BY <1>4, <1>b, <1>p DEF PublishClone, ledgerVars
<1>5. ASSUME NEW t \in Ids, Commit(t)
      PROVE  TasksOK /\ GuardOK /\ ProcsOK
  BY <1>5, <1>b, <1>p DEF Commit
<1>6. ASSUME NEW t \in Ids, DropLedger(t)
      PROVE  TasksOK /\ GuardOK /\ ProcsOK
  <2>1. ProcsOK
    BY <1>6 DEF DropLedger, procVars
  <2>2. TasksOK
    BY <1>6, <1>b DEF DropLedger, NoTask
  <2>3. CASE i = t
    <3>1. guard'[i].publication \in {"Member", "Uncharge"} /\ guard'[i].cgroup = guard[i].cgroup
      BY <1>6, <1>a, <1>b, <2>3 DEF DropLedger, Guard
    <3>. QED  BY <1>6, <2>1, <2>2, <2>3, <3>1 DEF DropLedger
  <2>4. CASE i # t
    BY <1>6, <1>b, <1>p, <2>1, <2>2, <2>4 DEF DropLedger
  <2>. QED  BY <2>3, <2>4
<1>7. ASSUME NEW t \in Ids, DropMember(t) \/ DropUncharge(t)
      PROVE  TasksOK /\ GuardOK /\ ProcsOK
  <2>1. UNCHANGED <<tasks, procs>> /\ guard[t].publication \in {"Member", "Uncharge"}
    BY <1>7 DEF DropMember, DropUncharge, procVars
  <2>2. CASE i # t
    BY <1>7, <1>b, <1>p, <2>1, <2>2 DEF DropMember, DropUncharge
  <2>3. CASE i = t
    <3>1. \/ guard'[t] = NoGuard
          \/ guard'[t].publication = "Uncharge" /\ guard'[t].cgroup = guard[t].cgroup
      BY <1>7, <1>a, <1>b, SMTT(30) DEF DropMember, DropUncharge, Guard
    <3>. QED  BY <2>1, <2>3, <3>1
  <2>. QED  BY <2>2, <2>3
<1>9. ASSUME NEW p \in Ids, NEW target \in Nodes, Migrate(p, target)
      PROVE  TasksOK /\ GuardOK /\ ProcsOK
  <2>1. GuardOK /\ Openable(target)
    BY <1>9, <1>p DEF Migrate
  <2>2. TasksOK
    <3>1. tasks'[i] = tasks[i] \/ tasks'[i] = [tasks[i] EXCEPT !.cgroup = target]
      BY <1>9 DEF Migrate
    <3>2. [tasks[i] EXCEPT !.cgroup = target].cgroup = target
      BY <1>a DEF Task
    <3>. QED  BY <2>1, <3>1, <3>2
  <2>3. ProcsOK
    <3>1. procs'[i] = procs[i] \/ procs'[i] = [procs[i] EXCEPT !.cgroup = target]
      BY <1>9, <1>b DEF Migrate
    <3>2. [procs[i] EXCEPT !.cgroup = target].cgroup = target
      BY <1>a DEF Proc
    <3>. QED  BY <2>1, <3>1, <3>2
  <2>. QED  BY <2>1, <2>2, <2>3
<1>10. ASSUME NEW t \in Ids, ExitThread(t)
       PROVE  TasksOK /\ GuardOK /\ ProcsOK
  BY <1>10, <1>p DEF ExitThread, ledgerVars
<1>11. ASSUME NEW t \in Ids, ExitTask(t)
       PROVE  TasksOK /\ GuardOK /\ ProcsOK
  <2>1. UNCHANGED <<guard, charge>> /\ tasks' = [tasks EXCEPT ![t] = NoTask]
    BY <1>11 DEF ExitTask
  <2>2. TasksOK /\ GuardOK
    BY <1>b, <1>p, <2>1 DEF NoTask
  <2>3. PICK p \in Ids : /\ procs[p].state = "Active"
                         /\ procs' = IF group[p] = {} THEN [procs EXCEPT ![p].state = "Exited"]
                                     ELSE procs
    BY <1>11 DEF ExitTask
  <2>4. procs'[i].cgroup = procs[i].cgroup /\ (procs'[i] = procs[i] \/ i = p)
    BY <1>a, <1>b, <2>3 DEF Proc
  <2>. QED  BY <2>2, <2>3, <2>4
<1>12. ASSUME NEW p \in Ids, NEW c \in Ids, DeThread(p, c)
       PROVE  TasksOK /\ GuardOK /\ ProcsOK
  <2>1. /\ tasks' = [tasks EXCEPT ![c] = NoTask, ![p] = tasks[c]]
        /\ tasks[c].process = p /\ UNCHANGED <<guard, charge, procs>>
    BY <1>12 DEF DeThread, RenameAccepted
  <2>2. TasksOK
    BY <1>b, <2>1, IdsAssumption DEF NoTask
  <2>. QED  BY <1>p, <2>1, <2>2
<1>13. ASSUME NEW p \in Ids, Reap(p)
       PROVE  TasksOK /\ GuardOK /\ ProcsOK
  BY <1>13, <1>b, <1>p DEF Reap, ledgerVars
<1>14. ASSUME NEW n \in Nodes, Directory(n)
       PROVE  UNCHANGED <<tasks, guard, charge, procs>>
  BY <1>14 DEF Directory, CreateChild, RemoveChild, Reclaim, WriteSubtreeControl, Pin, Unpin,
               WritePidsMax, ledgerVars, procVars
<1>15. UNCHANGED vars => UNCHANGED <<tasks, guard, charge, procs>>
  BY DEF vars, ledgerVars, procVars
<1> HIDE DEF TasksOK, GuardOK, ProcsOK
<1>. QED
  BY <1>0, <1>1, <1>2, <1>3, <1>4, <1>5, <1>6, <1>7, <1>9, <1>10, <1>11, <1>12, <1>13,
     <1>14, <1>15, <1>c DEF Next, Fork, Process

\* PathInv and LiveInv are kept by every step.
LEMMA DirectoryStep ==
    TypeOK /\ ChargeInv /\ ForkInv /\ PathInv /\ LiveInv /\ [Next]_vars => PathInv' /\ LiveInv'
<1> SUFFICES ASSUME TypeOK, ChargeInv, ForkInv, PathInv, LiveInv, [Next]_vars
             PROVE  PathInv' /\ LiveInv'
  OBVIOUS
<1>a. \A i \in Ids : guard[i].cgroup \in Nodes /\ tasks[i].cgroup \in Nodes /\ procs[i].cgroup \in Nodes
  BY DEF TypeOK, Guard, Task, Proc
<1>b. TypeOK'
  BY TypeStep
<1>c. \A i \in Ids : guard'[i].cgroup \in Nodes /\ tasks'[i].cgroup \in Nodes /\ procs'[i].cgroup \in Nodes
  BY <1>b DEF TypeOK, Guard, Task, Proc
<1>d. \A n \in Nodes : Openable(n) => Live(n) /\ nstate[n] # "absent" /\ Ancestry(n) = Above[n]
  BY Walk DEF Live
<1>e. Live(Root) /\ nstate'[Root] = "linked" /\ nstate[Root] # "absent" /\ Root \in Nodes
  BY LifeStep, HierarchyAssumption DEF LiveInv, Live
<1>1. \A n \in Nodes : nstate'[n] # "absent" => \A a \in Above[n] : nstate'[a] # "absent"
  <2> SUFFICES ASSUME NEW n \in Nodes, nstate'[n] # "absent", NEW a \in Above[n]
               PROVE  nstate'[a] # "absent"
    OBVIOUS
  <2>1. a \in Nodes
    BY Walk
  <2>2. CASE nstate[n] # "absent"
    BY <2>1, <2>2, LifeStep DEF PathInv
  <2>3. CASE nstate[n] = "absent"
    <3>1. n # Root /\ \A b \in Above[Parent[n]] : Live(b)
      BY <2>3, LifeStep
    <3>2. Above[n] = {n} \cup Above[Parent[n]]
      BY <3>1, HierarchyAssumption
    <3>. QED  BY <2>1, <3>1, <3>2, LifeStep DEF Live
  <2>. QED  BY <2>2, <2>3
<1>2. ASSUME NEW i \in Ids
      PROVE  /\ nstate'[guard'[i].cgroup] # "absent" /\ nstate'[procs'[i].cgroup] # "absent"
             /\ guard'[i].publication # "None" => Live(guard'[i].cgroup)
             /\ procs'[i].state # "None" => Live(procs'[i].cgroup)
             /\ tasks'[i].process # None => Live(tasks'[i].cgroup)
  <2>1. /\ nstate[guard[i].cgroup] # "absent" /\ nstate[procs[i].cgroup] # "absent"
        /\ guard[i].publication # "None" => Live(guard[i].cgroup)
        /\ procs[i].state # "None" => Live(procs[i].cgroup)
        /\ tasks[i].process # None => Live(tasks[i].cgroup)
    BY DEF PathInv, LiveInv
  <2>2. guard'[i].publication # "None" => Live(guard'[i].cgroup)
    <3>1. guard'[i] = NoGuard => guard'[i].publication = "None"
      BY SMTT(30) DEF NoGuard
    <3>. QED  BY <2>1, <3>1, <1>c, <1>d, CgroupStep DEF LiveInv
  <2>3. procs'[i].state # "None" => Live(procs'[i].cgroup)
    <3>1. procs'[i] = NoProc => procs'[i].state = "None"
      BY SMTT(30) DEF NoProc
    <3>. QED  BY <2>1, <3>1, <1>c, <1>d, CgroupStep
  <2>4. tasks'[i].process # None => Live(tasks'[i].cgroup)
    BY <2>1, <1>c, <1>d, CgroupStep DEF LiveInv
  <2>5. nstate[guard'[i].cgroup] # "absent" /\ nstate[procs'[i].cgroup] # "absent"
    <3>1. NoGuard.cgroup = Root /\ NoProc.cgroup = Root
      BY DEF NoGuard, NoProc
    <3>2. nstate[guard'[i].cgroup] # "absent"
      <4>1. \/ guard'[i] = guard[i] \/ guard'[i] = NoGuard \/ guard'[i].cgroup = guard[i].cgroup
            \/ Openable(guard'[i].cgroup)
            \/ \E p \in Ids : guard'[i].cgroup = procs[p].cgroup
        BY CgroupStep
      <4>2. \A p \in Ids : nstate[procs[p].cgroup] # "absent"
        BY DEF PathInv
      <4>. QED  BY <2>1, <3>1, <4>1, <4>2, <1>c, <1>d, <1>e
    <3>3. nstate[procs'[i].cgroup] # "absent"
      BY <2>1, <3>1, <1>c, <1>d, <1>e, CgroupStep DEF PathInv
    <3>. QED  BY <3>2, <3>3
  <2>. QED  BY <1>c, <2>2, <2>3, <2>4, <2>5, LifeStep
<1>3. UNCHANGED nstate \/ UNCHANGED <<tasks, guard, procs>>
  <2>1. ASSUME NEW t \in Ids, Fork(t)
        PROVE  UNCHANGED nstate
    BY <2>1 DEF Fork, BeginTask, BeginProcessAt, BeginTaskAt, Publish, PublishClone, Commit, DropLedger,
                DropMember, DropUncharge, nodeVars
  <2>2. ASSUME NEW p \in Ids, Process(p)
        PROVE  UNCHANGED nstate
    BY <2>2 DEF Process, Migrate, ExitThread, ExitTask, DeThread, Reap, nodeVars
  <2>3. ASSUME NEW n \in Nodes, Directory(n)
        PROVE  UNCHANGED <<tasks, guard, procs>>
    BY <2>3 DEF Directory, CreateChild, RemoveChild, Reclaim, WriteSubtreeControl, Pin, Unpin,
                WritePidsMax, ledgerVars, procVars
  <2>4. UNCHANGED vars => UNCHANGED nstate
    BY DEF vars, nodeVars
  <2>5. ASSUME NEW n \in Nodes, Charging(n)
        PROVE  UNCHANGED nstate
    BY <2>5 DEF Charging, LoadCurrent, LoadMaximum, ChargeFails, Exchange, ExchangeFails, nodeVars
  <2>. QED  BY <2>1, <2>2, <2>3, <2>4, <2>5 DEF Next
<1>4. LiveInv'
  <2>1. CASE UNCHANGED nstate
    BY <1>2, <1>e, <2>1 DEF LiveInv, Live
  <2>2. CASE UNCHANGED <<tasks, guard, procs>>
    <3> SUFFICES ASSUME NEW i \in Ids
                 PROVE  /\ tasks[i].process # None => Live(tasks[i].cgroup)'
                        /\ guard[i].publication # "None" => Live(guard[i].cgroup)'
                        /\ procs[i].state # "None" => Live(procs[i].cgroup)'
      BY <1>e, <2>2 DEF LiveInv, Live
    <3>1. /\ tasks[i].process # None => Referenced(tasks[i].cgroup)
          /\ guard[i].publication # "None" => Referenced(guard[i].cgroup)
          /\ procs[i].state # "None" => Referenced(procs[i].cgroup)
      BY DEF Referenced
    <3>2. \A m \in Nodes : Live(m) /\ Referenced(m) => nstate'[m] \in {"linked", "unlinked"}
      BY LifeStep DEF Live
    <3>3. /\ tasks[i].process # None => nstate'[tasks[i].cgroup] \in {"linked", "unlinked"}
          /\ guard[i].publication # "None" => nstate'[guard[i].cgroup] \in {"linked", "unlinked"}
          /\ procs[i].state # "None" => nstate'[procs[i].cgroup] \in {"linked", "unlinked"}
      BY <1>a, <3>1, <3>2 DEF LiveInv
    <3>. QED  BY <2>2, <3>3 DEF Live
  <2>. QED  BY <1>3, <2>1, <2>2
<1>5. ASSUME NEW i \in Ids, guard'[i].publication \in {"Charging", "Prepared", "Published"}
      PROVE  \/ Promised(i)' = Above[guard'[i].cgroup]
             \/ \E a \in Above[guard'[i].cgroup] : nstate'[a] = "freed"
  <2>1. \A n \in Nodes : \A a \in Above[n] : a \in Nodes /\ (nstate[a] = "freed" => nstate'[a] = "freed")
    BY Walk, LifeStep
  <2>2. CASE /\ guard'[i].cgroup = guard[i].cgroup /\ Promised(i)' = Promised(i)
             /\ guard[i].publication \in {"Charging", "Prepared", "Published"}
    BY <1>a, <2>1, <2>2 DEF PathInv, Promised
  <2>3. CASE Promised(i)' = Ancestry(guard'[i].cgroup) /\ nstate[guard'[i].cgroup] # "absent"
    <3>1. CASE Ancestry(guard'[i].cgroup) = Above[guard'[i].cgroup]
      BY <2>3, <3>1
    <3>2. CASE Ancestry(guard'[i].cgroup) # Above[guard'[i].cgroup]
      <4>1. PICK a \in Above[guard'[i].cgroup] : ~Live(a)
        BY <1>c, <3>2, Walk
      <4>2. a \in Nodes /\ nstate[a] # "absent"
        BY <1>c, <2>1, <2>3 DEF PathInv
      <4>3. nstate[a] = "freed"
        BY <4>1, <4>2 DEF Live, TypeOK
      <4>. QED  BY <1>c, <2>1, <4>3
    <3>. QED  BY <3>1, <3>2
  <2>4. guard'[i] # NoGuard
    <3>1. NoGuard.publication \notin {"Charging", "Prepared", "Published"}
      BY DEF NoGuard
    <3>. QED  BY <1>5, <3>1
  <2>5. \/ /\ guard'[i].cgroup = guard[i].cgroup /\ Promised(i)' = Promised(i)
           /\ guard[i].publication \in {"Charging", "Prepared", "Published"}
        \/ Promised(i)' = Ancestry(guard'[i].cgroup) /\ nstate[guard'[i].cgroup] # "absent"
    <3>1. \/ guard'[i] = guard[i] /\ Promised(i)' = Promised(i)
          \/ /\ guard'[i].cgroup = guard[i].cgroup
             /\ guard[i].publication \in {"Charging", "Prepared"} /\ Promised(i)' = Promised(i)
          \/ /\ Promised(i)' = Ancestry(guard'[i].cgroup)
             /\ \/ Openable(guard'[i].cgroup)
                \/ \E p \in Ids : procs[p].state # "None" /\ guard'[i].cgroup = procs[p].cgroup
      BY <1>5, <2>4, CgroupStep
    <3>2. \A p \in Ids : nstate[procs[p].cgroup] # "absent"
      BY DEF PathInv
    <3>. QED  BY <1>5, <1>c, <1>d, <3>1, <3>2
  <2>. QED  BY <2>2, <2>3, <2>5
<1>6. PathInv'
  BY <1>1, <1>2, <1>5 DEF PathInv, Promised
<1>. QED  BY <1>4, <1>6

-----------------------------------------------------------------------------

\* The charge, fork, transaction and directory invariants hold in every reachable state.
THEOREM StructureCorrect ==
    Spec => [](TypeOK /\ ChargeInv /\ ForkInv /\ TxnInv /\ PathInv /\ LiveInv)
<1>1. Init => ChargeInv /\ ForkInv /\ TxnInv
  <2> SUFFICES ASSUME Init  PROVE ChargeInv /\ ForkInv /\ TxnInv
    OBVIOUS
  <2>1. ASSUME NEW t \in Ids
        PROVE  /\ guard[t].publication = "None" /\ txn[t] = None
               /\ thread[t] # "none" => tasks[t].process # None
    BY <2>1, IdsAssumption DEF Init, NoGuard
  <2>2. charge.step = "free" /\ charge.task = None /\ charge.todo = {}
    BY DEF Init, NoCharge
  <2>3. ChargeInv
    BY <2>1, <2>2, IdsAssumption DEF ChargeInv
  <2>. QED  BY <2>1, <2>3 DEF ForkInv, TxnInv
<1>2. Init => PathInv /\ LiveInv
  <2> SUFFICES ASSUME Init  PROVE PathInv /\ LiveInv
    OBVIOUS
  <2>1. nstate[Root] = "linked" /\ Root \in Nodes
    BY HierarchyAssumption DEF Init
  <2>2. ASSUME NEW t \in Ids
        PROVE  /\ guard[t].cgroup = Root /\ guard[t].publication = "None"
               /\ procs[t].cgroup = Root
               /\ tasks[t].process # None => tasks[t].cgroup = Root
    BY <2>2, IdsAssumption DEF Init, NoGuard, NoProc, NoTask
  <2>3. ASSUME NEW n \in Nodes, nstate[n] # "absent", NEW a \in Above[n]
        PROVE  nstate[a] # "absent"
    BY <2>3, HierarchyAssumption DEF Init
  <2>. QED  BY <2>1, <2>2, <2>3 DEF PathInv, LiveInv, Live
<1>. QED  BY <1>1, <1>2, TypeCorrect, ChargeStep, ForkStep, DirectoryStep, PTL DEF Spec

-----------------------------------------------------------------------------
(* Processes and their threads *)

ProcInv == CloneInv /\ GroupInv /\ MemberInv

Forking(t) == guard[t].publication \in {"Charging", "Prepared", "Published"}

Reserved(t) == guard[t].publication \in {"Prepared", "Published"}

\* CloneInv, identity by identity.
LEMMA CloneAt ==
    ASSUME CloneInv, NEW t \in Ids
    PROVE  /\ Reserved(t) => Forking(t)
           /\ pending[t] # None => Reserved(t)
           /\ Reserved(t) => pending[t] = guard[t].process
           /\ Forking(t) /\ guard[t].kind = "Process" =>
                 /\ guard[t].process = t
                 /\ procs[t].state = "Active" => procs[t].cgroup = guard[t].cgroup
           /\ Forking(t) /\ guard[t].kind = "Thread" =>
                 /\ guard[t].process # t /\ procs[t].state = "None"
                 /\ procs[guard[t].process].state = "Active"
                 /\ procs[guard[t].process].cgroup = guard[t].cgroup
                 /\ guard[t].by \in group[guard[t].process]
  BY DEF CloneInv, Forking, Reserved

\* GroupInv, identity by identity.
LEMMA MemberAt ==
    ASSUME GroupInv, NEW p \in Ids, NEW t \in Ids, t \in group[p]
    PROVE  /\ procs[p].state = "Active" /\ tasks[t].process = p
           /\ thread[t] = "run" \/ guard[t].publication = "Published"
  BY DEF GroupInv, InGroup

LEMMA LeavingAt ==
    ASSUME GroupInv, NEW p \in Ids, NEW t \in Ids, txn[p] = t
    PROVE  procs[p].state = "Active" /\ tasks[t].process = p
  BY DEF GroupInv, Leaving

LEMMA EntryAt ==
    ASSUME GroupInv, NEW t \in Ids, tasks[t].process # None
    PROVE  \/ tasks[t].process = t /\ guard[t].publication = "Published"
           \/ /\ procs[tasks[t].process].state = "Active"
              /\ tasks[t].cgroup = procs[tasks[t].process].cgroup
              /\ \/ t \in group[tasks[t].process] \/ txn[tasks[t].process] = t
                 \/ guard[t].publication = "Published"
  BY DEF GroupInv, Entered

LEMMA OwnedAt ==
    ASSUME GroupInv, NEW t \in Ids
    PROVE  /\ tasks[t].process = None => tasks[t] = NoTask
           /\ procs[t].state # "None" => tasks[t].process \in {t, None}
  BY DEF GroupInv, Owned

LEMMA Records ==
    ASSUME TypeOK, NEW i \in Ids
    PROVE  /\ guard[i] \in Guard /\ tasks[i] \in Task /\ procs[i] \in Proc
           /\ group[i] \in SUBSET Ids /\ pending[i] \in Ids \cup {None}
           /\ guard[i].publication \in Publication /\ guard[i].kind \in {"Process", "Thread"}
           /\ guard[i].process \in Ids \cup {None} /\ guard[i].cgroup \in Nodes
           /\ tasks[i].process \in Ids \cup {None} /\ tasks[i].cgroup \in Nodes
           /\ procs[i].state \in {"None", "Active", "Exited"} /\ procs[i].cgroup \in Nodes
           /\ txn[i] \in Ids \cup {None}
  BY DEF TypeOK, Guard, Task, Proc

\* A thread of a process that is leaving, and a process that has begun, are in
\* no other state.
LEMMA Exclusive ==
    ASSUME TypeOK, ForkInv, TxnInv, ProcInv, NEW t \in Ids
    PROVE  /\ guard[t].publication # "None" => \A p \in Ids : txn[p] # t
           /\ Forking(t) => guard[t].process \in Ids
           /\ tasks[t] = NoTask => \A p \in Ids : t \notin group[p] /\ txn[p] # t
           /\ \A p \in Ids : txn[p] = t =>
                 guard[t].publication = "None" /\ \A q \in Ids : t \notin group[q]
           /\ \A p, q \in Ids : t \in group[p] /\ t \in group[q] => p = q
<1> USE IdsAssumption DEF ProcInv
<1>1. ASSUME NEW p \in Ids, txn[p] = t
      PROVE  thread[t] = "exiting" /\ guard[t].publication = "None"
  <2>1. thread[t] = "exiting"
    BY <1>1 DEF TxnInv
  <2>. QED  BY <2>1, ForkAt
<1>2. Forking(t) => guard[t].process \in Ids
  BY DEF ForkInv, Forking
<1>3. tasks[t] = NoTask => \A p \in Ids : t \notin group[p] /\ txn[p] # t
  <2> SUFFICES ASSUME tasks[t] = NoTask, NEW p \in Ids  PROVE t \notin group[p] /\ txn[p] # t
    OBVIOUS
  <2>1. tasks[t].process # p
    BY DEF NoTask
  <2>. QED  BY <2>1, MemberAt, LeavingAt
<1>4. \A p \in Ids : t \in group[p] => thread[t] = "run" \/ guard[t].publication = "Published"
  BY MemberAt
<1>5. \A p, q \in Ids : t \in group[p] /\ t \in group[q] => p = q
  BY MemberAt
<1>. QED  BY <1>1, <1>2, <1>3, <1>4, <1>5

\* A step that changes neither the ledger, nor the processes, nor cgroup.procs.
LEMMA ProcFrame ==
    ASSUME ProcInv, UNCHANGED <<members, ledgerVars, procVars>>
    PROVE  ProcInv'
<1>1. UNCHANGED <<members, pending, tasks, guard, procs, group, thread, txn>>
  BY DEF ledgerVars, procVars
<1>2. CloneInv'
  BY <1>1 DEF ProcInv, CloneInv
<1>3. GroupInv'
  <2>1. ASSUME NEW p \in Ids, NEW t \in Ids  PROVE InGroup(p, t)' /\ Leaving(p, t)'
    BY <1>1 DEF ProcInv, GroupInv, InGroup, Leaving
  <2>2. ASSUME NEW t \in Ids  PROVE Entered(t)' /\ Owned(t)'
    BY <1>1 DEF ProcInv, GroupInv, Entered, Owned
  <2>. QED  BY <2>1, <2>2 DEF GroupInv
<1>4. MemberInv'
  BY <1>1 DEF ProcInv, MemberInv, Listed
<1>. QED  BY <1>2, <1>3, <1>4 DEF ProcInv

-----------------------------------------------------------------------------
(* Steps of a fork *)

\* A step that changes the guard of an identity without a ledger entry, before
\* or after it is listed.
LEMMA GuardFrame ==
    ASSUME GroupInv, MemberInv, NEW t \in Ids, tasks[t].process = None,
           UNCHANGED <<members, tasks, procVars>>,
           \A i \in Ids \ {t} : guard'[i] = guard[i],
           guard[t].publication \notin {"Published", "Member"},
           guard'[t].publication \notin {"Published", "Member"}
    PROVE  GroupInv' /\ MemberInv'
<1> USE IdsAssumption
<1>1. UNCHANGED <<members, tasks, procs, group, thread, txn>>
  BY DEF procVars
<1>2. GroupInv'
  <2>1. ASSUME NEW q \in Ids, NEW i \in Ids, i # t  PROVE InGroup(q, i)'
    <3>1. guard'[i] = guard[i]
      BY <2>1
    <3>. QED  BY <1>1, <3>1 DEF GroupInv, InGroup
  <2>2. ASSUME NEW q \in Ids  PROVE InGroup(q, t)'
    BY <1>1, MemberAt DEF InGroup
  <2>3. ASSUME NEW q \in Ids, NEW i \in Ids  PROVE Leaving(q, i)'
    BY <1>1 DEF GroupInv, Leaving
  <2>4. Entered(t)'
    BY <1>1 DEF Entered
  <2>5. ASSUME NEW i \in Ids, i # t  PROVE Entered(i)'
    <3>1. guard'[i] = guard[i]
      BY <2>5
    <3>. QED  BY <1>1, <3>1 DEF GroupInv, Entered
  <2>6. ASSUME NEW i \in Ids  PROVE Owned(i)'
    BY <1>1 DEF GroupInv, Owned
  <2>. QED  BY <2>1, <2>2, <2>3, <2>4, <2>5, <2>6 DEF GroupInv
<1>3. MemberInv'
  <2>1. ASSUME NEW n \in Nodes  PROVE Listed(t, n)' <=> Listed(t, n)
    BY <1>1 DEF Listed
  <2>2. ASSUME NEW i \in Ids, NEW n \in Nodes, i # t  PROVE Listed(i, n)' <=> Listed(i, n)
    BY <1>1, <2>2 DEF Listed
  <2>. QED  BY <1>1, <2>1, <2>2 DEF MemberInv
<1>. QED  BY <1>2, <1>3

\* A fork begins for a fresh identity.
LEMMA BeginProc ==
    ASSUME TypeOK, ForkInv, TxnInv, ProcInv, NEW c \in Ids, NEW t \in Ids, NEW p \in Ids,
           NEW kind \in {"Process", "Thread"}, NEW target \in Nodes, NEW locked,
           BeginTaskAt(c, t, p, kind, target, locked),
           kind = "Thread" => c \in group[p] /\ procs[p].state = "Active" /\ procs[p].cgroup = target
    PROVE  ProcInv'
<1> USE IdsAssumption DEF ProcInv
<1>0. BeginOf(c, t, p, kind, target)
  BY BeginEffect
<1>1. UNCHANGED <<members, pending, tasks, procs, group, thread, txn, procVars>> /\ Fresh(t)
  BY <1>0 DEF BeginOf, nodeVars, procVars
<1>2. /\ \A i \in Ids \ {t} : guard'[i] = guard[i]
      /\ guard'[t].publication = "Charging" /\ guard'[t].kind = kind
      /\ guard'[t].process = IF kind = "Process" THEN t ELSE p
      /\ guard'[t].cgroup = target /\ guard'[t].by = c
  BY <1>0 DEF BeginOf
<1>3. /\ guard[t].publication = "None" /\ procs[t].state = "None" /\ tasks[t].process = None
      /\ pending[t] = None
  BY <1>1, FreshAt
<1>4. kind = "Thread" => p # t
  BY <1>3
<1>5. CloneInv'
  <2> SUFFICES ASSUME NEW i \in Ids  PROVE CloneInv!(i)'
    BY DEF CloneInv
  <2>1. CASE i = t
    BY <1>1, <1>2, <1>3, <1>4, <2>1
  <2>2. CASE i # t
    <3>1. guard'[i] = guard[i]
      BY <1>2, <2>2
    <3>. QED  BY <1>1, <3>1 DEF CloneInv
  <2>. QED  BY <2>1, <2>2
<1>6. GroupInv' /\ MemberInv'
  BY <1>1, <1>2, <1>3, GuardFrame
<1>. QED  BY <1>5, <1>6

\* The charge goes on, is taken back, or ends in a reservation.
LEMMA ChargingProc ==
    ASSUME TypeOK, ChargeInv, ForkInv, TxnInv, ProcInv, NEW n \in Nodes, Charging(n)
    PROVE  ProcInv'
<1> USE IdsAssumption DEF ProcInv
<1>1. PICK t \in Ids : ChargeOf(t, n)
  BY ChargingEffect
<1>2. /\ UNCHANGED <<members, tasks, procs, group, thread, txn, procVars>>
      /\ guard[t].publication = "Charging"
      /\ \A i \in Ids \ {t} : guard'[i] = guard[i] /\ pending'[i] = pending[i]
  BY <1>1 DEF ChargeOf, nodeVars, procVars
<1>3. tasks[t].process = None /\ procs[t].state = "None"
  BY <1>2, ForkAt
<1>4. \/ guard'[t] = guard[t] /\ pending'[t] = pending[t]
      \/ guard'[t].publication = "None" /\ pending'[t] = pending[t]
      \/ /\ guard'[t].kind = guard[t].kind /\ guard'[t].process = guard[t].process
         /\ guard'[t].cgroup = guard[t].cgroup /\ guard'[t].by = guard[t].by
         /\ \/ guard'[t].publication = "Charging" /\ pending'[t] = pending[t]
            \/ guard'[t].publication = "Prepared" /\ pending'[t] = guard[t].process
  <2>1. CASE ChargeWaits(t)
    BY <2>1 DEF ChargeWaits
  <2>2. CASE ChargeUndone(t)
    BY <2>2 DEF ChargeUndone, TypeOK, NoGuard
  <2>3. CASE ChargeGrows(t, n)
    BY <2>3 DEF ChargeGrows, TypeOK
  <2>. QED  BY <1>1, <2>1, <2>2, <2>3 DEF ChargeOf
<1>5. CloneInv'
  <2> SUFFICES ASSUME NEW i \in Ids  PROVE CloneInv!(i)'
    BY DEF CloneInv
  <2>1. CloneInv!(i)
    BY DEF CloneInv
  <2>2. CASE i = t
    <3>1. pending[t] = None
      BY <1>2, <2>1, <2>2
    <3>. QED  BY <1>2, <1>4, <2>1, <2>2, <3>1
  <2>3. CASE i # t
    <3>1. guard'[i] = guard[i] /\ pending'[i] = pending[i]
      BY <1>2, <2>3
    <3>. QED  BY <1>2, <2>1, <3>1
  <2>. QED  BY <2>2, <2>3
<1>6. guard'[t].publication \in {"Charging", "None", "Prepared"}
  BY <1>2, <1>4
<1>7. GroupInv' /\ MemberInv'
  BY <1>2, <1>3, <1>6, GuardFrame
<1>. QED  BY <1>5, <1>7

LEMMA PublishProc ==
    ASSUME TypeOK, ForkInv, TxnInv, ProcInv, NEW t \in Ids, Publish(t)
    PROVE  ProcInv'
<1> USE IdsAssumption DEF ProcInv
<1> DEFINE g == guard[t]
<1>1. /\ UNCHANGED <<pending, procs, group, thread, txn>>
      /\ g.publication = "Prepared" /\ tasks[t] = NoTask
      /\ guard' = [guard EXCEPT ![t].publication = "Published"]
      /\ tasks' = [tasks EXCEPT ![t] = [process |-> g.process, cgroup |-> g.cgroup]]
      /\ members' = IF g.kind = "Process" THEN [members EXCEPT ![g.cgroup] = @ \cup {t}]
                    ELSE members
  BY DEF Publish, procVars
<1>2. /\ guard'[t].publication = "Published" /\ guard'[t].kind = g.kind
      /\ guard'[t].process = g.process /\ guard'[t].cgroup = g.cgroup /\ guard'[t].by = g.by
      /\ tasks'[t].process = g.process /\ tasks'[t].cgroup = g.cgroup
      /\ \A i \in Ids : i # t => guard'[i] = guard[i] /\ tasks'[i] = tasks[i]
  BY <1>1, Records, SMTT(30) DEF TypeOK, Guard
<1>3. g.process \in Ids /\ g.kind \in {"Process", "Thread"} /\ Forking(t) /\ g.cgroup \in Nodes
  BY <1>1, Exclusive, Records DEF Forking
<1>4. procs[t].state = "None" /\ \A p \in Ids : t \notin group[p] /\ txn[p] # t
  BY <1>1, Exclusive, ForkAt
<1>5. \/ g.process = t
      \/ procs[g.process].state = "Active" /\ procs[g.process].cgroup = g.cgroup
  BY <1>3, CloneAt
<1> HIDE DEF g
<1>6. CloneInv'
  <2> SUFFICES ASSUME NEW i \in Ids  PROVE CloneInv!(i)'
    BY DEF CloneInv
  <2>1. CASE i = t
    <3>1. /\ Forking(t) /\ Reserved(t) /\ guard'[t].publication = "Published"
          /\ guard'[t].kind = guard[t].kind /\ guard'[t].process = guard[t].process
          /\ guard'[t].cgroup = guard[t].cgroup /\ guard'[t].by = guard[t].by
      BY <1>1, <1>2, <1>3 DEF g, Reserved
    <3>. QED  BY <1>1, <2>1, <3>1, CloneAt
  <2>2. CASE i # t
    <3>1. guard'[i] = guard[i]
      BY <1>2, <2>2
    <3>2. CloneInv!(i)
      BY DEF CloneInv
    <3>. QED  BY <1>1, <3>1, <3>2
  <2>. QED  BY <2>1, <2>2
<1>7. GroupInv'
  <2>1. ASSUME NEW i \in Ids, i # t  PROVE guard'[i] = guard[i] /\ tasks'[i] = tasks[i]
    BY <1>2, <2>1
  <2>2. ASSUME NEW p \in Ids, NEW i \in Ids  PROVE InGroup(p, i)'
    <3> SUFFICES ASSUME i \in group[p]  PROVE InGroup(p, i)'
      BY <1>1 DEF InGroup
    <3>. QED  BY <1>1, <1>4, <2>1, MemberAt DEF InGroup
  <2>3. ASSUME NEW p \in Ids, NEW i \in Ids  PROVE Leaving(p, i)'
    <3> SUFFICES ASSUME txn[p] = i  PROVE Leaving(p, i)'
      BY <1>1 DEF Leaving
    <3>. QED  BY <1>1, <1>4, <2>1, LeavingAt DEF Leaving
  <2>4. Entered(t)' /\ Owned(t)'
    BY <1>1, <1>2, <1>3, <1>4, <1>5 DEF Entered, Owned
  <2>5. ASSUME NEW i \in Ids, i # t  PROVE Entered(i)' /\ Owned(i)'
    <3>1. guard'[i] = guard[i] /\ tasks'[i] = tasks[i]
      BY <2>1, <2>5
    <3>. QED  BY <1>1, <3>1 DEF GroupInv, Entered, Owned
  <2>. QED  BY <2>2, <2>3, <2>4, <2>5 DEF GroupInv
<1>8. MemberInv'
  <2>1. \A n \in Nodes : t \in members[n] <=> FALSE
    BY <1>1, <1>4 DEF MemberInv, Listed, g
  <2>2. \A i \in Ids, n \in Nodes : i \in members'[n] <=>
           \/ i \in members[n]
           \/ i = t /\ n = g.cgroup /\ g.kind = "Process"
    BY <1>1, <1>3 DEF TypeOK
  <2>3. ASSUME NEW n \in Nodes
        PROVE  Listed(t, n)' <=> n = g.cgroup /\ g.kind = "Process"
    BY <1>1, <1>2, <1>4 DEF Listed
  <2>4. ASSUME NEW i \in Ids, NEW n \in Nodes, i # t  PROVE Listed(i, n)' <=> Listed(i, n)
    <3>1. guard'[i] = guard[i]
      BY <1>2, <2>4
    <3>. QED  BY <1>1, <3>1 DEF Listed
  <2>. QED  BY <2>1, <2>2, <2>3, <2>4 DEF MemberInv
<1>. QED  BY <1>6, <1>7, <1>8

LEMMA PublishCloneProc ==
    ASSUME TypeOK, ForkInv, TxnInv, ProcInv, NEW t \in Ids, PublishClone(t)
    PROVE  ProcInv'
<1> USE IdsAssumption DEF ProcInv
<1> DEFINE g == guard[t]
<1>1. /\ UNCHANGED <<members, pending, tasks, guard, thread, txn>>
      /\ g.publication = "Published" /\ t \notin group[g.process]
      /\ group' = [group EXCEPT ![g.process] = @ \cup {t}]
      /\ procs' = IF g.kind = "Process"
                  THEN [procs EXCEPT ![t] = [state |-> "Active", cgroup |-> g.cgroup]]
                  ELSE procs
  BY DEF PublishClone, nodeVars, ledgerVars
<1>2. /\ g.process \in Ids /\ g.kind \in {"Process", "Thread"} /\ Forking(t) /\ Reserved(t)
      /\ tasks[t].process = g.process /\ tasks[t].cgroup = g.cgroup /\ procs[t].state = "None"
  BY <1>1, Exclusive, Records, ForkAt DEF Forking, Reserved
<1>3. /\ g.kind = "Process" => g.process = t
      /\ g.kind = "Thread" => procs[g.process].state = "Active" /\ procs[g.process].cgroup = g.cgroup
  BY <1>2, CloneAt
<1> HIDE DEF g
<1>4. \A p \in Ids : group'[p] = IF p = g.process THEN group[p] \cup {t} ELSE group[p]
  BY <1>1, <1>2 DEF TypeOK
<1>5. /\ \A p \in Ids : procs[p].state # "None" => procs'[p] = procs[p]
      /\ procs'[g.process].state = "Active" /\ procs'[g.process].cgroup = g.cgroup
      /\ \A p \in Ids : p # t => procs'[p] = procs[p]
      /\ g.kind = "Thread" => procs' = procs
  BY <1>1, <1>2, <1>3 DEF TypeOK
<1>6. CloneInv'
  <2> SUFFICES ASSUME NEW i \in Ids  PROVE CloneInv!(i)'
    BY DEF CloneInv
  <2>1. CASE i = t
    <3>1. /\ pending[t] = g.process
          /\ g.kind = "Thread" => g.process # t /\ g.by \in group[g.process]
      BY <1>2, CloneAt DEF g
    <3>2. CASE g.kind = "Process"
      BY <1>1, <1>3, <1>5, <2>1, <3>1, <3>2 DEF g
    <3>3. CASE g.kind = "Thread"
      <4>1. procs' = procs /\ guard' = guard /\ pending' = pending
        BY <1>1, <1>5, <3>3
      <4>2. g.by \in group'[g.process]
        BY <1>2, <1>4, <3>1, <3>3
      <4>3. /\ guard'[t] = g /\ pending'[t] = g.process /\ procs'[t].state = "None"
            /\ g.publication = "Published" /\ g.process # t
        BY <1>1, <1>2, <3>1, <3>3, <4>1 DEF g
      <4>. QED  BY <1>5, <2>1, <3>3, <4>2, <4>3
    <3>. QED  BY <1>2, <3>2, <3>3
  <2>2. CASE i # t
    <3>1. Forking(i) => guard[i].process \in Ids
      BY Exclusive
    <3>2. guard' = guard /\ pending' = pending /\ procs'[i] = procs[i]
      BY <1>1, <1>5, <2>2
    <3>3. CASE ~Forking(i)
      BY <3>2, <3>3, CloneAt DEF Forking, Reserved
    <3>4. CASE Forking(i) /\ guard[i].kind = "Process"
      BY <3>2, <3>4, CloneAt DEF Forking, Reserved
    <3>5. CASE Forking(i) /\ guard[i].kind = "Thread"
      <4>1. /\ procs[guard[i].process].state = "Active" /\ guard[i].process # i
            /\ procs[guard[i].process].cgroup = guard[i].cgroup /\ procs[i].state = "None"
            /\ guard[i].by \in group[guard[i].process]
            /\ pending[i] # None => Reserved(i)
            /\ Reserved(i) => pending[i] = guard[i].process
        BY <3>5, CloneAt
      <4>2. /\ procs'[guard[i].process] = procs[guard[i].process]
            /\ guard[i].by \in group'[guard[i].process]
        BY <1>4, <1>5, <3>1, <3>5, <4>1
      <4>. QED  BY <3>2, <3>5, <4>1, <4>2 DEF Forking, Reserved
    <3>. QED  BY <3>3, <3>4, <3>5, Records
  <2>. QED  BY <2>1, <2>2
<1>7. GroupInv'
  <2>1. guard' = guard /\ tasks' = tasks /\ thread' = thread /\ txn' = txn
    BY <1>1
  <2>2. ASSUME NEW p \in Ids, procs[p].state = "Active"  PROVE procs'[p] = procs[p]
    BY <1>5, <2>2
  <2>3. ASSUME NEW p \in Ids, NEW i \in Ids, i \in group'[p]
        PROVE  /\ procs'[p].state = "Active" /\ tasks[i].process = p
               /\ thread[i] = "run" \/ guard[i].publication = "Published"
    <3>1. CASE p = g.process /\ i = t
      BY <1>1, <1>2, <1>5, <3>1 DEF g
    <3>2. CASE ~(p = g.process /\ i = t)
      <4>1. i \in group[p]
        BY <1>4, <2>3, <3>2
      <4>. QED  BY <2>2, <4>1, MemberAt
    <3>. QED  BY <3>1, <3>2
  <2>4. ASSUME NEW p \in Ids, NEW i \in Ids  PROVE InGroup(p, i)'
    BY <2>1, <2>3 DEF InGroup
  <2>5. ASSUME NEW p \in Ids, NEW i \in Ids  PROVE Leaving(p, i)'
    BY <2>1, <2>2, LeavingAt DEF Leaving
  <2>6. ASSUME NEW i \in Ids, tasks[i].process # None  PROVE Entered(i)'
    <3>1. tasks[i].process \in Ids
      BY <2>6, Records
    <3>2. i \in group[tasks[i].process] => i \in group'[tasks[i].process]
      BY <1>4, <3>1
    <3>3. procs[tasks[i].process].state = "Active" =>
             procs'[tasks[i].process] = procs[tasks[i].process]
      BY <2>2, <3>1
    <3>. QED  BY <2>1, <2>6, <3>2, <3>3, EntryAt DEF Entered
  <2>7. ASSUME NEW i \in Ids  PROVE Owned(i)'
    <3>1. CASE i = t
      <4>1. procs'[t].state # "None" => tasks[t].process = t
        BY <1>2, <1>3, <1>5
      <4>. QED  BY <2>1, <3>1, <4>1, OwnedAt DEF Owned
    <3>2. CASE i # t
      BY <1>5, <2>1, <3>2, OwnedAt DEF Owned
    <3>. QED  BY <3>1, <3>2
  <2>8. ASSUME NEW i \in Ids, tasks[i].process = None  PROVE Entered(i)'
    BY <2>1, <2>8 DEF Entered
  <2>. QED  BY <2>4, <2>5, <2>6, <2>7, <2>8 DEF GroupInv
<1>8. MemberInv'
  <2>1. ASSUME NEW n \in Nodes  PROVE Listed(t, n)' <=> Listed(t, n)
    <3>1. CASE g.kind = "Process"
      BY <1>1, <1>2, <1>3, <1>5, <3>1 DEF Listed, g
    <3>2. CASE g.kind = "Thread"
      BY <1>1, <1>5, <3>2 DEF Listed
    <3>. QED  BY <1>2, <3>1, <3>2
  <2>2. ASSUME NEW i \in Ids, NEW n \in Nodes, i # t  PROVE Listed(i, n)' <=> Listed(i, n)
    BY <1>1, <1>5, <2>2 DEF Listed
  <2>. QED  BY <1>1, <2>1, <2>2 DEF MemberInv
<1>. QED  BY <1>6, <1>7, <1>8

LEMMA CommitProc ==
    ASSUME TypeOK, ForkInv, TxnInv, ProcInv, NEW t \in Ids, Commit(t)
    PROVE  ProcInv'
<1> USE IdsAssumption DEF ProcInv
<1> DEFINE p == guard[t].process
<1>1. /\ UNCHANGED <<members, tasks, procs, group, txn>>
      /\ guard[t].publication = "Published" /\ t \in group[p]
      /\ pending' = [pending EXCEPT ![t] = None]
      /\ guard' = [guard EXCEPT ![t] = NoGuard]
      /\ thread' = [thread EXCEPT ![t] = "run"]
  BY DEF Commit, nodeVars
<1>2. /\ p \in Ids /\ Forking(t) /\ tasks[t].process = p /\ tasks[t].cgroup = guard[t].cgroup
      /\ guard[t].kind \in {"Process", "Thread"}
  BY <1>1, Exclusive, ForkAt, Records DEF Forking
<1>3. procs[p].state = "Active" /\ procs[p].cgroup = guard[t].cgroup
  <2>1. procs[p].state = "Active"
    BY <1>1, <1>2, MemberAt
  <2>. QED  BY <1>2, <2>1, CloneAt
<1>4. /\ pending'[t] = None /\ guard'[t].publication = "None" /\ thread'[t] = "run"
      /\ \A i \in Ids : i # t => /\ pending'[i] = pending[i] /\ guard'[i] = guard[i]
                                 /\ thread'[i] = thread[i]
  BY <1>1 DEF TypeOK, NoGuard
<1> HIDE DEF p
<1>5. CloneInv'
  <2> SUFFICES ASSUME NEW i \in Ids  PROVE CloneInv!(i)'
    BY DEF CloneInv
  <2>1. CASE i = t
    BY <1>4, <2>1
  <2>2. CASE i # t
    <3>1. pending'[i] = pending[i] /\ guard'[i] = guard[i]
      BY <1>4, <2>2
    <3>. QED  BY <1>1, <3>1 DEF CloneInv
  <2>. QED  BY <2>1, <2>2
<1>6. GroupInv'
  <2>1. ASSUME NEW i \in Ids, i # t  PROVE guard'[i] = guard[i] /\ thread'[i] = thread[i]
    BY <1>4, <2>1
  <2>2. ASSUME NEW q \in Ids, NEW i \in Ids  PROVE InGroup(q, i)'
    <3> SUFFICES ASSUME i \in group[q]  PROVE InGroup(q, i)'
      BY <1>1 DEF InGroup
    <3>. QED  BY <1>1, <1>4, <2>1, MemberAt DEF InGroup
  <2>3. ASSUME NEW q \in Ids, NEW i \in Ids  PROVE Leaving(q, i)'
    BY <1>1 DEF GroupInv, Leaving
  <2>4. Entered(t)'
    BY <1>1, <1>2, <1>3 DEF Entered
  <2>5. ASSUME NEW i \in Ids, i # t  PROVE Entered(i)'
    <3>1. guard'[i] = guard[i]
      BY <2>1, <2>5
    <3>. QED  BY <1>1, <3>1 DEF GroupInv, Entered
  <2>6. ASSUME NEW i \in Ids  PROVE Owned(i)'
    BY <1>1 DEF GroupInv, Owned
  <2>. QED  BY <2>2, <2>3, <2>4, <2>5, <2>6 DEF GroupInv
<1>7. MemberInv'
  <2>1. \A n \in Nodes : Listed(t, n) <=> procs[t].state = "Active" /\ procs[t].cgroup = n
    BY <1>2, <1>3, CloneAt DEF Listed, p
  <2>2. \A n \in Nodes : Listed(t, n)' <=> procs[t].state = "Active" /\ procs[t].cgroup = n
    BY <1>1, <1>4 DEF Listed
  <2>3. \A i \in Ids, n \in Nodes : i # t => (Listed(i, n)' <=> Listed(i, n))
    BY <1>1, <1>4 DEF Listed
  <2>. QED  BY <1>1, <2>1, <2>2, <2>3, SMTT(30) DEF MemberInv
<1>. QED  BY <1>5, <1>6, <1>7

\* The guard of a clone that failed is no longer looked at.
LEMMA DropLedgerProc ==
    ASSUME TypeOK, ForkInv, TxnInv, ProcInv, NEW t \in Ids, DropLedger(t)
    PROVE  ProcInv'
<1> USE IdsAssumption DEF ProcInv
<1>1. /\ UNCHANGED <<members, procs, group, thread, txn>>
      /\ Reserved(t) /\ t \notin group[guard[t].process]
      /\ pending' = [pending EXCEPT ![t] = None]
      /\ tasks' = [tasks EXCEPT ![t] = NoTask]
  BY DEF DropLedger, nodeVars, procVars, Reserved
<1>2. /\ pending'[t] = None /\ tasks'[t] = NoTask /\ guard'[t].kind = guard[t].kind
      /\ guard'[t].cgroup = guard[t].cgroup
      /\ guard'[t].publication = IF guard[t].publication = "Published" /\ guard[t].kind = "Process"
                                 THEN "Member" ELSE "Uncharge"
      /\ \A i \in Ids : i # t => /\ pending'[i] = pending[i] /\ guard'[i] = guard[i]
                                 /\ tasks'[i] = tasks[i]
  BY Records, SMTT(30) DEF DropLedger, TypeOK, Guard
<1>3. ASSUME NEW p \in Ids  PROVE t \notin group[p] /\ txn[p] # t
  <2>1. txn[p] # t
    BY <1>1, Exclusive DEF Reserved
  <2>2. ASSUME t \in group[p]  PROVE FALSE
    <3>1. guard[t].publication = "Published"
      BY <1>1, <2>2, MemberAt, ForkAt DEF Reserved
    <3>2. tasks[t].process = guard[t].process /\ tasks[t].process = p
      BY <2>2, <3>1, MemberAt, ForkAt
    <3>. QED  BY <1>1, <2>2, <3>2
  <2>. QED  BY <2>1, <2>2
<1>4. CloneInv'
  <2> SUFFICES ASSUME NEW i \in Ids  PROVE CloneInv!(i)'
    BY DEF CloneInv
  <2>1. CASE i = t
    BY <1>2, <2>1
  <2>2. CASE i # t
    <3>1. pending'[i] = pending[i] /\ guard'[i] = guard[i]
      BY <1>2, <2>2
    <3>. QED  BY <1>1, <3>1 DEF CloneInv
  <2>. QED  BY <2>1, <2>2
<1>5. GroupInv'
  <2>1. ASSUME NEW i \in Ids, i # t  PROVE guard'[i] = guard[i] /\ tasks'[i] = tasks[i]
    BY <1>2, <2>1
  <2>2. ASSUME NEW p \in Ids, NEW i \in Ids  PROVE InGroup(p, i)'
    <3> SUFFICES ASSUME i \in group[p]  PROVE InGroup(p, i)'
      BY <1>1 DEF InGroup
    <3>1. i # t
      BY <1>3
    <3>2. /\ procs[p].state = "Active" /\ tasks[i].process = p
          /\ thread[i] = "run" \/ guard[i].publication = "Published"
      BY MemberAt
    <3>. QED  BY <1>1, <2>1, <3>1, <3>2 DEF InGroup
  <2>3. ASSUME NEW p \in Ids, NEW i \in Ids  PROVE Leaving(p, i)'
    <3> SUFFICES ASSUME txn[p] = i  PROVE Leaving(p, i)'
      BY <1>1 DEF Leaving
    <3>. QED  BY <1>1, <1>3, <2>1, LeavingAt DEF Leaving
  <2>4. Entered(t)' /\ Owned(t)'
    <3>1. tasks'[t] = NoTask /\ tasks'[t].process = None
      BY <1>2 DEF NoTask
    <3>. QED  BY <3>1 DEF Entered, Owned
  <2>5. ASSUME NEW i \in Ids, i # t  PROVE Entered(i)' /\ Owned(i)'
    <3>1. guard'[i] = guard[i] /\ tasks'[i] = tasks[i]
      BY <2>1, <2>5
    <3>. QED  BY <1>1, <3>1 DEF GroupInv, Entered, Owned
  <2>. QED  BY <2>2, <2>3, <2>4, <2>5 DEF GroupInv
<1>6. MemberInv'
  <2>1. \A n \in Nodes : Listed(t, n)' <=> Listed(t, n)
    BY <1>1, <1>2 DEF Listed, Reserved
  <2>2. \A i \in Ids, n \in Nodes : i # t => (Listed(i, n)' <=> Listed(i, n))
    BY <1>1, <1>2 DEF Listed
  <2>. QED  BY <1>1, <2>1, <2>2 DEF MemberInv
<1>. QED  BY <1>4, <1>5, <1>6

LEMMA DropProc ==
    ASSUME TypeOK, ForkInv, TxnInv, ProcInv, NEW t \in Ids, DropMember(t) \/ DropUncharge(t)
    PROVE  ProcInv'
<1> USE IdsAssumption DEF ProcInv
<1>1. /\ UNCHANGED <<pending, tasks, procs, group, thread, txn>>
      /\ guard[t].publication \in {"Member", "Uncharge"}
  BY DEF DropMember, DropUncharge, procVars
<1>2. /\ guard'[t].publication \in {"None", "Uncharge"}
      /\ \A i \in Ids : i # t => guard'[i] = guard[i]
  <2>1. CASE DropMember(t)
    BY <2>1, Records, SMTT(30) DEF DropMember, TypeOK, Guard
  <2>2. CASE DropUncharge(t)
    <3>1. \A i \in Ids \ {t} : guard'[i] = guard[i]
      BY <2>2 DEF DropUncharge, TypeOK
    <3>2. guard'[t].publication \in {"None", "Uncharge"}
      <4>1. PICK n \in guard[t].path :
               guard' = [guard EXCEPT ![t] = IF guard[t].path = {n} THEN NoGuard
                                             ELSE [guard[t] EXCEPT !.path = @ \ {n}]]
        BY <2>2 DEF DropUncharge
      <4>2. guard'[t] = NoGuard \/ guard'[t] = [guard[t] EXCEPT !.path = @ \ {n}]
        BY <4>1 DEF TypeOK
      <4>3. [guard[t] EXCEPT !.path = @ \ {n}].publication = guard[t].publication
        BY Records, SMTT(30) DEF Guard
      <4>. QED  BY <2>2, <4>2, <4>3 DEF DropUncharge, NoGuard
    <3>. QED  BY <3>1, <3>2
  <2>. QED  BY <2>1, <2>2
<1>3. procs[t].state = "None"
  BY <1>1, ForkAt, Records
<1>4. CloneInv'
  <2> SUFFICES ASSUME NEW i \in Ids  PROVE CloneInv!(i)'
    BY DEF CloneInv
  <2>1. CASE i = t
    BY <1>1, <1>2, <2>1, CloneAt DEF Reserved
  <2>2. CASE i # t
    <3>1. guard'[i] = guard[i]
      BY <1>2, <2>2
    <3>. QED  BY <1>1, <3>1 DEF CloneInv
  <2>. QED  BY <2>1, <2>2
<1>5. GroupInv'
  <2>1. tasks[t].process = None
    BY <1>1, ForkAt
  <2>2. ASSUME NEW i \in Ids, i # t  PROVE guard'[i] = guard[i]
    BY <1>2, <2>2
  <2>3. ASSUME NEW p \in Ids, NEW i \in Ids  PROVE InGroup(p, i)'
    <3> SUFFICES ASSUME i \in group[p]  PROVE InGroup(p, i)'
      BY <1>1 DEF InGroup
    <3>1. /\ procs[p].state = "Active" /\ tasks[i].process = p
          /\ thread[i] = "run" \/ guard[i].publication = "Published"
      BY MemberAt
    <3>2. i # t
      BY <2>1, <3>1
    <3>. QED  BY <1>1, <2>2, <3>1, <3>2 DEF InGroup
  <2>4. ASSUME NEW p \in Ids, NEW i \in Ids  PROVE Leaving(p, i)'
    BY <1>1 DEF GroupInv, Leaving
  <2>5. Entered(t)'
    BY <1>1, <2>1 DEF Entered
  <2>6. ASSUME NEW i \in Ids, i # t  PROVE Entered(i)'
    <3>1. guard'[i] = guard[i]
      BY <2>2, <2>6
    <3>. QED  BY <1>1, <3>1 DEF GroupInv, Entered
  <2>7. ASSUME NEW i \in Ids  PROVE Owned(i)'
    BY <1>1 DEF GroupInv, Owned
  <2>. QED  BY <2>3, <2>4, <2>5, <2>6, <2>7 DEF GroupInv
<1>6. MemberInv'
  <2>1. \A n \in Nodes : ~Listed(t, n)'
    BY <1>1, <1>2, <1>3 DEF Listed
  <2>2. \A i \in Ids, n \in Nodes : i # t => (Listed(i, n)' <=> Listed(i, n))
    BY <1>1, <1>2 DEF Listed
  <2>3. \A i \in Ids, n \in Nodes :
           i \in members'[n] <=> i \in members[n] /\ (i = t => ~Listed(t, n))
    <3>1. CASE DropMember(t)
      BY <1>1, <1>3, <3>1, Records, SMTT(30) DEF DropMember, TypeOK, MemberInv, Listed
    <3>2. CASE DropUncharge(t)
      BY <1>1, <1>3, <3>2 DEF DropUncharge, nodeVars, MemberInv, Listed
    <3>. QED  BY <3>1, <3>2
  <2>. QED  BY <2>1, <2>2, <2>3 DEF MemberInv
<1>. QED  BY <1>4, <1>5, <1>6
-----------------------------------------------------------------------------
(* Steps of a process *)

\* A migration moves a process that no clone is adding to.
LEMMA MigrateProc ==
    ASSUME TypeOK, ChargeInv, ForkInv, TxnInv, ProcInv, NEW p \in Ids, NEW target \in Nodes,
           Migrate(p, target)
    PROVE  ProcInv'
<1> USE IdsAssumption DEF ProcInv
<1> DEFINE old == procs[p].cgroup
<1>1. /\ UNCHANGED <<pending, guard, group, thread, txn>>
      /\ procs[p].state = "Active" /\ target # old
      /\ \A t \in Ids : pending[t] # p
      /\ members' = [members EXCEPT ![old] = @ \ {p}, ![target] = @ \cup {p}]
      /\ procs' = [procs EXCEPT ![p].cgroup = target]
      /\ tasks' = [t \in Ids |-> IF t \in Tasks(p) THEN [tasks[t] EXCEPT !.cgroup = target]
                                 ELSE tasks[t]]
  BY DEF Migrate, HasPendingTask
<1>2. /\ procs'[p].state = "Active" /\ procs'[p].cgroup = target /\ old \in Nodes
      /\ \A q \in Ids : q # p => procs'[q] = procs[q]
  BY <1>1, Records, SMTT(30) DEF TypeOK, Proc
<1>3. ASSUME NEW t \in Ids
      PROVE  /\ tasks'[t].process = tasks[t].process
             /\ tasks[t].process = p => tasks'[t].cgroup = target
             /\ tasks[t].process # p => tasks'[t] = tasks[t]
  BY <1>1, Records, SMTT(30) DEF Tasks, Task
<1>4. /\ \A t \in Ids : Forking(t) => guard[t].process # p
      /\ guard[p].publication = "None"
  <2>1. \A t \in Ids : Forking(t) => guard[t].process # p
    <3>1. \A t \in Ids : Forking(t) => Reserved(t)
      BY FreeLedger DEF Migrate, Forking, Reserved
    <3>. QED  BY <1>1, <3>1, CloneAt, SMTT(30)
  <2>2. ~Forking(p) \/ guard[p].kind = "Thread"
    BY <2>1, CloneAt, Records
  <2>3. ~Forking(p)
    BY <1>1, <2>2, CloneAt
  <2>. QED  BY <1>1, <2>1, <2>3, ForkAt DEF Forking
<1> HIDE DEF old
<1>5. CloneInv'
  <2> SUFFICES ASSUME NEW i \in Ids  PROVE CloneInv!(i)'
    BY DEF CloneInv
  <2>1. Forking(i) => guard[i].process \in Ids /\ guard[i].process # p /\ i # p
    BY <1>4, Exclusive DEF Forking
  <2>2. Forking(i) => procs'[i] = procs[i] /\ procs'[guard[i].process] = procs[guard[i].process]
    BY <1>2, <2>1
  <2>3. guard' = guard /\ pending' = pending /\ group' = group
    BY <1>1
  <2>4. CASE ~Forking(i)
    BY <2>3, <2>4, CloneAt DEF Forking, Reserved
  <2>5. CASE Forking(i)
    BY <2>2, <2>3, <2>5, CloneAt DEF Forking, Reserved
  <2>. QED  BY <2>4, <2>5
<1>6. GroupInv'
  <2>1. \A q \in Ids : procs'[q].state = procs[q].state
    BY <1>1, <1>2
  <2>2. ASSUME NEW q \in Ids, NEW t \in Ids  PROVE InGroup(q, t)'
    <3> SUFFICES ASSUME t \in group[q]  PROVE InGroup(q, t)'
      BY <1>1 DEF InGroup
    <3>. QED  BY <1>1, <1>3, <2>1, MemberAt DEF InGroup
  <2>3. ASSUME NEW q \in Ids, NEW t \in Ids  PROVE Leaving(q, t)'
    <3> SUFFICES ASSUME txn[q] = t  PROVE Leaving(q, t)'
      BY <1>1 DEF Leaving
    <3>. QED  BY <1>1, <1>3, <2>1, LeavingAt DEF Leaving
  <2>4. ASSUME NEW t \in Ids  PROVE Owned(t)'
    <3>1. tasks[t].process = None => tasks'[t] = tasks[t]
      BY <1>3
    <3>. QED  BY <1>3, <2>1, <3>1, OwnedAt DEF Owned
  <2>5. ASSUME NEW t \in Ids, tasks[t].process # None  PROVE Entered(t)'
    <3>1. tasks[t].process \in Ids /\ tasks'[t].process = tasks[t].process
      BY <1>3, <2>5, Records
    <3>2. CASE tasks[t].process = p
      <4>1. tasks'[t].cgroup = procs'[p].cgroup /\ procs'[p].state = "Active"
        BY <1>2, <1>3, <3>2
      <4>2. t \in group[p] \/ txn[p] = t
        <5>1. guard[t].publication # "Published"
          BY <1>4, <3>2, ForkAt DEF Forking
        <5>. QED  BY <2>5, <3>2, <5>1, EntryAt
      <4>. QED  BY <1>1, <3>1, <3>2, <4>1, <4>2 DEF Entered
    <3>3. CASE tasks[t].process # p
      <4>1. tasks'[t] = tasks[t] /\ procs'[tasks[t].process] = procs[tasks[t].process]
        BY <1>2, <1>3, <3>1, <3>3
      <4>2. Entered(t)
        BY DEF GroupInv
      <4>3. UNCHANGED <<group, txn, guard>>
        BY <1>1
      <4>. QED  BY <4>1, <4>2, <4>3 DEF Entered
    <3>. QED  BY <3>2, <3>3
  <2>6. ASSUME NEW t \in Ids, tasks[t].process = None  PROVE Entered(t)'
    BY <1>3, <2>6 DEF Entered
  <2>. QED  BY <2>2, <2>3, <2>4, <2>5, <2>6 DEF GroupInv
<1>7. MemberInv'
  <2>1. \A i \in Ids, n \in Nodes : i # p => (i \in members'[n] <=> i \in members[n])
    BY <1>1, <1>2 DEF TypeOK
  <2>2. \A i \in Ids, n \in Nodes : i # p => (Listed(i, n)' <=> Listed(i, n))
    BY <1>1, <1>2 DEF Listed
  <2>3. \A n \in Nodes : p \in members[n] <=> n = old
    BY <1>1, <1>4 DEF MemberInv, Listed, old
  <2>4. \A n \in Nodes : p \in members'[n] <=> n = target
    BY <1>1, <1>2, <2>3, SMTT(30) DEF TypeOK
  <2>5. \A n \in Nodes : Listed(p, n)' <=> n = target
    BY <1>1, <1>2, <1>4 DEF Listed
  <2>. QED  BY <2>1, <2>2, <2>4, <2>5 DEF MemberInv
<1>. QED  BY <1>5, <1>6, <1>7

\* A thread that leaves its group has no clone in progress.
LEMMA ExitThreadProc ==
    ASSUME TypeOK, ForkInv, TxnInv, ProcInv, NEW t \in Ids, ExitThread(t)
    PROVE  ProcInv'
<1> USE IdsAssumption DEF ProcInv
<1>1. PICK p \in Ids : /\ t \in group[p] /\ txn[p] = None
                       /\ txn' = [txn EXCEPT ![p] = t]
                       /\ group' = [group EXCEPT ![p] = @ \ {t}]
  BY DEF ExitThread
<1>2. /\ UNCHANGED <<members, pending, tasks, guard, procs>> /\ \A i \in Ids : guard[i].by # t
      /\ thread' = [thread EXCEPT ![t] = "exiting"]
  BY DEF ExitThread, Idle, nodeVars, ledgerVars
<1>3. /\ \A q \in Ids : group'[q] = IF q = p THEN group[p] \ {t} ELSE group[q]
      /\ \A q \in Ids : txn'[q] = IF q = p THEN t ELSE txn[q]
      /\ \A i \in Ids : i # t => thread'[i] = thread[i]
  BY <1>1, <1>2 DEF TypeOK
<1>4. procs[p].state = "Active" /\ tasks[t].process = p
  BY <1>1, MemberAt
<1>5. CloneInv'
  <2> SUFFICES ASSUME NEW i \in Ids  PROVE CloneInv!(i)'
    BY DEF CloneInv
  <2>1. Forking(i) => guard[i].process \in Ids /\ guard[i].by # t
    BY <1>2, Exclusive
  <2>2. Forking(i) /\ guard[i].by \in group[guard[i].process] =>
           guard[i].by \in group'[guard[i].process]
    BY <1>3, <2>1
  <2>. QED  BY <1>2, <2>2, CloneAt DEF Forking, Reserved
<1>6. GroupInv'
  <2>1. ASSUME NEW q \in Ids, NEW i \in Ids, i \in group'[q]
        PROVE  i # t /\ i \in group[q]
    <3>1. i \in group[q] /\ (q = p => i # t)
      BY <1>3, <2>1
    <3>2. t \in group[q] => q = p
      BY <1>1, Exclusive
    <3>. QED  BY <3>1, <3>2
  <2>2. ASSUME NEW q \in Ids, NEW i \in Ids  PROVE InGroup(q, i)'
    <3> SUFFICES ASSUME i \in group'[q]  PROVE InGroup(q, i)'
      BY DEF InGroup
    <3>1. i \in group[q] /\ thread'[i] = thread[i]
      BY <1>3, <2>1
    <3>. QED  BY <1>2, <3>1, MemberAt DEF InGroup
  <2>3. ASSUME NEW q \in Ids, NEW i \in Ids  PROVE Leaving(q, i)'
    <3>1. CASE q = p
      BY <1>2, <1>3, <1>4, <3>1 DEF Leaving
    <3>2. CASE q # p
      <4>1. txn'[q] = txn[q]
        BY <1>3, <3>2
      <4>. QED  BY <1>2, <4>1, LeavingAt DEF Leaving
    <3>. QED  BY <3>1, <3>2
  <2>4. ASSUME NEW i \in Ids, tasks[i].process # None  PROVE Entered(i)'
    <3>1. tasks[i].process \in Ids
      BY <2>4, Records
    <3>2. i \in group[tasks[i].process] =>
             i \in group'[tasks[i].process] \/ txn'[tasks[i].process] = i
      BY <1>3, <3>1
    <3>3. txn[tasks[i].process] = i => txn'[tasks[i].process] = i
      BY <1>1, <1>3, <3>1
    <3>. QED  BY <1>2, <2>4, <3>2, <3>3, EntryAt DEF Entered
  <2>5. ASSUME NEW i \in Ids, tasks[i].process = None  PROVE Entered(i)'
    BY <1>2, <2>5 DEF Entered
  <2>6. ASSUME NEW i \in Ids  PROVE Owned(i)'
    BY <1>2, OwnedAt DEF Owned
  <2>. QED  BY <2>2, <2>3, <2>4, <2>5, <2>6 DEF GroupInv
<1>7. MemberInv'
  BY <1>2 DEF MemberInv, Listed
<1>. QED  BY <1>5, <1>6, <1>7

\* An exiting thread takes its ledger entry along; the last one also ends the
\* process, which no clone is adding to.
LEMMA ExitTaskProc ==
    ASSUME TypeOK, ChargeInv, ForkInv, TxnInv, ProcInv, NEW t \in Ids, ExitTask(t)
    PROVE  ProcInv'
<1> USE IdsAssumption DEF ProcInv
<1>1. PICK p \in Ids :
        /\ txn[p] = t /\ procs[p].state = "Active" /\ ExitAccepted(p, t)
        /\ txn' = [txn EXCEPT ![p] = None]
        /\ members' = IF group[p] = {} THEN [members EXCEPT ![tasks[t].cgroup] = @ \ {p}]
                      ELSE members
        /\ procs' = IF group[p] = {} THEN [procs EXCEPT ![p].state = "Exited"] ELSE procs
  BY DEF ExitTask
<1>2. /\ UNCHANGED <<pending, guard, group>>
      /\ tasks' = [tasks EXCEPT ![t] = NoTask] /\ thread' = [thread EXCEPT ![t] = "none"]
  BY DEF ExitTask
<1>3. /\ tasks[t].process = p /\ tasks[t].cgroup = procs[p].cgroup
      /\ group[p] = {} => /\ \A i \in Ids : pending[i] # p
                          /\ \A i \in Ids : tasks[i].process = p => i = t
  <2>1. /\ tasks[t].process = p /\ tasks[t].cgroup = procs[p].cgroup
        /\ group[p] = {} => ~HasPendingTask(p) /\ Tasks(p) = {t}
    BY <1>1 DEF ExitAccepted
  <2>. QED  BY <2>1 DEF HasPendingTask, Tasks
<1>4. /\ guard[t].publication = "None" /\ \A q \in Ids : t \notin group[q]
      /\ \A q \in Ids : q # p => txn[q] # t
  BY <1>1, Exclusive, SMTT(30) DEF TxnInv
<1>5. /\ \A q \in Ids : txn'[q] = IF q = p THEN None ELSE txn[q]
      /\ tasks'[t] = NoTask
      /\ \A i \in Ids : i # t => tasks'[i] = tasks[i] /\ thread'[i] = thread[i]
  BY <1>1, <1>2 DEF TypeOK
<1>6. /\ \A q \in Ids : q # p \/ group[p] # {} => procs'[q] = procs[q]
      /\ group[p] = {} => procs'[p].state = "Exited"
  BY <1>1, Records, SMTT(30) DEF TypeOK, Proc
<1>7. group[p] = {} => \A i \in Ids : Forking(i) => guard[i].process # p /\ i # p
  <2>1. ASSUME group[p] = {}, NEW i \in Ids, Forking(i)
        PROVE  guard[i].process # p /\ i # p
    <3>1. guard[i].process # p
      <4>1. Reserved(i)
        BY <2>1, FreeLedger DEF ExitTask, Forking, Reserved
      <4>2. pending[i] = guard[i].process
        BY <4>1, CloneAt
      <4>3. pending[i] # p
        BY <1>3, <2>1
      <4>. QED  BY <4>2, <4>3
    <3>2. i # p
      BY <1>1, <2>1, <3>1, CloneAt, Records
    <3>. QED  BY <3>1, <3>2
  <2>. QED  BY <2>1
<1>8. CloneInv'
  <2> SUFFICES ASSUME NEW i \in Ids  PROVE CloneInv!(i)'
    BY DEF CloneInv
  <2>1. Forking(i) => guard[i].process \in Ids
    BY Exclusive
  <2>2. Forking(i) => procs'[i] = procs[i] /\ procs'[guard[i].process] = procs[guard[i].process]
    BY <1>6, <1>7, <2>1
  <2>. QED  BY <1>2, <2>2, CloneAt DEF Forking, Reserved
<1>9. GroupInv'
  <2>1. ASSUME NEW q \in Ids, NEW i \in Ids  PROVE InGroup(q, i)'
    <3> SUFFICES ASSUME i \in group[q]  PROVE InGroup(q, i)'
      BY <1>2 DEF InGroup
    <3>1. i # t /\ (q # p \/ group[p] # {})
      BY <1>4
    <3>2. procs'[q] = procs[q] /\ tasks'[i] = tasks[i] /\ thread'[i] = thread[i]
      BY <1>5, <1>6, <3>1
    <3>3. /\ procs[q].state = "Active" /\ tasks[i].process = q
          /\ thread[i] = "run" \/ guard[i].publication = "Published"
      BY MemberAt
    <3>. QED  BY <1>2, <3>2, <3>3 DEF InGroup
  <2>2. ASSUME NEW q \in Ids, NEW i \in Ids  PROVE Leaving(q, i)'
    <3> SUFFICES ASSUME txn'[q] = i  PROVE Leaving(q, i)'
      BY DEF Leaving
    <3>1. q # p /\ i # t /\ txn[q] = i
      BY <1>4, <1>5
    <3>2. procs'[q] = procs[q] /\ tasks'[i] = tasks[i]
      BY <1>5, <1>6, <3>1
    <3>. QED  BY <3>1, <3>2, LeavingAt DEF Leaving
  <2>3. Entered(t)' /\ Owned(t)'
    BY <1>5 DEF Entered, Owned, NoTask
  <2>4. ASSUME NEW i \in Ids, i # t, tasks[i].process # None  PROVE Entered(i)'
    <3>1. tasks'[i] = tasks[i] /\ tasks[i].process \in Ids
      BY <1>5, <2>4, Records
    <3>2. procs'[tasks[i].process] = procs[tasks[i].process]
      BY <1>3, <1>6, <2>4, <3>1
    <3>3. txn[tasks[i].process] = i => txn'[tasks[i].process] = i
      BY <1>1, <1>5, <2>4, <3>1
    <3>4. guard' = guard /\ group' = group
      BY <1>2
    <3>5. Entered(i)
      BY DEF GroupInv
    <3>. QED  BY <3>1, <3>2, <3>3, <3>4, <3>5 DEF Entered
  <2>5. ASSUME NEW i \in Ids, i # t, tasks[i].process = None  PROVE Entered(i)'
    BY <1>5, <2>5 DEF Entered
  <2>6. ASSUME NEW i \in Ids, i # t  PROVE Owned(i)'
    <3>1. procs'[i].state # "None" => procs[i].state # "None"
      BY <1>1, <1>6
    <3>2. tasks'[i] = tasks[i]
      BY <1>5, <2>6
    <3>. QED  BY <3>1, <3>2, OwnedAt DEF Owned
  <2>. QED  BY <2>1, <2>2, <2>3, <2>4, <2>5, <2>6 DEF GroupInv
<1>10. MemberInv'
  <2>1. CASE group[p] # {}
    BY <1>1, <1>2, <2>1, SMTT(30) DEF MemberInv, Listed
  <2>2. CASE group[p] = {}
    <3>1. \A i \in Ids, n \in Nodes : i # p =>
             /\ i \in members'[n] <=> i \in members[n]
             /\ Listed(i, n)' <=> Listed(i, n)
      BY <1>1, <1>2, <1>6, <2>2 DEF TypeOK, Listed
    <3>2. guard[p].publication = "None"
      BY <1>1, <1>7, <2>2, ForkAt DEF Forking
    <3>3. \A n \in Nodes : ~Listed(p, n)' /\ p \notin members'[n]
      BY <1>1, <1>2, <1>3, <1>6, <2>2, <3>2, SMTT(30) DEF TypeOK, MemberInv, Listed
    <3>. QED  BY <3>1, <3>3 DEF MemberInv
  <2>. QED  BY <2>1, <2>2
<1>. QED  BY <1>8, <1>9, <1>10

\* execve: the identity of the leader replaces that of the last thread.
LEMMA DeThreadProc ==
    ASSUME TypeOK, ForkInv, TxnInv, ProcInv, NEW p \in Ids, NEW c \in Ids, DeThread(p, c)
    PROVE  ProcInv'
<1> USE IdsAssumption DEF ProcInv
<1>1. /\ c # p /\ group[p] = {c} /\ thread[c] = "run" /\ \A i \in Ids : guard[i].by # c
      /\ txn[p] = None /\ procs[p].state = "Active" /\ tasks[c].process = p
      /\ tasks[c].cgroup = procs[p].cgroup /\ tasks[p] = NoTask
      /\ UNCHANGED <<members, pending, guard, procs, txn>>
      /\ tasks' = [tasks EXCEPT ![c] = NoTask, ![p] = tasks[c]]
      /\ group' = [group EXCEPT ![p] = {p}]
      /\ thread' = [thread EXCEPT ![c] = "none", ![p] = "run"]
  BY DEF DeThread, ReadyToRename, RenameAccepted, Idle, nodeVars
<1>2. /\ tasks'[c] = NoTask /\ tasks'[p] = tasks[c] /\ thread'[p] = "run"
      /\ \A i \in Ids : i \notin {p, c} => tasks'[i] = tasks[i] /\ thread'[i] = thread[i]
      /\ \A q \in Ids : group'[q] = IF q = p THEN {p} ELSE group[q]
  BY <1>1 DEF TypeOK
<1>3. /\ \A q \in Ids : p \notin group[q] /\ txn[q] # p
      /\ \A q \in Ids : txn[q] # c
      /\ \A q \in Ids : c \in group[q] => q = p
  BY <1>1, Exclusive
<1>4. \A i \in Ids : Forking(i) /\ guard[i].kind = "Thread" => guard[i].process # p
  BY <1>1, CloneAt
<1>5. CloneInv'
  <2> SUFFICES ASSUME NEW i \in Ids  PROVE CloneInv!(i)'
    BY DEF CloneInv
  <2>1. Forking(i) => guard[i].process \in Ids
    BY Exclusive
  <2>2. Forking(i) /\ guard[i].kind = "Thread" => group'[guard[i].process] = group[guard[i].process]
    BY <1>2, <1>4, <2>1
  <2>. QED  BY <1>1, <2>2, CloneAt DEF Forking, Reserved
<1>6. GroupInv'
  <2>1. guard' = guard /\ procs' = procs /\ txn' = txn
    BY <1>1
  <2>2. ASSUME NEW i \in Ids, i \notin {p, c}  PROVE tasks'[i] = tasks[i] /\ thread'[i] = thread[i]
    BY <1>2, <2>2
  <2>3. ASSUME NEW q \in Ids, NEW i \in Ids, q # p  PROVE InGroup(q, i)'
    <3> SUFFICES ASSUME i \in group'[q]  PROVE InGroup(q, i)'
      BY DEF InGroup
    <3>1. i \in group[q] /\ i \notin {p, c}
      BY <1>2, <1>3, <2>3
    <3>. QED  BY <2>1, <2>2, <3>1, MemberAt DEF InGroup
  <2>4. ASSUME NEW i \in Ids  PROVE InGroup(p, i)'
    <3>1. i \in group'[p] => i = p
      BY <1>2
    <3>2. tasks'[p].process = p /\ procs'[p].state = "Active" /\ thread'[p] = "run"
      BY <1>1, <1>2
    <3>. QED  BY <3>1, <3>2 DEF InGroup
  <2>5. ASSUME NEW q \in Ids, NEW i \in Ids  PROVE Leaving(q, i)'
    <3> SUFFICES ASSUME txn[q] = i  PROVE Leaving(q, i)'
      BY <2>1 DEF Leaving
    <3>1. i \notin {p, c}
      BY <1>3
    <3>. QED  BY <2>1, <2>2, <3>1, LeavingAt DEF Leaving
  <2>6. Entered(p)' /\ Owned(p)'
    <3>1. /\ tasks'[p].process = p /\ procs'[p].state = "Active" /\ p \in group'[p]
          /\ tasks'[p].cgroup = procs'[p].cgroup
      BY <1>1, <1>2
    <3>. QED  BY <3>1 DEF Entered, Owned
  <2>7. Entered(c)' /\ Owned(c)'
    BY <1>2 DEF Entered, Owned, NoTask
  <2>8. ASSUME NEW i \in Ids, i \notin {p, c}  PROVE Entered(i)'
    <3>1. CASE tasks[i].process = None
      BY <2>2, <2>8, <3>1 DEF Entered
    <3>2. CASE tasks[i].process # None
      <4>1. tasks'[i] = tasks[i] /\ tasks[i].process \in Ids
        BY <2>2, <2>8, <3>2, Records
      <4>2. i \in group[tasks[i].process] => i \in group'[tasks[i].process]
        BY <1>1, <1>2, <2>8, <4>1
      <4>. QED  BY <2>1, <3>2, <4>1, <4>2, EntryAt DEF Entered
    <3>. QED  BY <3>1, <3>2
  <2>9. ASSUME NEW i \in Ids, i \notin {p, c}  PROVE Owned(i)'
    BY <2>1, <2>2, <2>9, OwnedAt DEF Owned
  <2>. QED  BY <2>3, <2>4, <2>5, <2>6, <2>7, <2>8, <2>9 DEF GroupInv
<1>7. MemberInv'
  BY <1>1, SMTT(30) DEF MemberInv, Listed
<1>. QED  BY <1>5, <1>6, <1>7

LEMMA ReapProc ==
    ASSUME TypeOK, ForkInv, TxnInv, ProcInv, NEW p \in Ids, Reap(p)
    PROVE  ProcInv'
<1> USE IdsAssumption DEF ProcInv
<1>1. /\ UNCHANGED <<members, pending, tasks, guard, group, thread, txn>>
      /\ procs[p].state = "Exited" /\ procs' = [procs EXCEPT ![p] = NoProc]
  BY DEF Reap, nodeVars, ledgerVars
<1>2. procs'[p].state = "None" /\ \A q \in Ids : q # p => procs'[q] = procs[q]
  BY <1>1 DEF TypeOK, NoProc
<1>3. \A q \in Ids : procs[q].state = "Active" => procs'[q] = procs[q]
  BY <1>1, <1>2
<1>4. CloneInv'
  <2> SUFFICES ASSUME NEW i \in Ids  PROVE CloneInv!(i)'
    BY DEF CloneInv
  <2>1. Forking(i) => guard[i].process \in Ids
    BY Exclusive
  <2>2. procs[i].state = "None" => procs'[i].state = "None"
    BY <1>1, <1>2
  <2>3. procs'[i].state = "Active" => procs'[i] = procs[i]
    BY <1>2
  <2>4. Forking(i) /\ procs[guard[i].process].state = "Active" =>
           procs'[guard[i].process] = procs[guard[i].process]
    BY <1>3, <2>1
  <2>5. guard' = guard /\ pending' = pending /\ group' = group
    BY <1>1
  <2>6. CASE ~Forking(i)
    BY <2>5, <2>6, CloneAt DEF Forking, Reserved
  <2>7. CASE Forking(i) /\ guard[i].kind = "Process"
    BY <2>3, <2>5, <2>7, CloneAt DEF Forking, Reserved
  <2>8. CASE Forking(i) /\ guard[i].kind = "Thread"
    BY <2>2, <2>4, <2>5, <2>8, CloneAt DEF Forking, Reserved
  <2>. QED  BY <2>6, <2>7, <2>8, Records
<1>5. GroupInv'
  <2>1. \A i \in Ids : tasks[i].process # None => tasks[i].process \in Ids
    BY Records
  <2>2. \A i \in Ids : procs'[i].state # "None" => procs[i].state # "None"
    BY <1>2
  <2>3. ASSUME NEW q \in Ids, NEW i \in Ids  PROVE InGroup(q, i)' /\ Leaving(q, i)'
    BY <1>1, <1>3, MemberAt, LeavingAt DEF InGroup, Leaving
  <2>4. ASSUME NEW i \in Ids  PROVE Entered(i)'
    <3>1. tasks' = tasks /\ guard' = guard /\ group' = group /\ txn' = txn
      BY <1>1
    <3>2. tasks[i].process # None /\ procs[tasks[i].process].state = "Active" =>
             procs'[tasks[i].process] = procs[tasks[i].process]
      BY <1>3, <2>1
    <3>3. Entered(i)
      BY DEF GroupInv
    <3>. QED  BY <3>1, <3>2, <3>3 DEF Entered
  <2>5. ASSUME NEW i \in Ids  PROVE Owned(i)'
    BY <1>1, <2>2, OwnedAt DEF Owned
  <2>. QED  BY <2>3, <2>4, <2>5 DEF GroupInv
<1>6. MemberInv'
  <2>1. ASSUME NEW q \in Ids, NEW n \in Nodes  PROVE Listed(q, n)' <=> Listed(q, n)
    <3>1. (procs'[q].state = "Active" /\ procs'[q].cgroup = n)
             <=> (procs[q].state = "Active" /\ procs[q].cgroup = n)
      BY <1>1, <1>2
    <3>2. guard'[q] = guard[q]
      BY <1>1
    <3>. QED  BY <3>1, <3>2 DEF Listed
  <2>. QED  BY <1>1, <2>1 DEF MemberInv
<1>. QED  BY <1>4, <1>5, <1>6

-----------------------------------------------------------------------------
(* The theorems *)

LEMMA ProcStep ==
    TypeOK /\ ChargeInv /\ ForkInv /\ TxnInv /\ ProcInv /\ [Next]_vars => ProcInv'
<1> SUFFICES ASSUME TypeOK, ChargeInv, ForkInv, TxnInv, ProcInv, [Next]_vars
             PROVE  ProcInv'
  OBVIOUS
<1>0. CASE UNCHANGED vars
  BY <1>0, ProcFrame DEF vars, nodeVars
<1>1. ASSUME NEW c \in Ids, NEW t \in Ids, NEW kind \in {"Process", "Thread"}, BeginTask(c, t, kind)
      PROVE  ProcInv'
  <2>1. PICK p \in Ids : /\ c \in group[p] /\ procs[p].state = "Active"
                         /\ BeginTaskAt(c, t, p, kind, procs[p].cgroup, p)
    BY <1>1 DEF BeginTask
  <2>2. procs[p].cgroup \in Nodes
    BY Records
  <2>. QED  BY <2>1, <2>2, BeginProc
<1>2. ASSUME NEW c \in Ids, NEW t \in Ids, NEW target \in Nodes, BeginProcessAt(c, t, target)
      PROVE  ProcInv'
  BY <1>2, BeginProc DEF BeginProcessAt
<1>3. ASSUME NEW n \in Nodes, Directory(n)
      PROVE  ProcInv'
  <2>1. UNCHANGED <<members, ledgerVars, procVars>>
    BY <1>3 DEF Directory, CreateChild, RemoveChild, Reclaim, WriteSubtreeControl, Pin, Unpin,
                WritePidsMax, nodeVars
  <2>. QED  BY <2>1, ProcFrame
<1>. QED
  BY <1>0, <1>1, <1>2, <1>3, ChargingProc, PublishProc, PublishCloneProc, CommitProc, DropLedgerProc,
     DropProc, MigrateProc, ExitThreadProc, ExitTaskProc, DeThreadProc, ReapProc DEF Next, Fork, Process

LEMMA InitProc == Init => ChargeInv /\ ForkInv /\ TxnInv /\ ProcInv
<1> SUFFICES ASSUME Init  PROVE ChargeInv /\ ForkInv /\ TxnInv /\ ProcInv
  OBVIOUS
<1> USE HierarchyAssumption, IdsAssumption DEF Init, NoTask, NoGuard, NoProc
<1>0. ChargeInv
  BY DEF ChargeInv, NoCharge
<1>1. ForkInv
  BY DEF ForkInv
<1>2. TxnInv
  BY DEF TxnInv
<1>3. CloneInv
  BY DEF CloneInv
<1>4. GroupInv
  <2>1. ASSUME NEW p \in Ids, NEW t \in Ids  PROVE InGroup(p, t)
    BY DEF InGroup
  <2>2. ASSUME NEW p \in Ids, NEW t \in Ids  PROVE Leaving(p, t)
    BY DEF Leaving
  <2>3. ASSUME NEW t \in Ids  PROVE Entered(t)
    BY DEF Entered
  <2>4. ASSUME NEW t \in Ids  PROVE Owned(t)
    BY DEF Owned
  <2>. QED  BY <2>1, <2>2, <2>3, <2>4 DEF GroupInv
<1>5. MemberInv
  BY DEF MemberInv, Listed
<1>. QED  BY <1>0, <1>1, <1>2, <1>3, <1>4, <1>5 DEF ProcInv

\* The ledger, the thread groups, the membership of every process and the
\* cgroup.procs lists agree in every reachable state (inductive invariant).
THEOREM ProcessInvariant == Spec => [](TypeOK /\ ChargeInv /\ ForkInv /\ TxnInv /\ ProcInv)
  BY InitProc, TypeCorrect, ChargeStep, ForkStep, ProcStep, PTL DEF Spec

\* exit_task and rename_task always find the ledger entry that they demand, so
\* that neither cgroup_exit_invariant::enforce nor the expect of execve stops
\* the kernel (NeverPanics), for every hierarchy and number of tasks.
THEOREM ExitNeverPanics == Spec => []NeverPanics
<1>1. TypeOK /\ ForkInv /\ TxnInv /\ ProcInv => NeverPanics
  <2> SUFFICES ASSUME TypeOK, ForkInv, TxnInv, ProcInv  PROVE NeverPanics
    OBVIOUS
  <2> USE IdsAssumption DEF ProcInv
  <2>1. ASSUME NEW p \in Ids, NEW t \in Ids, txn[p] = t
        PROVE  procs[p].state = "Active" /\ ExitAccepted(p, t)
    <3>1. procs[p].state = "Active" /\ tasks[t].process = p /\ guard[t].publication = "None"
      BY <2>1, Exclusive, LeavingAt
    <3>2. tasks[t].cgroup = procs[p].cgroup
      BY <3>1, EntryAt
    <3>3. ASSUME group[p] = {}, NEW u \in Ids, pending[u] = p
          PROVE  FALSE
      <4>1. Forking(u) /\ guard[u].process = p /\ guard[u].kind \in {"Process", "Thread"}
        BY <3>3, CloneAt, Records
      <4>2. guard[u].kind = "Process" /\ u = p
        BY <3>3, <4>1, CloneAt
      <4>. QED  BY <3>1, <3>3, <4>1, <4>2, ForkAt DEF Forking, Reserved
    <3>4. ASSUME group[p] = {}, NEW u \in Ids, tasks[u].process = p
          PROVE  u = t
      <4>1. guard[u].publication # "Published"
        <5>1. guard[u].publication = "Published" => pending[u] = p
          BY <3>4, ForkAt
        <5>. QED  BY <3>3, <3>4, <5>1
      <4>. QED  BY <2>1, <3>4, <4>1, EntryAt
    <3>. QED  BY <3>1, <3>2, <3>3, <3>4 DEF ExitAccepted, HasPendingTask, Tasks
  <2>2. ASSUME NEW p \in Ids, NEW c \in Ids, ReadyToRename(p, c)
        PROVE  RenameAccepted(p, c)
    <3>1. c # p /\ group[p] = {c} /\ thread[c] = "run" /\ txn[p] = None
      BY <2>2 DEF ReadyToRename, Idle
    <3>2. /\ procs[p].state = "Active" /\ tasks[c].process = p
          /\ guard[c].publication = "None"
      <4>1. c \in group[p]
        BY <3>1
      <4>2. guard[c].publication = "None"
        BY <3>1, ForkAt
      <4>. QED  BY <4>1, <4>2, MemberAt
    <3>3. tasks[c].cgroup = procs[p].cgroup
      BY <3>2, EntryAt
    <3>4. ~Forking(p)
      <4>1. Forking(p) => guard[p].publication = "Published" /\ p \in group[guard[p].process]
        BY <3>2, ForkAt DEF Forking
      <4>2. Forking(p) => guard[p].kind = "Process" /\ guard[p].process = p
        BY <3>2, CloneAt, Records
      <4>. QED  BY <3>1, <4>1, <4>2
    <3>5. tasks[p] = NoTask
      <4>1. tasks[p].process \in {p, None}
        BY <3>2, OwnedAt
      <4>2. tasks[p].process # p
        <5>1. p \notin group[p] /\ txn[p] # p /\ guard[p].publication # "Published"
          BY <3>1, <3>4 DEF Forking
        <5>. QED  BY <5>1, EntryAt
      <4>. QED  BY <4>1, <4>2, OwnedAt
    <3>6. pending[p] = None
      BY <3>4, CloneAt
    <3>. QED  BY <3>2, <3>3, <3>5, <3>6 DEF RenameAccepted
  <2>. QED  BY <2>1, <2>2 DEF NeverPanics
<1>. QED  BY <1>1, ProcessInvariant, PTL

\* An active process is listed in cgroup.procs of its own cgroup and nowhere
\* else, and its ledger entries are all there (OneCgroupPerProcess).
THEOREM ProcessesStayTogether == Spec => []OneCgroupPerProcess
<1>1. TypeOK /\ ForkInv /\ TxnInv /\ ProcInv => OneCgroupPerProcess
  <2> SUFFICES ASSUME TypeOK, ForkInv, TxnInv, ProcInv, NEW p \in Ids, procs[p].state = "Active"
               PROVE  /\ {n \in Nodes : p \in members[n]} = {procs[p].cgroup}
                      /\ \A t \in Tasks(p) : tasks[t].cgroup = procs[p].cgroup
    BY DEF OneCgroupPerProcess
  <2> USE IdsAssumption DEF ProcInv
  <2>1. guard[p].publication = "Published" =>
           guard[p].kind = "Process" /\ guard[p].process = p /\ procs[p].cgroup = guard[p].cgroup
    BY CloneAt, Records DEF Forking, Reserved
  <2>2. guard[p].publication # "Member"
    BY ForkAt
  <2>3. \A n \in Nodes : p \in members[n] <=> n = procs[p].cgroup
    BY <2>1, <2>2 DEF MemberInv, Listed
  <2>4. ASSUME NEW t \in Ids, tasks[t].process = p
        PROVE  tasks[t].cgroup = procs[p].cgroup
    <3>1. CASE guard[t].publication = "Published" /\ t = p
      BY <2>1, <2>4, <3>1, ForkAt
    <3>2. CASE ~(guard[t].publication = "Published" /\ t = p)
      BY <2>4, <3>2, EntryAt
    <3>. QED  BY <3>1, <3>2
  <2>5. {n \in Nodes : p \in members[n]} = {procs[p].cgroup}
    BY <2>3, Records
  <2>. QED  BY <2>4, <2>5 DEF Tasks
<1>. QED  BY <1>1, ProcessInvariant, PTL

-----------------------------------------------------------------------------
(* The counters *)

\* The identities whose value under F contains n.
Holders(F, n) == {t \in Ids : n \in F[t]}

\* The change of a counter at n when the identities M move from A to B.
Shift(M, A, B, n) == (IF n \in B THEN Cardinality(M) ELSE 0) - (IF n \in A THEN Cardinality(M) ELSE 0)

\* G differs from F in that the members of M turn from the value A to B.
Moves(F, G, M, A, B) ==
    /\ M \in SUBSET Ids
    /\ \A t \in M : F[t] = A /\ G[t] = B
    /\ \A t \in Ids \ M : G[t] = F[t]

\* When the members of M turn from the value A to the value B and nothing else
\* changes, the number of identities that hold n changes by |M| accordingly.
LEMMA CountMove ==
    ASSUME NEW F, NEW G, NEW M, NEW A, NEW B, NEW n, Moves(F, G, M, A, B)
    PROVE  Cardinality(Holders(G, n))
             = Cardinality(Holders(F, n)) + Shift(M, A, B, n)
<1> DEFINE S == {t \in Ids \ M : n \in F[t]}
<1>0. /\ M \in SUBSET Ids
      /\ \A t \in M : F[t] = A /\ G[t] = B
      /\ \A t \in Ids \ M : G[t] = F[t]
  BY DEF Moves
<1>1. IsFiniteSet(S) /\ IsFiniteSet(M)
  BY <1>0, IdsAssumption, FS_Subset
<1>2. Cardinality(S) \in Nat /\ Cardinality(M) \in Nat
  BY <1>1, FS_CardinalityType
<1>3. Cardinality(S \cup M) = Cardinality(S) + Cardinality(M)
  <2>1. S \cap M = {}
    OBVIOUS
  <2>2. Cardinality({}) = 0
    BY FS_EmptySet
  <2> HIDE DEF S
  <2>3. Cardinality(S \cup M) = Cardinality(S) + Cardinality(M) - Cardinality(S \cap M)
    BY <1>1, FS_Union
  <2>4. Cardinality(S \cap M) = 0
    BY <2>1, <2>2
  <2>. QED  BY <1>2, <2>3, <2>4, SMTT(30)
<1>4. ASSUME NEW H, NEW X, \A t \in M : H[t] = X, \A t \in Ids \ M : H[t] = F[t]
      PROVE  Cardinality(Holders(H, n))
               = Cardinality(S) + (IF n \in X THEN Cardinality(M) ELSE 0)
  <2>1. CASE n \in X
    <3>1. Holders(H, n) = S \cup M
      BY <1>0, <1>4, <2>1 DEF Holders
    <3>2. Cardinality(Holders(H, n)) = Cardinality(S \cup M)
      BY <3>1
    <3> HIDE DEF S
    <3>. QED  BY <1>2, <1>3, <2>1, <3>2
  <2>2. CASE n \notin X
    <3>1. Holders(H, n) = S
      BY <1>0, <1>4, <2>2 DEF Holders
    <3>2. Cardinality(Holders(H, n)) = Cardinality(S)
      BY <3>1
    <3> HIDE DEF S
    <3>. QED  BY <1>2, <2>2, <3>2, SMTT(30)
  <2>. QED  BY <2>1, <2>2
<1> HIDE DEF S
<1>5. Cardinality(Holders(F, n)) = Cardinality(S) + (IF n \in A THEN Cardinality(M) ELSE 0)
  BY <1>0, <1>4
<1>6. Cardinality(Holders(G, n)) = Cardinality(S) + (IF n \in B THEN Cardinality(M) ELSE 0)
  BY <1>0, <1>4
<1>. QED  BY <1>2, <1>5, <1>6, SMTT(30) DEF Shift

\* The step moves the charges of the identities M from the nodes A to the nodes
\* B, and the counters with them.
ChargeMoves(M, A, B) ==
    /\ M \in SUBSET Ids
    /\ \A t \in M : ChargedNodes(t) = A /\ ChargedNodes(t)' = B
    /\ \A t \in Ids \ M : ChargedNodes(t)' = ChargedNodes(t)
    /\ \A n \in Nodes : current'[n] = current[n] + Shift(M, A, B, n)

\* A step that moves the charges of M from the nodes A to the nodes B, and the
\* counters with them, keeps the counters exact.
LEMMA ExactMove ==
    ASSUME Exact, NEW M, NEW A, NEW B, ChargeMoves(M, A, B)
    PROVE  Exact'
<1> DEFINE F == [t \in Ids |-> ChargedNodes(t)]
           G == [t \in Ids |-> ChargedNodes(t)']
<1> SUFFICES ASSUME NEW n \in Nodes
             PROVE  current'[n] = Cardinality(ChargedIds(n)')
  BY DEF Exact
<1>1. Moves(F, G, M, A, B)
  BY DEF Moves, ChargeMoves
<1>2. ChargedIds(n) = Holders(F, n) /\ ChargedIds(n)' = Holders(G, n)
  BY DEF ChargedIds, Holders
<1>3. current[n] = Cardinality(ChargedIds(n))
  BY DEF Exact
<1> HIDE DEF F, G
<1>4. Cardinality(Holders(G, n)) = Cardinality(Holders(F, n)) + Shift(M, A, B, n)
  BY <1>1, CountMove, SMTT(30)
<1>5. current[n] = Cardinality(Holders(F, n))
  BY <1>2, <1>3
<1>6. current'[n] = Cardinality(Holders(G, n))
  BY <1>4, <1>5 DEF ChargeMoves
<1>. QED  BY <1>2, <1>6

\* A step that changes no charge and no counter keeps the counters exact.
LEMMA ExactSame ==
    ASSUME Exact, UNCHANGED current,
           \A t \in Ids : ChargedNodes(t)' = ChargedNodes(t)
    PROVE  Exact'
<1>1. \A n \in Nodes : ChargedIds(n)' = ChargedIds(n)
  BY DEF ChargedIds
<1>. QED  BY <1>1 DEF Exact

\* Handing the charges of c over to the identity p keeps the counters exact.
LEMMA ExactSwap ==
    ASSUME Exact, UNCHANGED current, NEW c \in Ids, NEW p \in Ids, NEW A, c # p,
           ChargedNodes(c) = A, ChargedNodes(p) = {},
           ChargedNodes(c)' = {}, ChargedNodes(p)' = A,
           \A t \in Ids \ {c, p} : ChargedNodes(t)' = ChargedNodes(t)
    PROVE  Exact'
<1> DEFINE F == [t \in Ids |-> ChargedNodes(t)]
           H == [t \in Ids |-> IF t = c THEN {} ELSE ChargedNodes(t)]
           G == [t \in Ids |-> ChargedNodes(t)']
<1> SUFFICES ASSUME NEW n \in Nodes
             PROVE  current'[n] = Cardinality(ChargedIds(n)')
  BY DEF Exact
<1>0. Moves(F, H, {c}, A, {})
  BY DEF Moves
<1>1. Moves(H, G, {p}, {}, A)
  BY DEF Moves
<1>2. ChargedIds(n) = Holders(F, n) /\ ChargedIds(n)' = Holders(G, n)
  BY DEF ChargedIds, Holders
<1>3. current[n] = Cardinality(ChargedIds(n))
  BY DEF Exact
<1>4. current[n] = Cardinality(Holders(F, n))
  BY <1>2, <1>3
<1>5. Cardinality(Holders(F, n)) \in Nat
  BY IdsAssumption, FS_Subset, FS_CardinalityType DEF Holders
<1> HIDE DEF F, G, H
<1>6. Cardinality(Holders(H, n)) = Cardinality(Holders(F, n)) + Shift({c}, A, {}, n)
  BY <1>0, CountMove
<1>7. Cardinality(Holders(G, n)) = Cardinality(Holders(H, n)) + Shift({p}, {}, A, n)
  BY <1>1, CountMove
<1>8. Cardinality({c}) = 1 /\ Cardinality({p}) = 1
  BY FS_Singleton
<1>9. current'[n] = Cardinality(Holders(G, n))
  BY <1>4, <1>5, <1>6, <1>7, <1>8, SMTT(30) DEF Shift
<1>. QED  BY <1>2, <1>9

\* As long as no task is orphaned, every step keeps the counters exact.
LEMMA ExactStep ==
    ASSUME TypeOK, ChargeInv, ForkInv, TxnInv, PathInv, NoOrphan, NoOrphan', Exact, [Next]_vars
    PROVE  Exact'
<1> USE IdsAssumption
<1>a. /\ guard \in [Ids -> Guard] /\ tasks \in [Ids -> Task] /\ procs \in [Ids -> Proc]
      /\ current \in [Nodes -> Int]
  BY DEF TypeOK
<1>b. \A i \in Ids : /\ guard[i].cgroup \in Nodes /\ tasks[i].cgroup \in Nodes
                     /\ procs[i].cgroup \in Nodes /\ guard[i].path \in SUBSET Nodes
  BY <1>a DEF Guard, Task, Proc
<1>c. NoTask.process = None /\ NoGuard.publication = "None"
  BY DEF NoTask, NoGuard
<1>u. ASSUME UNCHANGED nstate
      PROVE  /\ \A n \in Nodes : Ancestry(n)' = Ancestry(n)
             /\ \A t \in Ids : guard'[t] = guard[t] /\ tasks'[t] = tasks[t] =>
                                  ChargedNodes(t)' = ChargedNodes(t)
  BY <1>u DEF ChargedNodes, Ancestry, Live
<1>g. \A t \in Ids : (/\ guard[t].publication # "None" /\ guard'[t].publication # "None"
                      /\ guard'[t].path = guard[t].path) => ChargedNodes(t)' = ChargedNodes(t)
  BY DEF ChargedNodes
<1>o. \A t \in Ids : tasks[t].process # None => Ancestry(tasks[t].cgroup) = Above[tasks[t].cgroup]
  BY <1>b, Walk DEF NoOrphan
<1>1. \A t \in Ids : Cardinality({t}) = 1
  BY FS_Singleton
<1>e. ASSUME NEW t \in Ids, UNCHANGED nstate,
             \A i \in Ids \ {t} : guard'[i] = guard[i] /\ tasks'[i] = tasks[i],
             \A n \in Nodes : current'[n] = current[n]
                                  + (IF n \in ChargedNodes(t)' THEN 1 ELSE 0)
                                  - (IF n \in ChargedNodes(t) THEN 1 ELSE 0)
      PROVE  Exact'
  <2> DEFINE A == ChargedNodes(t)
             B == ChargedNodes(t)'
  <2>1. \A n \in Nodes : current'[n] = current[n] + Shift({t}, A, B, n)
    BY <1>a, <1>e, <1>1 DEF Shift
  <2>2. \A i \in Ids \ {t} : ChargedNodes(i)' = ChargedNodes(i)
    BY <1>e, <1>u
  <2>3. ChargeMoves({t}, A, B)
    BY <1>e, <2>1, <2>2 DEF ChargeMoves
  <2>. QED  BY <2>3, ExactMove
<1>r. ASSUME NEW c \in Ids, NEW t \in Ids, NEW p \in Ids,
             NEW kind \in {"Process", "Thread"}, NEW target \in Nodes, NEW locked,
             BeginTaskAt(c, t, p, kind, target, locked)
      PROVE  Exact'
  <2>0. BeginOf(c, t, p, kind, target)
    BY <1>r, BeginEffect
  <2>1. UNCHANGED <<nstate, current, tasks>> /\ Fresh(t)
    BY <2>0 DEF BeginOf, nodeVars, pidsVars
  <2>2. /\ \A i \in Ids \ {t} : guard'[i] = guard[i]
        /\ guard'[t].publication = "Charging" /\ guard'[t].path = {}
    BY <2>0 DEF BeginOf
  <2>3. ChargedNodes(t) = {}
    BY <2>1, <1>c DEF Fresh, ChargedNodes
  <2>4. ChargedNodes(t)' = {}
    BY <2>2 DEF ChargedNodes
  <2>5. \A i \in Ids : ChargedNodes(i)' = ChargedNodes(i)
    BY <1>u, <2>1, <2>2, <2>3, <2>4
  <2>. QED  BY <2>1, <2>5, ExactSame
<1>k. ASSUME NEW n \in Nodes, Charging(n)
      PROVE  Exact'
  <2>1. PICK t \in Ids : ChargeOf(t, n)
    BY <1>k, ChargingEffect
  <2>2. /\ UNCHANGED <<nstate, tasks>> /\ guard[t].publication = "Charging"
        /\ \A i \in Ids \ {t} : guard'[i] = guard[i] /\ tasks'[i] = tasks[i]
        /\ n \notin guard[t].path
    BY <2>1 DEF ChargeOf, nodeVars
  <2>3. ChargedNodes(t) = guard[t].path /\ tasks[t].process = None
    BY <2>2, ForkAt DEF ChargedNodes
  <2>4. CASE ChargeWaits(t)
    BY <1>u, <2>2, <2>4, ExactSame DEF ChargeWaits
  <2>5. CASE ChargeUndone(t)
    <3>1. guard'[t].publication = "None"
      BY <1>a, <1>c, <2>5 DEF ChargeUndone
    <3>2. ChargedNodes(t)' = {}
      BY <2>2, <2>3, <3>1 DEF ChargedNodes
    <3>3. \A m \in Nodes : current'[m] = current[m] + (IF m \in {} THEN 1 ELSE 0)
                                                    - (IF m \in guard[t].path THEN 1 ELSE 0)
      <4>1. current' = [m \in Nodes |-> IF m \in guard[t].path THEN current[m] - 1
                                                            ELSE current[m]]
        BY <1>a, <2>5, SMTT(30) DEF ChargeUndone, Charged
      <4>2. \A m \in Nodes : current[m] \in Int
        BY <1>a
      <4>. QED  BY <4>1, <4>2, SMTT(30)
    <3>4. \A m \in Nodes : current'[m] = current[m]
                                + (IF m \in ChargedNodes(t)' THEN 1 ELSE 0)
                                - (IF m \in ChargedNodes(t) THEN 1 ELSE 0)
      BY <2>3, <3>2, <3>3
    <3>. QED  BY <1>e, <2>2, <3>4
  <2>6. CASE ChargeGrows(t, n)
    <3>1. /\ guard'[t].publication \in {"Charging", "Prepared"}
          /\ guard'[t].path = guard[t].path \cup {n}
          /\ current' = [current EXCEPT ![n] = current[n] + 1]
      BY <2>6 DEF ChargeGrows
    <3>2. ChargedNodes(t)' = guard[t].path \cup {n}
      BY <3>1 DEF ChargedNodes
    <3>3. \A m \in Nodes : current'[m] = current[m]
                                + (IF m \in guard[t].path \cup {n} THEN 1 ELSE 0)
                                - (IF m \in guard[t].path THEN 1 ELSE 0)
      <4>1. ASSUME NEW m \in Nodes
            PROVE  /\ current'[m] = IF m = n THEN current[n] + 1 ELSE current[m]
                   /\ current[m] \in Int
        BY <1>a, <3>1
      <4>. QED  BY <2>2, <4>1, SMTT(30)
    <3>4. \A m \in Nodes : current'[m] = current[m]
                                + (IF m \in ChargedNodes(t)' THEN 1 ELSE 0)
                                - (IF m \in ChargedNodes(t) THEN 1 ELSE 0)
      BY <2>3, <3>2, <3>3
    <3>. QED  BY <1>e, <2>2, <3>4
  <2>. QED  BY <2>1, <2>4, <2>5, <2>6 DEF ChargeOf
<1>2. ASSUME NEW c \in Ids, NEW t \in Ids, NEW kind \in {"Process", "Thread"}, BeginTask(c, t, kind)
      PROVE  Exact'
  <2>1. PICK p \in Ids : BeginTaskAt(c, t, p, kind, procs[p].cgroup, p)
    BY <1>2 DEF BeginTask
  <2>. QED  BY <2>1, <1>b, <1>r
<1>3. ASSUME NEW c \in Ids, NEW t \in Ids, NEW target \in Nodes, BeginProcessAt(c, t, target)
      PROVE  Exact'
  BY <1>3, <1>r DEF BeginProcessAt
<1>4. ASSUME NEW t \in Ids, Publish(t) \/ DropLedger(t) \/ DropMember(t)
      PROVE  Exact'
  <2>1. UNCHANGED <<nstate, current>>
    BY <1>4 DEF Publish, DropLedger, DropMember, pidsVars, nodeVars
  <2>2. /\ guard[t].publication # "None" /\ guard'[t].publication # "None"
        /\ guard'[t].path = guard[t].path
    BY <1>4, <1>a, SMTT(30) DEF Publish, DropLedger, DropMember, Guard
  <2>3. \A i \in Ids \ {t} : guard'[i] = guard[i] /\ tasks'[i] = tasks[i]
    BY <1>4, <1>a DEF Publish, DropLedger, DropMember
  <2>4. \A i \in Ids : ChargedNodes(i)' = ChargedNodes(i)
    BY <1>g, <1>u, <2>1, <2>2, <2>3
  <2>. QED  BY <2>1, <2>4, ExactSame
<1>5. ASSUME NEW t \in Ids, PublishClone(t)
      PROVE  Exact'
  <2>1. UNCHANGED <<nstate, current, guard, tasks>>
    BY <1>5 DEF PublishClone, nodeVars, pidsVars, ledgerVars
  <2>. QED  BY <1>u, <2>1, ExactSame
<1>6. ASSUME NEW t \in Ids, Commit(t)
      PROVE  Exact'
  <2>1. /\ UNCHANGED <<nstate, current, tasks>> /\ guard' = [guard EXCEPT ![t] = NoGuard]
        /\ guard[t].publication = "Published"
    BY <1>6 DEF Commit, nodeVars, pidsVars
  <2>2. tasks[t].process # None /\ tasks[t].cgroup = guard[t].cgroup
    <3>1. /\ tasks[t].process = guard[t].process /\ guard[t].process \in Ids
          /\ tasks[t].cgroup = guard[t].cgroup
      BY <2>1, ForkAt
    <3>. QED  BY <3>1
  <2>3. Ancestry(tasks[t].cgroup) = Above[tasks[t].cgroup]
    BY <1>o, <2>2
  <2>4. guard[t].path = Above[guard[t].cgroup]
    <3>1. \A a \in Above[guard[t].cgroup] : nstate[a] # "freed"
      BY <2>2 DEF NoOrphan, Openable, Live
    <3>. QED  BY <2>1, <3>1 DEF PathInv
  <2>5. guard'[t].publication = "None" /\ tasks'[t] = tasks[t]
    BY <2>1, <1>a, <1>c
  <2>6. ChargedNodes(t)' = Ancestry(tasks[t].cgroup)
    BY <2>1, <2>2, <2>5, <1>u, <1>b DEF ChargedNodes
  <2>7. ChargedNodes(t) = guard[t].path
    BY <2>1 DEF ChargedNodes
  <2>8. \A i \in Ids \ {t} : guard'[i] = guard[i] /\ tasks'[i] = tasks[i]
    BY <2>1, <1>a
  <2>9. \A i \in Ids : ChargedNodes(i)' = ChargedNodes(i)
    BY <1>u, <2>1, <2>2, <2>3, <2>4, <2>6, <2>7, <2>8
  <2>. QED  BY <2>1, <2>9, ExactSame
<1>7. ASSUME NEW t \in Ids, DropUncharge(t)
      PROVE  Exact'
  <2>1. PICK n \in guard[t].path :
           /\ current' = [current EXCEPT ![n] = @ - 1]
           /\ guard' = [guard EXCEPT ![t] = IF guard[t].path = {n} THEN NoGuard
                                            ELSE [guard[t] EXCEPT !.path = @ \ {n}]]
    BY <1>7 DEF DropUncharge
  <2>2. UNCHANGED <<nstate, tasks>> /\ guard[t].publication = "Uncharge"
    BY <1>7 DEF DropUncharge, nodeVars
  <2>3. tasks[t].process = None
    BY <2>2, ForkAt
  <2>4. ChargedNodes(t) = guard[t].path
    BY <2>2 DEF ChargedNodes
  <2>5. ChargedNodes(t)' = guard[t].path \ {n}
    <3>1. CASE guard[t].path = {n}
      <4>1. guard'[t] = NoGuard
        BY <1>a, <2>1, <3>1
      <4>2. ChargedNodes(t)' = {}
        BY <4>1, <1>c, <2>2, <2>3 DEF ChargedNodes
      <4>. QED  BY <3>1, <4>2
    <3>2. CASE guard[t].path # {n}
      <4>1. guard'[t] = [guard[t] EXCEPT !.path = @ \ {n}]
        BY <1>a, <2>1, <3>2
      <4>2. guard'[t].publication = "Uncharge" /\ guard'[t].path = guard[t].path \ {n}
        BY <4>1, <1>a, <2>2, SMTT(30) DEF Guard
      <4>. QED  BY <4>2 DEF ChargedNodes
    <3>. QED  BY <3>1, <3>2
  <2>6. \A i \in Ids \ {t} : guard'[i] = guard[i] /\ tasks'[i] = tasks[i]
    BY <1>a, <2>1, <2>2
  <2>7. \A m \in Nodes : current'[m] = current[m] + (IF m \in guard[t].path \ {n} THEN 1 ELSE 0)
                                                  - (IF m \in guard[t].path THEN 1 ELSE 0)
    <3>1. n \in Nodes /\ n \in guard[t].path
      BY <1>b, <2>1
    <3>2. current' = [current EXCEPT ![n] = current[n] - 1]
      BY <2>1
    <3> HIDE <2>1
    <3>3. ASSUME NEW m \in Nodes
          PROVE  /\ current'[m] = IF m = n THEN current[n] - 1 ELSE current[m]
                 /\ current[m] \in Int
      BY <1>a, <3>1, <3>2
    <3>. QED  BY <3>1, <3>3, SMTT(30)
  <2>8. \A m \in Nodes : current'[m] = current[m]
                              + (IF m \in ChargedNodes(t)' THEN 1 ELSE 0)
                              - (IF m \in ChargedNodes(t) THEN 1 ELSE 0)
    BY <2>4, <2>5, <2>7
  <2>. QED  BY <2>2, <2>6, <2>8, <1>e
<1>8. ASSUME NEW p \in Ids, NEW target \in Nodes, Migrate(p, target)
      PROVE  Exact'
  <2> DEFINE old == procs[p].cgroup
             moved == Tasks(p)
             A == Ancestry(old)
             B == Ancestry(target)
  <2>1. /\ UNCHANGED <<nstate, guard>> /\ ~HasPendingTask(p)
        /\ \A t \in moved : tasks[t].cgroup = old
        /\ tasks' = [t \in Ids |-> IF t \in moved THEN [tasks[t] EXCEPT !.cgroup = target]
                                   ELSE tasks[t]]
        /\ current' = [n \in Nodes |-> current[n]
                          + (IF n \in B \ A THEN Cardinality(moved) ELSE 0)
                          - (IF n \in A \ B THEN Cardinality(moved) ELSE 0)]
    BY <1>8 DEF Migrate
  <2>2. moved \in SUBSET Ids /\ \A t \in moved : tasks[t].process = p
    BY DEF Tasks
  <2>3. Cardinality(moved) \in Nat
    BY <2>2, FS_Subset, FS_CardinalityType
  <2>4. \A t \in moved : guard[t].publication = "None"
    <3> SUFFICES ASSUME NEW t \in moved, guard[t].publication # "None"
                 PROVE  FALSE
      OBVIOUS
    <3>1. guard[t].publication \in {"Charging", "Prepared", "Published", "Member", "Uncharge"}
      BY <2>2, <1>a DEF Guard, Publication
    <3>2. pending[t] = p
      BY <2>2, <3>1, ForkAt
    <3>. QED  BY <2>1, <2>2, <3>2 DEF HasPendingTask
  <2>5. \A t \in moved : ChargedNodes(t) = A
    BY <2>1, <2>2, <2>4 DEF ChargedNodes
  <2>6. \A t \in moved : ChargedNodes(t)' = B
    <3> SUFFICES ASSUME NEW t \in moved
                 PROVE  ChargedNodes(t)' = B
      OBVIOUS
    <3>1. tasks'[t] = [tasks[t] EXCEPT !.cgroup = target]
      BY <2>1, <2>2
    <3>2. tasks'[t].process = p /\ tasks'[t].cgroup = target
      BY <3>1, <2>2, <1>a, SMTT(30) DEF Task
    <3>3. Ancestry(target)' = B
      BY <1>u, <2>1
    <3>4. guard'[t].publication = "None"
      BY <2>1, <2>4
    <3>. QED  BY <3>2, <3>3, <3>4 DEF ChargedNodes
  <2>7. \A t \in Ids \ moved : ChargedNodes(t)' = ChargedNodes(t)
    BY <1>u, <2>1
  <2>8. \A n \in Nodes : current'[n] = current[n] + Shift(moved, A, B, n)
    <3> HIDE DEF moved, A, B
    <3>. QED  BY <2>1, <2>3, <1>a, SMTT(30) DEF Shift
  <2> HIDE DEF moved, A, B
  <2>9. ChargeMoves(moved, A, B)
    BY <2>2, <2>5, <2>6, <2>7, <2>8 DEF ChargeMoves
  <2>. QED  BY <2>9, ExactMove
<1>9. ASSUME NEW t \in Ids, ExitThread(t) \/ Reap(t)
      PROVE  Exact'
  <2>1. UNCHANGED <<nstate, current, guard, tasks>>
    BY <1>9 DEF ExitThread, Reap, nodeVars, pidsVars, ledgerVars
  <2>. QED  BY <1>u, <2>1, ExactSame
<1>10. ASSUME NEW t \in Ids, ExitTask(t)
       PROVE  Exact'
  <2>1. PICK p \in Ids : txn[p] = t /\ tasks[t].process = p
    BY <1>10 DEF ExitTask, ExitAccepted
  <2>2. /\ UNCHANGED <<nstate, guard>> /\ tasks' = [tasks EXCEPT ![t] = NoTask]
        /\ current' = Charged(Ancestry(tasks[t].cgroup), -1)
    BY <1>10 DEF ExitTask
  <2>3. guard[t].publication = "None"
    BY <2>1, ForkAt DEF TxnInv
  <2>4. ChargedNodes(t) = Ancestry(tasks[t].cgroup)
    BY <2>1, <2>3 DEF ChargedNodes
  <2>5. ChargedNodes(t)' = {}
    BY <2>2, <2>3, <1>a, <1>c DEF ChargedNodes
  <2>6. \A i \in Ids \ {t} : guard'[i] = guard[i] /\ tasks'[i] = tasks[i]
    BY <2>2, <1>a
  <2>7. \A n \in Nodes : current'[n] = current[n] + (IF n \in {} THEN 1 ELSE 0)
                            - (IF n \in Ancestry(tasks[t].cgroup) THEN 1 ELSE 0)
    BY <2>2, <1>a, SMTT(30) DEF Charged
  <2>8. \A n \in Nodes : current'[n] = current[n]
                              + (IF n \in ChargedNodes(t)' THEN 1 ELSE 0)
                              - (IF n \in ChargedNodes(t) THEN 1 ELSE 0)
    BY <2>4, <2>5, <2>7
  <2>. QED  BY <2>2, <2>6, <2>8, <1>e
<1>11. ASSUME NEW p \in Ids, NEW c \in Ids, DeThread(p, c)
       PROVE  Exact'
  <2>1. /\ c # p /\ thread[c] = "run" /\ procs[p].state = "Active"
        /\ tasks[c].process = p /\ tasks[p].process = None
        /\ tasks' = [tasks EXCEPT ![c] = NoTask, ![p] = tasks[c]]
        /\ UNCHANGED <<nstate, current, guard>>
    BY <1>11, <1>c DEF DeThread, ReadyToRename, RenameAccepted, Idle, nodeVars, pidsVars
  <2>2. guard[c].publication = "None"
    BY <2>1, ForkAt
  <2>3. guard[p].publication = "None"
    BY <2>1, ForkAt
  <2>4. tasks'[c] = NoTask /\ tasks'[p] = tasks[c] /\ \A i \in Ids \ {c, p} : tasks'[i] = tasks[i]
    BY <2>1, <1>a
  <2>5. ChargedNodes(c) = Ancestry(tasks[c].cgroup) /\ ChargedNodes(p) = {}
    BY <2>1, <2>2, <2>3 DEF ChargedNodes
  <2>6. ChargedNodes(c)' = {}
    BY <2>1, <2>2, <2>4, <1>c DEF ChargedNodes
  <2>7. ChargedNodes(p)' = Ancestry(tasks[c].cgroup)
    <3>1. PICK m \in Nodes : m = tasks[c].cgroup
      BY <1>b
    <3>2. Ancestry(m)' = Ancestry(m)
      BY <1>u, <2>1
    <3>3. tasks'[p].process = p /\ tasks'[p].cgroup = m /\ guard'[p].publication = "None"
      BY <2>1, <2>3, <2>4, <3>1
    <3>. QED  BY <3>1, <3>2, <3>3 DEF ChargedNodes
  <2>8. \A i \in Ids \ {c, p} : ChargedNodes(i)' = ChargedNodes(i)
    BY <2>1, <2>4, <1>u
  <2>. QED  BY <2>1, <2>5, <2>6, <2>7, <2>8, ExactSwap
<1>12. ASSUME NEW n \in Nodes, Directory(n)
       PROVE  Exact'
  <2>1. UNCHANGED <<current, tasks, guard>>
    BY <1>12 DEF Directory, CreateChild, RemoveChild, Reclaim, WriteSubtreeControl, Pin, Unpin,
                 WritePidsMax, pidsVars, ledgerVars
  <2>2. \A i \in Ids : tasks[i].process # None =>
           Ancestry(tasks[i].cgroup)' = Ancestry(tasks[i].cgroup)
    <3> SUFFICES ASSUME NEW i \in Ids, tasks[i].process # None
                 PROVE  Ancestry(tasks[i].cgroup)' = Ancestry(tasks[i].cgroup)
      OBVIOUS
    <3>1. \A a \in Above[tasks[i].cgroup] : Live(a)'
      BY <2>1 DEF NoOrphan, Openable
    <3>2. Ancestry(tasks[i].cgroup)' = Above[tasks[i].cgroup]
      BY <2>1, <3>1 DEF Ancestry
    <3>. QED  BY <1>o, <3>2
  <2>3. \A i \in Ids : ChargedNodes(i)' = ChargedNodes(i)
    BY <2>1, <2>2 DEF ChargedNodes
  <2>. QED  BY <2>1, <2>3, ExactSame
<1>13. CASE UNCHANGED vars
  BY <1>13, <1>u, ExactSame DEF vars, nodeVars, pidsVars, ledgerVars
<1>. QED
  BY <1>2, <1>3, <1>4, <1>5, <1>6, <1>7, <1>8, <1>9, <1>10, <1>11, <1>12, <1>13, <1>k
     DEF Next, Fork, Process

-----------------------------------------------------------------------------

\* pids.current is exact at every cgroup of every hierarchy, through fork,
\* rollback, migration, exit and execve, in each behaviour that never frees a
\* directory above the cgroup of a task.
THEOREM CountersBalanced == Spec => BalancedUnlessOrphaned
<1>1. Init => Exact
  <2> SUFFICES ASSUME Init, NEW n \in Nodes
               PROVE  current[n] = Cardinality(ChargedIds(n))
    BY DEF Exact
  <2>1. \A t \in Ids : ChargedNodes(t) = IF t = InitId THEN {Root} ELSE {}
    <3>1. Ancestry(Root) = {Root}
      BY HierarchyAssumption DEF Ancestry
    <3>. QED  BY <3>1, IdsAssumption DEF Init, ChargedNodes, NoTask, NoGuard
  <2>2. CASE n = Root
    <3>1. ChargedIds(n) = {InitId}
      BY <2>1, <2>2, IdsAssumption DEF ChargedIds
    <3>2. Cardinality({InitId}) = 1
      BY FS_Singleton
    <3>3. Cardinality(ChargedIds(n)) = 1
      BY <3>1, <3>2
    <3>. QED  BY <2>2, <3>3, HierarchyAssumption DEF Init
  <2>3. CASE n # Root
    <3>1. ChargedIds(n) = {}
      BY <2>1, <2>3, SMTT(30) DEF ChargedIds
    <3>2. Cardinality({}) = 0
      BY FS_EmptySet
    <3>3. Cardinality(ChargedIds(n)) = 0
      BY <3>1, <3>2
    <3>. QED  BY <2>3, <3>3 DEF Init
  <2>. QED  BY <2>2, <2>3
<1>2. /\ TypeOK /\ ChargeInv /\ ForkInv /\ TxnInv /\ PathInv /\ NoOrphan /\ Exact
      /\ [Next]_vars /\ NoOrphan'
      => Exact'
  BY ExactStep
<1>3. Exact => Balanced
  BY DEF Exact, Balanced
<1>. QED  BY <1>1, <1>2, <1>3, StructureCorrect, PTL DEF Spec, BalancedUnlessOrphaned

\* A hierarchy with one level of cgroups has no directory to lose above a task.
LEMMA FlatNoOrphan ==
    ASSUME \A n \in Nodes \ {Root} : Parent[n] = Root
    PROVE  TypeOK /\ LiveInv => NoOrphan
<1> SUFFICES ASSUME TypeOK, LiveInv, NEW t \in Ids, tasks[t].process # None,
                    NEW a \in Above[tasks[t].cgroup]
             PROVE  Live(a)
  BY DEF NoOrphan, Openable
<1>1. tasks[t].cgroup \in Nodes
  BY DEF TypeOK, Task
<1>2. Above[tasks[t].cgroup] \subseteq {tasks[t].cgroup, Root}
  BY <1>1, HierarchyAssumption, SMTT(30)
<1>3. Live(Root) /\ Live(tasks[t].cgroup)
  BY DEF LiveInv, Live
<1>. QED  BY <1>2, <1>3

\* When every cgroup is a direct child of the root, pids.current is exact in
\* every behaviour, with any number of cgroups, tasks, limits and pins.
THEOREM FlatBalanced ==
    ASSUME \A n \in Nodes \ {Root} : Parent[n] = Root
    PROVE  Spec => []Balanced
  BY FlatNoOrphan, StructureCorrect, CountersBalanced, PTL DEF BalancedUnlessOrphaned

-----------------------------------------------------------------------------
(* The limit *)

\* The steps that touch pids.current: the compare-exchange of a fork, which
\* looked at the limit before, a migration, which does not, and the ways in
\* which charges are given back.
LEMMA CounterStep ==
    ASSUME TypeOK, [Next]_vars
    PROVE  \/ UNCHANGED current
           \/ \E n \in Nodes : Exchange(n)
           \/ \E p \in Ids, target \in Nodes : Migrate(p, target)
           \/ \E path : current' = Charged(path, -1)
<1> DEFINE Goal ==
           \/ UNCHANGED current
           \/ \E n \in Nodes : Exchange(n)
           \/ \E p \in Ids, target \in Nodes : Migrate(p, target)
           \/ \E path : current' = Charged(path, -1)
<1>1. ASSUME NEW t \in Ids, Fork(t), ~DropUncharge(t)
      PROVE  UNCHANGED current
  BY <1>1 DEF Fork, BeginTask, BeginProcessAt, BeginTaskAt, Publish, PublishClone, Commit,
              DropLedger, DropMember, pidsVars
<1>2. ASSUME NEW t \in Ids, DropUncharge(t)
      PROVE  Goal
  <2>1. PICK n \in guard[t].path : current' = [current EXCEPT ![n] = @ - 1]
    BY <1>2 DEF DropUncharge
  <2>2. n \in Nodes
    BY <2>1 DEF TypeOK, Guard
  <2>3. current' = Charged({n}, -1)
    BY <2>1, <2>2 DEF Charged, TypeOK
  <2>. QED  BY <2>3
<1>3. ASSUME NEW t \in Ids, ExitTask(t)
      PROVE  Goal
  <2>1. current' = Charged(Ancestry(tasks[t].cgroup), -1)
    BY <1>3 DEF ExitTask
  <2>. QED  BY <2>1
<1>4. ASSUME NEW t \in Ids, ExitThread(t) \/ Reap(t) \/ \E c \in Ids : DeThread(t, c)
      PROVE  UNCHANGED current
  BY <1>4 DEF ExitThread, Reap, DeThread, pidsVars
<1>5. ASSUME NEW n \in Nodes, Directory(n)
      PROVE  UNCHANGED current
  BY <1>5 DEF Directory, CreateChild, RemoveChild, Reclaim, WriteSubtreeControl, Pin, Unpin,
              WritePidsMax, pidsVars
<1>6. ASSUME NEW n \in Nodes, Charging(n)
      PROVE  Goal
  <2>1. CASE ChargeFails(n)
    <3>1. current' = Charged(guard[charge.task].path, -1)
      BY <2>1 DEF ChargeFails
    <3>. QED  BY <3>1
  <2>2. CASE LoadCurrent(n) \/ LoadMaximum(n) \/ ExchangeFails(n)
    BY <2>2 DEF LoadCurrent, LoadMaximum, ExchangeFails, pidsVars
  <2>3. CASE Exchange(n)
    BY <2>3
  <2>. QED  BY <1>6, <2>1, <2>2, <2>3 DEF Charging
<1>7. UNCHANGED vars => UNCHANGED current
  BY DEF vars, pidsVars
<1>8. /\ (\E p \in Ids, target \in Nodes : Migrate(p, target)) => Goal
      /\ UNCHANGED current => Goal
  OBVIOUS
<1> HIDE DEF Goal
<1>9. ASSUME NEW i \in Ids, Process(i)  PROVE Goal
  BY <1>3, <1>4, <1>8, <1>9 DEF Process
<1>10. Goal
  BY <1>1, <1>2, <1>5, <1>6, <1>7, <1>8, <1>9 DEF Next
<1>. QED  BY <1>10 DEF Goal

\* What a migration does to the counter of one cgroup.
LEMMA MigrateCounters ==
    ASSUME TypeOK, NEW p \in Ids, NEW target \in Nodes, Migrate(p, target), NEW n \in Nodes
    PROVE  \/ n \in Ancestry(target) \ Ancestry(procs[p].cgroup)
           \/ current'[n] <= current[n]
<1> DEFINE count == Cardinality(Tasks(p))
           up == Ancestry(target) \ Ancestry(procs[p].cgroup)
           down == Ancestry(procs[p].cgroup) \ Ancestry(target)
<1>1. count \in Nat
  <2>1. IsFiniteSet(Tasks(p))
    BY IdsAssumption, FS_Subset DEF Tasks
  <2>. QED  BY <2>1, FS_CardinalityType
<1>2. current' = [m \in Nodes |-> current[m] + (IF m \in up THEN count ELSE 0)
                                             - (IF m \in down THEN count ELSE 0)]
  BY DEF Migrate
<1> HIDE DEF count, down
<1>3. CASE n \notin up
  <2>1. current[n] \in Int
    BY DEF TypeOK
  <2> HIDE DEF up
  <2>. QED  BY <1>1, <1>2, <1>3, <2>1, SMTT(30)
<1>. QED  BY <1>3

\* The compare-exchange of a fork stays within the limit that the fork loaded.
LEMMA ExchangeLimit ==
    ASSUME TypeOK, ChargeInv, NEW m \in Nodes, Exchange(m), NEW n \in Nodes,
           current'[n] > current[n], current'[n] > maximum[n]
    PROVE  charge.step = "exchange" /\ NextUp(n) /\ maximum[n] < charge.limit
<1>1. /\ charge.step = "exchange" /\ NextUp(m) /\ current[m] = charge.seen
      /\ current' = [current EXCEPT ![m] = current[m] + 1]
  BY DEF Exchange
<1>2. /\ current \in [Nodes -> Int] /\ current[n] \in Int /\ current[m] \in Int
      /\ maximum[n] \in Nat /\ charge.limit \in Nat /\ charge.seen \in Int
  BY DEF TypeOK, Charge
<1>3. n = m
  <2>1. n # m => current'[n] = current[n]
    BY <1>1, <1>2
  <2>. QED  BY <1>2, <2>1, SMTT(30)
<1>4. current'[n] = charge.seen + 1
  BY <1>1, <1>2, <1>3
<1>5. charge.seen < charge.limit
  BY <1>1 DEF ChargeInv
<1>6. maximum[n] < charge.limit
  BY <1>2, <1>4, <1>5, SMTT(30)
<1>. QED  BY <1>1, <1>3, <1>6

\* A step from a state without orphans takes a cgroup above its limit only by
\* moving a process into its subtree, or by the exchange of a fork that loaded
\* the limit before it was lowered.
LEMMA LimitStep ==
    ASSUME TypeOK, ChargeInv, NoOrphan, [Next]_vars, NEW n \in Nodes,
           current'[n] > current[n], current'[n] > maximum[n]
    PROVE  \/ \E p \in Ids : /\ procs'[p].cgroup # procs[p].cgroup
                             /\ n \in Above[procs'[p].cgroup]
                             /\ n \notin Above[procs[p].cgroup]
           \/ charge.step = "exchange" /\ NextUp(n) /\ maximum[n] < charge.limit
<1>0. current[n] \in Int
  BY DEF TypeOK
<1>1. ASSUME NEW path, current' = Charged(path, -1)
      PROVE  FALSE
  BY <1>0, <1>1, SMTT(30) DEF Charged
<1>2. ~(current' = current)
  BY <1>0, SMTT(30)
<1>3. ASSUME NEW p \in Ids, NEW target \in Nodes, Migrate(p, target)
      PROVE  \E q \in Ids : /\ procs'[q].cgroup # procs[q].cgroup
                            /\ n \in Above[procs'[q].cgroup]
                            /\ n \notin Above[procs[q].cgroup]
  <2>1. n \in Ancestry(target) \ Ancestry(procs[p].cgroup)
    <3>1. ~(current'[n] <= current[n])
      <4>1. current'[n] \in Int
        BY TypeStep DEF TypeOK
      <4>. QED  BY <1>0, <4>1, SMTT(30)
    <3>. QED  BY <1>3, <3>1, MigrateCounters
  <2>2. /\ procs'[p].cgroup = target /\ target # procs[p].cgroup /\ procs[p].cgroup \in Nodes
        /\ \E t \in Ids : tasks[t].process = p /\ tasks[t].cgroup = procs[p].cgroup
    BY <1>3 DEF Migrate, Tasks, TypeOK, Proc
  <2>3. Openable(procs[p].cgroup)
    BY <2>2, IdsAssumption DEF NoOrphan
  <2>4. n \in Above[target] /\ n \notin Above[procs[p].cgroup]
    BY <2>1, <2>2, <2>3, Walk DEF Ancestry
  <2>. QED  BY <2>2, <2>4
<1>4. ASSUME NEW m \in Nodes, Exchange(m)
      PROVE  charge.step = "exchange" /\ NextUp(n) /\ maximum[n] < charge.limit
  BY <1>4, ExchangeLimit
<1>. QED  BY <1>1, <1>2, <1>3, <1>4, CounterStep

\* pids.max is enforced against every fork, in each behaviour that never frees a
\* directory above the cgroup of a task: what takes a cgroup above its limit is
\* a migration, or a fork whose check came before the limit was lowered
\* (LimitEnforced).
THEOREM LimitKept == Spec /\ []NoOrphan => LimitEnforced
<1>1. TypeOK /\ ChargeInv /\ NoOrphan /\ [Next]_vars =>
        [\A n \in Nodes : current'[n] > current[n] /\ current'[n] > maximum[n] =>
            \/ \E p \in Ids : /\ procs'[p].cgroup # procs[p].cgroup
                              /\ n \in Above[procs'[p].cgroup]
                              /\ n \notin Above[procs[p].cgroup]
            \/ charge.step = "exchange" /\ NextUp(n) /\ maximum[n] < charge.limit]_vars
  BY LimitStep
<1>. QED  BY <1>1, StructureCorrect, PTL DEF Spec, LimitEnforced

\* With one level of cgroups below the root that is so in every behaviour.
THEOREM FlatLimitKept ==
    ASSUME \A n \in Nodes \ {Root} : Parent[n] = Root
    PROVE  Spec => LimitEnforced
  BY FlatNoOrphan, StructureCorrect, LimitKept, PTL
=============================================================================
