------------------------- MODULE IrqRegistry_proofs -------------------------
(***************************************************************************)
(* Every step preserves the inductive invariant of the IRQ registry         *)
(* (IrqInv): the steps of a dispatch, those that allocate, link, detach,    *)
(* unlink and free an action, and those that leave the list of actions      *)
(* alone.  From it, the safety theorems.                                    *)
(***************************************************************************)
EXTENDS IrqInvariant_proofs, FiniteSetTheorems

(* A step that names no prover is tried with Zenon, then with SMT. *)
USE ZenonT(30), SMTT(30)

-----------------------------------------------------------------------------
(* Counting *)

LEMMA CountsFinite ==
    /\ IsFiniteSet(InsertingThreads) /\ Cardinality(InsertingThreads) \in Nat
    /\ IsFiniteSet(Unused) /\ Cardinality(Unused) \in Nat
    /\ IsFiniteSet(Walkers) /\ Cardinality(Walkers) \in Nat
<1>1. IsFiniteSet(Ids)
  BY RequestsAssumption, FS_Interval, SMTT(30) DEF Ids
<1>2. IsFiniteSet(InsertingThreads) /\ IsFiniteSet(Unused) /\ IsFiniteSet(Walkers)
  BY <1>1, CpusAssumption, FS_Subset DEF InsertingThreads, Unused, Walkers
<1>. QED  BY <1>2, FS_CardinalityType

LEMMA IdsReservedFrame ==
    ASSUME IdsReserved, InsertingThreads' \subseteq InsertingThreads, Unused' = Unused
    PROVE  IdsReserved'
<1>1. Cardinality(InsertingThreads') <= Cardinality(InsertingThreads)
  BY CountsFinite, FS_Subset
<1>2. Cardinality(InsertingThreads') \in Nat
  BY CountsFinite, FS_Subset, FS_CardinalityType
<1>. QED  BY <1>1, <1>2, CountsFinite, SMTT(30) DEF IdsReserved

(* What FreeInv says of the next state, thread by thread. *)
LEMMA FreeInvNext ==
    ASSUME \A u \in Threads : Frees(thread'[u]) =>
             /\ thread'[u].id \in Ids /\ act'[thread'[u].id].box = "live"
             /\ act'[thread'[u].id].detached
             /\ thread'[u].id \in Linked' <=> thread'[u].pc # "drop",
           \A u, v \in Threads :
             u # v /\ Frees(thread'[u]) /\ Frees(thread'[v]) => thread'[u].id # thread'[v].id
    PROVE  FreeInv'
<1>1. ASSUME NEW u \in Threads  PROVE Frees(thread[u])' <=> Frees(thread'[u])
  BY DEF Frees
<1>. QED  BY <1>1 DEF FreeInv

(* No thread starts to free an action, and the actions being freed stay as   *)
(* they are.                                                                 *)
LEMMA FreeInvFrame ==
    ASSUME FreeInv, UNCHANGED Linked,
           \A u \in Threads : Frees(thread'[u]) =>
             /\ thread'[u] = thread[u]
             /\ act'[thread[u].id].box = act[thread[u].id].box
             /\ act'[thread[u].id].detached = act[thread[u].id].detached
    PROVE  FreeInv'
<1>1. ASSUME NEW u \in Threads, Frees(thread'[u])
      PROVE  /\ thread'[u].id \in Ids /\ act'[thread'[u].id].box = "live"
             /\ act'[thread'[u].id].detached
             /\ thread'[u].id \in Linked' <=> thread'[u].pc # "drop"
  BY <1>1 DEF FreeInv
<1>2. \A u, v \in Threads :
        u # v /\ Frees(thread'[u]) /\ Frees(thread'[v]) => thread'[u].id # thread'[v].id
  BY SMTT(30) DEF FreeInv
<1>. QED  BY <1>1, <1>2, FreeInvNext

(* Sharing survives while no action becomes active. *)
LEMMA SharingFrame ==
    ASSUME Sharing, UNCHANGED mode, Active(chain, act)' \subseteq Active(chain, act),
           \A i \in Active(chain, act) : act'[i].scope = act[i].scope
    PROVE  Sharing'
  BY DEF Sharing

(* With no dispatch in flight no CPU walks the list. *)
LEMMA Quiescent ==
    ASSUME DispatchInv, inFlight = 0
    PROVE  \A c \in Cpus : ~Walking(c)
<1>1. Walkers = {}
  BY CountsFinite, FS_EmptySet DEF DispatchInv
<1>. QED  BY <1>1 DEF Walkers

-----------------------------------------------------------------------------
(* Steps of a thread that leave the list, the boxes and the dispatches alone *)

LEMMA ThreadStep ==
    ASSUME IrqInv, IrqTypes', NEW t \in Threads, NEW r,
           thread' = [thread EXCEPT ![t] = r], Legal(t, r),
           r.pc \in Inserting => thread[t].pc \in Inserting,
           Frees(r) => /\ Frees(thread[t]) /\ r.id = thread[t].id
                       /\ r.pc = "drop" <=> thread[t].pc = "drop",
           UNCHANGED <<mode, chain, inFlight, disp>>,
           \A i \in Ids : SameAction(i),
           \A i \in quiet' : i \in quiet /\ ~act'[i].enabled
    PROVE  IrqInv'
<1> USE DEF IrqInv
<1>0. Linked \subseteq Ids /\ Linked' = Linked
  BY Pointers DEF IrqTypes, Linked
<1>1. thread \in [Threads -> ThreadRec] /\ thread'[t] = r /\ \A u \in Threads : u # t => thread'[u] = thread[u]
  BY DEF IrqTypes
<1>2. ThreadsLegal'
  BY <1>1 DEF ThreadsLegal
<1>3. IdsReserved'
  <2>1. InsertingThreads' \subseteq InsertingThreads
    BY <1>1, SMTT(30) DEF InsertingThreads
  <2>2. Unused' = Unused
    BY DEF Unused, SameAction
  <2>. QED  BY <2>1, <2>2, IdsReservedFrame
<1>4. ChainInv'
  BY <1>0 DEF ChainInv, SameAction
<1>5. FreeInv'
  <2>1. \A u \in Threads : Frees(thread'[u]) =>
           /\ Frees(thread[u]) /\ thread'[u].id = thread[u].id
           /\ thread'[u].pc = "drop" <=> thread[u].pc = "drop"
    BY <1>1
  <2>2. ASSUME NEW u \in Threads, Frees(thread'[u])
        PROVE  /\ thread'[u].id \in Ids
               /\ act'[thread'[u].id].box = "live"
               /\ act'[thread'[u].id].detached
               /\ thread'[u].id \in Linked' <=> thread'[u].pc # "drop"
    BY <1>0, <2>1, <2>2, SMTT(30) DEF FreeInv, SameAction
  <2>3. \A u, v \in Threads :
          u # v /\ Frees(thread'[u]) /\ Frees(thread'[v]) => thread'[u].id # thread'[v].id
    BY <2>1, SMTT(30) DEF FreeInv
  <2>. QED  BY <2>2, <2>3, FreeInvNext
<1>6. DispatchInv'
  <2>1. Walkers' = Walkers
    BY DEF Walkers, Walking
  <2>. QED  BY <1>0, <2>1 DEF DispatchInv, Walking
<1>7. RunInv'
  <2>1. \A c \in Cpus : disp[c].pc = "run" => disp[c].at \in Ids
    BY <1>0 DEF DispatchInv
  <2>. QED  BY <2>1 DEF RunInv, NonReentrant, SameAction
<1>8. QuietInv'
  BY DEF QuietInv, QuietAfterSynchronize, SameAction, IrqTypes
<1>9. Sharing'
  <2>1. Active(chain, act)' = Active(chain, act) /\ Active(chain, act) \subseteq Ids
    BY <1>0 DEF Active, Linked, SameAction
  <2>. QED  BY <2>1, SMTT(30) DEF Sharing, SameAction
<1>. QED  BY <1>2, <1>3, <1>4, <1>5, <1>6, <1>7, <1>8, <1>9

(* An access to the controller works or fails. *)
HardwareTypes == controller \in [Lines -> BOOLEAN] /\ online \in SUBSET Cpus /\ errors \in 0 .. MaxErrors

LEMMA HardwareStep ==
    ASSUME IrqInv
    PROVE  /\ \A l \in Lines, v \in BOOLEAN : SetController(l, v) => HardwareTypes'
           /\ ControllerFails => HardwareTypes'
           /\ UNCHANGED hardware => HardwareTypes'
<1>1. HardwareTypes
  BY DEF IrqInv, IrqTypes, HardwareTypes
<1>2. ASSUME NEW l \in Lines, NEW v \in BOOLEAN, SetController(l, v)  PROVE HardwareTypes'
  BY <1>1, <1>2 DEF HardwareTypes, SetController
<1>3. ASSUME ControllerFails  PROVE HardwareTypes'
  BY <1>1, <1>3, RequestsAssumption, SMTT(30) DEF HardwareTypes, ControllerFails
<1>. QED  BY <1>1, <1>2, <1>3 DEF HardwareTypes, hardware

(* A step that only moves a thread, and may write line_applied or the controller *)
LEMMA ThreadOnly ==
    ASSUME IrqInv, NEW t \in Threads, NEW r \in ThreadRec, Become(t, r), Legal(t, r),
           r.pc \in Inserting => thread[t].pc \in Inserting,
           Frees(r) => /\ Frees(thread[t]) /\ r.id = thread[t].id
                       /\ r.pc = "drop" <=> thread[t].pc = "drop",
           applied' \in [Lines -> BOOLEAN], HardwareTypes',
           UNCHANGED <<lineVars, inFlight, act, disp, quiet>>
    PROVE  IrqInv'
<1>1. thread' = [thread EXCEPT ![t] = r]
  BY DEF Become
<1>2. IrqTypes'
  BY <1>1, ThreadFacts DEF lineVars, IrqInv, IrqTypes, HardwareTypes
<1>. QED  BY <1>1, <1>2, ThreadStep DEF lineVars, SameAction, IrqInv, QuietInv

LEMMA SameApplied ==
    ASSUME IrqInv, UNCHANGED applied
    PROVE  applied' \in [Lines -> BOOLEAN]
  BY DEF IrqInv, IrqTypes

-----------------------------------------------------------------------------
(* Steps of a dispatch *)

(* A dispatch step leaves the list and the threads alone, and of an action it *)
(* changes no more than the running flag.                                     *)
LEMMA DispatchFrame ==
    ASSUME IrqInv, NEW c \in Cpus, NEW d \in DispRec, Dispatch(c, d),
           act' \in [Ids -> ActRec],
           \A i \in Ids : /\ act'[i].scope = act[i].scope /\ act'[i].detached = act[i].detached
                          /\ act'[i].execution = act[i].execution /\ act'[i].box = act[i].box
                          /\ act'[i].enabled = act[i].enabled,
           UNCHANGED <<lineVars, applied, hardware, thread, quiet>>,
           c \in Dispatching, inFlight' = Cardinality(Walkers'),
           d.pc \in {"walk", "enter", "run"} => d.next \in Linked \cup {NoId},
           IF d.pc \in {"enter", "run"} THEN d.at \in Linked ELSE d.at = NoId,
           d.pc \in {"enter", "run"} => d.at \notin quiet,
           RunInv'
    PROVE  IrqInv'
<1> USE DEF IrqInv
<1>1. /\ disp' = [disp EXCEPT ![c] = d] /\ disp \in [Cpus -> DispRec] /\ Linked \subseteq Ids
      /\ UNCHANGED <<mode, chain>> /\ Linked' = Linked
  BY Pointers DEF Dispatch, IrqTypes, lineVars, Linked
<1>2. disp'[c] = d /\ \A e \in Cpus : e # c => disp'[e] = disp[e]
  BY <1>1
<1>3. IrqTypes'
  BY <1>1 DEF IrqTypes, lineVars, hardware
<1>4. ThreadsLegal'
  BY DEF ThreadsLegal
<1>5. IdsReserved'
  <2>1. InsertingThreads' = InsertingThreads /\ Unused' = Unused
    BY DEF InsertingThreads, Unused
  <2>. QED  BY <2>1 DEF IdsReserved
<1>6. ChainInv'
  BY <1>1 DEF ChainInv
<1>7. FreeInv'
  <2>1. \A u \in Threads : Frees(thread[u]) => thread[u].id \in Ids
    BY DEF FreeInv
  <2>. QED  BY <1>1, <2>1, FreeInvFrame
<1>8. DispatchInv'
  <2>1. ASSUME NEW e \in Cpus
        PROVE  /\ disp'[e].pc # "idle" => e \in Dispatching
               /\ disp'[e].pc \in {"walk", "enter", "run"} => disp'[e].next \in Linked \cup {NoId}
               /\ IF disp'[e].pc \in {"enter", "run"} THEN disp'[e].at \in Linked
                                                       ELSE disp'[e].at = NoId
    BY <1>2 DEF DispatchInv, Walking
  <2>. QED  BY <1>1, <2>1 DEF DispatchInv, Walking
<1>9. QuietInv'
  <2>1. quiet' = quiet /\ quiet \subseteq Ids
    BY DEF IrqTypes
  <2>2. QuietAfterSynchronize'
    BY <1>2, <2>1 DEF QuietInv, QuietAfterSynchronize
  <2>. QED  BY <2>1, <2>2 DEF QuietInv
<1>10. Sharing'
  <2>1. Active(chain, act)' = Active(chain, act) /\ Active(chain, act) \subseteq Ids
    BY <1>1 DEF Active, Linked
  <2>2. \A i \in Active(chain, act) : act'[i].scope = act[i].scope
    BY <2>1
  <2>. QED  BY <1>1, <2>1, <2>2, SharingFrame
<1>. QED  BY <1>3, <1>4, <1>5, <1>6, <1>7, <1>8, <1>9, <1>10

LEMMA WalkersSame ==
    ASSUME IrqInv, NEW c \in Cpus, NEW d \in DispRec, Dispatch(c, d), UNCHANGED inFlight,
           d.pc \in {"walk", "enter", "run"} <=> Walking(c)
    PROVE  inFlight' = Cardinality(Walkers')
<1>1. Walkers' = Walkers
  BY DEF Walkers, Walking, Dispatch, IrqInv, IrqTypes
<1>. QED  BY <1>1 DEF IrqInv, DispatchInv

(* A dispatch step that runs no handler and leaves the actions alone *)
LEMMA DispatchMoves ==
    ASSUME IrqInv, NEW c \in Cpus, NEW d \in DispRec, Dispatch(c, d), d.pc # "run",
           UNCHANGED <<lineVars, applied, act, hardware, thread, quiet>>,
           c \in Dispatching, inFlight' = Cardinality(Walkers'),
           d.pc \in {"walk", "enter", "run"} => d.next \in Linked \cup {NoId},
           IF d.pc \in {"enter", "run"} THEN d.at \in Linked ELSE d.at = NoId,
           d.pc \in {"enter", "run"} => d.at \notin quiet
    PROVE  IrqInv'
<1>1. disp \in [Cpus -> DispRec] /\ disp' = [disp EXCEPT ![c] = d] /\ act \in [Ids -> ActRec]
  BY DEF Dispatch, IrqInv, IrqTypes
<1>2. \A e \in Cpus : disp'[e].pc = "run" => disp'[e] = disp[e]
  BY <1>1
<1>3. RunInv'
  BY <1>2, SMTT(30) DEF IrqInv, RunInv, NonReentrant
<1>. QED  BY <1>1, <1>3, DispatchFrame

LEMMA NoDispatchFacts == NoDispatch \in DispRec /\ NoDispatch.pc = "idle" /\ NoDispatch.at = NoId
  BY DEF NoDispatch, DispRec

LEMMA TakeInterruptStep ==
    ASSUME IrqInv, NEW c \in Cpus, TakeInterrupt(c)
    PROVE  IrqInv'
<1> DEFINE d == [NoDispatch EXCEPT !.pc = "begin"]
<1>1. /\ d \in DispRec /\ d.pc = "begin" /\ d.at = NoId /\ Dispatch(c, d) /\ c \in Dispatching
      /\ disp[c].pc = "idle"
  BY NoDispatchFacts DEF TakeInterrupt, DispRec
<1> HIDE DEF d
<1>2. inFlight' = Cardinality(Walkers')
  BY <1>1, WalkersSame DEF TakeInterrupt, Walking
<1>. QED  BY <1>1, <1>2, DispatchMoves DEF TakeInterrupt

LEMMA BeginDispatchStep ==
    ASSUME IrqInv, NEW c \in Cpus, BeginDispatch(c)
    PROVE  IrqInv'
<1>1. disp \in [Cpus -> DispRec] /\ disp[c] \in DispRec /\ disp[c].pc = "begin" /\ c \in Dispatching
      /\ disp[c].at = NoId /\ Linked \subseteq Ids
  BY Pointers DEF BeginDispatch, IrqInv, IrqTypes, DispatchInv
<1>2. CASE chain = <<>>
  <2>1. Dispatch(c, NoDispatch) /\ UNCHANGED inFlight
    BY <1>2 DEF BeginDispatch
  <2>2. inFlight' = Cardinality(Walkers')
    BY <1>1, <2>1, NoDispatchFacts, WalkersSame DEF Walking
  <2>. QED  BY <1>1, <2>1, <2>2, NoDispatchFacts, DispatchMoves DEF BeginDispatch
<1>3. CASE chain # <<>>
  <2> DEFINE d == [disp[c] EXCEPT !.pc = "walk", !.next = Head(chain)]
  <2>1. Head(chain) \in Linked
    BY <1>3, Pointers DEF IrqInv, IrqTypes
  <2>2. /\ d \in DispRec /\ d.pc = "walk" /\ d.next \in Linked /\ d.at = NoId
        /\ Dispatch(c, d) /\ inFlight' = inFlight + 1
    BY <1>1, <1>3, <2>1 DEF BeginDispatch, DispRec
  <2> HIDE DEF d
  <2>3. inFlight' = Cardinality(Walkers')
    <3>1. Walkers' = Walkers \cup {c} /\ c \notin Walkers
      BY <1>1, <2>2 DEF Walkers, Walking, Dispatch
    <3>2. Cardinality(Walkers') = Cardinality(Walkers) + 1
      BY <3>1, CountsFinite, FS_AddElement
    <3>. QED  BY <2>2, <3>2 DEF IrqInv, DispatchInv
  <2>. QED  BY <1>1, <2>2, <2>3, DispatchMoves DEF BeginDispatch
<1>. QED  BY <1>2, <1>3

LEMMA VisitActionStep ==
    ASSUME IrqInv, NEW c \in Cpus, VisitAction(c)
    PROVE  IrqInv'
<1> DEFINE i == disp[c].next
           runs == /\ ~act[i].detached /\ act[i].enabled /\ ActionMatchesCpu(act[i].scope, c)
           d == [pc |-> IF runs THEN "enter" ELSE "walk",
                 at |-> IF runs THEN i ELSE NoId, next |-> NextAction(i)]
<1>1. /\ disp[c] \in DispRec /\ disp[c].pc = "walk" /\ c \in Dispatching
      /\ i \in Linked /\ Linked \subseteq Ids /\ NextAction(i) \in Linked \cup {NoId}
  BY Pointers DEF VisitAction, IrqInv, IrqTypes, DispatchInv, Walking
<1>2. Dispatch(c, d) /\ UNCHANGED <<lineVars, applied, inFlight, act, hardware, thread, quiet>>
  BY DEF VisitAction
<1>3. i \in quiet => ~runs
  BY DEF IrqInv, QuietInv
<1> HIDE DEF runs, i
<1>4. /\ d \in DispRec /\ d.next \in Linked \cup {NoId} /\ d.pc \in {"walk", "enter"}
      /\ d.pc = "enter" => d.at = i /\ i \notin quiet
      /\ d.pc = "walk" => d.at = NoId
  BY <1>1, <1>3 DEF DispRec
<1> HIDE DEF d
<1>5. inFlight' = Cardinality(Walkers')
  BY <1>1, <1>2, <1>4, WalkersSame DEF Walking
<1>. QED  BY <1>1, <1>2, <1>4, <1>5, DispatchMoves

LEMMA EndDispatchStep ==
    ASSUME IrqInv, NEW c \in Cpus, EndDispatch(c)
    PROVE  IrqInv'
<1>1. /\ disp \in [Cpus -> DispRec] /\ disp[c].pc = "walk" /\ c \in Dispatching
      /\ Dispatch(c, NoDispatch) /\ inFlight' = inFlight - 1
  BY DEF EndDispatch, IrqInv, IrqTypes, DispatchInv
<1>2. inFlight' = Cardinality(Walkers')
  <2>1. Walkers' = Walkers \ {c} /\ c \in Walkers
    BY <1>1, NoDispatchFacts DEF Walkers, Walking, Dispatch
  <2>2. Cardinality(Walkers') = Cardinality(Walkers) - 1
    BY <2>1, CountsFinite, FS_RemoveElement
  <2>. QED  BY <1>1, <2>2 DEF IrqInv, DispatchInv
<1>. QED  BY <1>1, <1>2, NoDispatchFacts, DispatchMoves DEF EndDispatch

LEMMA EnterActionStep ==
    ASSUME IrqInv, NEW c \in Cpus, EnterAction(c)
    PROVE  IrqInv'
<1> DEFINE i == disp[c].at
<1>1. /\ disp \in [Cpus -> DispRec] /\ disp[c] \in DispRec /\ disp[c].pc = "enter"
      /\ i \in Linked /\ i \in Ids /\ i \notin quiet /\ c \in Dispatching
      /\ disp[c].next \in Linked \cup {NoId}
      /\ act[i].execution \in {"Concurrent", "NonReentrant"}
      /\ Linked \subseteq Ids
  BY Pointers
  DEF EnterAction, IrqInv, IrqTypes, ActRec, DispatchInv, Walking, QuietInv, QuietAfterSynchronize
<1>2. UNCHANGED <<lineVars, applied, inFlight, hardware, thread, quiet>>
  BY DEF EnterAction
<1>3. CASE act[i].execution = "Concurrent" \/ ~act[i].running
  <2> DEFINE d == [disp[c] EXCEPT !.pc = "run"]
             v == act[i].execution = "NonReentrant"
  <2>1. /\ d \in DispRec /\ d.pc = "run" /\ d.at = i /\ d.next = disp[c].next
        /\ Dispatch(c, d) /\ v \in BOOLEAN /\ act' = [act EXCEPT ![i].running = v]
    BY <1>1, <1>3 DEF EnterAction, DispRec
  <2>2. v <=> act[i].execution # "Concurrent"
    BY <1>1
  <2> HIDE DEF d, v, i
  <2>3. /\ act' \in [Ids -> ActRec]
        /\ \A j \in Ids : /\ act'[j].scope = act[j].scope /\ act'[j].detached = act[j].detached
                           /\ act'[j].execution = act[j].execution /\ act'[j].box = act[j].box
                           /\ act'[j].enabled = act[j].enabled
        /\ act'[i].running = v /\ \A j \in Ids : j # i => act'[j] = act[j]
    BY <1>1, <2>1, SetRunning
  <2>4. disp'[c] = d /\ \A e \in Cpus : e # c => disp'[e] = disp[e]
    BY <1>1, <2>1 DEF Dispatch
  <2>5. RunInv'
    <3>1. \A e \in Cpus : disp'[e].pc = "run" => disp'[e].at \in Ids
      BY <1>1, <2>1, <2>4 DEF IrqInv, DispatchInv
    <3>2. \A e \in Cpus : e # c /\ disp[e].pc = "run" /\ disp[e].at = i =>
            act[i].execution = "Concurrent"
      BY <1>3 DEF IrqInv, RunInv
    <3>3. ASSUME NEW e \in Cpus, NEW f \in Cpus, e # f, disp'[e].pc = "run", disp'[f].pc = "run",
                 disp'[e].at = disp'[f].at
          PROVE  act'[disp'[e].at].execution = "Concurrent"
      <4>1. CASE e = c
        BY <2>1, <2>3, <2>4, <3>1, <3>2, <3>3, <4>1, SMTT(30)
      <4>2. CASE f = c
        BY <2>1, <2>3, <2>4, <3>1, <3>2, <3>3, <4>2, SMTT(30)
      <4>3. CASE e # c /\ f # c
        BY <2>3, <2>4, <3>1, <3>3, <4>3, SMTT(30) DEF IrqInv, RunInv, NonReentrant
      <4>. QED  BY <4>1, <4>2, <4>3
    <3>4. ASSUME NEW e \in Cpus, disp'[e].pc = "run"
          PROVE  act'[disp'[e].at].running \/ act'[disp'[e].at].execution = "Concurrent"
      <4>1. CASE disp'[e].at = i
        BY <1>1, <2>2, <2>3, <4>1
      <4>2. CASE disp'[e].at # i
        BY <2>1, <2>3, <2>4, <3>1, <3>4, <4>2, SMTT(30) DEF IrqInv, RunInv
      <4>. QED  BY <4>1, <4>2
    <3>. QED  BY <3>3, <3>4 DEF RunInv, NonReentrant
  <2>6. inFlight' = Cardinality(Walkers')
    BY <1>1, <1>2, <2>1, WalkersSame DEF Walking
  <2>. QED  BY <1>1, <1>2, <2>1, <2>3, <2>5, <2>6, DispatchFrame
<1>4. CASE ~(act[i].execution = "Concurrent" \/ ~act[i].running)
  <2> DEFINE d == [disp[c] EXCEPT !.pc = "walk", !.at = NoId]
  <2>1. /\ d \in DispRec /\ d.pc = "walk" /\ d.at = NoId /\ d.next = disp[c].next
        /\ Dispatch(c, d) /\ UNCHANGED act
    BY <1>1, <1>4 DEF EnterAction, DispRec
  <2> HIDE DEF d
  <2>2. inFlight' = Cardinality(Walkers')
    BY <1>1, <1>2, <2>1, WalkersSame DEF Walking
  <2>. QED  BY <1>1, <1>2, <2>1, <2>2, DispatchMoves
<1>. QED  BY <1>3, <1>4

LEMMA LeaveActionStep ==
    ASSUME IrqInv, NEW c \in Cpus, LeaveAction(c)
    PROVE  IrqInv'
<1> DEFINE i == disp[c].at
           d == [disp[c] EXCEPT !.pc = "walk", !.at = NoId]
<1>1. /\ disp \in [Cpus -> DispRec] /\ disp[c] \in DispRec /\ disp[c].pc = "run"
      /\ i \in Ids /\ c \in Dispatching /\ disp[c].next \in Linked \cup {NoId}
      /\ Linked \subseteq Ids
  BY Pointers DEF LeaveAction, IrqInv, IrqTypes, DispatchInv, Walking
<1>2. UNCHANGED <<lineVars, applied, inFlight, hardware, thread, quiet>>
  BY DEF LeaveAction
<1>3. /\ d \in DispRec /\ d.pc = "walk" /\ d.at = NoId /\ d.next = disp[c].next
      /\ Dispatch(c, d) /\ act' = [act EXCEPT ![i].running = FALSE]
  BY <1>1 DEF LeaveAction, DispRec
<1>4. \A e \in Cpus : e # c /\ disp[e].pc = "run" =>
        /\ disp[e].at \in Ids
        /\ disp[e].at = i => act[i].execution = "Concurrent"
  BY <1>1 DEF IrqInv, RunInv, NonReentrant, DispatchInv
<1> HIDE DEF d, i
<1>5. /\ act' \in [Ids -> ActRec]
      /\ \A j \in Ids : /\ act'[j].scope = act[j].scope /\ act'[j].detached = act[j].detached
                         /\ act'[j].execution = act[j].execution /\ act'[j].box = act[j].box
                         /\ act'[j].enabled = act[j].enabled
      /\ \A j \in Ids : j # i => act'[j] = act[j]
  BY <1>1, <1>3, SetRunning
<1>6. disp'[c] = d /\ \A e \in Cpus : e # c => disp'[e] = disp[e]
  BY <1>1, <1>3 DEF Dispatch
<1>7. RunInv'
  <2>1. \A e \in Cpus : disp'[e].pc = "run" => e # c /\ disp'[e] = disp[e] /\ disp[e].at \in Ids
    BY <1>3, <1>4, <1>6
  <2>2. NonReentrant'
    BY <1>5, <2>1, SMTT(30) DEF IrqInv, RunInv, NonReentrant
  <2>3. ASSUME NEW e \in Cpus, disp'[e].pc = "run"
        PROVE  act'[disp'[e].at].running \/ act'[disp'[e].at].execution = "Concurrent"
    <3>1. e # c /\ disp'[e].at = disp[e].at /\ disp[e].pc = "run" /\ disp[e].at \in Ids
      BY <2>1, <2>3
    <3>2. act[disp[e].at].running \/ act[disp[e].at].execution = "Concurrent"
      BY <3>1 DEF IrqInv, RunInv
    <3>. QED  BY <1>4, <1>5, <3>1, <3>2
  <2>. QED  BY <2>2, <2>3 DEF RunInv
<1>8. inFlight' = Cardinality(Walkers')
  BY <1>1, <1>2, <1>3, WalkersSame DEF Walking
<1>. QED  BY <1>1, <1>2, <1>3, <1>5, <1>7, <1>8, DispatchFrame

-----------------------------------------------------------------------------

LEMMA RecomputeType ==
    ASSUME IrqInv, NEW ch, NEW ac, NEW scope
    PROVE  Recompute(ch, ac, scope) \in [Lines -> BOOLEAN]
<1>1. \A l \in Lines : desired[l] \in BOOLEAN
  BY DEF IrqInv, IrqTypes
<1>2. ASSUME NEW l \in Lines
      PROVE  (IF l \in scope THEN Wanted(ch, ac, l) ELSE desired[l]) \in BOOLEAN
  BY <1>1 DEF Wanted
<1>. QED  BY <1>2 DEF Recompute

LEMMA RequestStart ==
    ASSUME IrqInv, NEW t \in Callers, NEW req \in Requests, Request(t, req)
    PROVE  IrqInv'
<1> USE DEF IrqInv
<1> DEFINE r == [Idle EXCEPT !.pc = "snapshot", !.req = req, !.todo = req.scope]
<1>1. t \in Threads /\ t \notin Cpus
  BY CpusAssumption DEF Threads
<1>2. req.scope \in SUBSET Lines /\ req.scope # {} /\ req # NoRequest
  BY RequestFacts
<1>3. r \in ThreadRec
  BY <1>2, IdleFacts DEF ThreadRec, Pcs, MaybeRequest
<1>4. Legal(t, r) /\ ~Frees(r) /\ r.pc \in Inserting
  BY <1>1, <1>2 DEF Legal, Frees, Visits, Inserting, Idle
<1>5. /\ thread' = [thread EXCEPT ![t] = r]
      /\ UNCHANGED <<lineVars, applied, inFlight, act, hardware, disp, quiet>>
      /\ Cardinality({u \in Callers : InRequest(u) /\ thread[u].id = NoId}) < Cardinality(Unused)
      /\ thread[t].pc = "idle"
  BY DEF Request, Become, At, Unused
<1> HIDE DEF r
<1>6. IrqTypes'
  BY <1>1, <1>3, <1>5, ThreadFacts DEF lineVars, hardware, IrqTypes
<1>7. ThreadsLegal'
  BY <1>1, <1>4, <1>5 DEF ThreadsLegal, IrqTypes
<1>8. IdsReserved'
  <2> DEFINE R == {u \in Callers : InRequest(u) /\ thread[u].id = NoId}
  <2>1. InsertingThreads \subseteq R
    BY DEF InsertingThreads, ThreadsLegal, Legal, InRequest, Threads
  <2>2. IsFiniteSet(R) /\ Cardinality(R) \in Nat
    BY CpusAssumption, FS_Subset, FS_CardinalityType
  <2>3. Cardinality(InsertingThreads) <= Cardinality(R)
    BY <2>1, <2>2, FS_Subset
  <2>4. InsertingThreads' = InsertingThreads \cup {t}
    BY <1>1, <1>4, <1>5 DEF InsertingThreads, IrqTypes, Threads
  <2>5. Cardinality(InsertingThreads') <= Cardinality(InsertingThreads) + 1
    <3>1. t \notin InsertingThreads
      BY <1>5 DEF InsertingThreads, Inserting
    <3>2. Cardinality(InsertingThreads \cup {t}) = Cardinality(InsertingThreads) + 1
      BY <3>1, CountsFinite, FS_AddElement
    <3>. QED  BY <2>4, <3>2, CountsFinite, SMTT(30)
  <2>6. Cardinality(InsertingThreads') \in Nat /\ Unused' = Unused
    BY <1>5, <2>4, CountsFinite, FS_AddElement, FS_CardinalityType DEF Unused
  <2>7. Cardinality(R) < Cardinality(Unused)
    BY <1>5
  <2> HIDE DEF R
  <2>. QED  BY <2>2, <2>3, <2>5, <2>6, <2>7, CountsFinite, SMTT(30) DEF IdsReserved
<1>9. UNCHANGED <<mode, chain, act, disp, inFlight, quiet>>
  BY <1>5 DEF lineVars
<1>10. ChainInv' /\ RunInv' /\ QuietInv' /\ Sharing'
  <2>1. ChainInv'
    BY <1>9 DEF ChainInv, Linked
  <2>2. RunInv'
    BY <1>9 DEF RunInv, NonReentrant
  <2>3. QuietInv'
    BY <1>9 DEF QuietInv, QuietAfterSynchronize
  <2>4. Sharing'
    BY <1>9 DEF Sharing
  <2>. QED  BY <2>1, <2>2, <2>3, <2>4
<1>11. FreeInv'
  <2>1. \A u \in Threads : Frees(thread'[u]) => u # t /\ thread'[u] = thread[u]
    BY <1>1, <1>4, <1>5 DEF IrqTypes
  <2>. QED  BY <1>9, <2>1 DEF FreeInv, Linked
<1>12. DispatchInv'
  BY <1>9 DEF DispatchInv, Walkers, Walking, Linked
<1>. QED  BY <1>6, <1>7, <1>8, <1>10, <1>11, <1>12

LEMMA NewIdUnused ==
    ASSUME IrqInv, NEW t \in Callers, thread[t].pc \in Inserting
    PROVE  /\ NewId \in Ids /\ act[NewId].box = "none" /\ NewId \notin Linked
           /\ NewId \notin quiet
           /\ \A u \in Threads : Frees(thread[u]) => thread[u].id # NewId
           /\ \A c \in Cpus : disp[c].pc = "run" => disp[c].at \in Linked /\ disp[c].at # NewId
<1> USE DEF IrqInv
<1>1. Unused # {}
  <2>1. t \in InsertingThreads
    BY DEF InsertingThreads
  <2>2. Cardinality(InsertingThreads) # 0
    BY <2>1, CountsFinite, FS_EmptySet
  <2>3. Cardinality(Unused) # 0
    BY <2>2, CountsFinite, SMTT(30) DEF IdsReserved
  <2>. QED  BY <2>3, FS_EmptySet
<1>2. Unused \in SUBSET Nat
  BY SMTT(30) DEF Unused, Ids
<1>3. PICK n \in Unused : \A m \in Unused : n <= m
  BY <1>1, <1>2, LeastExists
<1>4. n \in Ids /\ act[n].box = "none" /\ \A m \in Ids : m < n => act[m].box # "none"
  BY <1>2, <1>3, SMTT(30) DEF Unused, Ids
<1>5. NewId \in Ids /\ act[NewId].box = "none"
  BY <1>4 DEF NewId
<1>6. NewId \notin Linked /\ NewId \notin quiet
  BY <1>5 DEF ChainInv, QuietInv
<1>7. \A u \in Threads : Frees(thread[u]) => thread[u].id # NewId
  BY <1>5 DEF FreeInv
<1>8. \A c \in Cpus : disp[c].pc = "run" => disp[c].at \in Linked /\ disp[c].at # NewId
  BY <1>6 DEF DispatchInv
<1>. QED  BY <1>5, <1>6, <1>7, <1>8

LEMMA TakeId ==
    ASSUME IrqInv, NEW t \in Callers, thread[t].pc \in Inserting,
           InsertingThreads' = InsertingThreads \ {t}, Unused' = Unused \ {NewId}
    PROVE  IdsReserved'
<1>1. t \in InsertingThreads /\ NewId \in Unused
  BY NewIdUnused DEF InsertingThreads, Unused
<1>2. Cardinality(InsertingThreads') = Cardinality(InsertingThreads) - 1
  BY <1>1, CountsFinite, FS_RemoveElement
<1>3. Cardinality(Unused') = Cardinality(Unused) - 1
  BY <1>1, CountsFinite, FS_RemoveElement
<1>. QED  BY <1>2, <1>3, CountsFinite, SMTT(30) DEF IdsReserved, IrqInv

LEMMA InsertActionStep ==
    ASSUME IrqInv, NEW t \in Threads, InsertAction(t)
    PROVE  IrqInv'
<1> USE DEF IrqInv
<1> DEFINE i == NewId
           req == thread[t].req
           new == [NoAction EXCEPT !.scope = req.scope, !.execution = req.execution,
                                   !.enabled = req.auto, !.box = "live"]
           inserted == [thread[t] EXCEPT !.pc = "affinity", !.id = i]
           refused == [thread[t] EXCEPT !.pc = "restore", !.ok = FALSE, !.todo = thread[t].snap]
<1>1. /\ thread \in [Threads -> ThreadRec] /\ thread[t] \in ThreadRec /\ Legal(t, thread[t])
      /\ thread[t].pc = "insert" /\ thread[t].pc \in Inserting /\ t \in Callers /\ act \in [Ids -> ActRec]
  BY ThreadFacts DEF InsertAction, At, Legal, Inserting, IrqTypes
<1>2. /\ i \in Ids /\ act[i].box = "none" /\ i \notin Linked /\ i \notin quiet
      /\ \A u \in Threads : Frees(thread[u]) => thread[u].id # i
      /\ \A c \in Cpus : disp[c].pc = "run" => disp[c].at \in Linked /\ disp[c].at # i
  BY <1>1, NewIdUnused
<1>3. req \in Requests
  BY <1>1 DEF Legal, ThreadRec, MaybeRequest
<1>4. UNCHANGED <<applied, inFlight, hardware, disp, quiet>> /\ Linked \subseteq Ids
  BY Pointers DEF InsertAction, IrqTypes
<1>5. inserted \in ThreadRec /\ Legal(t, inserted) /\ ~Frees(inserted) /\ inserted.pc \notin Inserting
  BY <1>1, <1>2 DEF ThreadRec, Pcs, Legal, Frees, Visits, Inserting
<1>6. refused \in ThreadRec /\ Legal(t, refused) /\ ~Frees(refused) /\ refused.pc \notin Inserting
  BY <1>1 DEF ThreadRec, Pcs, Legal, Frees, Visits, Inserting
<1>7. ASSUME NEW r \in ThreadRec, thread' = [thread EXCEPT ![t] = r], Legal(t, r), ~Frees(r),
             r.pc \notin Inserting, act' \in [Ids -> ActRec], act'[i].box # "none",
             \A j \in Ids : j # i => act'[j] = act[j],
             Linked \subseteq Linked', Linked' \subseteq Linked \cup {i}
      PROVE  ThreadsLegal' /\ IdsReserved' /\ FreeInv' /\ DispatchInv' /\ RunInv' /\ QuietInv'
  <2>1. thread'[t] = r /\ \A u \in Threads : u # t => thread'[u] = thread[u]
    BY <1>1, <1>7
  <2>2. ThreadsLegal'
    BY <1>7, <2>1 DEF ThreadsLegal
  <2>3. IdsReserved'
    <3>1. InsertingThreads' = InsertingThreads \ {t}
      BY <1>7, <2>1 DEF InsertingThreads, Threads
    <3>2. Unused' = Unused \ {i}
      BY <1>2, <1>7 DEF Unused
    <3>. QED  BY <1>1, <3>1, <3>2, TakeId
  <2>4. FreeInv'
    <3>1. \A u \in Threads : Frees(thread'[u]) => u # t /\ thread'[u] = thread[u] /\ thread[u].id # i
      BY <1>2, <1>7, <2>1
    <3>2. ASSUME NEW u \in Threads, Frees(thread'[u])
          PROVE  /\ thread'[u].id \in Ids /\ act'[thread'[u].id].box = "live"
                 /\ act'[thread'[u].id].detached
                 /\ thread'[u].id \in Linked' <=> thread'[u].pc # "drop"
      <4>1. thread'[u] = thread[u] /\ Frees(thread[u]) /\ thread[u].id # i
        BY <3>1, <3>2
      <4>2. /\ thread[u].id \in Ids /\ act[thread[u].id].box = "live" /\ act[thread[u].id].detached
            /\ thread[u].id \in Linked <=> thread[u].pc # "drop"
        BY <4>1 DEF FreeInv
      <4>. QED  BY <1>7, <4>1, <4>2
    <3>3. \A u, v \in Threads : u # v /\ Frees(thread'[u]) /\ Frees(thread'[v]) =>
             thread'[u].id # thread'[v].id
      BY <3>1 DEF FreeInv
    <3>. QED  BY <3>2, <3>3 DEF FreeInv
  <2>5. DispatchInv'
    <3>1. Walkers' = Walkers /\ inFlight' = inFlight /\ disp' = disp
      BY <1>4 DEF Walkers, Walking
    <3>. QED  BY <1>7, <3>1 DEF DispatchInv, Walking
  <2>6. RunInv'
    <3>1. \A c \in Cpus : disp[c].pc = "run" => act'[disp[c].at] = act[disp[c].at]
      BY <1>2, <1>4, <1>7
    <3>2. disp' = disp
      BY <1>4
    <3>. QED  BY <3>1, <3>2 DEF RunInv, NonReentrant
  <2>7. QuietInv'
    BY <1>2, <1>4, <1>7 DEF QuietInv, QuietAfterSynchronize, IrqTypes
  <2>. QED  BY <2>2, <2>3, <2>4, <2>5, <2>6, <2>7
<1>8. CASE Compatible(req)
  <2>1. /\ present' = TRUE
        /\ mode' = IF Active(chain, act) = {} THEN req.mode ELSE mode
        /\ chain' = <<i>> \o chain
        /\ act' = [act EXCEPT ![i] = new]
        /\ desired' = Recompute(chain', act', req.scope)
        /\ thread' = [thread EXCEPT ![t] = inserted]
    BY <1>8 DEF InsertAction, NewId, Become
  <2>2. new \in ActRec /\ new.box = "live" /\ new.scope = req.scope
    BY <1>3, RequestFacts DEF ActRec, NoAction
  <2>3. /\ chain' \in Seq(Ids) /\ Linked' = Linked \cup {i}
        /\ \A m, n \in 1 .. Len(chain') : chain'[m] = chain'[n] => m = n
    BY <1>2, <2>1, LinkHead DEF IrqTypes, Linked
  <2> HIDE DEF new, inserted, i
  <2>4. /\ act' \in [Ids -> ActRec] /\ act'[i] = new
        /\ \A j \in Ids : j # i => act'[j] = act[j]
    BY <1>1, <1>2, <2>1, <2>2
  <2>5. IrqTypes'
    <3>1. desired' \in [Lines -> BOOLEAN]
      BY <2>1, RecomputeType
    <3>2. mode' \in {"Exclusive", "Shared"}
      BY <1>3, <2>1, RequestFacts DEF IrqTypes
    <3>3. thread' \in [Threads -> ThreadRec]
      BY <1>1, <1>5, <2>1
    <3>. QED  BY <1>4, <2>1, <2>3, <2>4, <3>1, <3>2, <3>3 DEF IrqTypes, hardware
  <2>6. ThreadsLegal' /\ IdsReserved' /\ FreeInv' /\ DispatchInv' /\ RunInv' /\ QuietInv'
    BY <1>5, <1>7, <2>1, <2>2, <2>3, <2>4
  <2>7. ChainInv'
    BY <1>4, <2>2, <2>3, <2>4 DEF ChainInv
  <2>8. Sharing'
    <3> DEFINE active == Active(chain, act)
    <3>1. active \subseteq Ids /\ i \notin active /\ \A j \in active : act'[j] = act[j]
      BY <1>2, <1>4, <2>4 DEF Active, Linked
    <3>2. Active(chain, act)' \subseteq active \cup {i}
      BY <1>2, <1>4, <2>3, <2>4 DEF Active, Linked
    <3>3. /\ active # {} => mode = "Shared" /\ mode' = "Shared"
          /\ \A j \in active : act[j].scope = {Global} <=> req.scope = {Global}
      BY <1>8, <2>1 DEF Compatible
    <3> HIDE DEF active
    <3>4. \A j, k \in active : j # k => (act[j].scope = {Global} <=> act[k].scope = {Global})
      BY <3>3
    <3>. QED  BY <2>2, <2>4, <3>1, <3>2, <3>3, <3>4, SMTT(30) DEF Sharing
  <2>. QED  BY <2>5, <2>6, <2>7, <2>8
<1>9. CASE ~Compatible(req)
  <2>1. /\ UNCHANGED lineVars
        /\ act' = [act EXCEPT ![i].box = "freed"]
        /\ thread' = [thread EXCEPT ![t] = refused]
    BY <1>9 DEF InsertAction, NewId, Become
  <2> HIDE DEF refused, i
  <2>2. /\ act' \in [Ids -> ActRec] /\ act'[i].box = "freed"
        /\ \A j \in Ids : j # i => act'[j] = act[j]
    BY <1>1, <1>2, <2>1, SMTT(30) DEF ActRec
  <2>3. chain' = chain /\ Linked' = Linked /\ mode' = mode
    BY <2>1 DEF lineVars, Linked
  <2>4. IrqTypes'
    BY <1>1, <1>4, <1>6, <2>1, <2>2 DEF IrqTypes, hardware, lineVars
  <2>5. ThreadsLegal' /\ IdsReserved' /\ FreeInv' /\ DispatchInv' /\ RunInv' /\ QuietInv'
    BY <1>6, <1>7, <2>1, <2>2, <2>3
  <2>6. ChainInv'
    BY <1>2, <1>4, <2>2, <2>3 DEF ChainInv
  <2>7. Sharing'
    <3>1. Active(chain, act)' = Active(chain, act) /\ \A j \in Active(chain, act) : act'[j] = act[j]
      BY <1>2, <1>4, <2>2, <2>3 DEF Active, Linked
    <3>. QED  BY <2>3, <3>1, SMTT(30) DEF Sharing
  <2>. QED  BY <2>4, <2>5, <2>6, <2>7
<1>. QED  BY <1>8, <1>9

LEMMA AfterDropFacts ==
    ASSUME IrqInv, NEW t \in Threads, thread[t].pc \in {"detach", "drop"}
    PROVE  /\ AfterDrop(t) \in ThreadRec /\ Legal(t, AfterDrop(t)) /\ ~Frees(AfterDrop(t))
           /\ AfterDrop(t).pc \notin Inserting
<1> DEFINE restore == [thread[t] EXCEPT !.pc = "restore", !.todo = thread[t].snap]
<1>1. thread[t] \in ThreadRec /\ Legal(t, thread[t])
  BY ThreadFacts
<1>2. restore \in ThreadRec /\ Legal(t, restore) /\ ~Frees(restore) /\ restore.pc \notin Inserting
  BY <1>1 DEF ThreadRec, Pcs, Legal, Frees, Visits, Inserting, Threads
<1>3. Idle \in ThreadRec /\ Legal(t, Idle) /\ ~Frees(Idle) /\ Idle.pc \notin Inserting
  BY IdleFacts DEF Idle, Inserting
<1>4. AfterDrop(t) \in {restore, Idle}
  BY DEF AfterDrop
<1> HIDE DEF restore
<1>. QED  BY <1>2, <1>3, <1>4

LEMMA DetachActionStep ==
    ASSUME IrqInv, NEW t \in Threads, DetachAction(t)
    PROVE  IrqInv'
<1> USE DEF IrqInv
<1> DEFINE i == thread[t].id
<1>1. /\ thread \in [Threads -> ThreadRec] /\ thread[t] \in ThreadRec /\ Legal(t, thread[t])
      /\ thread[t].pc = "detach" /\ act \in [Ids -> ActRec] /\ Linked \subseteq Ids
  BY ThreadFacts, Pointers DEF DetachAction, At, IrqTypes
<1>2. UNCHANGED <<present, mode, chain, applied, inFlight, hardware, disp, quiet>> /\ Linked' = Linked
  BY DEF DetachAction, Linked
<1>3. CASE i \in Active(chain, act)
  <2> DEFINE r == IF thread[t].op = "free"
                    THEN [thread[t] EXCEPT !.pc = "apply", !.todo = act[i].scope]
                    ELSE [thread[t] EXCEPT !.pc = "wait"]
  <2>1. i \in Ids /\ i \in Linked /\ ~act[i].detached /\ act[i].scope \in SUBSET Lines
    BY <1>1, <1>3 DEF Active, Linked, ActRec
  <2>2. /\ thread' = [thread EXCEPT ![t] = r]
        /\ act' = [act EXCEPT ![i].detached = TRUE, ![i].enabled = FALSE, ![i].pending = {}]
        /\ desired' = Recompute(chain, act', act[i].scope)
    BY <1>3 DEF DetachAction, Become
  <2>3. r \in ThreadRec /\ Legal(t, r) /\ r.pc \notin Inserting /\ r.id = i /\ r.pc # "drop"
    BY <1>1, <2>1 DEF ThreadRec, Pcs, Legal, Visits, Inserting
  <2> HIDE DEF r, i
  <2>4. /\ act' \in [Ids -> ActRec] /\ act'[i].detached
        /\ \A j \in Ids : /\ act[j].detached => act'[j].detached
                          /\ act'[j].enabled => act[j].enabled
                          /\ act'[j].scope = act[j].scope /\ act'[j].box = act[j].box
                          /\ act'[j].running = act[j].running
                          /\ act'[j].execution = act[j].execution
    <3> DEFINE new == [act[i] EXCEPT !.detached = TRUE, !.enabled = FALSE, !.pending = {}]
    <3>1. act[i] \in ActRec
      BY <1>1, <2>1
    <3>2. /\ new \in ActRec /\ new.detached /\ ~new.enabled /\ new.scope = act[i].scope
          /\ new.box = act[i].box /\ new.running = act[i].running
          /\ new.execution = act[i].execution
      BY <3>1 DEF ActRec
    <3>3. act' = [act EXCEPT ![i] = new]
      BY <1>1, <2>1, <2>2
    <3> HIDE DEF new
    <3>4. act' \in [Ids -> ActRec] /\ act'[i] = new /\ \A j \in Ids : j # i => act'[j] = act[j]
      BY <1>1, <2>1, <3>2, <3>3
    <3>. QED  BY <3>2, <3>4
  <2>5. thread'[t] = r /\ \A u \in Threads : u # t => thread'[u] = thread[u]
    BY <1>1, <2>2
  <2>6. IrqTypes'
    <3>1. desired' \in [Lines -> BOOLEAN] /\ thread' \in [Threads -> ThreadRec]
      BY <1>1, <2>2, <2>3, RecomputeType
    <3>. QED  BY <1>2, <2>4, <3>1 DEF IrqTypes, hardware
  <2>7. ThreadsLegal'
    BY <2>3, <2>5 DEF ThreadsLegal
  <2>8. IdsReserved'
    <3>1. InsertingThreads' \subseteq InsertingThreads
      BY <2>3, <2>5 DEF InsertingThreads, Threads
    <3>2. Unused' = Unused
      BY <2>4 DEF Unused
    <3>. QED  BY <3>1, <3>2, IdsReservedFrame
  <2>9. ChainInv'
    BY <1>1, <1>2, <2>4 DEF ChainInv
  <2>10. FreeInv'
    <3>1. ASSUME NEW u \in Threads, Frees(thread'[u])
          PROVE  /\ thread'[u].id \in Ids /\ act'[thread'[u].id].box = "live"
                 /\ act'[thread'[u].id].detached
                 /\ thread'[u].id \in Linked' <=> thread'[u].pc # "drop"
      <4>1. CASE u = t
        BY <1>1, <1>2, <2>1, <2>3, <2>4, <2>5, <4>1 DEF ChainInv
      <4>2. CASE u # t
        <5>1. thread'[u] = thread[u]
          BY <2>5, <4>2
        <5>2. /\ thread[u].id \in Ids /\ act[thread[u].id].box = "live" /\ act[thread[u].id].detached
              /\ thread[u].id \in Linked <=> thread[u].pc # "drop"
          BY <1>2, <3>1, <5>1 DEF FreeInv
        <5>3. act'[thread[u].id].box = "live" /\ act'[thread[u].id].detached
          BY <2>4, <5>2
        <5>. QED  BY <1>2, <5>1, <5>2, <5>3
      <4>. QED  BY <4>1, <4>2
    <3>2. \A u \in Threads : u # t /\ Frees(thread'[u]) => thread'[u].id # i
      BY <2>1, <2>5 DEF FreeInv
    <3>3. ASSUME NEW u \in Threads, NEW v \in Threads, u # v,
                 Frees(thread'[u]), Frees(thread'[v])
          PROVE  thread'[u].id # thread'[v].id
      BY <2>3, <2>5, <3>2, <3>3 DEF FreeInv
    <3>. QED  BY <3>1, <3>3, FreeInvNext
  <2>11. DispatchInv'
    BY <1>2 DEF DispatchInv, Walkers, Walking
  <2>12. RunInv'
    <3>1. \A c \in Cpus : disp[c].pc = "run" => disp[c].at \in Ids
      BY <1>1 DEF DispatchInv
    <3>. QED  BY <1>2, <2>4, <3>1 DEF RunInv, NonReentrant
  <2>13. QuietInv'
    BY <1>2, <2>4, SMTT(30) DEF QuietInv, QuietAfterSynchronize, IrqTypes
  <2>14. Sharing'
    <3>1. Active(chain, act)' \subseteq Active(chain, act) /\ Active(chain, act) \subseteq Ids
      BY <1>1, <1>2, <2>4 DEF Active, Linked
    <3>. QED  BY <1>2, <2>4, <3>1, SMTT(30) DEF Sharing
  <2>. QED  BY <2>6, <2>7, <2>8, <2>9, <2>10, <2>11, <2>12, <2>13, <2>14
<1>4. CASE i \notin Active(chain, act)
  <2>1. Become(t, AfterDrop(t)) /\ UNCHANGED <<act, desired>>
    BY <1>4 DEF DetachAction
  <2>2. /\ AfterDrop(t) \in ThreadRec /\ Legal(t, AfterDrop(t)) /\ ~Frees(AfterDrop(t))
        /\ AfterDrop(t).pc \notin Inserting
    BY <1>1, AfterDropFacts
  <2>3. applied' \in [Lines -> BOOLEAN] /\ HardwareTypes'
    BY <1>2, SameApplied, HardwareStep
  <2>. QED  BY <1>2, <2>1, <2>2, <2>3, ThreadOnly DEF lineVars
<1>. QED  BY <1>3, <1>4

LEMMA RemoveActionStep ==
    ASSUME IrqInv, NEW t \in Threads, RemoveAction(t)
    PROVE  IrqInv'
<1> USE DEF IrqInv
<1> DEFINE i == thread[t].id
           r == [thread[t] EXCEPT !.pc = "drop"]
<1>1. /\ thread \in [Threads -> ThreadRec] /\ thread[t] \in ThreadRec /\ Legal(t, thread[t])
      /\ thread[t].pc = "wait" /\ inFlight = 0
  BY ThreadFacts DEF RemoveAction, At
<1>2. /\ UNCHANGED <<present, mode, desired, applied, inFlight, act, hardware, disp, quiet>>
      /\ chain' = Unlink(i) /\ thread' = [thread EXCEPT ![t] = r]
  BY DEF RemoveAction, Goto, Become
<1>3. r \in ThreadRec /\ Legal(t, r) /\ r.pc \notin Inserting /\ r.id = i /\ r.pc = "drop"
  BY <1>1 DEF ThreadRec, Pcs, Legal, Visits, Inserting
<1>4. Frees(thread[t]) /\ i \in Linked
  BY <1>1 DEF Frees, Legal, FreeInv
<1>5. /\ chain' \in Seq(Ids) /\ Linked' = Linked \ {i}
      /\ \A m, n \in 1 .. Len(chain') : chain'[m] = chain'[n] => m = n
  BY <1>2, <1>4, UnlinkOne DEF IrqTypes, Linked
<1>6. \A c \in Cpus : ~Walking(c)
  BY <1>1, Quiescent
<1> HIDE DEF r, i
<1>7. thread'[t] = r /\ \A u \in Threads : u # t => thread'[u] = thread[u]
  BY <1>1, <1>2
<1>8. IrqTypes'
  BY <1>1, <1>2, <1>3, <1>5 DEF IrqTypes, hardware
<1>9. ThreadsLegal'
  BY <1>3, <1>7 DEF ThreadsLegal
<1>10. IdsReserved'
  <2>1. InsertingThreads' \subseteq InsertingThreads
    BY <1>3, <1>7 DEF InsertingThreads, Threads
  <2>2. Unused' = Unused
    BY <1>2 DEF Unused
  <2>. QED  BY <2>1, <2>2, IdsReservedFrame
<1>11. ChainInv' /\ RunInv' /\ QuietInv'
  BY <1>2, <1>5 DEF ChainInv, RunInv, NonReentrant, QuietInv, QuietAfterSynchronize
<1>12. FreeInv'
  <2>1. ASSUME NEW u \in Threads, Frees(thread'[u])
        PROVE  /\ thread'[u].id \in Ids /\ act'[thread'[u].id].box = "live"
               /\ act'[thread'[u].id].detached
               /\ thread'[u].id \in Linked' <=> thread'[u].pc # "drop"
    <3>1. CASE u = t
      <4>1. i \in Ids /\ act[i].box = "live" /\ act[i].detached
        BY <1>4 DEF FreeInv, i
      <4>2. thread'[t].id = i /\ thread'[t].pc = "drop" /\ act' = act /\ i \notin Linked'
        BY <1>2, <1>3, <1>5, <1>7
      <4>. QED  BY <3>1, <4>1, <4>2
    <3>2. CASE u # t
      <4>1. thread'[u] = thread[u] /\ Frees(thread[u]) /\ thread[u].id # i
        BY <1>4, <1>7, <2>1, <3>2 DEF FreeInv, i
      <4>2. /\ thread[u].id \in Ids /\ act[thread[u].id].box = "live" /\ act[thread[u].id].detached
            /\ thread[u].id \in Linked <=> thread[u].pc # "drop"
        BY <4>1 DEF FreeInv
      <4>3. act' = act /\ Linked' = Linked \ {i}
        BY <1>2, <1>5
      <4>. QED  BY <4>1, <4>2, <4>3
    <3>. QED  BY <3>1, <3>2
  <2>2. \A u \in Threads : Frees(thread'[u]) => Frees(thread[u]) /\ thread'[u].id = thread[u].id
    BY <1>3, <1>4, <1>7 DEF i
  <2>3. \A u, v \in Threads :
          u # v /\ Frees(thread'[u]) /\ Frees(thread'[v]) => thread'[u].id # thread'[v].id
    BY <2>2 DEF FreeInv
  <2>. QED  BY <2>1, <2>3, FreeInvNext
<1>13. DispatchInv'
  <2>1. Walkers' = Walkers
    BY <1>2 DEF Walkers, Walking
  <2>. QED  BY <1>2, <1>6, <2>1 DEF DispatchInv, Walking
<1>14. Sharing'
  <2>1. Active(chain, act)' \subseteq Active(chain, act)
    BY <1>2, <1>5 DEF Active, Linked
  <2>. QED  BY <1>2, <2>1, SMTT(30) DEF Sharing
<1>. QED  BY <1>8, <1>9, <1>10, <1>11, <1>12, <1>13, <1>14

LEMMA DropActionStep ==
    ASSUME IrqInv, NEW t \in Threads, DropAction(t)
    PROVE  IrqInv'
<1> USE DEF IrqInv
<1> DEFINE i == thread[t].id
           r == AfterDrop(t)
<1>1. /\ thread \in [Threads -> ThreadRec] /\ thread[t] \in ThreadRec /\ Legal(t, thread[t])
      /\ thread[t].pc = "drop" /\ act \in [Ids -> ActRec] /\ Linked \subseteq Ids
  BY ThreadFacts, Pointers DEF DropAction, At, IrqTypes
<1>2. /\ UNCHANGED <<lineVars, applied, inFlight, hardware, disp, quiet>>
      /\ act' = [act EXCEPT ![i].box = "freed"] /\ thread' = [thread EXCEPT ![t] = r]
      /\ UNCHANGED <<mode, chain>> /\ Linked' = Linked
  BY DEF DropAction, Become, lineVars, Linked
<1>3. r \in ThreadRec /\ Legal(t, r) /\ ~Frees(r) /\ r.pc \notin Inserting
  BY <1>1, AfterDropFacts
<1>4. Frees(thread[t]) /\ i \in Ids /\ i \notin Linked /\ act[i].box = "live"
  BY <1>1 DEF Frees, Legal, FreeInv
<1> HIDE DEF r, i
<1>5. thread'[t] = r /\ \A u \in Threads : u # t => thread'[u] = thread[u]
  BY <1>1, <1>2
<1>6. /\ act' \in [Ids -> ActRec] /\ act'[i].box = "freed" /\ act'[i].enabled = act[i].enabled
      /\ \A j \in Ids : j # i => act'[j] = act[j]
  BY <1>1, <1>2, <1>4 DEF ActRec
<1>7. IrqTypes'
  BY <1>1, <1>2, <1>3, <1>6 DEF IrqTypes, hardware, lineVars
<1>8. ThreadsLegal'
  BY <1>3, <1>5 DEF ThreadsLegal
<1>9. IdsReserved'
  <2>1. InsertingThreads' \subseteq InsertingThreads
    BY <1>3, <1>5 DEF InsertingThreads, Threads
  <2>2. Unused' = Unused
    BY <1>4, <1>6 DEF Unused
  <2>. QED  BY <2>1, <2>2, IdsReservedFrame
<1>10. ChainInv'
  BY <1>1, <1>2, <1>4, <1>6 DEF ChainInv
<1>11. FreeInv'
  <2>1. \A u \in Threads : Frees(thread'[u]) => u # t /\ thread'[u] = thread[u] /\ thread[u].id # i
    BY <1>3, <1>4, <1>5 DEF FreeInv, i
  <2>2. \A u \in Threads : Frees(thread[u]) => thread[u].id \in Ids
    BY DEF FreeInv
  <2>3. Linked' = Linked
    BY <1>2 DEF lineVars, Linked
  <2>. QED  BY <1>6, <2>1, <2>2, <2>3, FreeInvFrame
<1>12. DispatchInv'
  BY <1>2 DEF DispatchInv, Walkers, Walking
<1>13. RunInv'
  <2>1. \A c \in Cpus : disp[c].pc = "run" => act'[disp[c].at] = act[disp[c].at]
    BY <1>1, <1>4, <1>6 DEF DispatchInv
  <2>2. disp' = disp
    BY <1>2
  <2>3. NonReentrant'
    BY <2>1, <2>2 DEF RunInv, NonReentrant
  <2>. QED  BY <2>1, <2>2, <2>3 DEF RunInv
<1>14. QuietInv'
  BY <1>2, <1>6 DEF QuietInv, QuietAfterSynchronize, IrqTypes
<1>15. Sharing'
  <2>1. Active(chain, act)' = Active(chain, act) /\ \A j \in Active(chain, act) : act'[j] = act[j]
    BY <1>1, <1>2, <1>4, <1>6 DEF Active, Linked
  <2>. QED  BY <1>2, <2>1, SMTT(30) DEF Sharing
<1>. QED  BY <1>7, <1>8, <1>9, <1>10, <1>11, <1>12, <1>13, <1>14, <1>15

LEMMA SynchronizeStep ==
    ASSUME IrqInv, NEW t \in Threads, Synchronize(t)
    PROVE  IrqInv'
<1> USE DEF IrqInv
<1> DEFINE i == thread[t].id
<1>1. /\ UNCHANGED <<lineVars, applied, inFlight, act, hardware, disp>>
      /\ thread' = [thread EXCEPT ![t] = Idle]
      /\ i \in Active(chain, act) => inFlight = 0
      /\ quiet' = IF i \in Active(chain, act) /\ ~act[i].enabled THEN quiet \cup {i} ELSE quiet
      /\ Linked \subseteq Ids
  BY Pointers DEF Synchronize, Return, Become, IrqTypes
<1>2. /\ Idle \in ThreadRec /\ Legal(t, Idle) /\ ~Frees(Idle) /\ Idle.pc \notin Inserting
  BY IdleFacts DEF Idle, Inserting
<1>3. CASE quiet' = quiet
  <2>1. IrqTypes'
    BY <1>1, <1>2, <1>3, ThreadFacts DEF IrqTypes, lineVars, hardware
  <2>. QED  BY <1>1, <1>2, <1>3, <2>1, ThreadStep DEF lineVars, SameAction, QuietInv
<1>4. CASE i \in Active(chain, act) /\ ~act[i].enabled /\ quiet' = quiet \cup {i}
  <2>1. i \in Linked /\ i \in Ids /\ \A c \in Cpus : ~Walking(c)
    BY <1>1, <1>4, Quiescent DEF Active, Linked
  <2>2. thread'[t] = Idle /\ \A u \in Threads : u # t => thread'[u] = thread[u]
    BY <1>1 DEF IrqTypes
  <2>3. UNCHANGED <<mode, chain>> /\ Linked' = Linked
    BY <1>1 DEF lineVars, Linked
  <2> HIDE DEF i
  <2>4. IrqTypes'
    BY <1>1, <1>2, <1>4, <2>1, ThreadFacts DEF IrqTypes, lineVars, hardware
  <2>5. ThreadsLegal'
    BY <1>2, <2>2 DEF ThreadsLegal
  <2>6. IdsReserved'
    <3>1. InsertingThreads' \subseteq InsertingThreads
      BY <1>2, <2>2 DEF InsertingThreads, Threads
    <3>2. Unused' = Unused
      BY <1>1 DEF Unused
    <3>. QED  BY <3>1, <3>2, IdsReservedFrame
  <2>7. FreeInv'
    <3>1. \A u \in Threads : Frees(thread'[u]) => u # t /\ thread'[u] = thread[u]
      BY <1>2, <2>2
    <3>. QED  BY <1>1, <2>3, <3>1, FreeInvFrame
  <2>8. ChainInv' /\ RunInv' /\ Sharing'
    <3>1. ChainInv'
      BY <1>1, <2>3 DEF ChainInv
    <3>2. RunInv'
      BY <1>1, <2>3 DEF RunInv, NonReentrant
    <3>3. Sharing'
      BY <1>1, <2>3 DEF Sharing
    <3>. QED  BY <3>1, <3>2, <3>3
  <2>9. DispatchInv'
    BY <1>1, <2>3 DEF DispatchInv, Walkers, Walking
  <2>10. QuietInv'
    BY <1>1, <1>4, <2>1 DEF QuietInv, QuietAfterSynchronize, ChainInv, Walking
  <2>. QED  BY <2>4, <2>5, <2>6, <2>7, <2>8, <2>9, <2>10
<1>. QED  BY <1>1, <1>3, <1>4

-----------------------------------------------------------------------------
(* Steps that leave the list of actions alone *)

LEMMA SnapshotLineStep ==
    ASSUME IrqInv, NEW t \in Threads, SnapshotLine(t)
    PROVE  IrqInv'
<1> DEFINE r == IF Offline(Visiting(t)) THEN AfterSnapshot(Done(t))
                ELSE [thread[t] EXCEPT !.pc = "mask", !.value = present /\ applied[Visiting(t)]]
<1>1. /\ thread[t] \in ThreadRec /\ Legal(t, thread[t])
      /\ thread[t].pc = "snapshot" /\ Visiting(t) \in Lines
  BY ThreadFacts DEF SnapshotLine, At, Legal, Visits
<1>2. Become(t, r)
  BY DEF SnapshotLine
<1>3. applied[Visiting(t)] \in BOOLEAN /\ present \in BOOLEAN
  BY <1>1 DEF IrqInv, IrqTypes
<1>4. r \in ThreadRec
  BY <1>1, <1>3 DEF ThreadRec, Pcs, AfterSnapshot, Done
<1>5. Legal(t, r) /\ ~Frees(r)
  BY <1>1 DEF Legal, Frees, AfterSnapshot, Done, Visits, Inserting, ThreadRec
<1>6. applied' \in [Lines -> BOOLEAN] /\ HardwareTypes'
  BY SameApplied, HardwareStep DEF SnapshotLine
<1> HIDE DEF r
<1>. QED  BY <1>1, <1>2, <1>4, <1>5, <1>6, ThreadOnly DEF SnapshotLine, Inserting

LEMMA MaskLineStep ==
    ASSUME IrqInv, NEW t \in Threads, MaskLine(t)
    PROVE  IrqInv'
<1> DEFINE restore == [thread[t] EXCEPT !.pc = "restore", !.ok = FALSE, !.todo = thread[t].snap]
           masked == [thread[t] EXCEPT !.pc = "masked"]
<1>1. /\ thread[t] \in ThreadRec /\ Legal(t, thread[t])
      /\ thread[t].pc = "mask" /\ Visiting(t) \in Lines
  BY ThreadFacts DEF MaskLine, At, Legal, Visits
<1>2. masked \in ThreadRec /\ Legal(t, masked) /\ ~Frees(masked)
  BY <1>1 DEF ThreadRec, Pcs, Legal, Frees, Visits, Inserting
<1>3. restore \in ThreadRec /\ Legal(t, restore) /\ ~Frees(restore)
  BY <1>1 DEF ThreadRec, Pcs, Legal, Frees, Visits, Inserting
<1>4. applied' \in [Lines -> BOOLEAN] /\ HardwareTypes'
  BY <1>1, SameApplied, HardwareStep DEF MaskLine
<1>5. Become(t, masked) \/ Become(t, restore)
  BY DEF MaskLine, Goto
<1> HIDE DEF masked, restore
<1>. QED  BY <1>1, <1>2, <1>3, <1>4, <1>5, ThreadOnly DEF MaskLine, Inserting

LEMMA MarkMaskedStep ==
    ASSUME IrqInv, NEW t \in Threads, MarkMasked(t)
    PROVE  IrqInv'
<1> DEFINE l == Visiting(t)
           r == AfterSnapshot([Done(t) EXCEPT !.snap = @ \cup {l},
                                 !.was = IF Done(t).value THEN @ \cup {l} ELSE @])
<1>1. /\ thread[t] \in ThreadRec /\ Legal(t, thread[t]) /\ thread[t].pc = "masked" /\ l \in Lines
  BY ThreadFacts DEF MarkMasked, At, Legal, Visits
<1>2. Become(t, r)
  BY DEF MarkMasked
<1>3. r \in ThreadRec
  BY <1>1 DEF ThreadRec, Pcs, AfterSnapshot, Done
<1>4. Legal(t, r) /\ ~Frees(r)
  BY <1>1 DEF Legal, Frees, AfterSnapshot, Done, Visits, Inserting, ThreadRec
<1>5. applied' \in [Lines -> BOOLEAN] /\ HardwareTypes'
  BY <1>1, SameApplied, HardwareStep
  DEF MarkMasked, SetAppliedIfPresent, SetApplied, IrqInv, IrqTypes
<1> HIDE DEF r
<1>. QED  BY <1>1, <1>2, <1>3, <1>4, <1>5, ThreadOnly DEF MarkMasked, Inserting

LEMMA ApplyAffinityStep ==
    ASSUME IrqInv, NEW t \in Threads, ApplyAffinity(t)
    PROVE  IrqInv'
<1> DEFINE restore == [thread[t] EXCEPT !.pc = "restore", !.todo = thread[t].snap]
           drop == [thread[t] EXCEPT !.pc = "detach", !.op = "drop", !.ok = FALSE, !.k = "restore"]
<1>1. thread[t] \in ThreadRec /\ Legal(t, thread[t]) /\ thread[t].pc = "affinity"
  BY ThreadFacts DEF ApplyAffinity, At
<1>2. restore \in ThreadRec /\ Legal(t, restore) /\ ~Frees(restore) /\ restore.pc \notin Inserting
  BY <1>1 DEF ThreadRec, Pcs, Legal, Frees, Visits, Inserting
<1>3. drop \in ThreadRec /\ Legal(t, drop) /\ ~Frees(drop) /\ drop.pc \notin Inserting
  BY <1>1, CpusAssumption DEF ThreadRec, Pcs, Ops, Legal, Frees, Visits, Inserting
<1>4. applied' \in [Lines -> BOOLEAN] /\ HardwareTypes'
  BY SameApplied, HardwareStep DEF ApplyAffinity
<1>5. Become(t, restore) \/ Become(t, drop)
  BY DEF ApplyAffinity
<1> HIDE DEF restore, drop
<1>. QED  BY <1>2, <1>3, <1>4, <1>5, ThreadOnly DEF ApplyAffinity

LEMMA RestoreLineStep ==
    ASSUME IrqInv, NEW t \in Threads, RestoreLine(t)
    PROVE  IrqInv'
<1> DEFINE restored == [thread[t] EXCEPT !.pc = "restored"]
           drop == [thread[t] EXCEPT !.pc = "detach", !.op = "drop", !.ok = FALSE, !.todo = {}]
<1>1. /\ thread[t] \in ThreadRec /\ Legal(t, thread[t]) /\ thread[t].pc = "restore"
      /\ thread[t].todo # {} /\ Visiting(t) \in Lines
  BY ThreadFacts DEF RestoreLine, At
<1>2. restored \in ThreadRec /\ Legal(t, restored) /\ ~Frees(restored) /\ restored.pc \notin Inserting
  BY <1>1 DEF ThreadRec, Pcs, Legal, Frees, Visits, Inserting
<1>3. drop \in ThreadRec /\ Legal(t, drop) /\ ~Frees(drop) /\ drop.pc \notin Inserting
  BY <1>1, CpusAssumption DEF ThreadRec, Pcs, Ops, Legal, Frees, Visits, Inserting
<1>4. Idle \in ThreadRec /\ Legal(t, Idle) /\ ~Frees(Idle) /\ Idle.pc \notin Inserting
  BY IdleFacts DEF Idle, Inserting
<1>5. applied' \in [Lines -> BOOLEAN] /\ HardwareTypes'
  BY <1>1, SameApplied, HardwareStep DEF RestoreLine
<1>6. Become(t, restored) \/ Become(t, drop) \/ Become(t, Idle)
  BY DEF RestoreLine, Goto, Return
<1> HIDE DEF restored, drop
<1>. QED  BY <1>2, <1>3, <1>4, <1>5, <1>6, ThreadOnly DEF RestoreLine

LEMMA MarkRestoredStep ==
    ASSUME IrqInv, NEW t \in Threads, MarkRestored(t)
    PROVE  IrqInv'
<1> DEFINE r == [Done(t) EXCEPT !.pc = "restore"]
<1>1. /\ thread[t] \in ThreadRec /\ Legal(t, thread[t])
      /\ thread[t].pc = "restored" /\ Visiting(t) \in Lines
  BY ThreadFacts DEF MarkRestored, At, Legal, Visits
<1>2. r \in ThreadRec /\ Legal(t, r) /\ ~Frees(r) /\ r.pc \notin Inserting
  BY <1>1 DEF ThreadRec, Pcs, Legal, Frees, Visits, Inserting, Done
<1>3. applied' \in [Lines -> BOOLEAN] /\ HardwareTypes'
  <2> DEFINE was == Visiting(t) \in thread[t].was
  <2>1. was \in BOOLEAN /\ applied' \in {applied, [applied EXCEPT ![Visiting(t)] = was]}
    BY SMTT(30) DEF MarkRestored, SetAppliedIfPresent, SetApplied
  <2> HIDE DEF was
  <2>. QED  BY <1>1, <2>1, HardwareStep DEF MarkRestored, IrqInv, IrqTypes
<1>4. Become(t, r)
  BY DEF MarkRestored
<1> HIDE DEF r
<1>. QED  BY <1>2, <1>3, <1>4, ThreadOnly DEF MarkRestored

(* A step that moves a thread and changes the enable state of actions *)
LEMMA ThreadAct ==
    ASSUME IrqInv, NEW t \in Threads, NEW r \in ThreadRec, Become(t, r), Legal(t, r),
           r.pc \notin Inserting,
           Frees(r) => /\ Frees(thread[t]) /\ r.id = thread[t].id
                       /\ r.pc = "drop" <=> thread[t].pc = "drop",
           act' \in [Ids -> ActRec], \A i \in Ids : SameAction(i),
           desired' \in [Lines -> BOOLEAN],
           \A i \in quiet' : i \in quiet /\ ~act'[i].enabled,
           UNCHANGED <<present, mode, chain, applied, inFlight, hardware, disp>>
    PROVE  IrqInv'
<1>1. thread' = [thread EXCEPT ![t] = r]
  BY DEF Become
<1>2. IrqTypes'
  BY <1>1, ThreadFacts DEF hardware, IrqInv, IrqTypes
<1>. QED  BY <1>1, <1>2, ThreadStep

LEMMA EndRequestStep ==
    ASSUME IrqInv, NEW t \in Threads, EndRequest(t)
    PROVE  IrqInv'
<1> DEFINE enable == [thread[t] EXCEPT !.pc = "set", !.op = "enable"]
<1>1. thread[t] \in ThreadRec /\ Legal(t, thread[t]) /\ thread[t].pc = "restore"
  BY ThreadFacts DEF EndRequest, At
<1>2. enable \in ThreadRec /\ Legal(t, enable) /\ ~Frees(enable) /\ enable.pc \notin Inserting
  BY <1>1, CpusAssumption DEF ThreadRec, Pcs, Ops, Legal, Frees, Visits, Inserting
<1>3. Idle \in ThreadRec /\ Legal(t, Idle) /\ ~Frees(Idle) /\ Idle.pc \notin Inserting
  BY IdleFacts DEF Idle, Inserting
<1>4. act' = act \/ act' = [act EXCEPT ![thread[t].id].given = TRUE]
  BY DEF EndRequest
<1>5. /\ act' \in [Ids -> ActRec]
      /\ \A i \in Ids : SameAction(i) /\ act'[i].enabled = act[i].enabled
  BY <1>4, SetGiven DEF IrqInv, IrqTypes, SameAction
<1>6. \A i \in quiet' : i \in quiet /\ ~act'[i].enabled
  BY <1>5 DEF EndRequest, IrqInv, IrqTypes, QuietInv
<1>7. desired' \in [Lines -> BOOLEAN]
  BY DEF EndRequest, lineVars, IrqInv, IrqTypes
<1>8. Become(t, enable) \/ Become(t, Idle)
  BY DEF EndRequest, Return
<1> HIDE DEF enable
<1>. QED  BY <1>2, <1>3, <1>5, <1>6, <1>7, <1>8, ThreadAct DEF EndRequest, lineVars

LEMMA CallStart ==
    ASSUME IrqInv, NEW t \in Callers, NEW op \in {"enable", "disable", "free", "synchronize"},
           NEW i \in Ids, Call(t, op, i)
    PROVE  IrqInv'
<1> DEFINE r == [Idle EXCEPT !.op = op, !.id = i,
                   !.pc = IF op = "free" THEN "detach"
                          ELSE IF op = "synchronize" THEN "sync" ELSE "set"]
<1>1. t \in Threads /\ t \notin Cpus
  BY CpusAssumption DEF Threads
<1>2. r \in ThreadRec
  <2>1. PICK p \in {"detach", "sync", "set"} :
          p = IF op = "free" THEN "detach" ELSE IF op = "synchronize" THEN "sync" ELSE "set"
    OBVIOUS
  <2>2. p \in Pcs /\ op \in Ops
    BY DEF Pcs, Ops
  <2>3. [Idle EXCEPT !.op = op, !.id = i, !.pc = p] \in ThreadRec
    BY <2>2, IdleFacts DEF ThreadRec
  <2>. QED  BY <2>1, <2>3
<1>3. Legal(t, r) /\ ~Frees(r) /\ r.pc \notin Inserting
  BY <1>1 DEF Legal, Frees, Visits, Inserting, Idle
<1>4. applied' \in [Lines -> BOOLEAN] /\ HardwareTypes'
  BY SameApplied, HardwareStep DEF Call
<1>5. Become(t, r)
  BY DEF Call
<1> HIDE DEF r
<1>. QED  BY <1>1, <1>2, <1>3, <1>4, <1>5, ThreadOnly DEF Call

(* What the thread's record becomes at the end of a call *)
LEMMA CallEnds ==
    ASSUME IrqInv, NEW t \in Threads
    PROVE  /\ thread[t].pc \in {"apply", "defer", "write"} =>
                /\ Failed(t) \in ThreadRec /\ Legal(t, Failed(t)) /\ Failed(t).pc \notin Inserting
                /\ Frees(Failed(t)) => /\ Frees(thread[t]) /\ Failed(t).id = thread[t].id
                                        /\ Failed(t).pc # "drop"
           /\ thread[t].pc = "apply" =>
                /\ Succeeded(t) \in ThreadRec /\ Legal(t, Succeeded(t))
                /\ Succeeded(t).pc \notin Inserting
                /\ Frees(Succeeded(t)) => /\ Frees(thread[t]) /\ Succeeded(t).id = thread[t].id
                                           /\ Succeeded(t).pc # "drop"
           /\ thread[t].pc = "set" =>
                /\ NotFound(t) \in ThreadRec /\ Legal(t, NotFound(t))
                /\ NotFound(t).pc \notin Inserting /\ ~Frees(NotFound(t))
<1>1. thread[t] \in ThreadRec /\ Legal(t, thread[t])
  BY ThreadFacts
<1>2. Idle \in ThreadRec /\ Legal(t, Idle) /\ ~Frees(Idle) /\ Idle.pc \notin Inserting
  BY IdleFacts DEF Idle, Inserting
<1>3. ASSUME thread[t].pc \in {"apply", "defer", "write"}
      PROVE  /\ Failed(t) \in ThreadRec /\ Legal(t, Failed(t)) /\ Failed(t).pc \notin Inserting
             /\ Frees(Failed(t)) => /\ Frees(thread[t]) /\ Failed(t).id = thread[t].id
                                     /\ Failed(t).pc # "drop"
  <2> DEFINE rollback == [thread[t] EXCEPT !.todo = {}, !.op = "rollback", !.pc = "set"]
             free == [thread[t] EXCEPT !.todo = {}, !.op = "free", !.pc = "detach"]
             wait == [thread[t] EXCEPT !.todo = {}, !.pc = "wait"]
  <2>1. CASE thread[t].op = "enable"
    <3>1. Failed(t) = rollback
      BY <1>1, <2>1 DEF Failed, ThreadRec
    <3>2. rollback \in ThreadRec /\ Legal(t, rollback) /\ ~Frees(rollback) /\ rollback.pc \notin Inserting
      BY <1>1, <2>1 DEF ThreadRec, Pcs, Ops, Legal, Frees, Visits, Inserting
    <3>. QED  BY <3>1, <3>2
  <2>2. CASE thread[t].op = "rollback" /\ InRequest(t)
    <3>1. Failed(t) = free
      BY <1>1, <2>2 DEF Failed, ThreadRec
    <3>2. free \in ThreadRec /\ Legal(t, free) /\ ~Frees(free) /\ free.pc \notin Inserting
      BY <1>1, <2>2 DEF ThreadRec, Pcs, Ops, Legal, Frees, Visits, Inserting
    <3>. QED  BY <3>1, <3>2
  <2>3. CASE thread[t].op = "free"
    <3>1. Failed(t) = wait
      BY <1>1, <2>3 DEF Failed, ThreadRec
    <3>2. /\ wait \in ThreadRec /\ Legal(t, wait) /\ Frees(thread[t]) /\ wait.id = thread[t].id
          /\ wait.pc \notin Inserting /\ wait.pc # "drop"
      BY <1>1, <1>3, <2>3 DEF ThreadRec, Pcs, Ops, Legal, Frees, Visits, Inserting
    <3>. QED  BY <3>1, <3>2
  <2>4. CASE /\ thread[t].op \notin {"enable", "free"}
             /\ ~(thread[t].op = "rollback" /\ InRequest(t))
    <3> DEFINE rec == [thread[t] EXCEPT !.todo = {}]
    <3>0. rec.op = thread[t].op
      BY <1>1 DEF ThreadRec
    <3>1. rec.op # "enable" /\ rec.op # "free" /\ ~(rec.op = "rollback" /\ InRequest(t))
      BY <2>4, <3>0
    <3>2. Failed(t) = Idle
      BY <3>1 DEF Failed
    <3>. QED  BY <1>2, <3>2
  <2>. QED  BY <2>1, <2>2, <2>3, <2>4
<1>4. ASSUME thread[t].pc = "apply"
      PROVE  /\ Succeeded(t) \in ThreadRec /\ Legal(t, Succeeded(t)) /\ Succeeded(t).pc \notin Inserting
             /\ Frees(Succeeded(t)) => /\ Frees(thread[t]) /\ Succeeded(t).id = thread[t].id
                                        /\ Succeeded(t).pc # "drop"
  <2> DEFINE clear == [thread[t] EXCEPT !.pc = "clear"]
  <2>1. clear \in ThreadRec /\ Legal(t, clear) /\ ~Frees(clear) /\ clear.pc \notin Inserting
    BY <1>1, SMTT(30) DEF ThreadRec, Pcs, Ops, Legal, Frees, Visits, Inserting
  <2>2. Succeeded(t) \in {clear, Failed(t), Idle}
    BY DEF Succeeded
  <2> HIDE DEF clear
  <2>. QED  BY <1>2, <1>3, <1>4, <2>1, <2>2
<1>5. ASSUME thread[t].pc = "set"
      PROVE  /\ NotFound(t) \in ThreadRec /\ Legal(t, NotFound(t))
             /\ NotFound(t).pc \notin Inserting /\ ~Frees(NotFound(t))
  <2> DEFINE free == [thread[t] EXCEPT !.op = "free", !.pc = "detach", !.todo = {}]
  <2>1. free \in ThreadRec /\ Legal(t, free) /\ ~Frees(free) /\ free.pc \notin Inserting
    BY <1>1, <1>5 DEF ThreadRec, Pcs, Ops, Legal, Frees, Visits, Inserting
  <2>2. NotFound(t) \in {free, Idle}
    BY DEF NotFound
  <2> HIDE DEF free
  <2>. QED  BY <1>2, <2>1, <2>2
<1>. QED  BY <1>3, <1>4, <1>5

LEMMA SetActionEnabledStep ==
    ASSUME IrqInv, NEW t \in Threads, SetActionEnabled(t)
    PROVE  IrqInv'
<1> DEFINE i == thread[t].id
           enabled == thread[t].op = "enable"
<1>1. thread[t] \in ThreadRec /\ Legal(t, thread[t]) /\ thread[t].pc = "set"
  BY ThreadFacts DEF SetActionEnabled, At
<1>2. CASE i \in Active(chain, act)
  <2> DEFINE r == [thread[t] EXCEPT !.pc = "apply", !.todo = act[i].scope]
  <2>1. i \in Ids /\ act[i].scope \in SUBSET Lines
    BY <1>2, Pointers DEF Active, Linked, IrqInv, IrqTypes, ActRec
  <2>2. r \in ThreadRec /\ Legal(t, r) /\ ~Frees(r) /\ r.pc \notin Inserting
    BY <1>1, <2>1 DEF ThreadRec, Pcs, Legal, Frees, Visits, Inserting
  <2>3. /\ Become(t, r) /\ act' = [act EXCEPT ![i].enabled = enabled, ![i].pending = {}]
        /\ quiet' = IF enabled THEN quiet \ {i} ELSE quiet
    BY <1>2 DEF SetActionEnabled
  <2>4. /\ act' \in [Ids -> ActRec] /\ \A j \in Ids : SameAction(j)
        /\ \A j \in Ids : act'[j].enabled = IF j = i THEN enabled ELSE act[j].enabled
    <3>1. enabled \in BOOLEAN /\ {} \in SUBSET Cpus
      OBVIOUS
    <3> HIDE DEF enabled, i
    <3>. QED  BY <2>1, <2>3, <3>1, SetEnabledTypes
  <2>5. desired' \in [Lines -> BOOLEAN]
    <3>1. desired' = Recompute(chain, act', act[i].scope)
      BY <1>2 DEF SetActionEnabled
    <3>. QED  BY <3>1, RecomputeType
  <2>6. \A j \in quiet' : j \in quiet /\ ~act'[j].enabled
    BY <2>3, <2>4 DEF IrqInv, IrqTypes, QuietInv
  <2> HIDE DEF r
  <2>. QED  BY <2>2, <2>3, <2>4, <2>5, <2>6, ThreadAct DEF SetActionEnabled
<1>3. CASE i \notin Active(chain, act)
  <2>1. /\ NotFound(t) \in ThreadRec /\ Legal(t, NotFound(t))
        /\ NotFound(t).pc \notin Inserting /\ ~Frees(NotFound(t))
    BY <1>1, CallEnds
  <2>2. Become(t, NotFound(t)) /\ UNCHANGED <<act, desired, quiet>>
    BY <1>3 DEF SetActionEnabled
  <2>3. applied' \in [Lines -> BOOLEAN] /\ HardwareTypes'
    BY SameApplied, HardwareStep DEF SetActionEnabled
  <2>. QED  BY <2>1, <2>2, <2>3, ThreadOnly DEF SetActionEnabled, lineVars
<1>. QED  BY <1>2, <1>3

LEMMA ApplyNextStep ==
    ASSUME IrqInv, NEW t \in Threads, ApplyNext(t)
    PROVE  IrqInv'
<1>1. thread[t] \in ThreadRec /\ Legal(t, thread[t]) /\ thread[t].pc = "apply"
  BY ThreadFacts DEF ApplyNext, At
<1>2. CASE thread[t].todo = {}
  <2>1. /\ Succeeded(t) \in ThreadRec /\ Legal(t, Succeeded(t))
        /\ Succeeded(t).pc \notin Inserting
        /\ Frees(Succeeded(t)) => /\ Frees(thread[t]) /\ Succeeded(t).id = thread[t].id
                                   /\ Succeeded(t).pc # "drop"
    BY <1>1, CallEnds
  <2>2. Become(t, Succeeded(t)) /\ UNCHANGED <<desired, quiet>>
    BY <1>2 DEF ApplyNext, lineVars
  <2>3. act' = act \/ act' = [act EXCEPT ![thread[t].id].given = TRUE]
    BY <1>2 DEF ApplyNext
  <2>4. /\ act' \in [Ids -> ActRec]
        /\ \A i \in Ids : SameAction(i) /\ act'[i].enabled = act[i].enabled
    BY <2>3, SetGiven DEF IrqInv, IrqTypes, SameAction
  <2>5. \A i \in quiet' : i \in quiet /\ ~act'[i].enabled
    BY <2>2, <2>4 DEF IrqInv, IrqTypes, QuietInv
  <2>6. desired' \in [Lines -> BOOLEAN]
    BY <2>2 DEF IrqInv, IrqTypes
  <2>. QED  BY <1>1, <2>1, <2>2, <2>4, <2>5, <2>6, ThreadAct DEF ApplyNext, lineVars
<1>3. CASE thread[t].todo # {}
  <2> DEFINE line == [thread[t] EXCEPT !.pc = "line"]
             defer == [thread[t] EXCEPT !.pc = "defer"]
  <2>1. /\ line \in ThreadRec /\ Legal(t, line) /\ line.pc \notin Inserting
        /\ Frees(line) => Frees(thread[t]) /\ line.id = thread[t].id /\ line.pc # "drop"
    BY <1>1, <1>3 DEF ThreadRec, Pcs, Legal, Frees, Visits, Inserting
  <2>2. /\ Done(t) \in ThreadRec /\ Legal(t, Done(t)) /\ Done(t).pc \notin Inserting
        /\ Frees(Done(t)) => Frees(thread[t]) /\ Done(t).id = thread[t].id /\ Done(t).pc # "drop"
    BY <1>1 DEF ThreadRec, Pcs, Legal, Frees, Visits, Inserting, Done
  <2>3. Offline(Visiting(t)) /\ thread[t].op # "free" =>
          defer \in ThreadRec /\ Legal(t, defer) /\ ~Frees(defer) /\ defer.pc \notin Inserting
    BY <1>1, <1>3 DEF ThreadRec, Pcs, Legal, Frees, Visits, Inserting, Offline, Visiting
  <2>4. \/ Become(t, line) \/ Become(t, Done(t))
        \/ Offline(Visiting(t)) /\ thread[t].op # "free" /\ Become(t, defer)
    BY <1>3 DEF ApplyNext, Goto
  <2>5. applied' \in [Lines -> BOOLEAN] /\ HardwareTypes' /\ UNCHANGED act
    BY <1>3, SameApplied, HardwareStep DEF ApplyNext
  <2> HIDE DEF line, defer
  <2>. QED  BY <1>1, <2>1, <2>2, <2>3, <2>4, <2>5, ThreadOnly DEF ApplyNext
<1>. QED  BY <1>2, <1>3

LEMMA DeferEnableStep ==
    ASSUME IrqInv, NEW t \in Threads, DeferEnable(t)
    PROVE  IrqInv'
<1> DEFINE i == thread[t].id
<1>1. /\ thread[t] \in ThreadRec /\ Legal(t, thread[t]) /\ thread[t].pc = "defer"
      /\ Visiting(t) \in Lines /\ Visiting(t) # Global
  BY ThreadFacts DEF DeferEnable, At, Legal, Visits, Visiting
<1>2. CASE i \in Active(chain, act)
  <2> DEFINE r == [Done(t) EXCEPT !.pc = "apply"]
             p == IF thread[t].op = "enable" THEN act[i].pending \cup {Visiting(t)}
                                             ELSE act[i].pending \ {Visiting(t)}
  <2>1. i \in Ids /\ act \in [Ids -> ActRec]
    BY <1>2, Pointers DEF Active, Linked, IrqInv, IrqTypes
  <2>2. p \in SUBSET Cpus
    BY <1>1, <2>1 DEF Lines, ActRec
  <2>3. r \in ThreadRec /\ Legal(t, r) /\ ~Frees(r) /\ r.pc \notin Inserting
    BY <1>1 DEF ThreadRec, Pcs, Legal, Frees, Visits, Inserting, Done
  <2>4. Become(t, r) /\ act' = [act EXCEPT ![i].pending = p]
    BY <1>2 DEF DeferEnable
  <2>5. /\ act' \in [Ids -> ActRec]
        /\ \A j \in Ids : SameAction(j) /\ act'[j].enabled = act[j].enabled
    <3> DEFINE new == [act[i] EXCEPT !.pending = p]
    <3> HIDE DEF p
    <3>0. /\ new \in ActRec /\ new.box = act[i].box /\ new.scope = act[i].scope
          /\ new.detached = act[i].detached /\ new.running = act[i].running
          /\ new.execution = act[i].execution /\ new.enabled = act[i].enabled
      BY <2>1, <2>2 DEF ActRec
    <3>a. act'[i] = new /\ \A j \in Ids \ {i} : act'[j] = act[j]
      BY <2>1, <2>4
    <3>1. \A j \in Ids : /\ act'[j] \in ActRec /\ SameAction(j)
                          /\ act'[j].enabled = act[j].enabled
      <4> HIDE DEF new
      <4>. QED  BY <2>1, <3>0, <3>a DEF SameAction
    <3>2. act' = [j \in Ids |-> act'[j]]
      BY <2>1, <2>4
    <3>. QED  BY <3>1, <3>2
  <2>6. /\ \A j \in quiet' : j \in quiet /\ ~act'[j].enabled
        /\ desired' \in [Lines -> BOOLEAN]
    BY <2>5 DEF DeferEnable, lineVars, IrqInv, IrqTypes, QuietInv
  <2> HIDE DEF r
  <2>. QED  BY <2>3, <2>4, <2>5, <2>6, ThreadAct DEF DeferEnable, lineVars
<1>3. CASE i \notin Active(chain, act)
  <2>1. /\ Failed(t) \in ThreadRec /\ Legal(t, Failed(t)) /\ Failed(t).pc \notin Inserting
        /\ Frees(Failed(t)) => /\ Frees(thread[t]) /\ Failed(t).id = thread[t].id
                                /\ Failed(t).pc # "drop"
    BY <1>1, CallEnds
  <2>2. Become(t, Failed(t)) /\ UNCHANGED act
    BY <1>3 DEF DeferEnable
  <2>3. applied' \in [Lines -> BOOLEAN] /\ HardwareTypes'
    BY SameApplied, HardwareStep DEF DeferEnable
  <2>. QED  BY <1>1, <2>1, <2>2, <2>3, ThreadOnly DEF DeferEnable
<1>. QED  BY <1>2, <1>3

LEMMA CompareLineStep ==
    ASSUME IrqInv, NEW t \in Threads, CompareLine(t)
    PROVE  IrqInv'
<1> DEFINE apply == [Done(t) EXCEPT !.pc = "apply"]
           write == [thread[t] EXCEPT !.pc = "write", !.value = desired[Visiting(t)]]
<1>1. /\ thread[t] \in ThreadRec /\ Legal(t, thread[t]) /\ thread[t].pc = "line"
      /\ Visiting(t) \in Lines
  BY ThreadFacts DEF CompareLine, At, Legal, Visits
<1>2. desired[Visiting(t)] \in BOOLEAN
  BY <1>1 DEF IrqInv, IrqTypes
<1>3. /\ apply \in ThreadRec /\ Legal(t, apply) /\ apply.pc \notin Inserting
      /\ Frees(apply) => Frees(thread[t]) /\ apply.id = thread[t].id /\ apply.pc # "drop"
  BY <1>1 DEF ThreadRec, Pcs, Legal, Frees, Visits, Inserting, Done
<1>4. /\ write \in ThreadRec /\ Legal(t, write) /\ write.pc \notin Inserting
      /\ Frees(write) => Frees(thread[t]) /\ write.id = thread[t].id /\ write.pc # "drop"
  BY <1>1, <1>2 DEF ThreadRec, Pcs, Legal, Frees, Visits, Inserting
<1>5. Become(t, apply) \/ Become(t, write)
  BY DEF CompareLine
<1>6. applied' \in [Lines -> BOOLEAN] /\ HardwareTypes'
  BY SameApplied, HardwareStep DEF CompareLine
<1> HIDE DEF apply, write
<1>. QED  BY <1>1, <1>3, <1>4, <1>5, <1>6, ThreadOnly DEF CompareLine

LEMMA WriteLineStep ==
    ASSUME IrqInv, NEW t \in Threads, WriteLine(t)
    PROVE  IrqInv'
<1> DEFINE mark == [thread[t] EXCEPT !.pc = "mark"]
<1>1. /\ thread[t] \in ThreadRec /\ Legal(t, thread[t]) /\ thread[t].pc = "write"
      /\ Visiting(t) \in Lines /\ thread[t].value \in BOOLEAN
  BY ThreadFacts DEF WriteLine, At, Legal, Visits, ThreadRec
<1>2. /\ mark \in ThreadRec /\ Legal(t, mark) /\ mark.pc \notin Inserting
      /\ Frees(mark) => Frees(thread[t]) /\ mark.id = thread[t].id /\ mark.pc # "drop"
  BY <1>1 DEF ThreadRec, Pcs, Legal, Frees, Visits, Inserting
<1>3. /\ Failed(t) \in ThreadRec /\ Legal(t, Failed(t)) /\ Failed(t).pc \notin Inserting
      /\ Frees(Failed(t)) => /\ Frees(thread[t]) /\ Failed(t).id = thread[t].id
                              /\ Failed(t).pc # "drop"
  BY <1>1, CallEnds
<1>4. Become(t, mark) \/ Become(t, Failed(t))
  BY DEF WriteLine, Goto
<1>5. applied' \in [Lines -> BOOLEAN] /\ HardwareTypes'
  BY <1>1, SameApplied, HardwareStep DEF WriteLine
<1> HIDE DEF mark
<1>. QED  BY <1>1, <1>2, <1>3, <1>4, <1>5, ThreadOnly DEF WriteLine

LEMMA MarkAppliedStep ==
    ASSUME IrqInv, NEW t \in Threads, MarkApplied(t)
    PROVE  IrqInv'
<1> DEFINE line == [thread[t] EXCEPT !.pc = "line"]
<1>1. /\ thread[t] \in ThreadRec /\ Legal(t, thread[t]) /\ thread[t].pc = "mark"
      /\ Visiting(t) \in Lines /\ thread[t].value \in BOOLEAN
  BY ThreadFacts DEF MarkApplied, At, Legal, Visits, ThreadRec
<1>2. /\ line \in ThreadRec /\ Legal(t, line) /\ line.pc \notin Inserting
      /\ Frees(line) => Frees(thread[t]) /\ line.id = thread[t].id /\ line.pc # "drop"
  BY <1>1 DEF ThreadRec, Pcs, Legal, Frees, Visits, Inserting
<1>3. applied' \in [Lines -> BOOLEAN] /\ HardwareTypes'
  BY <1>1, HardwareStep DEF MarkApplied, SetApplied, IrqInv, IrqTypes
<1>4. Become(t, line)
  BY DEF MarkApplied, Goto
<1> HIDE DEF line
<1>. QED  BY <1>1, <1>2, <1>3, <1>4, ThreadOnly DEF MarkApplied

LEMMA CpuOnlineStep ==
    ASSUME IrqInv, NEW cpu \in Cpus, CpuOnline(cpu)
    PROVE  IrqInv'
<1> DEFINE r == [Idle EXCEPT !.op = "online", !.pc = "pending"]
<1>1. cpu \in Threads /\ cpu \notin Callers
  BY CpusAssumption DEF Threads
<1>2. r \in ThreadRec /\ Legal(cpu, r) /\ ~Frees(r) /\ r.pc \notin Inserting
  BY <1>1, IdleFacts DEF ThreadRec, Pcs, Ops, Idle, Legal, Frees, Visits, Inserting
<1>3. applied' \in [Lines -> BOOLEAN] /\ HardwareTypes'
  BY DEF CpuOnline, HardwareTypes, IrqInv, IrqTypes
<1>4. Become(cpu, r)
  BY DEF CpuOnline
<1> HIDE DEF r
<1>. QED  BY <1>1, <1>2, <1>3, <1>4, ThreadOnly DEF CpuOnline

LEMMA PendingEnablesStep ==
    ASSUME IrqInv, NEW cpu \in Cpus, PendingEnables(cpu)
    PROVE  IrqInv'
<1> DEFINE apply == [thread[cpu] EXCEPT !.pc = "apply", !.todo = {cpu}]
<1>1. cpu \in Threads /\ cpu \in Lines
  BY DEF Threads, Lines
<1>2. thread[cpu] \in ThreadRec /\ Legal(cpu, thread[cpu]) /\ thread[cpu].pc = "pending"
  BY <1>1, ThreadFacts DEF PendingEnables, At
<1>3. apply \in ThreadRec /\ Legal(cpu, apply) /\ ~Frees(apply) /\ apply.pc \notin Inserting
  BY <1>1, <1>2 DEF ThreadRec, Pcs, Legal, Frees, Visits, Inserting
<1>4. Idle \in ThreadRec /\ Legal(cpu, Idle) /\ ~Frees(Idle) /\ Idle.pc \notin Inserting
  BY <1>1, IdleFacts DEF Idle, Inserting
<1>5. Become(cpu, apply) \/ Become(cpu, Idle)
  BY DEF PendingEnables, Return
<1>6. applied' \in [Lines -> BOOLEAN] /\ HardwareTypes'
  BY SameApplied, HardwareStep DEF PendingEnables
<1> HIDE DEF apply
<1>. QED  BY <1>1, <1>3, <1>4, <1>5, <1>6, ThreadOnly DEF PendingEnables

LEMMA ClearPendingStep ==
    ASSUME IrqInv, NEW cpu \in Cpus, ClearPending(cpu)
    PROVE  IrqInv'
<1>1. cpu \in Threads /\ act \in [Ids -> ActRec]
  BY DEF Threads, IrqInv, IrqTypes
<1>2. Idle \in ThreadRec /\ Legal(cpu, Idle) /\ ~Frees(Idle) /\ Idle.pc \notin Inserting
  BY <1>1, IdleFacts DEF Idle, Inserting
<1>3. /\ act' \in [Ids -> ActRec]
      /\ \A i \in Ids : SameAction(i) /\ act'[i].enabled = act[i].enabled
  <2>1. act' = [i \in Ids |-> act'[i]]
    BY DEF ClearPending
  <2>2. ASSUME NEW i \in Ids
        PROVE  act'[i] = act[i] \/ act'[i] = [act[i] EXCEPT !.pending = @ \ {cpu}]
    BY DEF ClearPending
  <2>3. ASSUME NEW i \in Ids
        PROVE  act'[i] \in ActRec /\ SameAction(i) /\ act'[i].enabled = act[i].enabled
    <3>1. CASE act'[i] = act[i]
      BY <1>1, <3>1 DEF SameAction
    <3>2. CASE act'[i] = [act[i] EXCEPT !.pending = @ \ {cpu}]
      BY <1>1, <3>2, SMTT(30) DEF ActRec, SameAction
    <3>. QED  BY <2>2, <3>1, <3>2
  <2>. QED  BY <2>1, <2>3
<1>4. /\ \A j \in quiet' : j \in quiet /\ ~act'[j].enabled
      /\ desired' \in [Lines -> BOOLEAN]
  BY <1>3 DEF ClearPending, lineVars, IrqInv, IrqTypes, QuietInv
<1>. QED  BY <1>1, <1>2, <1>3, <1>4, ThreadAct DEF ClearPending, Return, lineVars

-----------------------------------------------------------------------------
(* The theorems *)

LEMMA InitIrqInv == Init => IrqInv
<1> SUFFICES ASSUME Init  PROVE IrqInv
  OBVIOUS
<1>1. NoAction \in ActRec /\ NoAction.box = "none"
  BY DEF NoAction, ActRec
<1>2. IrqTypes
  <2>1. /\ chain \in Seq(Ids) /\ errors \in 0 .. MaxErrors /\ online \in SUBSET Cpus
        /\ quiet \in SUBSET Ids
    BY CpusAssumption, RequestsAssumption, SMTT(30) DEF Init
  <2>2. /\ act \in [Ids -> ActRec] /\ thread \in [Threads -> ThreadRec]
        /\ disp \in [Cpus -> DispRec]
    BY <1>1, IdleFacts, NoDispatchFacts DEF Init
  <2>. QED  BY <2>1, <2>2 DEF Init, IrqTypes
<1>3. ThreadsLegal
  BY IdleFacts DEF Init, ThreadsLegal
<1>4. IdsReserved
  <2>1. InsertingThreads = {}
    BY DEF Init, InsertingThreads, Inserting, Idle, Threads
  <2>. QED  BY <2>1, FS_EmptySet, CountsFinite, SMTT(30) DEF IdsReserved
<1>5. Linked = {}
  BY SMTT(30) DEF Init, Linked, Range
<1>6. ChainInv
  BY <1>5, SMTT(30) DEF Init, ChainInv
<1>7. FreeInv
  BY IdleFacts DEF Init, FreeInv
<1>8. DispatchInv
  <2>1. Walkers = {}
    BY NoDispatchFacts DEF Init, Walkers, Walking
  <2>. QED  BY <2>1, NoDispatchFacts, FS_EmptySet DEF Init, DispatchInv, Walking
<1>9. RunInv /\ QuietInv
  BY NoDispatchFacts DEF Init, RunInv, NonReentrant, QuietInv, QuietAfterSynchronize
<1>10. Sharing
  BY <1>5 DEF Sharing, Active, Linked
<1>. QED  BY <1>2, <1>3, <1>4, <1>6, <1>7, <1>8, <1>9, <1>10 DEF IrqInv

LEMMA NextIrqInv == IrqInv /\ [Next]_vars => IrqInv'
<1> SUFFICES ASSUME IrqInv, [Next]_vars  PROVE IrqInv'
  OBVIOUS
<1>1. CASE \E t \in Callers : Start(t)
  BY <1>1, RequestStart, CallStart DEF Start
<1>2. CASE \E t \in Threads : RequestStep(t)
  BY <1>2, SnapshotLineStep, MaskLineStep, MarkMaskedStep, InsertActionStep, ApplyAffinityStep,
     RestoreLineStep, MarkRestoredStep, EndRequestStep DEF RequestStep
<1>3. CASE \E t \in Threads : CallStep(t)
  BY <1>3, SetActionEnabledStep, ApplyNextStep, DeferEnableStep, CompareLineStep, WriteLineStep,
     MarkAppliedStep, DetachActionStep, RemoveActionStep, DropActionStep, SynchronizeStep
  DEF CallStep
<1>4. CASE \E cpu \in Cpus : BootStep(cpu)
  BY <1>4, CpuOnlineStep, PendingEnablesStep, ClearPendingStep DEF BootStep
<1>5. CASE \E c \in Cpus : TakeInterrupt(c) \/ DispatchStep(c)
  BY <1>5, TakeInterruptStep, BeginDispatchStep, VisitActionStep, EnterActionStep,
     LeaveActionStep, EndDispatchStep DEF DispatchStep
<1>6. CASE UNCHANGED vars
  <2> USE <1>6 DEF vars, lineVars, hardware
  <2>1. IrqTypes' /\ ThreadsLegal' /\ IdsReserved'
    BY DEF IrqInv, IrqTypes, ThreadsLegal, IdsReserved, InsertingThreads, Unused
  <2>2. ChainInv' /\ DispatchInv'
    BY DEF IrqInv, ChainInv, DispatchInv, Linked, Walkers, Walking
  <2>3. FreeInv'
    BY FreeInvFrame DEF IrqInv, Linked
  <2>4. RunInv' /\ QuietInv' /\ Sharing'
    <3>1. RunInv'
      BY DEF IrqInv, RunInv, NonReentrant
    <3>2. QuietInv'
      BY DEF IrqInv, QuietInv, QuietAfterSynchronize
    <3>3. Sharing'
      BY DEF IrqInv, Sharing
    <3>. QED  BY <3>1, <3>2, <3>3
  <2>. QED  BY <2>1, <2>2, <2>3, <2>4 DEF IrqInv
<1>. QED  BY <1>1, <1>2, <1>3, <1>4, <1>5, <1>6 DEF Next

(* The invariant holds in every behaviour of the registry. *)
THEOREM IrqInvariant == Spec => []IrqInv
  BY InitIrqInv, NextIrqInv, PTL DEF Spec

(* begin_dispatch takes a CPU into the action list under the lock and then     *)
(* lets it walk without: whatever it runs or is about to visit is allocated.   *)
THEOREM NoDangling == Spec => []NoDanglingAction
<1>1. IrqInv => NoDanglingAction
  BY SMTT(30) DEF IrqInv, DispatchInv, ChainInv, NoDanglingAction, Walking
<1>. QED  BY <1>1, IrqInvariant, PTL

(* Of the threads that free one action, one gets past detach_action: the box   *)
(* is dropped once, and until then it is allocated.                            *)
THEOREM FreedOnce == Spec => []OneFreer
<1>1. IrqInv => OneFreer
  BY DEF IrqInv, FreeInv, Frees, OneFreer, Freeing
<1>. QED  BY <1>1, IrqInvariant, PTL

(* ActionRunGuard keeps a NonReentrant handler on one CPU at a time, whatever  *)
(* other actions and drivers do.                                               *)
THEOREM RunsAlone == Spec => []NonReentrant
<1>1. IrqInv => NonReentrant
  BY DEF IrqInv, RunInv
<1>. QED  BY <1>1, IrqInvariant, PTL

(* After synchronize of a disabled action its handler runs nowhere, and stays  *)
(* out until a driver enables it.                                              *)
THEOREM SynchronizedQuiet == Spec => []QuietAfterSynchronize
<1>1. IrqInv => QuietAfterSynchronize
  BY DEF IrqInv, QuietInv
<1>. QED  BY <1>1, IrqInvariant, PTL

(* compatible_with admits a second active action to a line only if both, and   *)
(* so all, are Shared and of one scope kind.                                   *)
THEOREM SharedLine == Spec => []Sharing
<1>1. IrqInv => Sharing
  BY DEF IrqInv
<1>. QED  BY <1>1, IrqInvariant, PTL

(* The registry's fields keep their types; in_flight never exceeds the CPUs    *)
(* the line is raised on, and no request runs out of action ids.               *)
THEOREM IrqTypeCorrect == Spec => []TypeOK
<1>1. IrqInv => TypeOK
  <2> SUFFICES ASSUME IrqInv  PROVE TypeOK
    OBVIOUS
  <2>1. Walkers \subseteq Dispatching
    BY DEF IrqInv, DispatchInv, Walkers, Walking
  <2>2. IsFiniteSet(Dispatching) /\ Cardinality(Dispatching) \in Nat
    BY CpusAssumption, FS_Subset, FS_CardinalityType
  <2>3. inFlight \in 0 .. Cardinality(Dispatching)
    BY <2>1, <2>2, CountsFinite, FS_Subset, SMTT(30) DEF IrqInv, DispatchInv
  <2>. QED  BY <2>3 DEF IrqInv, IrqTypes, ActRec, TypeOK
<1>. QED  BY <1>1, IrqInvariant, PTL
=============================================================================
