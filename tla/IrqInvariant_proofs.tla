------------------------ MODULE IrqInvariant_proofs -------------------------
(***************************************************************************)
(* The inductive invariant of the IRQ registry (IrqInv), for any number of  *)
(* drivers, CPUs, actions and controller failures, and what its parts say   *)
(* of one thread, of one action and of the list.                            *)
(*                                                                          *)
(* The invariants are about memory reclamation by quiescence: an action is  *)
(* unlinked at a moment with no dispatch in flight, so no CPU has a pointer *)
(* to it, and it is freed by the one thread that detached it.  What a       *)
(* thread may do next is a fact of its own record alone (Legal), which      *)
(* leaves five facts about the shared state.                                *)
(***************************************************************************)
EXTENDS IrqRegistry, WellFoundedInduction, TLAPS

(* A step that names no prover is tried with Zenon, then with SMT. *)
USE ZenonT(30), SMTT(30)

(* Shapes of the records of a thread, of an action and of a dispatch *)
MaybeRequest == Requests \cup {NoRequest}
Pcs == {"idle", "snapshot", "mask", "masked", "insert", "affinity", "restore", "restored",
        "set", "apply", "defer", "line", "write", "mark", "detach", "wait", "drop", "sync",
        "pending", "clear"}
Ops == {"none", "enable", "disable", "rollback", "free", "drop", "synchronize", "online"}
ThreadRec ==
    [pc : Pcs, op : Ops, req : MaybeRequest, id : Ids \cup {NoId},
     todo : SUBSET Lines, value : BOOLEAN, snap : SUBSET Lines, was : SUBSET Lines,
     ok : BOOLEAN, k : {"idle", "restore"}]
ActRec ==
    [scope : SUBSET Lines, execution : {"Concurrent", "NonReentrant"},
     enabled : BOOLEAN, detached : BOOLEAN, running : BOOLEAN, pending : SUBSET Cpus,
     box : {"none", "live", "freed"}, given : BOOLEAN]
DispRec ==
    [pc : {"idle", "begin", "walk", "enter", "run"}, at : Ids \cup {NoId},
     next : Ids \cup {NoId}]

IrqTypes ==
    /\ present \in BOOLEAN
    /\ mode \in {"Exclusive", "Shared"}
    /\ chain \in Seq(Ids)
    /\ desired \in [Lines -> BOOLEAN]
    /\ applied \in [Lines -> BOOLEAN]
    /\ act \in [Ids -> ActRec]
    /\ controller \in [Lines -> BOOLEAN]
    /\ online \in SUBSET Cpus
    /\ errors \in 0 .. MaxErrors
    /\ thread \in [Threads -> ThreadRec]
    /\ disp \in [Cpus -> DispRec]
    /\ quiet \in SUBSET Ids

(* A request that has yet to take an action id *)
Inserting == {"snapshot", "mask", "masked", "insert"}
(* The points where a line is being visited *)
Visits == {"snapshot", "mask", "masked", "restored", "defer", "line", "write", "mark"}

(* The record r may be the state of thread t. *)
Legal(t, r) ==
    /\ r.pc \in Visits => r.todo # {}
    /\ r.pc = "defer" => FirstLine(r.todo) # Global /\ r.op # "free"
    /\ r.pc \in Inserting => r.id = NoId /\ r.req # NoRequest
    /\ r.pc \in Inserting \cup {"affinity", "restore", "restored"} => t \in Callers
    /\ r.pc = "set" => r.op \in {"enable", "disable", "rollback"}
    /\ r.pc = "pending" => r.op = "online"
    /\ r.pc \in {"detach", "wait", "drop"} => r.op \in {"free", "drop"}
    /\ t \in Cpus => r.op \in {"none", "online"}

ThreadsLegal == \A t \in Threads : Legal(t, thread[t])

(* Every request in progress finds an unused action id. *)
InsertingThreads == {t \in Callers : thread[t].pc \in Inserting}
Unused == {i \in Ids : act[i].box = "none"}
IdsReserved == Cardinality(InsertingThreads) <= Cardinality(Unused)

(* The list holds allocated actions, each once. *)
ChainInv ==
    /\ \A m, n \in 1 .. Len(chain) : chain[m] = chain[n] => m = n
    /\ \A i \in Linked : act[i].box = "live"

(* The record of a thread that has detached its action, see Freeing. *)
Frees(r) ==
    \/ r.op \in {"free", "drop"} /\ r.pc \in {"wait", "drop"}
    \/ r.op = "free" /\ r.pc \in {"apply", "line", "write", "mark"}

(* A detached action belongs to the thread that frees it, and stays linked   *)
(* until that thread unlinks it.                                             *)
FreeInv ==
    /\ \A t \in Threads : Frees(thread[t]) =>
         /\ thread[t].id \in Ids
         /\ act[thread[t].id].box = "live"
         /\ act[thread[t].id].detached
         /\ thread[t].id \in Linked <=> thread[t].pc # "drop"
    /\ \A t, u \in Threads :
         t # u /\ Frees(thread[t]) /\ Frees(thread[u]) => thread[t].id # thread[u].id

(* Every dispatch that walks the list is counted, and it points into it. *)
Walkers == {c \in Cpus : Walking(c)}
DispatchInv ==
    /\ inFlight = Cardinality(Walkers)
    /\ \A c \in Cpus :
         /\ disp[c].pc # "idle" => c \in Dispatching
         /\ Walking(c) => disp[c].next \in Linked \cup {NoId}
         /\ IF disp[c].pc \in {"enter", "run"} THEN disp[c].at \in Linked
                                               ELSE disp[c].at = NoId

(* The flag of a non-reentrant action is set while a CPU runs it. *)
RunInv ==
    /\ NonReentrant
    /\ \A c \in Cpus : disp[c].pc = "run" =>
         act[disp[c].at].running \/ act[disp[c].at].execution = "Concurrent"

(* A quiet action is disabled, so that no dispatch enters it. *)
QuietInv ==
    /\ QuietAfterSynchronize
    /\ \A i \in quiet : act[i].box # "none" /\ ~act[i].enabled

IrqInv ==
    /\ IrqTypes /\ ThreadsLegal /\ IdsReserved
    /\ ChainInv /\ FreeInv /\ DispatchInv /\ RunInv /\ QuietInv /\ Sharing

-----------------------------------------------------------------------------
(* Lines and identifiers are natural numbers, so a first one exists *)

LEMMA LeastExists ==
    ASSUME NEW S \in SUBSET Nat, S # {}
    PROVE  \E l \in S : \A m \in S : l <= m
<1>1. PICK l \in S : \A m \in S : ~(<<m, l>> \in OpToRel(<, Nat))
  BY NatLessThanWellFounded, WFMin
<1>2. \A m \in S : ~(m < l)
  BY <1>1 DEF OpToRel
<1>. QED  BY <1>2, SMTT(30)

LEMMA LinesNat == Lines \subseteq Nat
  BY CpusAssumption, SMTT(30) DEF Lines, Global

LEMMA FirstLineIn ==
    ASSUME NEW S \in SUBSET Lines, S # {}
    PROVE  FirstLine(S) \in S
<1>1. \E l \in S : \A m \in S : l <= m
  BY LinesNat, LeastExists
<1>. QED  BY <1>1 DEF FirstLine

-----------------------------------------------------------------------------
(* The action list *)

LEMMA RangeSeq ==
    ASSUME NEW S, NEW s \in Seq(S)
    PROVE  /\ Range(s) = {s[n] : n \in 1 .. Len(s)}
           /\ Range(s) \subseteq S
           /\ Len(s) \in Nat
<1>1. DOMAIN s = 1 .. Len(s) /\ Len(s) \in Nat
  BY SMTT(30)
<1>2. \A n \in 1 .. Len(s) : s[n] \in S
  BY SMTT(30)
<1>. QED  BY <1>1, <1>2 DEF Range

LEMMA ConcatSeq ==
    ASSUME NEW S, NEW a \in Seq(S), NEW b \in Seq(S)
    PROVE  /\ a \o b \in Seq(S) /\ Len(a \o b) = Len(a) + Len(b)
           /\ \A j \in 1 .. Len(a) + Len(b) :
                (a \o b)[j] = IF j <= Len(a) THEN a[j] ELSE b[j - Len(a)]
  BY SMTT(30)

(* insert_action_locked links the new action at the head. *)
LEMMA LinkHead ==
    ASSUME chain \in Seq(Ids), NEW i \in Ids, i \notin Linked, ChainInv
    PROVE  LET s == <<i>> \o chain IN
           /\ s \in Seq(Ids)
           /\ Range(s) = Linked \cup {i}
           /\ \A m, n \in 1 .. Len(s) : s[m] = s[n] => m = n
<1> DEFINE s == <<i>> \o chain
<1>1. <<i>> \in Seq(Ids) /\ Len(<<i>>) = 1 /\ <<i>>[1] = i
  BY SMTT(30)
<1>2. Len(chain) \in Nat /\ Linked = {chain[n] : n \in 1 .. Len(chain)}
  BY RangeSeq DEF Linked
<1>3. /\ s \in Seq(Ids) /\ Len(s) = 1 + Len(chain)
      /\ \A n \in 1 .. 1 + Len(chain) : s[n] = IF n <= 1 THEN <<i>>[n] ELSE chain[n - 1]
  BY <1>1, <1>2, SMTT(30)
<1> HIDE DEF s
<1>4. Range(s) = {s[n] : n \in 1 .. 1 + Len(chain)}
  BY <1>3, RangeSeq
<1>5. s[1] = i /\ \A n \in 1 .. Len(chain) : s[n + 1] = chain[n]
  BY <1>1, <1>2, <1>3, SMTT(30)
<1>6. \A n \in 2 .. 1 + Len(chain) : n - 1 \in 1 .. Len(chain) /\ s[n] = chain[n - 1]
  BY <1>2, <1>3, SMTT(30)
<1>7. Range(s) = Linked \cup {i}
  <2>1. ASSUME NEW x \in Range(s)  PROVE x \in Linked \cup {i}
    <3>1. PICK n \in 1 .. 1 + Len(chain) : x = s[n]
      BY <1>4
    <3>2. CASE n = 1
      BY <3>1, <3>2, <1>5
    <3>3. CASE n \in 2 .. 1 + Len(chain)
      BY <3>1, <3>3, <1>6, <1>2
    <3>. QED  BY <3>2, <3>3, <1>2, SMTT(30)
  <2>2. ASSUME NEW x \in Linked  PROVE x \in Range(s)
    <3>1. PICK n \in 1 .. Len(chain) : x = chain[n]
      BY <1>2
    <3>2. n + 1 \in 1 .. 1 + Len(chain) /\ s[n + 1] = x
      BY <3>1, <1>2, <1>5, SMTT(30)
    <3>. QED  BY <3>2, <1>4
  <2>3. i \in Range(s)
    <3>1. 1 \in 1 .. 1 + Len(chain)
      BY <1>2, SMTT(30)
    <3>. QED  BY <3>1, <1>4, <1>5
  <2>. QED  BY <2>1, <2>2, <2>3
<1>8. ASSUME NEW m \in 1 .. Len(s), NEW n \in 1 .. Len(s), s[m] = s[n], m # 1, n # 1
      PROVE  m = n
  <2>1. chain[m - 1] = chain[n - 1] /\ m - 1 \in 1 .. Len(chain) /\ n - 1 \in 1 .. Len(chain)
    BY <1>2, <1>3, <1>6, <1>8, SMTT(30)
  <2>2. m - 1 = n - 1
    BY <2>1 DEF ChainInv
  <2>. QED  BY <2>2, <1>3, <1>2, SMTT(30)
<1>9. ASSUME NEW n \in 1 .. Len(s), n # 1  PROVE s[n] # i
  <2>1. n - 1 \in 1 .. Len(chain) /\ s[n] = chain[n - 1]
    BY <1>2, <1>3, <1>6, <1>9, SMTT(30)
  <2>. QED  BY <2>1, <1>2
<1>. QED  BY <1>3, <1>5, <1>7, <1>8, <1>9 DEF s

(* try_remove_action unlinks one action and keeps the others. *)
LEMMA UnlinkOne ==
    ASSUME chain \in Seq(Ids), NEW i \in Linked, ChainInv
    PROVE  /\ Unlink(i) \in Seq(Ids)
           /\ Range(Unlink(i)) = Linked \ {i}
           /\ \A m, n \in 1 .. Len(Unlink(i)) : Unlink(i)[m] = Unlink(i)[n] => m = n
<1>0. Len(chain) \in Nat
  BY SMTT(30)
<1>1. Len(chain) \in Nat /\ Linked = {chain[n] : n \in 1 .. Len(chain)}
  BY RangeSeq DEF Linked
<1> DEFINE k == CHOOSE m \in 1 .. Len(chain) : chain[m] = i
           a == SubSeq(chain, 1, k - 1)  b == SubSeq(chain, k + 1, Len(chain))
           s == Unlink(i)
<1>2. k \in 1 .. Len(chain) /\ chain[k] = i
  BY <1>1
<1>3. s = a \o b
  BY DEF Unlink
<1> HIDE DEF k, s
<1>4. a \in Seq(Ids) /\ Len(a) = k - 1 /\ \A j \in 1 .. k - 1 : a[j] = chain[j]
  <2>1. \A j \in 1 .. k - 1 : chain[j] \in Ids
    BY <1>1, <1>2, SMTT(30)
  <2>2. /\ a \in Seq(Ids) /\ Len(a) = IF 1 <= k - 1 THEN (k - 1) - 1 + 1 ELSE 0
        /\ \A j \in 1 .. (k - 1) - 1 + 1 : a[j] = chain[1 + j - 1]
    BY <1>2, <2>1, SMTT(30)
  <2> HIDE DEF a
  <2>. QED  BY <1>0, <1>2, <2>2, SMTT(30)
<1>5. b \in Seq(Ids) /\ Len(b) = Len(chain) - k /\ \A j \in 1 .. Len(chain) - k : b[j] = chain[k + j]
  <2>1. \A j \in k + 1 .. Len(chain) : chain[j] \in Ids
    BY <1>1, <1>2, SMTT(30)
  <2>2. /\ b \in Seq(Ids) /\ Len(b) = IF k + 1 <= Len(chain) THEN Len(chain) - (k + 1) + 1 ELSE 0
        /\ \A j \in 1 .. Len(chain) - (k + 1) + 1 : b[j] = chain[(k + 1) + j - 1]
    BY <1>1, <1>2, <2>1, SMTT(30)
  <2> HIDE DEF b
  <2>. QED  BY <1>0, <1>2, <2>2, SMTT(30)
<1> HIDE DEF a, b
<1>6. /\ s \in Seq(Ids) /\ Len(s) = Len(a) + Len(b)
      /\ \A j \in 1 .. Len(a) + Len(b) : s[j] = IF j <= Len(a) THEN a[j] ELSE b[j - Len(a)]
  BY <1>3, <1>4, <1>5, ConcatSeq
<1>7. \A j \in 1 .. Len(chain) - 1 : s[j] = IF j < k THEN chain[j] ELSE chain[j + 1]
  <2>1. ASSUME NEW j \in 1 .. Len(chain) - 1, j < k  PROVE s[j] = chain[j]
    <3>1. j \in 1 .. Len(a) + Len(b) /\ j <= Len(a) /\ j \in 1 .. k - 1
      BY <1>0, <1>2, <1>4, <1>5, <2>1, SMTT(30)
    <3>2. s[j] = a[j]
      BY <1>6, <3>1
    <3>. QED  BY <1>4, <3>1, <3>2
  <2>2. ASSUME NEW j \in 1 .. Len(chain) - 1, ~(j < k)  PROVE s[j] = chain[j + 1]
    <3>1. s[j] = b[j - (k - 1)] /\ j - (k - 1) \in 1 .. Len(chain) - k
      <4>1. j \in 1 .. Len(a) + Len(b) /\ ~(j <= Len(a))
        BY <1>0, <1>2, <1>4, <1>5, <2>2, SMTT(30)
      <4>2. s[j] = b[j - Len(a)]
        BY <1>6, <4>1
      <4>. QED  BY <1>0, <1>2, <1>4, <2>2, <4>2, SMTT(30)
    <3>2. b[j - (k - 1)] = chain[k + (j - (k - 1))]
      BY <1>5, <3>1
    <3>3. k + (j - (k - 1)) = j + 1
      BY <1>0, <1>2, SMTT(30)
    <3>. QED  BY <3>1, <3>2, <3>3
  <2>. QED  BY <2>1, <2>2
<1>8. Len(s) = Len(chain) - 1
  BY <1>1, <1>2, <1>4, <1>5, <1>6, SMTT(30)
<1>9. Range(s) = {s[j] : j \in 1 .. Len(chain) - 1}
  BY <1>6, <1>8, RangeSeq
<1>10. Range(s) = Linked \ {i}
  <2>1. ASSUME NEW x \in Range(s)  PROVE x \in Linked \ {i}
    <3>1. PICK j \in 1 .. Len(chain) - 1 : x = s[j]
      BY <1>9
    <3> DEFINE n == IF j < k THEN j ELSE j + 1
    <3>2. n \in 1 .. Len(chain) /\ n # k /\ x = chain[n]
      BY <1>1, <1>2, <1>7, <3>1, SMTT(30)
    <3>. QED  BY <1>1, <1>2, <3>2 DEF ChainInv
  <2>2. ASSUME NEW x \in Linked \ {i}  PROVE x \in Range(s)
    <3>1. PICK n \in 1 .. Len(chain) : x = chain[n] /\ n # k
      BY <1>1, <1>2
    <3> DEFINE j == IF n < k THEN n ELSE n - 1
    <3>2. j \in 1 .. Len(chain) - 1 /\ s[j] = x
      BY <1>1, <1>2, <1>7, <3>1, SMTT(30)
    <3>. QED  BY <3>2, <1>9
  <2>. QED  BY <2>1, <2>2
<1>11. ASSUME NEW m \in 1 .. Len(s), NEW n \in 1 .. Len(s), s[m] = s[n]
       PROVE  m = n
  <2> DEFINE p == IF m < k THEN m ELSE m + 1
             q == IF n < k THEN n ELSE n + 1
  <2>1. p \in 1 .. Len(chain) /\ q \in 1 .. Len(chain) /\ chain[p] = chain[q]
    BY <1>1, <1>2, <1>7, <1>8, <1>11, SMTT(30)
  <2>2. p = q
    BY <2>1 DEF ChainInv
  <2>. QED  BY <2>2, <1>1, <1>2, <1>8, SMTT(30)
<1>. QED  BY <1>6, <1>10, <1>11 DEF s

(* The head and next pointers lead to linked actions. *)
LEMMA Pointers ==
    ASSUME chain \in Seq(Ids)
    PROVE  /\ Linked \subseteq Ids
           /\ chain # <<>> => Head(chain) \in Linked
           /\ \A i : NextAction(i) \in Linked \cup {NoId}
<1>1. Len(chain) \in Nat /\ Linked = {chain[n] : n \in 1 .. Len(chain)} /\ Linked \subseteq Ids
  BY RangeSeq DEF Linked
<1>2. chain # <<>> => Head(chain) \in Linked
  <2>1. chain # <<>> => 1 \in 1 .. Len(chain)
    BY <1>1, SMTT(30)
  <2>. QED  BY <1>1, <2>1, SMTT(30)
<1>3. ASSUME NEW i  PROVE NextAction(i) \in Linked \cup {NoId}
  <2> DEFINE after == {n \in 2 .. Len(chain) : chain[n - 1] = i}
  <2>1. CASE after = {}
    BY <2>1 DEF NextAction
  <2>2. CASE after # {}
    <3> DEFINE n == CHOOSE n \in after : TRUE
    <3>1. n \in after
      BY <2>2
    <3>2. NextAction(i) = chain[n]
      BY <2>2 DEF NextAction
    <3>3. n \in 1 .. Len(chain)
      BY <1>1, <3>1, SMTT(30)
    <3> HIDE DEF n
    <3>. QED  BY <1>1, <3>2, <3>3
  <2>. QED  BY <2>1, <2>2
<1>. QED  BY <1>1, <1>2, <1>3

-----------------------------------------------------------------------------
(* A thread, a request and an action *)

LEMMA ThreadFacts ==
    ASSUME IrqInv, NEW t \in Threads
    PROVE  /\ thread \in [Threads -> ThreadRec] /\ thread[t] \in ThreadRec
           /\ Legal(t, thread[t])
           /\ thread[t].todo # {} => Visiting(t) \in thread[t].todo /\ Visiting(t) \in Lines
           /\ \A r \in ThreadRec : [thread EXCEPT ![t] = r] \in [Threads -> ThreadRec]
<1>1. thread \in [Threads -> ThreadRec] /\ thread[t] \in ThreadRec /\ Legal(t, thread[t])
  BY DEF IrqInv, IrqTypes, ThreadsLegal
<1>2. thread[t].todo \in SUBSET Lines
  BY <1>1 DEF ThreadRec
<1>3. thread[t].todo # {} => Visiting(t) \in thread[t].todo /\ Visiting(t) \in Lines
  BY <1>2, FirstLineIn DEF Visiting
<1>. QED  BY <1>1, <1>3

LEMMA IdleFacts ==
    Idle \in ThreadRec /\ \A t \in Threads : Legal(t, Idle) /\ ~Frees(Idle)
  BY DEF Idle, ThreadRec, MaybeRequest, Pcs, Ops, Legal, Frees, NoId, Visits, Inserting

LEMMA RequestFacts ==
    ASSUME NEW req \in Requests
    PROVE  /\ req.scope = {Global} \/ req.scope \subseteq Cpus
           /\ req.scope \in SUBSET Lines /\ req.scope # {} /\ req # NoRequest
           /\ req.execution \in {"Concurrent", "NonReentrant"}
           /\ req.mode \in {"Exclusive", "Shared"} /\ req.auto \in BOOLEAN
<1>1. req \in [scope : {{Global}} \cup ((SUBSET Cpus) \ {{}}),
                execution : {"Concurrent", "NonReentrant"},
                mode : {"Exclusive", "Shared"}, auto : BOOLEAN, fixed : BOOLEAN]
  BY RequestsAssumption
<1>2. /\ req.scope \in {{Global}} \cup ((SUBSET Cpus) \ {{}})
      /\ req.execution \in {"Concurrent", "NonReentrant"}
      /\ req.mode \in {"Exclusive", "Shared"} /\ req.auto \in BOOLEAN
  BY <1>1
<1>3. req.scope # {}
  <2>1. CASE req.scope = {Global}
    BY <2>1
  <2>2. CASE req.scope \in (SUBSET Cpus) \ {{}}
    <3>1. req.scope \notin {{}}
      BY <2>2
    <3>. QED  BY <3>1
  <2>. QED  BY <1>2, <2>1, <2>2
<1>4. req # NoRequest
  BY <1>3, SMTT(30) DEF NoRequest
<1>. QED  BY <1>2, <1>3, <1>4 DEF Lines

(* The id allocator *)
NewId == CHOOSE n \in Ids : act[n].box = "none" /\ \A m \in Ids : m < n => act[m].box # "none"

(* The id allocator finds an unused id. *)
NewIdFree == NewId \in Ids /\ act[NewId].box = "none" /\ NewId \notin Linked

(* The action keeps all but its enable state. *)
SameAction(i) ==
    /\ act'[i].scope = act[i].scope
    /\ act'[i].execution = act[i].execution
    /\ act'[i].detached = act[i].detached
    /\ act'[i].running = act[i].running
    /\ act'[i].box = act[i].box

LEMMA SetRunning ==
    ASSUME IrqInv, NEW i \in Ids, NEW v \in BOOLEAN, act' = [act EXCEPT ![i].running = v]
    PROVE  /\ act' \in [Ids -> ActRec]
           /\ \A j \in Ids : /\ act'[j].scope = act[j].scope /\ act'[j].detached = act[j].detached
                              /\ act'[j].execution = act[j].execution /\ act'[j].box = act[j].box
                              /\ act'[j].enabled = act[j].enabled
                              /\ act'[j].pending = act[j].pending
           /\ act'[i].running = v /\ \A j \in Ids : j # i => act'[j] = act[j]
<1> DEFINE new == [act[i] EXCEPT !.running = v]
<1>1. act \in [Ids -> ActRec] /\ act[i] \in ActRec /\ act' = [act EXCEPT ![i] = new]
  BY DEF IrqInv, IrqTypes
<1>2. /\ new \in ActRec /\ new.running = v /\ new.scope = act[i].scope
      /\ new.detached = act[i].detached /\ new.execution = act[i].execution
      /\ new.box = act[i].box /\ new.enabled = act[i].enabled /\ new.pending = act[i].pending
  BY <1>1 DEF ActRec
<1> HIDE DEF new
<1>3. act' \in [Ids -> ActRec] /\ act'[i] = new /\ \A j \in Ids : j # i => act'[j] = act[j]
  BY <1>1, <1>2
<1>. QED  BY <1>2, <1>3

LEMMA SetGiven ==
    ASSUME IrqInv, NEW x, act' = [act EXCEPT ![x].given = TRUE]
    PROVE  /\ act' \in [Ids -> ActRec]
           /\ \A i \in Ids : SameAction(i) /\ act'[i].enabled = act[i].enabled
                               /\ act'[i].pending = act[i].pending
<1>1. act \in [Ids -> ActRec]
  BY DEF IrqInv, IrqTypes
<1>2. ASSUME NEW i \in Ids
      PROVE  /\ act'[i] \in ActRec /\ SameAction(i) /\ act'[i].enabled = act[i].enabled
             /\ act'[i].pending = act[i].pending
  BY <1>1 DEF ActRec, SameAction
<1>3. act' = [i \in Ids |-> act'[i]]
  BY <1>1
<1>. QED  BY <1>2, <1>3

(* A change of an action's enable state and pending CPUs *)
LEMMA SetEnabledTypes ==
    ASSUME IrqInv, NEW i \in Ids, NEW e \in BOOLEAN, NEW p \in SUBSET Cpus,
           act' = [act EXCEPT ![i].enabled = e, ![i].pending = p]
    PROVE  /\ act' \in [Ids -> ActRec]
           /\ \A j \in Ids : SameAction(j)
           /\ \A j \in Ids : act'[j].enabled = IF j = i THEN e ELSE act[j].enabled
           /\ \A j \in Ids : act'[j].pending = IF j = i THEN p ELSE act[j].pending
<1>1. act \in [Ids -> ActRec]
  BY DEF IrqInv, IrqTypes
<1>2. ASSUME NEW j \in Ids
      PROVE  /\ act'[j] \in ActRec /\ SameAction(j)
             /\ act'[j].enabled = IF j = i THEN e ELSE act[j].enabled
             /\ act'[j].pending = IF j = i THEN p ELSE act[j].pending
  <2> DEFINE new == [act[i] EXCEPT !.enabled = e, !.pending = p]
  <2>1. /\ new \in ActRec /\ new.enabled = e /\ new.pending = p
        /\ new.scope = act[i].scope /\ new.execution = act[i].execution
        /\ new.detached = act[i].detached /\ new.running = act[i].running /\ new.box = act[i].box
    BY <1>1 DEF ActRec
  <2>2. act'[i] = new /\ (j # i => act'[j] = act[j]) /\ act[j] \in ActRec
    BY <1>1
  <2> HIDE DEF new
  <2>3. CASE j = i
    BY <2>1, <2>2, <2>3 DEF SameAction
  <2>4. CASE j # i
    BY <2>2, <2>4 DEF SameAction
  <2>. QED  BY <2>3, <2>4
<1>3. act' = [j \in Ids |-> act'[j]]
  BY <1>1
<1>. QED  BY <1>2, <1>3
=============================================================================
