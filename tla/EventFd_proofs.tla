--------------------------- MODULE EventFd_proofs ---------------------------
(***************************************************************************)
(* The invariants of the eventfd and its readiness queues, for any number   *)
(* of readers, writers, producers and poll(2) calls.                        *)
(*                                                                          *)
(* A queue entry and the lease that cancels it are two views of one         *)
(* registration (PairInv).  From this follows what a wake may take          *)
(* (WakeInv), and that a sleeping poll(2) always has a wake ahead of it     *)
(* when it needs one (ObserverInv).  An exclusive waiter has one, too, as   *)
(* long as no two reads and no two writes are in progress at once           *)
(* (ConsumerInv).                                                           *)
(***************************************************************************)
EXTENDS EventFd, WellFoundedInduction, TLAPS

(* A step that names no prover is tried with Zenon, then with SMT. *)
USE ZenonT(30), SMTT(30)

Entry == [id : Nat, task : Tasks, interests : SUBSET Events, mode : Modes]
Queue == [entries : Seq(Entry), nextId : Nat]
Lease == [src : Sources, id : Nat, notified : BOOLEAN]
Ops == {"none", "read", "write", "signal", "saturate", "poll"}
Pcs == {"idle", "try", "register", "retry", "pending", "parked", "reset", "clear",
        "boundary", "select", "fire", "done"}
TaskRec ==
    [op : Ops, value : Values \cup {0}, events : SUBSET Events, nonblock : BOOLEAN, pc : Pcs]
WakeRec ==
    [src : Sources, ready : SUBSET Events, boundary : Nat, exclusive : BOOLEAN,
     chosen : Seq(Tasks)]

EventTypes ==
    /\ count \in 0 .. MaxCount
    /\ set \in [Sources -> Queue]
    /\ task \in [Tasks -> TaskRec]
    /\ lease \in [Tasks -> Seq(Lease)]
    /\ wake \in [Tasks -> WakeRec]
    /\ woken \in [Tasks -> BOOLEAN]
    /\ aborted \in [Tasks -> BOOLEAN]

(* The record r may be the state of the call t. *)
Legal(t, r) ==
    /\ r.pc = "idle" <=> r.op = "none"
    /\ r.op = "read" => t \in Readers /\ r.events = {"IN"}
    /\ r.op = "write" => t \in Writers /\ r.events = {"OUT"}
    /\ r.op \in {"signal", "saturate"} => t \in Producers
    /\ r.op = "poll" => t \in Observers /\ "ERR" \in r.events
    /\ r.pc \in {"register", "retry", "pending", "parked", "reset", "clear"} =>
         r.op \in {"read", "write", "poll"}
    /\ r.pc \in {"boundary", "select", "fire"} => r.op # "poll"

CallsLegal == \A t \in Tasks : Legal(t, task[t])

(* The entries of a queue and the leases of a call, whatever their order *)
Held(s) == Range(set[s].entries)
Leases(t) == Range(lease[t])

(* The positions at which a call has registered and waits *)
Waits == {"register", "retry", "pending", "parked"}

(* How many leases a call has, and for which queues. *)
PlaceAt(t) ==
    /\ task[t].pc \in {"idle", "try", "done"} \/ task[t].op \in {"signal", "saturate"} =>
         lease[t] = <<>>
    /\ task[t].pc = "register" => Len(lease[t]) < Len(SourcesOf(t))
    /\ task[t].pc \in {"retry", "pending", "parked"} => Len(lease[t]) = Len(SourcesOf(t))
    /\ task[t].pc \in {"reset", "clear"} => lease[t] # <<>>
    /\ task[t].pc \in Waits => \A j \in 1 .. Len(lease[t]) : lease[t][j].src = SourcesOf(t)[j]
    /\ \A j, k \in 1 .. Len(lease[t]) : lease[t][j].src = lease[t][k].src => j = k

PlaceInv == \A t \in Tasks : PlaceAt(t)

(* Registration ids are handed out once per queue. *)
IdInv ==
    /\ \A s \in Sources :
         /\ \A i, j \in 1 .. Len(set[s].entries) :
              set[s].entries[i].id = set[s].entries[j].id => i = j
         /\ \A e \in Held(s) : e.id < set[s].nextId
    /\ \A t \in Tasks : \A l \in Leases(t) : l.id < set[l.src].nextId
    /\ \A t, u \in Tasks : \A l \in Leases(t), m \in Leases(u) :
         l.src = m.src /\ l.id = m.id => t = u

(* An entry stands for a lease that is not notified, and the other way round. *)
PairInv ==
    /\ \A s \in Sources : \A e \in Held(s) :
         /\ [src |-> s, id |-> e.id, notified |-> FALSE] \in Leases(e.task)
         /\ e.interests = Interests(e.task, s) /\ e.interests # {}
         /\ e.mode = Mode(e.task)
    /\ \A t \in Tasks : \A l \in Leases(t) :
         ~l.notified => \E e \in Held(l.src) : e.id = l.id /\ e.task = t

(* What a wake has taken is not there to be taken again. *)
WakeAt(u) ==
    LET w == wake[u] IN
    /\ task[u].pc \notin {"select", "fire"} => w.chosen = <<>>
    /\ task[u].pc = "fire" => w.chosen # <<>>
    /\ w.boundary <= set[w.src].nextId
    /\ \A e \in Held(w.src) : e.id < w.boundary => e.task \notin Range(w.chosen)
    /\ w.exclusive => \A x \in Range(w.chosen) : x \in Observers
    /\ IsInjective(w.chosen)
    /\ \A x, y \in Range(w.chosen) \ Observers : x = y

WakeInv == \A u \in Tasks : WakeAt(u)

(* A notified call that waits has been woken or is about to be. *)
NotifiedInv ==
    \A t \in Tasks : task[t].pc \in Waits /\ (\E l \in Leases(t) : l.notified) =>
        woken[t] \/ \E u \in Tasks : At(u, "fire") /\ Chosen(wake[u]) = t

(* The wake of u will take the entry of the call t in the queue s. *)
WillTake(u, t, s) ==
    /\ wake[u].src = s
    /\ wake[u].ready \cap Interests(t, s) # {}
    /\ \/ At(u, "boundary")
       \/ /\ task[u].pc \in {"select", "fire"}
          /\ \A e \in Held(s) : e.task = t => e.id < wake[u].boundary

(* No read has failed to copy out. *)
Undisturbed == \A r \in Faulty : task[r].pc \notin {"clear", "done"}

(* A poll(2) call that went to sleep before its queue became ready is taken. *)
ObserverInv ==
    Undisturbed =>
        \A t \in Observers : \A l \in Leases(t) :
            /\ task[t].pc \in {"pending", "parked"}
            /\ ~l.notified
            /\ Interests(t, l.src) \cap PollEvents # {}
            => \E u \in Tasks : WillTake(u, t, l.src)

EventInv ==
    /\ EventTypes /\ CallsLegal /\ PlaceInv /\ IdInv /\ PairInv
    /\ WakeInv /\ NotifiedInv /\ ObserverInv

-----------------------------------------------------------------------------
(* Sequences as sets of their elements *)

LEMMA FirstIn ==
    ASSUME NEW M \in SUBSET Nat, 0 \notin M
    PROVE  (First(M) = 0 <=> M = {}) /\ (M # {} => First(M) \in M)
<1>1. CASE M = {}
  BY <1>1 DEF First
<1>2. CASE M # {}
  <2>1. PICK l \in M : \A m \in M : ~(<<m, l>> \in OpToRel(<, Nat))
    BY <1>2, NatLessThanWellFounded, WFMin
  <2>2. \A m \in M : ~(m < l)
    BY <2>1 DEF OpToRel
  <2>3. \A m \in M : l <= m
    BY <2>2, SMTT(30)
  <2>. QED  BY <1>2, <2>3 DEF First
<1>. QED  BY <1>1, <1>2

LEMMA SeqRange ==
    ASSUME NEW S, NEW s \in Seq(S)
    PROVE  /\ Range(s) = {s[i] : i \in 1 .. Len(s)}
           /\ \A x \in Range(s) : x \in S
           /\ \A i \in 1 .. Len(s) : s[i] \in S /\ s[i] \in Range(s)
           /\ Len(s) \in Nat /\ DOMAIN s = 1 .. Len(s)
           /\ s = <<>> <=> Range(s) = {}
  BY SMTT(30) DEF Range

LEMMA NotEmpty ==
    ASSUME NEW s, Len(s) \in {1, 2}
    PROVE  s # <<>>
  BY SMTT(30)

LEMMA AppendRange ==
    ASSUME NEW S, NEW s \in Seq(S), NEW x \in S
    PROVE  LET r == Append(s, x) IN
           /\ r \in Seq(S) /\ Len(r) = Len(s) + 1
           /\ Range(r) = Range(s) \cup {x}
           /\ \A i \in 1 .. Len(s) : r[i] = s[i]
           /\ r[Len(r)] = x
  BY SMTT(30) DEF Range

LEMMA TailRange ==
    ASSUME NEW S, NEW s \in Seq(S), s # <<>>,
           \A i, j \in 1 .. Len(s) : s[i] = s[j] => i = j
    PROVE  LET r == Tail(s) IN
           /\ r \in Seq(S) /\ Len(r) = Len(s) - 1
           /\ Range(r) = Range(s) \ {Head(s)}
           /\ \A i \in 1 .. Len(r) : r[i] = s[i + 1]
           /\ Head(s) \in Range(s)
<1> DEFINE r == Tail(s)
<1>1. r \in Seq(S) /\ Len(r) = Len(s) - 1 /\ \A i \in 1 .. Len(r) : r[i] = s[i + 1]
  BY SMTT(30)
<1>2. Range(r) = {r[i] : i \in 1 .. Len(r)}
  BY <1>1, SeqRange
<1>3. Range(s) = {s[i] : i \in 1 .. Len(s)} /\ Len(s) \in Nat \ {0}
  BY SMTT(30) DEF Range
<1>4. Head(s) = s[1]
  BY SMTT(30)
<1> HIDE DEF r
<1>5. \A i \in 1 .. Len(r) : r[i] \in Range(s) /\ r[i] # s[1]
  BY <1>1, <1>3, SMTT(30)
<1>6. \A i \in 1 .. Len(s) : s[i] # s[1] => i - 1 \in 1 .. Len(r) /\ r[i - 1] = s[i]
  BY <1>1, <1>3, SMTT(30)
<1>7. Range(r) = Range(s) \ {Head(s)}
  <2>1. \A x \in Range(r) : x \in Range(s) /\ x # s[1]
    BY <1>2, <1>5
  <2>2. \A x \in Range(s) : x # s[1] => x \in Range(r)
    BY <1>2, <1>3, <1>6, SMTT(30)
  <2>. QED  BY <1>4, <2>1, <2>2
<1>. QED  BY <1>1, <1>3, <1>4, <1>7, SMTT(30) DEF r

-----------------------------------------------------------------------------
(* The operations of a queue *)

UniqueIds(q) == \A i, j \in 1 .. Len(q.entries) : q.entries[i].id = q.entries[j].id => i = j

LEMMA WithoutView ==
    ASSUME NEW q \in Queue, NEW n \in 1 .. Len(q.entries), UniqueIds(q)
    PROVE  LET r == Without(q, n) IN
           /\ r \in Queue /\ r.nextId = q.nextId /\ UniqueIds(r)
           /\ Range(r.entries) = {e \in Range(q.entries) : e.id # q.entries[n].id}
<1> DEFINE r == Without(q, n)
           f == [i \in 1 .. Len(q.entries) - 1 |-> IF i < n THEN q.entries[i] ELSE q.entries[i + 1]]
<1>1. q.entries \in Seq(Entry) /\ q.nextId \in Nat /\ Len(q.entries) \in Nat
  BY SMTT(30) DEF Queue
<1>2. \A i \in 1 .. Len(q.entries) : q.entries[i] \in Entry
  BY <1>1, SMTT(30)
<1>3. f \in Seq(Entry) /\ Len(f) = Len(q.entries) - 1
  BY <1>1, <1>2, SMTT(30)
<1>4. r = [q EXCEPT !.entries = f]
  BY DEF Without
<1>5. r.entries = f /\ r.nextId = q.nextId /\ r \in Queue
  BY <1>1, <1>3, <1>4, SMTT(30) DEF Queue
<1>6. \A i \in 1 .. Len(f) : f[i] = IF i < n THEN q.entries[i] ELSE q.entries[i + 1]
  BY <1>3
<1> HIDE DEF f, r
<1>7. \A i, j \in 1 .. Len(f) : f[i].id = f[j].id => i = j
  <2> TAKE i, j \in 1 .. Len(f)
  <2> HAVE f[i].id = f[j].id
  <2> DEFINE g(k) == IF k < n THEN k ELSE k + 1
  <2>1. \A k \in 1 .. Len(f) : g(k) \in 1 .. Len(q.entries) /\ f[k] = q.entries[g(k)]
    BY <1>1, <1>3, <1>6, SMTT(30)
  <2>2. g(i) = g(j)
    BY <2>1 DEF UniqueIds
  <2>. QED  BY <1>1, <1>3, <2>2, SMTT(30)
<1>8. \A i \in 1 .. Len(f) : f[i] \in Range(q.entries) /\ f[i].id # q.entries[n].id
  <2>1. Range(q.entries) = {q.entries[i] : i \in 1 .. Len(q.entries)}
    BY <1>1, SeqRange
  <2>. QED  BY <1>1, <1>3, <1>6, <2>1, SMTT(30) DEF UniqueIds
<1>9. \A i \in 1 .. Len(q.entries) : i # n => \E j \in 1 .. Len(f) : f[j] = q.entries[i]
  <2> TAKE i \in 1 .. Len(q.entries)
  <2> HAVE i # n
  <2>1. CASE i < n
    <3>1. i \in 1 .. Len(f) /\ f[i] = q.entries[i]
      BY <1>1, <1>3, <1>6, <2>1, SMTT(30)
    <3>. QED  BY <3>1
  <2>2. CASE ~(i < n)
    <3>1. i - 1 \in 1 .. Len(f) /\ f[i - 1] = q.entries[i]
      BY <1>1, <1>3, <1>6, <2>2, SMTT(30)
    <3>. QED  BY <3>1
  <2>. QED  BY <2>1, <2>2
<1>10. Range(f) = {f[i] : i \in 1 .. Len(f)} /\ Range(q.entries) = {q.entries[i] : i \in 1 .. Len(q.entries)}
  BY <1>1, <1>3, SeqRange
<1>11. Range(f) = {e \in Range(q.entries) : e.id # q.entries[n].id}
  BY <1>8, <1>9, <1>10, SMTT(30)
<1>. QED  BY <1>5, <1>7, <1>11 DEF UniqueIds, r

LEMMA UnregisteredView ==
    ASSUME NEW q \in Queue, NEW id, UniqueIds(q)
    PROVE  LET r == Unregistered(q, id) IN
           /\ r \in Queue /\ r.nextId = q.nextId /\ UniqueIds(r)
           /\ Range(r.entries) = {e \in Range(q.entries) : e.id # id}
<1> DEFINE M == {i \in 1 .. Len(q.entries) : q.entries[i].id = id}
<1>1. q.entries \in Seq(Entry) /\ Len(q.entries) \in Nat
  BY SMTT(30) DEF Queue
<1>2. M \in SUBSET Nat /\ 0 \notin M
  BY SMTT(30)
<1>3. (First(M) = 0 <=> M = {}) /\ (M # {} => First(M) \in M)
  BY <1>2, FirstIn
<1>4. Range(q.entries) = {q.entries[i] : i \in 1 .. Len(q.entries)}
  BY <1>1, SeqRange
<1>5. CASE M = {}
  <2>1. Unregistered(q, id) = q
    BY <1>3, <1>5 DEF Unregistered
  <2>. QED  BY <1>4, <1>5, <2>1
<1>6. CASE M # {}
  <2>1. PICK n \in M : n = First(M)
    BY <1>3, <1>6
  <2>2. Unregistered(q, id) = Without(q, n)
    BY <1>3, <1>6, <2>1 DEF Unregistered
  <2>3. n \in 1 .. Len(q.entries) /\ q.entries[n].id = id
    OBVIOUS
  <2> HIDE DEF M
  <2>. QED  BY <2>2, <2>3, WithoutView
<1>. QED  BY <1>5, <1>6

LEMMA NextMatchingView ==
    ASSUME NEW q \in Queue, NEW ready, NEW b, NEW x
    PROVE  LET n == NextMatching(q, ready, b, x) IN
           /\ n = 0 <=> \A e \in Range(q.entries) : ~Selects(e, ready, b, x)
           /\ n # 0 => /\ n \in 1 .. Len(q.entries)
                       /\ q.entries[n] \in Range(q.entries)
                       /\ Selects(q.entries[n], ready, b, x)
<1> DEFINE M == {i \in 1 .. Len(q.entries) : Selects(q.entries[i], ready, b, x)}
<1>1. q.entries \in Seq(Entry)
  BY SMTT(30) DEF Queue
<1>2. M \in SUBSET Nat /\ 0 \notin M
  BY SMTT(30)
<1>3. (First(M) = 0 <=> M = {}) /\ (M # {} => First(M) \in M)
  BY <1>2, FirstIn
<1>4. Range(q.entries) = {q.entries[i] : i \in 1 .. Len(q.entries)}
  BY <1>1, SeqRange
<1>5. NextMatching(q, ready, b, x) = First(M)
  BY DEF NextMatching
<1>. QED  BY <1>3, <1>4, <1>5

LEMMA RegisteredView ==
    ASSUME NEW q \in Queue, NEW t \in Tasks, NEW interests \in SUBSET Events, NEW mode \in Modes,
           UniqueIds(q), \A e \in Range(q.entries) : e.id < q.nextId
    PROVE  LET r == Registered(q, t, interests, mode)
               e == [id |-> q.nextId, task |-> t, interests |-> interests, mode |-> mode]
           IN
           /\ r \in Queue /\ r.nextId = q.nextId + 1 /\ UniqueIds(r)
           /\ e \in Entry /\ Range(r.entries) = Range(q.entries) \cup {e}
<1> DEFINE r == Registered(q, t, interests, mode)
           e == [id |-> q.nextId, task |-> t, interests |-> interests, mode |-> mode]
<1>1. q.entries \in Seq(Entry) /\ q.nextId \in Nat /\ Len(q.entries) \in Nat
  BY SMTT(30) DEF Queue
<1>2. e \in Entry /\ e.id = q.nextId
  BY <1>1 DEF Entry
<1>3. r.entries = Append(q.entries, e) /\ r.nextId = q.nextId + 1 /\ r = [entries |-> r.entries, nextId |-> r.nextId]
  BY DEF Registered
<1> HIDE DEF e, r
<1>4. /\ r.entries \in Seq(Entry) /\ Len(r.entries) = Len(q.entries) + 1
      /\ Range(r.entries) = Range(q.entries) \cup {e}
      /\ \A i \in 1 .. Len(q.entries) : r.entries[i] = q.entries[i]
      /\ r.entries[Len(r.entries)] = e
  BY <1>1, <1>2, <1>3, AppendRange, SMTT(30)
<1>5. \A i \in 1 .. Len(q.entries) : q.entries[i].id \in Nat /\ q.entries[i].id < q.nextId
  <2>1. \A i \in 1 .. Len(q.entries) : q.entries[i] \in Range(q.entries) /\ q.entries[i] \in Entry
    BY <1>1, SeqRange
  <2>. QED  BY <2>1 DEF Entry
<1>6. UniqueIds(r)
  <2>1. SUFFICES ASSUME NEW i \in 1 .. Len(r.entries), NEW j \in 1 .. Len(r.entries),
                        r.entries[i].id = r.entries[j].id
                 PROVE  i = j
    BY DEF UniqueIds
  <2>2. \A k \in 1 .. Len(r.entries) : k \in 1 .. Len(q.entries) \/ k = Len(r.entries)
    BY <1>1, <1>4, SMTT(30)
  <2>3. r.entries[Len(r.entries)].id = q.nextId
    BY <1>2, <1>4
  <2>4. \A k \in 1 .. Len(q.entries) : r.entries[k].id = q.entries[k].id /\ r.entries[k].id # q.nextId
    BY <1>1, <1>4, <1>5, SMTT(30)
  <2>. QED  BY <2>1, <2>2, <2>3, <2>4 DEF UniqueIds
<1>7. r \in Queue
  <2>1. r.nextId \in Nat
    BY <1>1, <1>3, SMTT(30)
  <2>. QED  BY <1>3, <1>4, <2>1 DEF Queue
<1>. QED  BY <1>2, <1>3, <1>4, <1>6, <1>7 DEF e, r

-----------------------------------------------------------------------------
(* Steps that leave the queues alone *)

LEMMA TaskMove ==
    ASSUME EventTypes, CallsLegal, NEW t \in Tasks, NEW p \in Pcs, Goto(t, p),
           Legal(t, [task[t] EXCEPT !.pc = p])
    PROVE  /\ task' \in [Tasks -> TaskRec] /\ CallsLegal'
           /\ task'[t].pc = p /\ task'[t].op = task[t].op /\ task'[t].events = task[t].events
           /\ \A u \in Tasks \ {t} : task'[u] = task[u]
           /\ \A u \in Tasks : SourcesOf(u)' = SourcesOf(u)
           /\ \A u \in Tasks : \A s \in Sources : Interests(u, s)' = Interests(u, s)
<1> DEFINE r == [task[t] EXCEPT !.pc = p]
<1>1. task' = [task EXCEPT ![t] = r] /\ task \in [Tasks -> TaskRec] /\ task[t] \in TaskRec
  BY DEF Goto, EventTypes
<1>2. r \in TaskRec /\ r.pc = p /\ r.op = task[t].op /\ r.events = task[t].events
  BY <1>1 DEF TaskRec
<1> HIDE DEF r
<1>3. task' \in [Tasks -> TaskRec] /\ task'[t] = r /\ \A u \in Tasks \ {t} : task'[u] = task[u]
  BY <1>1, <1>2
<1>4. CallsLegal'
  <2>1. \A u \in Tasks : Legal(u, task'[u])
    BY <1>3 DEF CallsLegal, r
  <2>. QED  BY <2>1 DEF CallsLegal, Legal
<1>5. \A u \in Tasks : task'[u].op = task[u].op /\ task'[u].events = task[u].events
  BY <1>2, <1>3
<1>6. \A u \in Tasks : SourcesOf(u)' = SourcesOf(u)
  BY <1>5 DEF SourcesOf
<1>7. \A u \in Tasks : \A s \in Sources : Interests(u, s)' = Interests(u, s)
  BY <1>5 DEF Interests
<1>. QED  BY <1>2, <1>3, <1>4, <1>6, <1>7

LEMMA Elements ==
    ASSUME EventTypes
    PROVE  /\ \A s \in Sources : \A e \in Held(s) : e \in Entry /\ e.task \in Tasks /\ e.id \in Nat
           /\ \A u \in Tasks : \A l \in Leases(u) :
                l \in Lease /\ l.src \in Sources /\ l.id \in Nat /\ lease[u] # <<>>
<1>1. ASSUME NEW s \in Sources, NEW e \in Held(s)
      PROVE  e \in Entry /\ e.task \in Tasks /\ e.id \in Nat
  <2>1. set[s] \in Queue
    BY DEF EventTypes
  <2>2. set[s].entries \in Seq(Entry)
    BY <2>1 DEF Queue
  <2>3. e \in Entry
    BY <1>1, <2>2, SeqRange DEF Held
  <2>. QED  BY <2>3 DEF Entry
<1>2. ASSUME NEW u \in Tasks, NEW l \in Leases(u)
      PROVE  l \in Lease /\ l.src \in Sources /\ l.id \in Nat /\ lease[u] # <<>>
  <2>1. lease[u] \in Seq(Lease)
    BY DEF EventTypes
  <2>2. l \in Lease /\ lease[u] # <<>>
    BY <1>2, <2>1, SeqRange DEF Leases
  <2>. QED  BY <2>2 DEF Lease
<1>. QED  BY <1>1, <1>2

LEMMA QueuesKept ==
    ASSUME IdInv, PairInv, EventTypes, UNCHANGED <<set, lease>>,
           \A u \in Tasks : \A s \in Sources :
               Interests(u, s)' = Interests(u, s) \/ lease[u] = <<>>
    PROVE  /\ \A s \in Sources : Held(s)' = Held(s)
           /\ \A u \in Tasks : Leases(u)' = Leases(u)
           /\ IdInv' /\ PairInv'
<1>1. \A s \in Sources : Held(s)' = Held(s)
  BY DEF Held
<1>2. \A u \in Tasks : Leases(u)' = Leases(u)
  BY DEF Leases
<1>3. \A u \in Tasks : \A l \in Leases(u) : l.src \in Sources /\ lease[u] # <<>>
  BY Elements
<1>4. IdInv'
  BY <1>1, <1>2, <1>3, SMTT(30) DEF IdInv
<1>5. PairInv'
  <2>1. \A s \in Sources : \A e \in Held(s)' :
          /\ [src |-> s, id |-> e.id, notified |-> FALSE] \in Leases(e.task)'
          /\ e.interests = Interests(e.task, s)' /\ e.interests # {}
          /\ e.mode = Mode(e.task)'
    <3> SUFFICES ASSUME NEW s \in Sources, NEW e \in Held(s)
                 PROVE  /\ [src |-> s, id |-> e.id, notified |-> FALSE] \in Leases(e.task)'
                        /\ e.interests = Interests(e.task, s)' /\ e.interests # {}
                        /\ e.mode = Mode(e.task)'
      BY <1>1
    <3>4. e.task \in Tasks
      BY Elements
    <3>5. /\ [src |-> s, id |-> e.id, notified |-> FALSE] \in Leases(e.task)
          /\ e.interests = Interests(e.task, s) /\ e.interests # {} /\ e.mode = Mode(e.task)
      BY DEF PairInv
    <3>6. Interests(e.task, s)' = Interests(e.task, s)
      BY <1>3, <3>4, <3>5
    <3>. QED  BY <1>2, <3>4, <3>5, <3>6 DEF Mode
  <2>2. \A u \in Tasks : \A l \in Leases(u)' :
          ~l.notified => \E e \in Held(l.src)' : e.id = l.id /\ e.task = u
    BY <1>1, <1>2, <1>3, SMTT(30) DEF PairInv
  <2>. QED  BY <2>1, <2>2 DEF PairInv
<1>. QED  BY <1>1, <1>2, <1>4, <1>5

(* A wake transaction does not notice what is added behind its boundary. *)
LEMMA WakeKept ==
    ASSUME EventTypes, NEW u \in Tasks, WakeAt(u), wake'[u] = wake[u],
           task'[u].pc \notin {"select", "fire"} => wake[u].chosen = <<>>,
           task'[u].pc = "fire" => wake[u].chosen # <<>>,
           \A s \in Sources : /\ set'[s].nextId \in Nat /\ set'[s].nextId >= set[s].nextId
                              /\ \A e \in Held(s)' : e \in Held(s) \/ e.id >= set[s].nextId,
           \A s \in Sources : \A e \in Held(s)' : e.id \in Nat
    PROVE  WakeAt(u)'
<1> DEFINE w == wake[u]
<1>1. w \in WakeRec
  BY DEF EventTypes
<1>2. w.src \in Sources /\ w.boundary \in Nat
  BY <1>1 DEF WakeRec
<1>3. set[w.src] \in Queue
  BY <1>2 DEF EventTypes
<1>4. set[w.src].nextId \in Nat
  BY <1>3 DEF Queue
<1>5. w.boundary <= set[w.src].nextId /\ \A e \in Held(w.src) : e.id < w.boundary => e.task \notin Range(w.chosen)
  BY DEF WakeAt
<1>6. w.boundary <= set'[w.src].nextId
  <2>1. set'[w.src].nextId \in Nat /\ set'[w.src].nextId >= set[w.src].nextId
    BY <1>2
  <2>. QED  BY <1>2, <1>4, <1>5, <2>1, SMTT(30)
<1>7. \A e \in Held(w.src)' : e.id < w.boundary => e.task \notin Range(w.chosen)
  <2> SUFFICES ASSUME NEW e \in Held(w.src)', e.id < w.boundary
               PROVE  e.task \notin Range(w.chosen)
    OBVIOUS
  <2>1. e \in Held(w.src) \/ e.id >= set[w.src].nextId
    BY <1>2
  <2>2. e.id \in Nat
    BY <1>2
  <2>3. ~(e.id >= set[w.src].nextId)
    BY <1>2, <1>4, <1>5, <2>2, SMTT(30)
  <2>. QED  BY <1>5, <2>1, <2>3
<1>. QED  BY <1>6, <1>7 DEF WakeAt, Held

(* No wake is lost by a step that fires none. *)
LEMMA NotifiedKept ==
    ASSUME NotifiedInv,
           \A u \in Tasks : task'[u].pc \in Waits /\ (\E l \in Leases(u)' : l.notified) =>
               /\ task[u].pc \in Waits /\ (\E l \in Leases(u) : l.notified)
               /\ woken'[u] = woken[u],
           \A u \in Tasks : At(u, "fire") => At(u, "fire")' /\ wake'[u] = wake[u]
    PROVE  NotifiedInv'
<1> SUFFICES ASSUME NEW u \in Tasks, task'[u].pc \in Waits, \E l \in Leases(u)' : l.notified
             PROVE  woken'[u] \/ \E v \in Tasks : At(v, "fire")' /\ Chosen(wake'[v]) = u
  BY DEF NotifiedInv, Chosen
<1>1. task[u].pc \in Waits /\ (\E l \in Leases(u) : l.notified) /\ woken'[u] = woken[u]
  OBVIOUS
<1>2. woken[u] \/ \E v \in Tasks : At(v, "fire") /\ Chosen(wake[v]) = u
  BY <1>1 DEF NotifiedInv
<1>. QED  BY <1>1, <1>2

(* No observer loses the wake it needs. *)
LEMMA ObserverKept ==
    ASSUME ObserverInv, EventTypes, Undisturbed' => Undisturbed,
           \A t \in Observers : \A l \in Leases(t)' :
               /\ task'[t].pc \in {"pending", "parked"}
               /\ ~l.notified
               /\ Interests(t, l.src)' \cap PollEvents' # {}
               => \/ /\ task[t].pc \in {"pending", "parked"} /\ l \in Leases(t)
                     /\ Interests(t, l.src) \cap PollEvents # {}
                  \/ \E u \in Tasks : WillTake(u, t, l.src)',
           \A t \in Observers : \A l \in Leases(t)' : \A u \in Tasks :
               /\ ~l.notified /\ l \in Leases(t) /\ task[t].pc \in {"pending", "parked"}
               /\ WillTake(u, t, l.src)
               => WillTake(u, t, l.src)'
    PROVE  ObserverInv'
<1> SUFFICES ASSUME Undisturbed', NEW t \in Observers, NEW l \in Leases(t)',
                    task'[t].pc \in {"pending", "parked"}, ~l.notified,
                    Interests(t, l.src)' \cap PollEvents' # {}
             PROVE  \E u \in Tasks : WillTake(u, t, l.src)'
  BY DEF ObserverInv
<1>1. CASE /\ task[t].pc \in {"pending", "parked"} /\ l \in Leases(t)
           /\ Interests(t, l.src) \cap PollEvents # {}
  <2>1. PICK u \in Tasks : WillTake(u, t, l.src)
    BY <1>1 DEF ObserverInv
  <2>. QED  BY <1>1, <2>1
<1>2. CASE \E u \in Tasks : WillTake(u, t, l.src)'
  BY <1>2
<1>. QED  BY <1>1, <1>2

(* A call that neither touches a queue nor runs a wake moves from one place *)
(* to another.                                                              *)
WakePcs == {"boundary", "select", "fire"}

LEMMA LightStep ==
    ASSUME EventInv, NEW t \in Tasks, NEW p \in Pcs, Goto(t, p), UNCHANGED <<set, lease, wake>>,
           count' \in 0 .. MaxCount, woken' \in [Tasks -> BOOLEAN], aborted' \in [Tasks -> BOOLEAN],
           Legal(t, [task[t] EXCEPT !.pc = p]), PlaceAt(t)',
           task[t].pc \notin WakePcs, p \notin WakePcs,
           p \in Waits => /\ task[t].pc \in Waits \/ lease[t] = <<>>
                          /\ woken'[t] = woken[t],
           \A u \in Tasks \ {t} : woken'[u] = woken[u],
           Undisturbed' => Undisturbed /\ count' = count,
           p \in {"pending", "parked"} /\ t \in Observers =>
               \/ task[t].pc \in {"pending", "parked"}
               \/ PollEvents \cap task[t].events = {}
    PROVE  EventInv'
<1>0. /\ EventTypes /\ CallsLegal /\ PlaceInv /\ IdInv /\ PairInv
      /\ WakeInv /\ NotifiedInv /\ ObserverInv
  BY DEF EventInv
<1>1. /\ task' \in [Tasks -> TaskRec] /\ CallsLegal'
      /\ task'[t].pc = p /\ task'[t].op = task[t].op /\ task'[t].events = task[t].events
      /\ \A u \in Tasks \ {t} : task'[u] = task[u]
      /\ \A u \in Tasks : SourcesOf(u)' = SourcesOf(u)
      /\ \A u \in Tasks : \A s \in Sources : Interests(u, s)' = Interests(u, s)
  BY <1>0, TaskMove
<1>2. EventTypes'
  BY <1>0, <1>1 DEF EventTypes
<1>3. /\ \A s \in Sources : Held(s)' = Held(s)
      /\ \A u \in Tasks : Leases(u)' = Leases(u)
      /\ IdInv' /\ PairInv'
  BY <1>0, <1>1, QueuesKept
<1>4. PlaceInv'
  <2>1. \A u \in Tasks \ {t} : PlaceAt(u)'
    BY <1>0, <1>1, SMTT(30) DEF PlaceInv, PlaceAt
  <2>. QED  BY <2>1 DEF PlaceInv
<1>5. WakeInv'
  <2> SUFFICES ASSUME NEW u \in Tasks PROVE WakeAt(u)'
    BY DEF WakeInv
  <2>1. WakeAt(u)
    BY <1>0 DEF WakeInv
  <2>2. u # t => task'[u].pc = task[u].pc
    BY <1>1
  <2>3. task'[u].pc \notin {"select", "fire"} => wake[u].chosen = <<>>
    BY <1>1, <2>1, <2>2 DEF WakeAt, WakePcs
  <2>4. task'[u].pc = "fire" => wake[u].chosen # <<>>
    BY <1>1, <2>1, <2>2 DEF WakeAt, WakePcs
  <2>. QED  BY <1>3, <2>1, <2>3, <2>4 DEF WakeAt, Held
<1>6. NotifiedInv'
  <2>1. \A u \in Tasks : task'[u].pc \in Waits /\ (\E l \in Leases(u)' : l.notified) =>
          /\ task[u].pc \in Waits /\ (\E l \in Leases(u) : l.notified)
          /\ woken'[u] = woken[u]
    <3> SUFFICES ASSUME NEW u \in Tasks, task'[u].pc \in Waits, \E l \in Leases(u)' : l.notified
                 PROVE  /\ task[u].pc \in Waits /\ (\E l \in Leases(u) : l.notified)
                        /\ woken'[u] = woken[u]
      OBVIOUS
    <3>1. \E l \in Leases(u) : l.notified
      BY <1>3
    <3>2. lease[u] # <<>>
      BY <1>0, <3>1, Elements
    <3>. QED  BY <1>1, <3>1, <3>2
  <2>2. \A u \in Tasks : At(u, "fire") => At(u, "fire")' /\ wake'[u] = wake[u]
    BY <1>1 DEF At, WakePcs
  <2>. QED  BY <1>0, <2>1, <2>2, NotifiedKept
<1>7. ObserverInv'
  <2>1. SUFFICES ASSUME Undisturbed' PROVE ObserverInv'
    BY DEF ObserverInv
  <2>2. count' = count /\ PollEvents' = PollEvents
    BY <2>1 DEF PollEvents
  <2>3. \A o \in Observers : \A l \in Leases(o)' :
          /\ task'[o].pc \in {"pending", "parked"}
          /\ ~l.notified
          /\ Interests(o, l.src)' \cap PollEvents' # {}
          => /\ task[o].pc \in {"pending", "parked"} /\ l \in Leases(o)
             /\ Interests(o, l.src) \cap PollEvents # {}
    <3> SUFFICES ASSUME NEW o \in Observers, NEW l \in Leases(o)',
                        task'[o].pc \in {"pending", "parked"},
                        Interests(o, l.src)' \cap PollEvents' # {}
                 PROVE  /\ task[o].pc \in {"pending", "parked"} /\ l \in Leases(o)
                        /\ Interests(o, l.src) \cap PollEvents # {}
      OBVIOUS
    <3>1. o \in Tasks
      BY DEF Tasks
    <3>2. l \in Leases(o) /\ l.src \in Sources
      BY <1>0, <1>3, <3>1, Elements
    <3>3. Interests(o, l.src) \cap PollEvents # {}
      BY <1>1, <2>2, <3>1, <3>2
    <3>4. PollEvents \cap task[o].events # {}
      BY <3>3 DEF Interests
    <3>5. task[o].pc \in {"pending", "parked"}
      BY <1>1, <3>1, <3>4
    <3>. QED  BY <3>2, <3>3, <3>5
  <2>4. \A o \in Observers : \A l \in Leases(o)' : \A u \in Tasks :
          WillTake(u, o, l.src) => WillTake(u, o, l.src)'
    <3> SUFFICES ASSUME NEW o \in Observers, NEW l \in Leases(o)', NEW u \in Tasks,
                        WillTake(u, o, l.src)
                 PROVE  WillTake(u, o, l.src)'
      OBVIOUS
    <3>1. o \in Tasks
      BY DEF Tasks
    <3>2. l.src \in Sources
      BY <1>0, <1>3, <3>1, Elements
    <3>3. u # t
      BY DEF WillTake, At, WakePcs
    <3>4. task'[u].pc = task[u].pc
      BY <1>1, <3>3
    <3>. QED  BY <1>1, <1>3, <3>1, <3>2, <3>4 DEF WillTake, At
  <2>. QED  BY <1>0, <2>1, <2>3, <2>4, ObserverKept
<1>. QED  BY <1>1, <1>2, <1>3, <1>4, <1>5, <1>6, <1>7 DEF EventInv

LEMMA WaitFacts ==
    ASSUME EventInv, NEW t \in Tasks
    PROVE  /\ task[t] \in TaskRec /\ Legal(t, task[t]) /\ PlaceAt(t)
           /\ lease[t] \in Seq(Lease) /\ woken[t] \in BOOLEAN /\ count \in 0 .. MaxCount
  BY DEF EventInv, EventTypes, CallsLegal, PlaceInv

LEMMA GotoFacts ==
    ASSUME EventInv, NEW t \in Tasks, NEW p, Goto(t, p)
    PROVE  LET r == [task[t] EXCEPT !.pc = p] IN
           /\ task'[t] = r /\ r.pc = p /\ r.op = task[t].op /\ r.events = task[t].events
           /\ \A u \in Tasks \ {t} : task'[u] = task[u]
           /\ SourcesOf(t)' = SourcesOf(t) /\ task'[t].pc = p
<1> DEFINE r == [task[t] EXCEPT !.pc = p]
<1>1. task \in [Tasks -> TaskRec] /\ task[t] \in TaskRec
  BY DEF EventInv, EventTypes
<1>2. task'[t] = r /\ \A u \in Tasks \ {t} : task'[u] = task[u]
  BY <1>1 DEF Goto
<1>3. r.pc = p /\ r.op = task[t].op /\ r.events = task[t].events
  BY <1>1 DEF TaskRec
<1> HIDE DEF r
<1>4. SourcesOf(t)' = SourcesOf(t)
  BY <1>2, <1>3 DEF SourcesOf
<1>. QED  BY <1>2, <1>3, <1>4 DEF r

(* The queues a call registers with *)
LEMMA SourcesFacts ==
    ASSUME EventInv, NEW t \in Tasks, task[t].op \in {"read", "write", "poll"}
    PROVE  LET q == SourcesOf(t) IN
           /\ q \in Seq(Sources) /\ Len(q) \in {1, 2}
           /\ \A j, k \in 1 .. Len(q) : q[j] = q[k] => j = k
           /\ \A j \in 1 .. Len(q) : Interests(t, q[j]) # {}
           /\ task[t].op = "poll" => /\ q[1] = "rx"
                                     /\ "OUT" \in task[t].events => Len(q) = 2 /\ q[2] = "tx"
<1> DEFINE q == SourcesOf(t)
<1>1. Legal(t, task[t])
  BY WaitFacts
<1>2. CASE task[t].op = "read"
  <2>1. q = <<"rx">>
    BY <1>2 DEF SourcesOf
  <2>2. Interests(t, "rx") # {}
    BY <1>1, <1>2 DEF Legal, Interests
  <2>. QED  BY <1>2, <2>1, <2>2, SMTT(30) DEF Sources
<1>3. CASE task[t].op = "write"
  <2>1. q = <<"tx">>
    BY <1>3, SMTT(30) DEF SourcesOf
  <2>2. Interests(t, "tx") # {}
    BY <1>1, <1>3 DEF Legal, Interests
  <2>. QED  BY <1>3, <2>1, <2>2, SMTT(30) DEF Sources
<1>4. CASE task[t].op = "poll"
  <2>1. q = IF "OUT" \in task[t].events THEN <<"rx", "tx">> ELSE <<"rx">>
    BY <1>4, SMTT(30) DEF SourcesOf
  <2>2. Interests(t, "rx") # {} /\ ("OUT" \in task[t].events => Interests(t, "tx") # {})
    BY <1>1, <1>4 DEF Legal, Interests
  <2>3. CASE "OUT" \in task[t].events
    BY <2>1, <2>2, <2>3, SMTT(30) DEF Sources
  <2>4. CASE "OUT" \notin task[t].events
    BY <2>1, <2>2, <2>4, SMTT(30) DEF Sources
  <2>. QED  BY <2>3, <2>4
<1>. QED  BY <1>2, <1>3, <1>4

LEMMA FinishedPlace ==
    ASSUME EventInv, NEW t \in Tasks, task[t].pc # "idle", Goto(t, Finished(t)),
           UNCHANGED lease, task[t].op \in {"read", "write", "poll"} \/ lease[t] = <<>>
    PROVE  /\ Finished(t) \in {"clear", "done"} /\ PlaceAt(t)'
           /\ Legal(t, [task[t] EXCEPT !.pc = Finished(t)])
<1>1. Legal(t, task[t]) /\ PlaceAt(t)
  BY WaitFacts
<1>2. Finished(t) \in {"clear", "done"} /\ (Finished(t) = "done" <=> lease[t] = <<>>)
  BY DEF Finished
<1> DEFINE f == Finished(t)
           r == [task[t] EXCEPT !.pc = f]
<1>3. task'[t] = r /\ r.pc = f /\ r.op = task[t].op /\ r.events = task[t].events
  BY GotoFacts
<1> HIDE DEF f, r
<1>4. PlaceAt(t)'
  BY <1>1, <1>2, <1>3 DEF PlaceAt, Waits, f
<1>5. Legal(t, r)
  BY <1>1, <1>2, <1>3 DEF Legal, f
<1>. QED  BY <1>2, <1>4, <1>5 DEF f, r

(* Faulty reads stay where they disturb. *)
LEMMA UndisturbedBefore ==
    ASSUME EventInv, NEW t \in Tasks, NEW p \in Pcs, Goto(t, p),
           task[t].pc \in {"clear", "done"} => p \in {"clear", "done"}
    PROVE  Undisturbed' => Undisturbed
<1>1. task \in [Tasks -> TaskRec] /\ task[t] \in TaskRec
  BY DEF EventInv, EventTypes
<1>2. task'[t].pc = p /\ \A u \in Tasks \ {t} : task'[u] = task[u]
  BY <1>1 DEF Goto, TaskRec
<1>3. Faulty \subseteq Tasks
  BY ConstantsAssumption DEF Tasks
<1>. QED  BY <1>2, <1>3 DEF Undisturbed

LEMMA CheckReadyStep ==
    ASSUME EventInv, NEW t \in Tasks, CheckReady(t)
    PROVE  EventInv'
<1>1. task[t].pc \in {"try", "retry"} /\ task[t].op = "poll" /\ Goto(t, Finished(t))
      /\ UNCHANGED <<count, set, lease, wake, woken, aborted>>
  BY DEF CheckReady
<1>2. /\ Finished(t) \in {"clear", "done"} /\ PlaceAt(t)'
      /\ Legal(t, [task[t] EXCEPT !.pc = Finished(t)])
  BY <1>1, FinishedPlace
<1>3. Finished(t) \in Pcs /\ Finished(t) \notin WakePcs \cup Waits /\ task[t].pc \notin WakePcs
  BY <1>1, <1>2 DEF Pcs, WakePcs, Waits
<1>4. Undisturbed' => Undisturbed
  BY <1>1, <1>3, <1>2, UndisturbedBefore
<1>5. count' \in 0 .. MaxCount /\ woken' \in [Tasks -> BOOLEAN] /\ aborted' \in [Tasks -> BOOLEAN]
  BY <1>1 DEF EventInv, EventTypes
<1>6. Finished(t) \notin {"pending", "parked"}
  BY <1>2
<1>. QED  BY <1>1, <1>2, <1>3, <1>4, <1>5, <1>6, LightStep

LEMMA PendingStep ==
    ASSUME EventInv, NEW t \in Tasks, Pending(t)
    PROVE  EventInv'
<1> DEFINE p == IF aborted[t] THEN "clear" ELSE "parked"
<1>1. task[t].pc = "pending" /\ Goto(t, p) /\ aborted' = [aborted EXCEPT ![t] = FALSE]
      /\ UNCHANGED <<count, set, lease, wake, woken>>
  BY DEF Pending, At
<1>2. p \in {"clear", "parked"}
  OBVIOUS
<1> HIDE DEF p
<1>3. Legal(t, task[t]) /\ PlaceAt(t)
  BY WaitFacts
<1> DEFINE r == [task[t] EXCEPT !.pc = p]
<1>4. /\ task'[t] = r /\ r.pc = p /\ r.op = task[t].op /\ r.events = task[t].events
      /\ SourcesOf(t)' = SourcesOf(t)
  BY <1>1, GotoFacts
<1> HIDE DEF r
<1>5. lease[t] # <<>>
  <2>1. Len(lease[t]) = Len(SourcesOf(t)) /\ task[t].op \in {"read", "write", "poll"}
    BY <1>1, <1>3 DEF PlaceAt, Legal
  <2>2. Len(SourcesOf(t)) \in {1, 2}
    BY <2>1, SourcesFacts
  <2>. QED  BY <2>1, <2>2, NotEmpty, SMTT(30)
<1>6. PlaceAt(t)'
  BY <1>1, <1>2, <1>3, <1>4, <1>5 DEF PlaceAt, Waits
<1>7. Legal(t, r)
  BY <1>1, <1>2, <1>3, <1>4 DEF Legal
<1>8. p \in Pcs /\ p \notin WakePcs /\ task[t].pc \notin WakePcs /\ task[t].pc \in Waits
  BY <1>1, <1>2 DEF Pcs, WakePcs, Waits
<1>9. Undisturbed' => Undisturbed
  BY <1>1, <1>8, UndisturbedBefore
<1>10. count' \in 0 .. MaxCount /\ woken' \in [Tasks -> BOOLEAN] /\ aborted' \in [Tasks -> BOOLEAN]
  BY <1>1 DEF EventInv, EventTypes
<1>. QED  BY <1>1, <1>6, <1>7, <1>8, <1>9, <1>10, LightStep DEF r

LEMMA ResumeStep ==
    ASSUME EventInv, NEW t \in Tasks, Resume(t)
    PROVE  EventInv'
<1>1. task[t].pc = "parked" /\ Goto(t, "reset") /\ woken' = [woken EXCEPT ![t] = FALSE]
      /\ UNCHANGED <<count, set, lease, wake, aborted>>
  BY DEF Resume, At
<1>2. Legal(t, task[t]) /\ PlaceAt(t)
  BY WaitFacts
<1> DEFINE r == [task[t] EXCEPT !.pc = "reset"]
<1>3. task'[t] = r /\ r.pc = "reset" /\ r.op = task[t].op /\ r.events = task[t].events
  BY <1>1, GotoFacts
<1> HIDE DEF r
<1>4. lease[t] # <<>>
  <2>1. Len(lease[t]) = Len(SourcesOf(t)) /\ task[t].op \in {"read", "write", "poll"}
    BY <1>1, <1>2 DEF PlaceAt, Legal
  <2>2. Len(SourcesOf(t)) \in {1, 2}
    BY <2>1, SourcesFacts
  <2>. QED  BY <2>1, <2>2, NotEmpty, SMTT(30)
<1>5. PlaceAt(t)'
  BY <1>1, <1>2, <1>3, <1>4 DEF PlaceAt, Waits
<1>6. Legal(t, r)
  BY <1>1, <1>2, <1>3 DEF Legal
<1>7. "reset" \in Pcs /\ "reset" \notin WakePcs \cup Waits /\ task[t].pc \notin WakePcs
  BY <1>1 DEF Pcs, WakePcs, Waits
<1>8. Undisturbed' => Undisturbed
  BY <1>1, <1>7, UndisturbedBefore
<1>9. /\ count' \in 0 .. MaxCount /\ woken' \in [Tasks -> BOOLEAN] /\ aborted' \in [Tasks -> BOOLEAN]
      /\ \A u \in Tasks \ {t} : woken'[u] = woken[u]
  BY <1>1 DEF EventInv, EventTypes
<1>. QED  BY <1>1, <1>5, <1>6, <1>7, <1>8, <1>9, LightStep DEF r

LEMMA WouldBlockStep ==
    ASSUME EventInv, NEW t \in Tasks, WouldBlock(t)
    PROVE  EventInv'
<1> DEFINE p == IF t \in Producers THEN "done"
                ELSE IF At(t, "try") THEN "register"
                ELSE IF task[t].nonblock THEN "clear"
                ELSE "pending"
<1>1. /\ task[t].pc \in {"try", "retry"} /\ ~Succeeds(t) /\ Goto(t, p)
      /\ UNCHANGED <<count, set, lease, wake, woken, aborted>>
  BY DEF WouldBlock
<1>2. \/ p = "done" /\ t \in Producers
      \/ p = "register" /\ t \notin Producers /\ task[t].pc = "try"
      \/ p \in {"clear", "pending"} /\ t \notin Producers /\ task[t].pc = "retry"
  BY <1>1 DEF At
<1> HIDE DEF p
<1>3. Legal(t, task[t]) /\ PlaceAt(t) /\ task[t] \in TaskRec
  BY WaitFacts
<1> DEFINE r == [task[t] EXCEPT !.pc = p]
<1>4. /\ task'[t] = r /\ r.pc = p /\ r.op = task[t].op /\ r.events = task[t].events
      /\ SourcesOf(t)' = SourcesOf(t)
  BY <1>1, GotoFacts
<1> HIDE DEF r
<1>5. /\ t \in Producers => task[t].pc = "try"
      /\ t \notin Producers => task[t].op \in {"read", "write", "poll"}
  <2>1. Readers \cap Producers = {} /\ Writers \cap Producers = {} /\ Observers \cap Producers = {}
    BY ConstantsAssumption
  <2>2. task[t].op \in Ops
    BY <1>3 DEF TaskRec
  <2>. QED  BY <1>1, <1>3, <2>1, <2>2 DEF Legal, Ops
<1>6. task[t].op \in {"read", "write", "poll"} => Len(SourcesOf(t)) \in {1, 2}
  BY SourcesFacts
<1>7. p = "register" => lease[t] = <<>> /\ Len(lease[t]) < Len(SourcesOf(t))
  <2> SUFFICES ASSUME p = "register" PROVE lease[t] = <<>> /\ Len(lease[t]) < Len(SourcesOf(t))
    OBVIOUS
  <2>1. lease[t] = <<>> /\ Len(SourcesOf(t)) \in {1, 2}
    BY <1>2, <1>3, <1>5, <1>6 DEF PlaceAt
  <2>. QED  BY <2>1, SMTT(30)
<1>8. p \in {"clear", "pending"} => lease[t] # <<>> /\ Len(lease[t]) = Len(SourcesOf(t))
  <2> SUFFICES ASSUME p \in {"clear", "pending"}
               PROVE  lease[t] # <<>> /\ Len(lease[t]) = Len(SourcesOf(t))
    OBVIOUS
  <2>1. Len(lease[t]) = Len(SourcesOf(t)) /\ Len(SourcesOf(t)) \in {1, 2}
    BY <1>2, <1>3, <1>5, <1>6 DEF PlaceAt
  <2>. QED  BY <2>1, NotEmpty, SMTT(30)
<1>9. p = "done" => lease[t] = <<>>
  BY <1>2, <1>3, <1>5 DEF PlaceAt
<1>10. PlaceAt(t)'
  <2>1. \A j, k \in 1 .. Len(lease[t]) : lease[t][j].src = lease[t][k].src => j = k
    BY <1>3 DEF PlaceAt
  <2>2. p \in Waits => \A j \in 1 .. Len(lease[t]) : lease[t][j].src = SourcesOf(t)[j]
    <3>1. CASE p = "register"
      <4>1. 1 .. Len(lease[t]) = {}
        BY <1>7, <3>1, SMTT(30)
      <4>. QED  BY <4>1
    <3>2. CASE p = "pending"
      BY <1>2, <1>3, <3>2 DEF PlaceAt, Waits
    <3>. QED  BY <1>2, <3>1, <3>2 DEF Waits
  <2>3. p \in {"done", "register", "clear", "pending"}
    BY <1>2
  <2>4. task[t].op \in {"signal", "saturate"} => lease[t] = <<>>
    BY <1>3 DEF PlaceAt
  <2>. QED  BY <1>1, <1>4, <1>7, <1>8, <1>9, <2>1, <2>2, <2>3, <2>4 DEF PlaceAt
<1>11. Legal(t, r)
  BY <1>1, <1>2, <1>3, <1>4, <1>5 DEF Legal
<1>12. p \in Pcs /\ p \notin WakePcs /\ task[t].pc \notin WakePcs
  BY <1>1, <1>2 DEF Pcs, WakePcs
<1>13. Undisturbed' => Undisturbed
  BY <1>1, <1>12, UndisturbedBefore
<1>14. count' \in 0 .. MaxCount /\ woken' \in [Tasks -> BOOLEAN] /\ aborted' \in [Tasks -> BOOLEAN]
  BY <1>1 DEF EventInv, EventTypes
<1>15. p \in Waits => task[t].pc \in Waits \/ lease[t] = <<>>
  BY <1>2, <1>7 DEF Waits
<1>16. p \in {"pending", "parked"} /\ t \in Observers => PollEvents \cap task[t].events = {}
  <2> SUFFICES ASSUME p = "pending", t \in Observers PROVE PollEvents \cap task[t].events = {}
    BY <1>2
  <2>1. task[t].op = "poll"
    <3>1. t \notin Readers /\ t \notin Writers
      BY ConstantsAssumption
    <3>. QED  BY <1>2, <1>3, <1>5, <3>1 DEF Legal
  <2>. QED  BY <1>1, <2>1, SMTT(30) DEF Succeeds
<1>. QED  BY <1>1, <1>10, <1>11, <1>12, <1>13, <1>14, <1>15, <1>16, LightStep DEF r

LEMMA AbortStep ==
    ASSUME EventInv, UNCHANGED <<count, set, task, lease, wake, woken>>,
           aborted' \in [Tasks -> BOOLEAN]
    PROVE  EventInv'
<1>1. EventTypes' /\ CallsLegal'
  BY DEF EventInv, EventTypes, CallsLegal, Legal
<1>2. PlaceInv'
  <2>1. \A u \in Tasks : SourcesOf(u)' = SourcesOf(u)
    BY DEF SourcesOf
  <2>. QED  BY <2>1, SMTT(30) DEF EventInv, PlaceInv, PlaceAt
<1>3. IdInv' /\ PairInv'
  BY SMTT(30) DEF EventInv, IdInv, PairInv, Held, Leases, Interests, Mode
<1>4. WakeInv'
  BY DEF EventInv, WakeInv, WakeAt, Held
<1>5. NotifiedInv'
  BY DEF EventInv, NotifiedInv, Leases, At, Chosen
<1>6. ObserverInv'
  BY SMTT(30) DEF EventInv, ObserverInv, Undisturbed, Leases, Interests, PollEvents, WillTake, At, Held
<1>. QED  BY <1>1, <1>2, <1>3, <1>4, <1>5, <1>6 DEF EventInv

(* A call begins: it has no lease yet, so that nobody has seen its interests. *)
LEMMA CallStep ==
    ASSUME EventInv, NEW t \in Tasks, NEW op \in Ops, NEW value \in Values \cup {0},
           NEW events \in SUBSET Events, NEW nonblock \in BOOLEAN, NEW p \in {"try", "done"},
           Call(t, op, value, events, nonblock, p),
           op = "read" => t \in Readers /\ events = {"IN"},
           op = "write" => t \in Writers /\ events = {"OUT"},
           op \in {"signal", "saturate"} => t \in Producers,
           op = "poll" => t \in Observers /\ "ERR" \in events,
           op # "none"
    PROVE  EventInv'
<1> DEFINE r == [op |-> op, value |-> value, events |-> events, nonblock |-> nonblock, pc |-> p]
<1>1. /\ task[t].pc = "idle" /\ task' = [task EXCEPT ![t] = r]
      /\ UNCHANGED <<count, set, lease, wake, woken, aborted>>
  BY DEF Call, At
<1>2. r \in TaskRec /\ r.pc = p /\ r.op = op /\ r.events = events
  BY DEF TaskRec, Pcs
<1> HIDE DEF r
<1>3. task \in [Tasks -> TaskRec] /\ EventTypes /\ PlaceAt(t) /\ lease[t] = <<>>
  <2>1. PlaceAt(t)
    BY WaitFacts
  <2>. QED  BY <1>1, <2>1 DEF EventInv, EventTypes, PlaceAt
<1>4. task' \in [Tasks -> TaskRec] /\ task'[t] = r /\ \A u \in Tasks \ {t} : task'[u] = task[u]
  BY <1>1, <1>2, <1>3
<1>5. EventTypes'
  BY <1>1, <1>3, <1>4 DEF EventTypes
<1>6. CallsLegal'
  <2>1. Legal(t, r)
    BY <1>2 DEF Legal
  <2>2. \A u \in Tasks : Legal(u, task'[u])
    BY <1>4, <2>1 DEF EventInv, CallsLegal
  <2>. QED  BY <2>2 DEF CallsLegal, Legal
<1>7. PlaceInv'
  <2>1. \A u \in Tasks \ {t} : PlaceAt(u)'
    <3>1. \A u \in Tasks \ {t} : SourcesOf(u)' = SourcesOf(u)
      BY <1>4 DEF SourcesOf
    <3>. QED  BY <1>1, <1>4, <3>1, SMTT(30) DEF EventInv, PlaceInv, PlaceAt
  <2>2. PlaceAt(t)'
    <3>1. \A j, k \in 1 .. Len(lease[t]) : lease[t][j].src = lease[t][k].src => j = k
      BY <1>3 DEF PlaceAt
    <3>. QED  BY <1>1, <1>2, <1>3, <1>4, <3>1 DEF PlaceAt, Waits
  <2>. QED  BY <2>1, <2>2 DEF PlaceInv
<1>8. \A u \in Tasks : \A s \in Sources : Interests(u, s)' = Interests(u, s) \/ lease[u] = <<>>
  BY <1>3, <1>4 DEF Interests
<1>9. /\ \A s \in Sources : Held(s)' = Held(s)
      /\ \A u \in Tasks : Leases(u)' = Leases(u)
      /\ IdInv' /\ PairInv'
  BY <1>1, <1>3, <1>8, QueuesKept DEF EventInv
<1>10. WakeInv'
  <2> SUFFICES ASSUME NEW u \in Tasks PROVE WakeAt(u)'
    BY DEF WakeInv
  <2>1. WakeAt(u)
    BY DEF EventInv, WakeInv
  <2>2. task'[u].pc = task[u].pc \/ (task'[u].pc = p /\ task[u].pc = "idle")
    BY <1>1, <1>2, <1>4
  <2>. QED  BY <1>1, <2>1, <2>2 DEF WakeAt, Held
<1>11. NotifiedInv'
  <2>1. \A u \in Tasks : task'[u].pc \in Waits => task[u].pc \in Waits
    BY <1>2, <1>4 DEF Waits
  <2>2. \A u \in Tasks : At(u, "fire") => At(u, "fire")' /\ wake'[u] = wake[u]
    BY <1>1, <1>4 DEF At
  <2>. QED  BY <1>1, <1>9, <2>1, <2>2, NotifiedKept DEF EventInv
<1>12. ObserverInv'
  <2>1. Undisturbed' => Undisturbed
    <3>1. Faulty \subseteq Tasks
      BY ConstantsAssumption DEF Tasks
    <3>2. \A u \in Tasks : task[u].pc \in {"clear", "done"} => task'[u].pc \in {"clear", "done"}
      BY <1>1, <1>4
    <3>. QED  BY <3>1, <3>2 DEF Undisturbed
  <2>2. Observers \subseteq Tasks
    BY DEF Tasks
  <2>3. PollEvents' = PollEvents
    BY <1>1 DEF PollEvents
  <2>4. \A o \in Observers : \A l \in Leases(o)' :
          l.src \in Sources /\ l \in Leases(o) /\ Interests(o, l.src)' = Interests(o, l.src)
    BY <1>3, <1>8, <1>9, <2>2, Elements
  <2>5. \A o \in Observers : task'[o].pc \in {"pending", "parked"} => task[o].pc \in {"pending", "parked"}
    BY <1>2, <1>4, <2>2
  <2>6. \A o \in Observers : \A l \in Leases(o)' : \A u \in Tasks :
          WillTake(u, o, l.src) => WillTake(u, o, l.src)'
    <3> SUFFICES ASSUME NEW o \in Observers, NEW l \in Leases(o)', NEW u \in Tasks,
                        WillTake(u, o, l.src)
                 PROVE  WillTake(u, o, l.src)'
      OBVIOUS
    <3>1. u # t
      BY <1>1 DEF WillTake, At
    <3>. QED  BY <1>1, <1>4, <1>9, <2>4, <3>1 DEF WillTake, At
  <2>. QED  BY <1>3, <2>1, <2>3, <2>4, <2>5, <2>6, ObserverKept DEF EventInv
<1>. QED  BY <1>5, <1>6, <1>7, <1>9, <1>10, <1>11, <1>12 DEF EventInv

LEMMA StartStep ==
    ASSUME EventInv, NEW t \in Tasks, Start(t)
    PROVE  EventInv'
<1>0. Values \subseteq Nat /\ NonBlocking \subseteq BOOLEAN /\ {"IN"} \in SUBSET Events
      /\ {"OUT"} \in SUBSET Events /\ {} \in SUBSET Events
      /\ {"read", "write", "signal", "saturate", "poll"} \subseteq Ops
  BY ConstantsAssumption, SMTT(30) DEF Events, Ops
<1>1. CASE Read(t)
  <2>1. PICK nonblock \in NonBlocking : Call(t, "read", 0, {"IN"}, nonblock, "try")
    BY <1>1 DEF Read
  <2>2. t \in Readers
    BY <1>1 DEF Read
  <2>. QED  BY <1>0, <2>1, <2>2, CallStep
<1>2. CASE Write(t)
  <2>1. PICK v \in Values, nonblock \in NonBlocking :
          Call(t, "write", v, {"OUT"}, nonblock, IF v = MaxCount THEN "done" ELSE "try")
    BY <1>2 DEF Write
  <2>2. t \in Writers
    BY <1>2 DEF Write
  <2>3. (IF v = MaxCount THEN "done" ELSE "try") \in {"try", "done"}
    OBVIOUS
  <2>. QED  BY <1>0, <2>1, <2>2, <2>3, CallStep
<1>3. CASE SignalKernel(t)
  <2>1. PICK v \in Values :
          Call(t, "signal", v, {}, TRUE, IF v = MaxCount THEN "done" ELSE "try")
    BY <1>3 DEF SignalKernel
  <2>2. t \in Producers
    BY <1>3 DEF SignalKernel
  <2>3. (IF v = MaxCount THEN "done" ELSE "try") \in {"try", "done"}
    OBVIOUS
  <2>. QED  BY <1>0, <2>1, <2>2, <2>3, CallStep
<1>4. CASE SignalKernelSaturating(t)
  <2>1. PICK v \in Values : Call(t, "saturate", v, {}, TRUE, IF v = 0 THEN "done" ELSE "try")
    BY <1>4 DEF SignalKernelSaturating
  <2>2. t \in Producers
    BY <1>4 DEF SignalKernelSaturating
  <2>3. (IF v = 0 THEN "done" ELSE "try") \in {"try", "done"}
    OBVIOUS
  <2>. QED  BY <1>0, <2>1, <2>2, <2>3, CallStep
<1>5. CASE Poll(t)
  <2>1. PICK events \in SUBSET {"IN", "OUT"} :
          Call(t, "poll", 0, events \cup {"ERR"}, FALSE, "try")
    BY <1>5 DEF Poll
  <2>2. t \in Observers
    BY <1>5 DEF Poll
  <2>3. events \cup {"ERR"} \in SUBSET Events /\ "ERR" \in events \cup {"ERR"}
    BY DEF Events
  <2> DEFINE e == events \cup {"ERR"}
  <2> HIDE DEF e
  <2>4. Call(t, "poll", 0, e, FALSE, "try") /\ e \in SUBSET Events /\ "ERR" \in e
    BY <2>1, <2>3 DEF e
  <2>. QED  BY <1>0, <2>2, <2>4, CallStep
<1>. QED  BY <1>1, <1>2, <1>3, <1>4, <1>5 DEF Start

(* The copy to the caller fails: the counter changes and nobody is told. *)
LEMMA CopyOutStep ==
    ASSUME EventInv, NEW t \in Tasks, CopyOutFails(t)
    PROVE  EventInv'
<1>1. /\ task[t].pc \in {"try", "retry"} /\ t \in Faulty /\ Succeeds(t) /\ count' = Updated(t)
      /\ Goto(t, Finished(t)) /\ UNCHANGED <<set, lease, wake, woken, aborted>>
  BY DEF CopyOutFails
<1>2. Legal(t, task[t]) /\ task[t] \in TaskRec /\ count \in 0 .. MaxCount /\ MaxCount \in Nat
  BY WaitFacts, ConstantsAssumption
<1>3. t \in Readers /\ t \notin Writers /\ t \notin Producers /\ t \notin Observers
  BY <1>1, ConstantsAssumption
<1>4. task[t].op = "read"
  <2>1. task[t].op \in Ops
    BY <1>2 DEF TaskRec
  <2>. QED  BY <1>1, <1>2, <1>3, <2>1 DEF Legal, Ops
<1>5. count > 0
  BY <1>1, <1>4 DEF Succeeds
<1>6. count' \in 0 .. MaxCount
  <2>1. count' = IF Semaphore THEN count - 1 ELSE 0
    BY <1>1, <1>4 DEF Updated
  <2>. QED  BY <1>2, <1>5, <2>1, SMTT(30)
<1>7. /\ Finished(t) \in {"clear", "done"} /\ PlaceAt(t)'
      /\ Legal(t, [task[t] EXCEPT !.pc = Finished(t)])
  BY <1>1, <1>4, FinishedPlace
<1>8. Finished(t) \in Pcs /\ Finished(t) \notin WakePcs \cup Waits /\ task[t].pc \notin WakePcs
      /\ Finished(t) \notin {"pending", "parked"}
  BY <1>1, <1>7 DEF Pcs, WakePcs, Waits
<1>9. ~Undisturbed'
  <2>1. task'[t].pc = Finished(t)
    BY <1>1, GotoFacts
  <2>. QED  BY <1>1, <1>7, <2>1 DEF Undisturbed
<1>10. woken' \in [Tasks -> BOOLEAN] /\ aborted' \in [Tasks -> BOOLEAN]
  BY <1>1 DEF EventInv, EventTypes
<1>. QED  BY <1>1, <1>6, <1>7, <1>8, <1>9, <1>10, LightStep

-----------------------------------------------------------------------------
(* Wake transactions *)

LEMMA WriteFits ==
    ASSUME NEW t, Succeeds(t), task[t].op \in {"write", "signal"}
    PROVE  task[t].value = 0 \/ MaxCount - count > task[t].value
<1>1. task[t].op # "read" /\ task[t].op # "saturate" /\ task[t].op # "poll"
  OBVIOUS
<1>. QED  BY <1>1 DEF Succeeds

(* An event that an update of the counter makes ready is one that its wake *)
(* announces.                                                              *)
LEMMA Announced ==
    ASSUME EventInv, NEW t \in Tasks, Succeeds(t), count' = Updated(t),
           task[t].op \in {"read", "write", "signal", "saturate"},
           NEW o \in Tasks, NEW s \in Sources, NEW e \in Interests(o, s),
           e \in PollEvents', e \notin PollEvents
    PROVE  s = WakeAfter(t).src /\ e \in WakeAfter(t).ready
<1>1. task[t] \in TaskRec /\ count \in 0 .. MaxCount /\ MaxCount \in Nat /\ Values \subseteq 0 .. MaxCount
  BY WaitFacts, ConstantsAssumption
<1>2. task[t].value \in 0 .. MaxCount
  <2>1. task[t].value \in Values \cup {0}
    BY <1>1 DEF TaskRec
  <2>2. 0 \in 0 .. MaxCount
    BY <1>1, SMTT(30)
  <2>. QED  BY <1>1, <2>1, <2>2
<1>3. e \in Events /\ (e \in {"IN", "ERR"} => s = "rx") /\ (e = "OUT" => s = "tx")
  BY DEF Interests, PollEvents, Sources
<1>4. CASE task[t].op = "read"
  <2>1. count' = IF Semaphore THEN count - 1 ELSE 0
    BY <1>4 DEF Updated
  <2>2. count' \in Nat /\ count' <= count
    BY <1>1, <1>4, <2>1, SMTT(30) DEF Succeeds
  <2>3. e = "OUT"
    BY <1>1, <1>3, <2>2, SMTT(30) DEF PollEvents, Events
  <2>4. WakeAfter(t).src = "tx" /\ WakeAfter(t).ready = {"OUT"}
    BY <1>4 DEF WakeAfter
  <2>. QED  BY <1>3, <2>3, <2>4
<1>5. CASE task[t].op \in {"write", "signal"}
  <2>1. count' = count + task[t].value
    BY <1>5, SMTT(30) DEF Updated
  <2>2. task[t].value = 0 \/ MaxCount - count > task[t].value
    BY <1>5, WriteFits
  <2>3. e = "IN"
    BY <1>1, <1>2, <1>3, <2>1, <2>2, SMTT(30) DEF PollEvents, Events
  <2>4. WakeAfter(t).src = "rx" /\ WakeAfter(t).ready = {"IN"}
    BY <1>5 DEF WakeAfter
  <2>. QED  BY <1>3, <2>3, <2>4
<1>6. CASE task[t].op = "saturate"
  <2>1. Updated(t) = IF count + task[t].value > MaxCount THEN MaxCount ELSE count + task[t].value
    BY <1>6, SMTT(30) DEF Updated
  <2>2. e # "OUT" /\ (e = "ERR" => Updated(t) = MaxCount)
    BY <1>1, <1>2, <1>3, <2>1, SMTT(30) DEF PollEvents, Events
  <2>3. WakeAfter(t).src = "rx" /\ "IN" \in WakeAfter(t).ready
        /\ (Updated(t) = MaxCount => "ERR" \in WakeAfter(t).ready)
    BY <1>6 DEF WakeAfter
  <2>4. e = "IN" \/ e = "ERR"
    BY <1>3, <2>2 DEF Events
  <2>. QED  BY <1>3, <2>2, <2>3, <2>4
<1>. QED  BY <1>4, <1>5, <1>6

LEMMA UpdatedType ==
    ASSUME EventInv, NEW t \in Tasks, Succeeds(t),
           task[t].op \in {"read", "write", "signal", "saturate"}
    PROVE  /\ Updated(t) \in 0 .. MaxCount
           /\ WakeAfter(t) \in WakeRec
           /\ WakeAfter(t).chosen = <<>> /\ WakeAfter(t).boundary = 0
<1>1. task[t] \in TaskRec /\ count \in 0 .. MaxCount /\ MaxCount \in Nat /\ Values \subseteq 0 .. MaxCount
  BY WaitFacts, ConstantsAssumption
<1>2. task[t].value \in 0 .. MaxCount
  <2>1. task[t].value \in Values \cup {0}
    BY <1>1 DEF TaskRec
  <2>2. 0 \in 0 .. MaxCount
    BY <1>1, SMTT(30)
  <2>. QED  BY <1>1, <2>1, <2>2
<1>3. Updated(t) \in 0 .. MaxCount
  <2>1. CASE task[t].op = "read"
    <3>1. count > 0 /\ Updated(t) = IF Semaphore THEN count - 1 ELSE 0
      BY <2>1 DEF Updated, Succeeds
    <3>. QED  BY <1>1, <3>1, SMTT(30)
  <2>2. CASE task[t].op \in {"write", "signal"}
    <3>1. Updated(t) = count + task[t].value
      BY <2>2, SMTT(30) DEF Updated
    <3>2. task[t].value = 0 \/ MaxCount - count > task[t].value
      BY <2>2, WriteFits
    <3>. QED  BY <1>1, <1>2, <3>1, <3>2, SMTT(30)
  <2>3. CASE task[t].op = "saturate"
    <3>1. Updated(t) = IF count + task[t].value > MaxCount THEN MaxCount ELSE count + task[t].value
      BY <2>3, SMTT(30) DEF Updated
    <3>. QED  BY <1>1, <1>2, <3>1, SMTT(30)
  <2>. QED  BY <2>1, <2>2, <2>3
<1>4. WakeAfter(t).src \in Sources /\ WakeAfter(t).ready \in SUBSET Events
  BY DEF WakeAfter, Sources, Events
<1>5. <<>> \in Seq(Tasks) /\ 0 \in Nat
  BY SMTT(30)
<1>. QED  BY <1>3, <1>4, <1>5 DEF WakeAfter, WakeRec

(* A step of a wake transaction that leaves the queues alone. *)
LEMMA TransactionStep ==
    ASSUME EventInv, NEW t \in Tasks, NEW p \in Pcs, Goto(t, p), UNCHANGED <<set, lease, aborted>>,
           count' \in 0 .. MaxCount, woken' \in [Tasks -> BOOLEAN], wake' \in [Tasks -> WakeRec],
           \A u \in Tasks \ {t} : wake'[u] = wake[u],
           Legal(t, [task[t] EXCEPT !.pc = p]), PlaceAt(t)', WakeAt(t)', NotifiedInv', ObserverInv'
    PROVE  EventInv'
<1>0. EventTypes /\ CallsLegal /\ PlaceInv /\ IdInv /\ PairInv /\ WakeInv
  BY DEF EventInv
<1>1. /\ task' \in [Tasks -> TaskRec] /\ CallsLegal'
      /\ \A u \in Tasks \ {t} : task'[u] = task[u]
      /\ \A u \in Tasks : SourcesOf(u)' = SourcesOf(u)
      /\ \A u \in Tasks : \A s \in Sources : Interests(u, s)' = Interests(u, s)
  BY <1>0, TaskMove
<1>2. EventTypes'
  BY <1>0, <1>1 DEF EventTypes
<1>3. /\ \A s \in Sources : Held(s)' = Held(s)
      /\ IdInv' /\ PairInv'
  BY <1>0, <1>1, QueuesKept
<1>4. PlaceInv'
  <2>1. \A u \in Tasks \ {t} : PlaceAt(u)'
    BY <1>0, <1>1, SMTT(30) DEF PlaceInv, PlaceAt
  <2>. QED  BY <2>1 DEF PlaceInv
<1>5. WakeInv'
  <2>1. \A u \in Tasks \ {t} : WakeAt(u)'
    BY <1>0, <1>1, SMTT(30) DEF WakeInv, WakeAt, Held
  <2>. QED  BY <2>1 DEF WakeInv
<1>. QED  BY <1>1, <1>2, <1>3, <1>4, <1>5 DEF EventInv

(* What the steps of a wake transaction leave as it was *)
LEMMA TransactionFrame ==
    ASSUME EventInv, NEW t \in Tasks, NEW p \in Pcs, Goto(t, p), UNCHANGED <<set, lease>>
    PROVE  /\ \A s \in Sources : Held(s)' = Held(s)
           /\ \A u \in Tasks : Leases(u)' = Leases(u)
           /\ \A u \in Tasks : \A s \in Sources : Interests(u, s)' = Interests(u, s)
           /\ task'[t].pc = p /\ \A u \in Tasks \ {t} : task'[u] = task[u]
           /\ \A o \in Observers : \A l \in Leases(o) : o \in Tasks /\ l.src \in Sources
<1>1. \A u \in Tasks : task'[u].events = task[u].events
  BY GotoFacts
<1>. QED  BY <1>1, GotoFacts, Elements DEF Held, Leases, Interests, Tasks, EventInv

LEMMA BoundaryStep ==
    ASSUME EventInv, NEW t \in Tasks, Boundary(t)
    PROVE  EventInv'
<1> DEFINE b == set[wake[t].src].nextId
           w == [wake[t] EXCEPT !.boundary = b]
<1>1. /\ task[t].pc = "boundary" /\ Goto(t, "select") /\ wake' = [wake EXCEPT ![t] = w]
      /\ UNCHANGED <<count, set, lease, woken, aborted>>
  BY DEF Boundary, At, WakeBoundary
<1>2. wake \in [Tasks -> WakeRec] /\ wake[t] \in WakeRec /\ WakeAt(t) /\ EventTypes
  BY DEF EventInv, EventTypes, WakeInv
<1>3. wake[t].src \in Sources
  BY <1>2 DEF WakeRec
<1>4. b \in Nat
  <2>1. set[wake[t].src] \in Queue
    BY <1>2, <1>3 DEF EventTypes
  <2>. QED  BY <2>1 DEF Queue
<1> HIDE DEF b
<1>5. /\ w \in WakeRec /\ w.src = wake[t].src /\ w.ready = wake[t].ready /\ w.boundary = b
      /\ w.exclusive = wake[t].exclusive /\ w.chosen = wake[t].chosen
  BY <1>2, <1>4 DEF WakeRec
<1> HIDE DEF w
<1>6. wake' \in [Tasks -> WakeRec] /\ wake'[t] = w /\ \A u \in Tasks \ {t} : wake'[u] = wake[u]
  BY <1>1, <1>2, <1>5
<1>7. "select" \in Pcs
  BY DEF Pcs
<1>8. /\ \A s \in Sources : Held(s)' = Held(s)
      /\ \A u \in Tasks : Leases(u)' = Leases(u)
      /\ \A u \in Tasks : \A s \in Sources : Interests(u, s)' = Interests(u, s)
      /\ task'[t].pc = "select" /\ \A u \in Tasks \ {t} : task'[u] = task[u]
      /\ \A o \in Observers : \A l \in Leases(o) : o \in Tasks /\ l.src \in Sources
  BY <1>1, <1>7, TransactionFrame
<1> DEFINE r == [task[t] EXCEPT !.pc = "select"]
<1>9. task'[t] = r /\ r.pc = "select" /\ r.op = task[t].op /\ r.events = task[t].events
  BY <1>1, GotoFacts
<1> HIDE DEF r
<1>10. Legal(t, task[t]) /\ PlaceAt(t)
  BY WaitFacts
<1>11. Legal(t, r)
  BY <1>1, <1>9, <1>10 DEF Legal
<1>12. PlaceAt(t)'
  BY <1>1, <1>9, <1>10 DEF PlaceAt, Waits
<1>13. wake[t].chosen = <<>> /\ Range(wake[t].chosen) = {}
  <2>1. wake[t].chosen = <<>>
    BY <1>1, <1>2 DEF WakeAt
  <2>. QED  BY <2>1, SMTT(30) DEF Range
<1>14. WakeAt(t)'
  <2>1. b <= set[wake[t].src].nextId
    BY <1>4, SMTT(30) DEF b
  <2>. QED  BY <1>1, <1>2, <1>5, <1>6, <1>8, <1>13, <2>1 DEF WakeAt
<1>15. NotifiedInv'
  <2>1. \A u \in Tasks : task'[u].pc \in Waits => task[u].pc \in Waits
    BY <1>8 DEF Waits
  <2>2. \A u \in Tasks : At(u, "fire") => At(u, "fire")' /\ wake'[u] = wake[u]
    BY <1>1, <1>6, <1>8 DEF At
  <2>. QED  BY <1>1, <1>8, <2>1, <2>2, NotifiedKept DEF EventInv
<1>16. ObserverInv'
  <2>1. Undisturbed' => Undisturbed
    BY <1>1, <1>7, UndisturbedBefore
  <2>2. PollEvents' = PollEvents
    BY <1>1 DEF PollEvents
  <2>3. \A o \in Observers : task'[o].pc \in {"pending", "parked"} => task[o].pc \in {"pending", "parked"}
    BY <1>8 DEF Tasks
  <2>4. ASSUME NEW o \in Observers, NEW l \in Leases(o), NEW u \in Tasks, WillTake(u, o, l.src)
        PROVE  WillTake(u, o, l.src)'
    <3>1. o \in Tasks /\ l.src \in Sources
      BY <1>8
    <3>2. CASE u # t
      <4>1. task'[u] = task[u] /\ wake'[u] = wake[u]
        BY <1>6, <1>8, <3>2
      <4>. QED  BY <1>8, <2>4, <3>1, <4>1 DEF WillTake, At
    <3>3. CASE u = t
      <4>1. wake'[u].src = l.src /\ wake'[u].ready \cap Interests(o, l.src)' # {}
        BY <1>5, <1>6, <1>8, <2>4, <3>1, <3>3 DEF WillTake
      <4>2. \A e \in Held(l.src)' : e.id < wake'[u].boundary
        <5>1. l.src = wake[t].src
          BY <2>4, <3>3 DEF WillTake
        <5>2. \A e \in Held(l.src) : e.id < b
          BY <3>1, <5>1 DEF EventInv, IdInv, b
        <5>. QED  BY <1>5, <1>6, <1>8, <3>1, <3>3, <5>2
      <4>. QED  BY <1>8, <3>3, <4>1, <4>2 DEF WillTake, At
    <3>. QED  BY <3>2, <3>3
  <2>. QED  BY <1>2, <1>8, <2>1, <2>2, <2>3, <2>4, ObserverKept DEF EventInv, Tasks
<1>17. count' \in 0 .. MaxCount /\ woken' \in [Tasks -> BOOLEAN]
  BY <1>1, <1>2 DEF EventTypes
<1>. QED  BY <1>1, <1>6, <1>7, <1>11, <1>12, <1>14, <1>15, <1>16, <1>17, TransactionStep DEF r

LEMMA OperateStep ==
    ASSUME EventInv, NEW t \in Tasks, Operate(t)
    PROVE  EventInv'
<1>1. /\ task[t].pc \in {"try", "retry"} /\ task[t].op # "poll" /\ Succeeds(t)
      /\ count' = Updated(t) /\ UNCHANGED <<set, lease, woken, aborted>>
  BY DEF Operate
<1>2. Legal(t, task[t]) /\ PlaceAt(t) /\ task[t] \in TaskRec /\ EventTypes
  BY WaitFacts DEF EventInv
<1>3. task[t].op \in {"read", "write", "signal", "saturate"}
  <2>1. task[t].op \in Ops
    BY <1>2 DEF TaskRec
  <2>. QED  BY <1>1, <1>2, <2>1 DEF Legal, Ops
<1>4. /\ count' \in 0 .. MaxCount /\ woken' \in [Tasks -> BOOLEAN] /\ aborted' \in [Tasks -> BOOLEAN]
      /\ WakeAfter(t) \in WakeRec /\ WakeAfter(t).chosen = <<>> /\ WakeAfter(t).boundary = 0
  BY <1>1, <1>2, <1>3, UpdatedType DEF EventTypes
<1>5. CASE task[t].op \in {"write", "signal"} /\ task[t].value = 0
  <2>1. Goto(t, Finished(t)) /\ UNCHANGED wake
    BY <1>5 DEF Operate
  <2>2. count' = count
    <3>1. count' = count + 0
      BY <1>1, <1>5, SMTT(30) DEF Updated
    <3>2. count \in 0 .. MaxCount
      BY <1>2 DEF EventTypes
    <3>. QED  BY <3>1, <3>2, ConstantsAssumption, SMTT(30)
  <2>3. task[t].op \in {"read", "write", "poll"} \/ lease[t] = <<>>
    BY <1>2, <1>5 DEF PlaceAt
  <2>4. /\ Finished(t) \in {"clear", "done"} /\ PlaceAt(t)'
        /\ Legal(t, [task[t] EXCEPT !.pc = Finished(t)])
    BY <1>1, <2>1, <2>3, FinishedPlace
  <2>5. Finished(t) \in Pcs /\ Finished(t) \notin WakePcs \cup Waits /\ task[t].pc \notin WakePcs
        /\ Finished(t) \notin {"pending", "parked"}
    BY <1>1, <2>4 DEF Pcs, WakePcs, Waits
  <2>6. Undisturbed' => Undisturbed
    BY <1>1, <2>1, <2>5, UndisturbedBefore
  <2>. QED  BY <1>1, <1>4, <2>1, <2>2, <2>4, <2>5, <2>6, LightStep
<1>6. CASE ~(task[t].op \in {"write", "signal"} /\ task[t].value = 0)
  <2> DEFINE w == WakeAfter(t)
  <2>1. Goto(t, "boundary") /\ wake' = [wake EXCEPT ![t] = w]
    BY <1>6 DEF Operate
  <2>2. "boundary" \in Pcs
    BY DEF Pcs
  <2>3. /\ \A s \in Sources : Held(s)' = Held(s)
        /\ \A u \in Tasks : Leases(u)' = Leases(u)
        /\ \A u \in Tasks : \A s \in Sources : Interests(u, s)' = Interests(u, s)
        /\ task'[t].pc = "boundary" /\ \A u \in Tasks \ {t} : task'[u] = task[u]
        /\ \A o \in Observers : \A l \in Leases(o) : o \in Tasks /\ l.src \in Sources
    BY <1>1, <2>1, <2>2, TransactionFrame
  <2>4. wake' \in [Tasks -> WakeRec] /\ wake'[t] = w /\ \A u \in Tasks \ {t} : wake'[u] = wake[u]
    BY <1>2, <1>4, <2>1 DEF EventTypes
  <2>5. w \in WakeRec /\ w.chosen = <<>> /\ w.boundary = 0
    BY <1>4
  <2> HIDE DEF w
  <2> DEFINE r == [task[t] EXCEPT !.pc = "boundary"]
  <2>6. task'[t] = r /\ r.pc = "boundary" /\ r.op = task[t].op /\ r.events = task[t].events
    BY <2>1, GotoFacts
  <2> HIDE DEF r
  <2>7. Legal(t, r)
    BY <1>1, <1>2, <1>3, <2>6 DEF Legal
  <2>8. PlaceAt(t)'
    BY <1>1, <1>2, <2>6 DEF PlaceAt, Waits
  <2>9. WakeAt(t)'
    <3>1. Range(w.chosen) = {} /\ IsInjective(w.chosen)
      BY <2>5, SMTT(30) DEF Range, IsInjective
    <3>2. w.src \in Sources
      BY <2>5 DEF WakeRec
    <3>3. set[w.src] \in Queue
      BY <1>2, <3>2 DEF EventTypes
    <3>4. w.boundary <= set[w.src].nextId
      BY <2>5, <3>3, SMTT(30) DEF Queue
    <3>. QED  BY <1>1, <2>3, <2>4, <2>5, <3>1, <3>4 DEF WakeAt
  <2>10. NotifiedInv'
    <3>1. \A u \in Tasks : task'[u].pc \in Waits => task[u].pc \in Waits
      BY <2>3 DEF Waits
    <3>2. \A u \in Tasks : At(u, "fire") => At(u, "fire")' /\ wake'[u] = wake[u]
      BY <1>1, <2>3, <2>4 DEF At
    <3>. QED  BY <1>1, <2>3, <3>1, <3>2, NotifiedKept DEF EventInv
  <2>11. ObserverInv'
    <3>1. Undisturbed' => Undisturbed
      BY <1>1, <2>1, <2>2, UndisturbedBefore
    <3>2. \A o \in Observers : \A l \in Leases(o)' :
            /\ task'[o].pc \in {"pending", "parked"}
            /\ ~l.notified
            /\ Interests(o, l.src)' \cap PollEvents' # {}
            => \/ /\ task[o].pc \in {"pending", "parked"} /\ l \in Leases(o)
                  /\ Interests(o, l.src) \cap PollEvents # {}
               \/ \E u \in Tasks : WillTake(u, o, l.src)'
      <4> SUFFICES ASSUME NEW o \in Observers, NEW l \in Leases(o)',
                          task'[o].pc \in {"pending", "parked"},
                          Interests(o, l.src)' \cap PollEvents' # {},
                          Interests(o, l.src) \cap PollEvents = {}
                   PROVE  WillTake(t, o, l.src)'
        <5>1. \A o \in Observers : task'[o].pc \in {"pending", "parked"} => task[o].pc \in {"pending", "parked"}
          BY <2>3 DEF Tasks
        <5>2. \A o \in Observers : Leases(o)' = Leases(o)
          BY <2>3 DEF Tasks
        <5>. QED  BY <5>1, <5>2
      <4>1. o \in Tasks /\ l.src \in Sources
        BY <2>3 DEF Tasks
      <4>2. PICK e \in Interests(o, l.src) : e \in PollEvents' /\ e \notin PollEvents
        BY <2>3, <4>1
      <4>3. l.src = w.src /\ e \in w.ready
        BY <1>1, <1>3, <4>1, <4>2, Announced DEF w
      <4>4. wake'[t].src = l.src /\ wake'[t].ready \cap Interests(o, l.src)' # {}
        BY <2>3, <2>4, <4>1, <4>3
      <4>. QED  BY <2>3, <4>4 DEF WillTake, At
    <3>3. ASSUME NEW o \in Observers, NEW l \in Leases(o)', NEW u \in Tasks, WillTake(u, o, l.src)
          PROVE  WillTake(u, o, l.src)'
      <4>1. o \in Tasks /\ l.src \in Sources
        BY <2>3 DEF Tasks
      <4>2. u # t
        BY <1>1, <3>3 DEF WillTake, At
      <4>3. task'[u] = task[u] /\ wake'[u] = wake[u]
        BY <2>3, <2>4, <4>2
      <4>. QED  BY <2>3, <3>3, <4>1, <4>3 DEF WillTake, At
    <3>. QED  BY <1>2, <3>1, <3>2, <3>3, ObserverKept DEF EventInv
  <2>. QED  BY <1>1, <1>4, <2>1, <2>2, <2>4, <2>7, <2>8, <2>9, <2>10, <2>11, TransactionStep DEF r
<1>. QED  BY <1>5, <1>6

LEMMA FireStep ==
    ASSUME EventInv, NEW t \in Tasks, Fire(t)
    PROVE  EventInv'
<1> DEFINE c == Chosen(wake[t])
<1>1. /\ task[t].pc = "fire" /\ woken' = [woken EXCEPT ![c] = ~At(c, "done")] /\ Goto(t, "select")
      /\ UNCHANGED <<count, set, lease, wake, aborted>>
  BY DEF Fire, At
<1>2. Legal(t, task[t]) /\ PlaceAt(t) /\ EventTypes /\ WakeAt(t)
  BY WaitFacts DEF EventInv, WakeInv
<1>3. c \in Tasks
  <2>1. wake[t].chosen \in Seq(Tasks) /\ wake[t].chosen # <<>>
    <3>1. wake[t] \in WakeRec
      BY <1>2 DEF EventTypes
    <3>. QED  BY <1>1, <1>2, <3>1 DEF WakeRec, WakeAt
  <2>. QED  BY <2>1, SMTT(30) DEF Chosen
<1> HIDE DEF c
<1>4. woken' \in [Tasks -> BOOLEAN] /\ (~At(c, "done") => woken'[c]) /\ \A u \in Tasks \ {c} : woken'[u] = woken[u]
  BY <1>1, <1>2, <1>3 DEF EventTypes
<1>5. "select" \in Pcs
  BY DEF Pcs
<1>6. /\ \A s \in Sources : Held(s)' = Held(s)
      /\ \A u \in Tasks : Leases(u)' = Leases(u)
      /\ \A u \in Tasks : \A s \in Sources : Interests(u, s)' = Interests(u, s)
      /\ task'[t].pc = "select" /\ \A u \in Tasks \ {t} : task'[u] = task[u]
      /\ \A o \in Observers : \A l \in Leases(o) : o \in Tasks /\ l.src \in Sources
  BY <1>1, <1>5, TransactionFrame
<1> DEFINE r == [task[t] EXCEPT !.pc = "select"]
<1>7. task'[t] = r /\ r.pc = "select" /\ r.op = task[t].op /\ r.events = task[t].events
  BY <1>1, GotoFacts
<1> HIDE DEF r
<1>8. Legal(t, r)
  BY <1>1, <1>2, <1>7 DEF Legal
<1>9. PlaceAt(t)'
  BY <1>1, <1>2, <1>7 DEF PlaceAt, Waits
<1>10. WakeAt(t)'
  BY <1>1, <1>2, <1>6 DEF WakeAt, Held
<1>11. NotifiedInv'
  <2> SUFFICES ASSUME NEW u \in Tasks, task'[u].pc \in Waits, \E l \in Leases(u)' : l.notified
               PROVE  woken'[u] \/ \E v \in Tasks : At(v, "fire")' /\ Chosen(wake'[v]) = u
    BY DEF NotifiedInv, Chosen
  <2>1. u # t /\ task[u].pc \in Waits /\ \E l \in Leases(u) : l.notified
    BY <1>6 DEF Waits
  <2>2. CASE u = c
    BY <1>4, <2>1, <2>2 DEF At, Waits
  <2>3. CASE u # c
    <3>1. woken[u] \/ \E v \in Tasks : At(v, "fire") /\ Chosen(wake[v]) = u
      BY <2>1 DEF EventInv, NotifiedInv
    <3>2. \A v \in Tasks : At(v, "fire") /\ Chosen(wake[v]) = u => v # t
      BY <2>3 DEF c
    <3>3. \A v \in Tasks : At(v, "fire") /\ v # t => At(v, "fire")' /\ wake'[v] = wake[v]
      BY <1>1, <1>6 DEF At
    <3>. QED  BY <1>4, <2>3, <3>1, <3>2, <3>3
  <2>. QED  BY <2>2, <2>3
<1>12. ObserverInv'
  <2>1. Undisturbed' => Undisturbed
    BY <1>1, <1>5, UndisturbedBefore
  <2>2. PollEvents' = PollEvents
    BY <1>1 DEF PollEvents
  <2>3. \A o \in Observers : task'[o].pc \in {"pending", "parked"} => task[o].pc \in {"pending", "parked"}
    BY <1>6 DEF Tasks
  <2>4. ASSUME NEW o \in Observers, NEW l \in Leases(o), NEW u \in Tasks, WillTake(u, o, l.src)
        PROVE  WillTake(u, o, l.src)'
    <3>1. o \in Tasks /\ l.src \in Sources
      BY <1>6
    <3>2. \/ At(u, "boundary") /\ At(u, "boundary")'
          \/ task[u].pc \in {"select", "fire"} /\ task'[u].pc \in {"select", "fire"}
      BY <1>1, <1>6, <2>4 DEF WillTake, At
    <3>. QED  BY <1>1, <1>6, <2>4, <3>1, <3>2 DEF WillTake, At
  <2>. QED  BY <1>2, <1>6, <2>1, <2>2, <2>3, <2>4, ObserverKept DEF EventInv, Tasks
<1>13. count' \in 0 .. MaxCount /\ wake' \in [Tasks -> WakeRec] /\ \A u \in Tasks \ {t} : wake'[u] = wake[u]
  BY <1>1, <1>2 DEF EventTypes
<1>. QED  BY <1>1, <1>4, <1>5, <1>8, <1>9, <1>10, <1>11, <1>12, <1>13, TransactionStep DEF r

LEMMA EndWakeStep ==
    ASSUME EventInv, NEW t \in Tasks, EndWake(t)
    PROVE  EventInv'
<1> DEFINE p == Finished(t)
           w == wake[t]
<1>1. /\ task[t].pc = "select" /\ NextEntry(w) = 0 /\ Goto(t, p) /\ wake' = [wake EXCEPT ![t] = NoWake]
      /\ UNCHANGED <<count, set, lease, woken, aborted>>
  BY DEF EndWake, At
<1>2. Legal(t, task[t]) /\ PlaceAt(t) /\ EventTypes /\ task[t] \in TaskRec
  BY WaitFacts DEF EventInv
<1>3. task[t].op \in {"read", "write", "poll"} \/ lease[t] = <<>>
  <2>1. task[t].op \in Ops /\ task[t].op # "none"
    BY <1>1, <1>2 DEF TaskRec, Legal
  <2>. QED  BY <1>2, <2>1 DEF Ops, PlaceAt
<1>4. p \in {"clear", "done"} /\ PlaceAt(t)' /\ Legal(t, [task[t] EXCEPT !.pc = p])
  BY <1>1, <1>3, FinishedPlace
<1>5. p \in Pcs
  BY <1>4 DEF Pcs
<1> HIDE DEF p
<1>6. /\ \A s \in Sources : Held(s)' = Held(s)
      /\ \A u \in Tasks : Leases(u)' = Leases(u)
      /\ \A u \in Tasks : \A s \in Sources : Interests(u, s)' = Interests(u, s)
      /\ task'[t].pc = p /\ \A u \in Tasks \ {t} : task'[u] = task[u]
      /\ \A o \in Observers : \A l \in Leases(o) : o \in Tasks /\ l.src \in Sources
  BY <1>1, <1>5, TransactionFrame
<1>7. NoWake \in WakeRec /\ NoWake.chosen = <<>> /\ NoWake.boundary = 0 /\ NoWake.src \in Sources
  <2>1. <<>> \in Seq(Tasks) /\ 0 \in Nat
    BY SMTT(30)
  <2>. QED  BY <2>1 DEF NoWake, WakeRec, Sources
<1>8. wake' \in [Tasks -> WakeRec] /\ wake'[t] = NoWake /\ \A u \in Tasks \ {t} : wake'[u] = wake[u]
  BY <1>1, <1>2, <1>7 DEF EventTypes
<1>9. WakeAt(t)'
  <2>1. Range(NoWake.chosen) = {} /\ IsInjective(NoWake.chosen)
    BY <1>7, SMTT(30) DEF Range, IsInjective
  <2>2. set[NoWake.src] \in Queue
    BY <1>2, <1>7 DEF EventTypes
  <2>3. NoWake.boundary <= set[NoWake.src].nextId
    BY <1>7, <2>2, SMTT(30) DEF Queue
  <2>. QED  BY <1>1, <1>4, <1>6, <1>7, <1>8, <2>1, <2>3 DEF WakeAt
<1>10. NotifiedInv'
  <2>1. \A u \in Tasks : task'[u].pc \in Waits => task[u].pc \in Waits
    BY <1>4, <1>6 DEF Waits
  <2>2. \A u \in Tasks : At(u, "fire") => At(u, "fire")' /\ wake'[u] = wake[u]
    BY <1>1, <1>6, <1>8 DEF At
  <2>. QED  BY <1>1, <1>6, <2>1, <2>2, NotifiedKept DEF EventInv
<1>11. ASSUME NEW o \in Observers, NEW l \in Leases(o), ~l.notified
       PROVE  ~WillTake(t, o, l.src)
  <2> SUFFICES ASSUME WillTake(t, o, l.src) PROVE FALSE
    OBVIOUS
  <2>1. o \in Tasks /\ l.src \in Sources /\ w.src = l.src
    BY <1>6 DEF WillTake
  <2>2. PICK e \in Held(l.src) : e.id = l.id /\ e.task = o
    BY <1>11, <2>1 DEF EventInv, PairInv
  <2>3. e.id < w.boundary
    BY <1>1, <2>2 DEF WillTake, At
  <2>4. e.interests \cap w.ready # {} /\ e.mode = "Shared"
    BY <2>1, <2>2 DEF EventInv, PairInv, WillTake, Mode
  <2>5. set[w.src] \in Queue
    BY <1>2, <2>1 DEF EventTypes
  <2>6. \A f \in Held(w.src) : ~Selects(f, w.ready, w.boundary, w.exclusive)
    BY <1>1, <2>5, NextMatchingView DEF NextEntry, Held
  <2>. QED  BY <2>1, <2>2, <2>3, <2>4, <2>6 DEF Selects
<1>12. ObserverInv'
  <2>1. Undisturbed' => Undisturbed
    BY <1>1, <1>5, UndisturbedBefore
  <2>2. PollEvents' = PollEvents
    BY <1>1 DEF PollEvents
  <2>3. \A o \in Observers : task'[o].pc \in {"pending", "parked"} => task[o].pc \in {"pending", "parked"}
    BY <1>4, <1>6 DEF Tasks
  <2>4. ASSUME NEW o \in Observers, NEW l \in Leases(o), NEW u \in Tasks, ~l.notified, WillTake(u, o, l.src)
        PROVE  WillTake(u, o, l.src)'
    <3>1. o \in Tasks /\ l.src \in Sources
      BY <1>6
    <3>2. u # t
      BY <1>11, <2>4
    <3>3. task'[u] = task[u] /\ wake'[u] = wake[u]
      BY <1>6, <1>8, <3>2
    <3>. QED  BY <1>6, <2>4, <3>1, <3>3 DEF WillTake, At
  <2>. QED  BY <1>2, <1>6, <2>1, <2>2, <2>3, <2>4, ObserverKept DEF EventInv, Tasks
<1>13. count' \in 0 .. MaxCount /\ woken' \in [Tasks -> BOOLEAN]
  BY <1>1, <1>2 DEF EventTypes
<1>. QED  BY <1>1, <1>4, <1>5, <1>8, <1>9, <1>10, <1>12, <1>13, TransactionStep

-----------------------------------------------------------------------------
(* Registration and cancellation *)

(* What a step of t on the queues may bring: entries of t with new ids, and *)
(* leases of t.  Leases of the other calls stay or are notified.            *)
QueueStep(t) ==
    /\ \A s \in Sources : \A e \in Held(s)' :
         e \in Held(s) \/ (e.task = t /\ e.id \in Nat /\ e.id >= set[s].nextId)
    /\ \A u \in Tasks : \A l \in Leases(u)' : ~l.notified => l \in Leases(u) \/ u = t

LEMMA RegisterStep ==
    ASSUME EventInv, NEW t \in Tasks, Register(t)
    PROVE  EventInv' /\ QueueStep(t)
<1> DEFINE place == SourcesOf(t)[Len(lease[t]) + 1]
           p == IF Len(lease[t]) + 1 = Len(SourcesOf(t)) THEN "retry" ELSE "register"
<1>0. /\ EventTypes /\ CallsLegal /\ PlaceInv /\ IdInv /\ PairInv
      /\ WakeInv /\ NotifiedInv /\ ObserverInv
  BY DEF EventInv
<1>1. /\ task[t].pc = "register" /\ Goto(t, p)
      /\ UNCHANGED <<count, wake, woken, aborted>>
  BY DEF Register, At
<1>2. Legal(t, task[t]) /\ PlaceAt(t) /\ lease[t] \in Seq(Lease)
  BY WaitFacts
<1>3. task[t].op \in {"read", "write", "poll"}
  BY <1>1, <1>2 DEF Legal
<1>4. /\ SourcesOf(t) \in Seq(Sources) /\ Len(SourcesOf(t)) \in {1, 2}
      /\ \A j, k \in 1 .. Len(SourcesOf(t)) : SourcesOf(t)[j] = SourcesOf(t)[k] => j = k
      /\ \A j \in 1 .. Len(SourcesOf(t)) : Interests(t, SourcesOf(t)[j]) # {}
  BY <1>3, SourcesFacts
<1>5. Len(lease[t]) \in Nat /\ Len(lease[t]) < Len(SourcesOf(t))
  BY <1>1, <1>2, SMTT(30) DEF PlaceAt
<1>6. PICK src \in Sources : src = place /\ Interests(t, src) # {}
  <2>1. Len(lease[t]) + 1 \in 1 .. Len(SourcesOf(t))
    BY <1>4, <1>5, SMTT(30)
  <2>. QED  BY <1>4, <2>1, SeqRange, SMTT(30)
<1> DEFINE q == set[src]
           m == [src |-> src, id |-> q.nextId, notified |-> FALSE]
           e == [id |-> q.nextId, task |-> t, interests |-> Interests(t, src), mode |-> Mode(t)]
<1>moves. /\ set' = [set EXCEPT ![src] = Registered(q, t, Interests(t, src), Mode(t))]
      /\ lease' = [lease EXCEPT ![t] = Append(lease[t], m)]
  BY <1>6 DEF Register
<1> HIDE DEF place
<1>7. /\ q \in Queue /\ q.nextId \in Nat /\ UniqueIds(q) /\ \A f \in Range(q.entries) : f.id < q.nextId
  <2>1. q \in Queue
    BY <1>0, <1>6 DEF EventTypes
  <2>. QED  BY <1>0, <1>6, <2>1 DEF IdInv, UniqueIds, Held, Queue
<1>8. Interests(t, src) \in SUBSET Events /\ Mode(t) \in Modes
  <2>1. task[t].events \in SUBSET Events
    BY WaitFacts DEF TaskRec
  <2>. QED  BY <2>1 DEF Interests, Mode, Modes
<1> DEFINE r == Registered(q, t, Interests(t, src), Mode(t))
<1>9. /\ r \in Queue /\ r.nextId = q.nextId + 1 /\ UniqueIds(r)
      /\ e \in Entry /\ Range(r.entries) = Range(q.entries) \cup {e}
  BY <1>7, <1>8, RegisteredView, SMTT(30)
<1>10. set' = [set EXCEPT ![src] = r]
  BY <1>moves
<1>11. /\ m \in Lease /\ m.src = src /\ m.id = q.nextId /\ ~m.notified
       /\ e.id = q.nextId /\ e.task = t /\ e.interests = Interests(t, src) /\ e.mode = Mode(t)
  BY <1>6, <1>7 DEF Lease
<1>12. p \in {"retry", "register"} /\ (p = "retry" <=> Len(lease[t]) + 1 = Len(SourcesOf(t)))
  OBVIOUS
<1> HIDE DEF r, p, m, e
<1>13. p \in Pcs
  BY <1>12 DEF Pcs
<1>14. /\ task' \in [Tasks -> TaskRec]
       /\ task'[t].pc = p /\ task'[t].op = task[t].op /\ task'[t].events = task[t].events
       /\ \A u \in Tasks \ {t} : task'[u] = task[u]
       /\ \A u \in Tasks : SourcesOf(u)' = SourcesOf(u)
       /\ \A u \in Tasks : \A s \in Sources : Interests(u, s)' = Interests(u, s)
       /\ CallsLegal'
  <2> DEFINE n == [task[t] EXCEPT !.pc = p]
  <2>1. n.pc = p /\ n.op = task[t].op /\ n.events = task[t].events
    BY <1>1, GotoFacts
  <2> HIDE DEF n
  <2>2. Legal(t, n)
    BY <1>2, <1>3, <1>12, <2>1 DEF Legal
  <2>. QED  BY <1>0, <1>1, <1>13, <2>2, TaskMove DEF n
<1>15. /\ set' \in [Sources -> Queue] /\ set'[src] = r
       /\ \A s \in Sources \ {src} : set'[s] = set[s]
  BY <1>0, <1>6, <1>9, <1>10 DEF EventTypes
<1>16. /\ Held(src)' = Held(src) \cup {e} /\ \A s \in Sources \ {src} : Held(s)' = Held(s)
  BY <1>9, <1>15 DEF Held
<1>17. /\ lease' \in [Tasks -> Seq(Lease)]
       /\ Len(lease'[t]) = Len(lease[t]) + 1
       /\ \A j \in 1 .. Len(lease[t]) : lease'[t][j] = lease[t][j]
       /\ lease'[t][Len(lease[t]) + 1] = m
       /\ Leases(t)' = Leases(t) \cup {m}
       /\ \A u \in Tasks \ {t} : lease'[u] = lease[u] /\ Leases(u)' = Leases(u)
  <2> DEFINE a == Append(lease[t], m)
  <2>1. /\ a \in Seq(Lease) /\ Len(a) = Len(lease[t]) + 1 /\ Range(a) = Range(lease[t]) \cup {m}
        /\ \A j \in 1 .. Len(lease[t]) : a[j] = lease[t][j]
        /\ a[Len(a)] = m
    BY <1>2, <1>11, AppendRange, SMTT(30)
  <2>2. lease' = [lease EXCEPT ![t] = a]
    BY <1>moves
  <2> HIDE DEF a
  <2>3. lease' \in [Tasks -> Seq(Lease)] /\ lease'[t] = a /\ \A u \in Tasks \ {t} : lease'[u] = lease[u]
    BY <1>0, <2>1, <2>2 DEF EventTypes
  <2>. QED  BY <2>1, <2>3 DEF Leases
<1> HIDE DEF q
<1>18. EventTypes'
  BY <1>0, <1>1, <1>14, <1>15, <1>17 DEF EventTypes
<1>19. PlaceInv'
  <2>1. \A j \in 1 .. Len(lease'[t]) : lease'[t][j].src = SourcesOf(t)[j]
    <3>0. m.src = SourcesOf(t)[Len(lease[t]) + 1]
      BY <1>6, <1>11 DEF place
    <3>1. \A j \in 1 .. Len(lease[t]) : lease[t][j].src = SourcesOf(t)[j]
      BY <1>1, <1>2 DEF PlaceAt, Waits
    <3>2. \A j \in 1 .. Len(lease'[t]) : j \in 1 .. Len(lease[t]) \/ j = Len(lease[t]) + 1
      BY <1>5, <1>17, SMTT(30)
    <3>. QED  BY <1>17, <3>0, <3>1, <3>2
  <2>2. \A j \in 1 .. Len(lease'[t]) : j \in 1 .. Len(SourcesOf(t))
    BY <1>4, <1>5, <1>17, SMTT(30)
  <2>3. \A j, k \in 1 .. Len(lease'[t]) : lease'[t][j].src = lease'[t][k].src => j = k
    BY <1>4, <2>1, <2>2, SMTT(30)
  <2>4. p = "register" => Len(lease'[t]) < Len(SourcesOf(t))
    BY <1>4, <1>5, <1>12, <1>17, SMTT(30)
  <2>5. p = "retry" => Len(lease'[t]) = Len(SourcesOf(t))
    BY <1>12, <1>17
  <2>6. PlaceAt(t)'
    BY <1>3, <1>12, <1>14, <2>1, <2>3, <2>4, <2>5 DEF PlaceAt, Waits
  <2>7. ASSUME NEW u \in Tasks \ {t} PROVE PlaceAt(u)'
    <3>1. PlaceAt(u) /\ task'[u] = task[u] /\ lease'[u] = lease[u] /\ SourcesOf(u)' = SourcesOf(u)
      BY <1>0, <1>14, <1>17 DEF PlaceInv
    <3>. QED  BY <3>1 DEF PlaceAt
  <2>. QED  BY <2>6, <2>7 DEF PlaceInv
<1>20. \A u \in Tasks : \A l \in Leases(u) : l.src \in Sources /\ l.id \in Nat /\ l.id < set[l.src].nextId
  <2>1. \A u \in Tasks : \A l \in Leases(u) : l \in Lease
    BY <1>0, SeqRange DEF EventTypes, Leases
  <2>. QED  BY <1>0, <2>1 DEF IdInv, Lease
<1>21. \A s \in Sources : /\ set[s].nextId \in Nat /\ set'[s].nextId \in Nat
                          /\ set'[s].nextId >= set[s].nextId
                          /\ \A n \in Nat : n < set[s].nextId => n < set'[s].nextId
  <2>1. \A s \in Sources : set[s].nextId \in Nat /\ set'[s].nextId \in Nat
    BY <1>0, <1>15 DEF EventTypes, Queue
  <2>2. \A s \in Sources : set'[s].nextId = set[s].nextId \/ set'[s].nextId = set[s].nextId + 1
    BY <1>9, <1>15 DEF q
  <2>. QED  BY <2>1, <2>2, SMTT(30)
<1>22. \A s \in Sources : \A f \in Held(s) : f.id \in Nat /\ f.id < set[s].nextId /\ f.task \in Tasks
  <2>1. \A s \in Sources : \A f \in Held(s) : f \in Entry
    BY <1>0, SeqRange DEF EventTypes, Queue, Held
  <2>. QED  BY <1>0, <2>1 DEF IdInv, Entry
<1>23. \A u \in Tasks : \A l \in Leases(u) : ~(l.src = m.src /\ l.id = m.id)
  <2> SUFFICES ASSUME NEW u \in Tasks, NEW l \in Leases(u), l.src = src, l.id = q.nextId PROVE FALSE
    BY <1>11
  <2>1. q.nextId < q.nextId
    BY <1>20 DEF q
  <2>. QED  BY <1>7, <2>1, SMTT(30)
<1>24. q.nextId < r.nextId
  BY <1>7, <1>9, SMTT(30)
<1>25. IdInv'
  <2>1. ASSUME NEW s \in Sources
        PROVE  /\ \A i, j \in 1 .. Len(set'[s].entries) :
                    set'[s].entries[i].id = set'[s].entries[j].id => i = j
               /\ \A f \in Held(s)' : f.id < set'[s].nextId
    <3>1. CASE s = src
      BY <1>9, <1>11, <1>15, <1>16, <1>21, <1>22, <1>24, <3>1 DEF UniqueIds
    <3>2. CASE s # src
      BY <1>0, <1>15, <1>16, <3>2 DEF IdInv
    <3>. QED  BY <3>1, <3>2
  <2>2. ASSUME NEW u \in Tasks, NEW l \in Leases(u)'
        PROVE  l.id < set'[l.src].nextId
    <3>1. CASE l \in Leases(u)
      BY <1>20, <1>21, <3>1
    <3>2. CASE l = m
      BY <1>11, <1>15, <1>24, <3>2
    <3>. QED  BY <1>17, <3>1, <3>2
  <2>3. ASSUME NEW u \in Tasks, NEW v \in Tasks, NEW l \in Leases(u)', NEW k \in Leases(v)',
               l.src = k.src, l.id = k.id
        PROVE  u = v
    <3>1. (l \in Leases(u) \/ (u = t /\ l = m)) /\ (k \in Leases(v) \/ (v = t /\ k = m))
      BY <1>17
    <3>2. CASE l \in Leases(u) /\ k \in Leases(v)
      BY <1>0, <2>3, <3>2 DEF IdInv
    <3>. QED  BY <1>23, <2>3, <3>1, <3>2
  <2>. QED  BY <2>1, <2>2, <2>3 DEF IdInv
<1>26. PairInv'
  <2>1. ASSUME NEW s \in Sources, NEW f \in Held(s)'
        PROVE  /\ [src |-> s, id |-> f.id, notified |-> FALSE] \in Leases(f.task)'
               /\ f.interests = Interests(f.task, s)' /\ f.interests # {}
               /\ f.mode = Mode(f.task)'
    <3>1. CASE f \in Held(s)
      <4>1. /\ [src |-> s, id |-> f.id, notified |-> FALSE] \in Leases(f.task)
            /\ f.interests = Interests(f.task, s) /\ f.interests # {} /\ f.mode = Mode(f.task)
        BY <1>0, <3>1 DEF PairInv
      <4>2. f.task \in Tasks
        BY <1>22, <3>1
      <4>. QED  BY <1>14, <1>17, <4>1, <4>2 DEF Mode
    <3>2. CASE s = src /\ f = e
      <4>1. [src |-> s, id |-> f.id, notified |-> FALSE] = m
        BY <1>11, <3>2 DEF m
      <4>. QED  BY <1>6, <1>11, <1>14, <1>17, <3>2, <4>1 DEF Mode
    <3>. QED  BY <1>16, <3>1, <3>2
  <2>2. ASSUME NEW u \in Tasks, NEW l \in Leases(u)', ~l.notified
        PROVE  \E f \in Held(l.src)' : f.id = l.id /\ f.task = u
    <3>1. CASE l \in Leases(u)
      <4>1. PICK f \in Held(l.src) : f.id = l.id /\ f.task = u
        BY <1>0, <2>2, <3>1 DEF PairInv
      <4>2. f \in Held(l.src)'
        BY <1>16, <1>20, <3>1
      <4>. QED  BY <4>1, <4>2
    <3>2. CASE u = t /\ l = m
      BY <1>6, <1>11, <1>16, <3>2
    <3>. QED  BY <1>17, <3>1, <3>2
  <2>. QED  BY <2>1, <2>2 DEF PairInv
<1>27. WakeInv'
  <2> SUFFICES ASSUME NEW u \in Tasks PROVE WakeAt(u)'
    BY DEF WakeInv
  <2>1. WakeAt(u) /\ wake'[u] = wake[u]
    BY <1>0, <1>1 DEF WakeInv
  <2>2. /\ task'[u].pc \notin {"select", "fire"} => wake[u].chosen = <<>>
        /\ task'[u].pc = "fire" => wake[u].chosen # <<>>
    BY <1>1, <1>12, <1>14, <2>1 DEF WakeAt
  <2>3. \A s \in Sources : \A f \in Held(s)' : f.id \in Nat /\ (f \in Held(s) \/ f.id >= set[s].nextId)
    <3>1. q.nextId >= q.nextId
      BY <1>7, SMTT(30)
    <3>. QED  BY <1>7, <1>11, <1>16, <1>22, <3>1 DEF q
  <2>. QED  BY <1>0, <1>21, <2>1, <2>2, <2>3, WakeKept
<1>28. NotifiedInv'
  <2>1. \A u \in Tasks : task'[u].pc \in Waits /\ (\E l \in Leases(u)' : l.notified) =>
          /\ task[u].pc \in Waits /\ (\E l \in Leases(u) : l.notified)
          /\ woken'[u] = woken[u]
    <3> SUFFICES ASSUME NEW u \in Tasks, task'[u].pc \in Waits, NEW l \in Leases(u)', l.notified
                 PROVE  task[u].pc \in Waits /\ l \in Leases(u)
      BY <1>1
    <3>1. CASE u = t
      <4>1. task[t].pc \in Waits
        BY <1>1 DEF Waits
      <4>2. l \in Leases(t) \cup {m} /\ l # m
        BY <1>11, <1>17, <3>1
      <4>. QED  BY <3>1, <4>1, <4>2
    <3>2. CASE u # t
      BY <1>14, <1>17, <3>2
    <3>. QED  BY <3>1, <3>2
  <2>2. \A u \in Tasks : At(u, "fire") => At(u, "fire")' /\ wake'[u] = wake[u]
    BY <1>1, <1>14 DEF At
  <2>. QED  BY <1>0, <2>1, <2>2, NotifiedKept
<1>29. ObserverInv'
  <2>1. Undisturbed' => Undisturbed
    BY <1>1, <1>13, UndisturbedBefore
  <2>2. PollEvents' = PollEvents
    BY <1>1 DEF PollEvents
  <2>3. \A o \in Observers : o \in Tasks
    BY DEF Tasks
  <2>4. \A o \in Observers : task'[o].pc \in {"pending", "parked"} => o # t
    BY <1>12, <1>14
  <2>5. \A o \in Observers : task[o].pc \in {"pending", "parked"} => o # t
    BY <1>1
  <2>6. \A o \in Observers \ {t} : /\ Leases(o)' = Leases(o) /\ task'[o] = task[o]
                                   /\ \A l \in Leases(o) : Interests(o, l.src)' = Interests(o, l.src)
    BY <1>14, <1>17, <1>20, <2>3
  <2>7. ASSUME NEW o \in Observers \ {t}, NEW l \in Leases(o), NEW u \in Tasks, WillTake(u, o, l.src)
        PROVE  WillTake(u, o, l.src)'
    <3>1. u # t
      BY <1>1, <2>7 DEF WillTake, At
    <3>2. task'[u] = task[u] /\ wake'[u] = wake[u]
      BY <1>1, <1>14, <3>1
    <3>3. \A f \in Held(l.src)' : f.task = o => f \in Held(l.src)
      BY <1>11, <1>16, <1>20, <2>3
    <3>. QED  BY <2>6, <2>7, <3>2, <3>3 DEF WillTake, At
  <2>. QED  BY <1>0, <2>1, <2>2, <2>4, <2>5, <2>6, <2>7, ObserverKept
<1>30. QueueStep(t)
  <2>1. e.id \in Nat /\ e.id >= set[src].nextId
    <3>1. e.id = set[src].nextId /\ set[src].nextId \in Nat
      BY <1>7, <1>11 DEF q
    <3>. QED  BY <3>1, SMTT(30)
  <2>. QED  BY <1>11, <1>16, <1>17, <2>1 DEF QueueStep
<1>. QED  BY <1>14, <1>18, <1>19, <1>25, <1>26, <1>27, <1>28, <1>29, <1>30 DEF EventInv

LEMMA DropLeaseStep ==
    ASSUME EventInv, NEW t \in Tasks, DropLease(t)
    PROVE  EventInv' /\ QueueStep(t)
<1> DEFINE p == IF Len(lease[t]) > 1 THEN task[t].pc
                ELSE IF At(t, "reset") THEN "try" ELSE "done"
<1>0. /\ EventTypes /\ CallsLegal /\ PlaceInv /\ IdInv /\ PairInv
      /\ WakeInv /\ NotifiedInv /\ ObserverInv
  BY DEF EventInv
<1>1. /\ task[t].pc \in {"reset", "clear"} /\ Goto(t, p)
      /\ UNCHANGED <<count, wake, woken, aborted>>
  BY DEF DropLease
<1>2. Legal(t, task[t]) /\ PlaceAt(t) /\ lease[t] \in Seq(Lease)
  BY WaitFacts
<1>3. /\ task[t].op \in {"read", "write", "poll"} /\ lease[t] # <<>>
      /\ \A j, k \in 1 .. Len(lease[t]) : lease[t][j].src = lease[t][k].src => j = k
  BY <1>1, <1>2 DEF Legal, PlaceAt
<1>4. /\ Tail(lease[t]) \in Seq(Lease) /\ Len(Tail(lease[t])) = Len(lease[t]) - 1
      /\ Range(Tail(lease[t])) = Range(lease[t]) \ {Head(lease[t])}
      /\ \A i \in 1 .. Len(Tail(lease[t])) : Tail(lease[t])[i] = lease[t][i + 1]
      /\ Head(lease[t]) \in Range(lease[t])
  BY <1>2, <1>3, TailRange
<1>5. Len(lease[t]) \in Nat \ {0}
  BY <1>2, <1>3, SMTT(30)
<1>6. PICK l \in Leases(t) : l = Head(lease[t])
  BY <1>4 DEF Leases
<1>7. l \in Lease /\ l.src \in Sources /\ l.id \in Nat
  BY <1>0, Elements
<1>8. PICK src \in Sources : src = l.src
  BY <1>7
<1> DEFINE q == set[src]
           r == Unregistered(q, l.id)
<1>9. set' = [set EXCEPT ![src] = r] /\ lease' = [lease EXCEPT ![t] = Tail(lease[t])]
  BY <1>6, <1>8 DEF DropLease
<1>10. q \in Queue /\ UniqueIds(q)
  BY <1>0 DEF EventTypes, IdInv, UniqueIds
<1>11. /\ r \in Queue /\ r.nextId = q.nextId /\ UniqueIds(r)
       /\ Range(r.entries) = {f \in Range(q.entries) : f.id # l.id}
  BY <1>10, UnregisteredView
<1>12. /\ p \in {"reset", "clear", "try", "done"}
       /\ p \in {"reset", "clear"} => Len(lease[t]) > 1
       /\ p \in {"try", "done"} => ~(Len(lease[t]) > 1)
       /\ task[t].pc = "clear" => p \in {"clear", "done"}
  BY <1>1 DEF At
<1> HIDE DEF p, r, q
<1>13. p \in Pcs
  BY <1>12 DEF Pcs
<1>14. /\ task' \in [Tasks -> TaskRec]
       /\ task'[t].pc = p /\ task'[t].op = task[t].op
       /\ \A u \in Tasks \ {t} : task'[u] = task[u]
       /\ \A u \in Tasks : SourcesOf(u)' = SourcesOf(u)
       /\ \A u \in Tasks : \A s \in Sources : Interests(u, s)' = Interests(u, s)
       /\ CallsLegal'
  <2> DEFINE n == [task[t] EXCEPT !.pc = p]
  <2>1. n.pc = p /\ n.op = task[t].op /\ n.events = task[t].events
    BY <1>1, GotoFacts
  <2> HIDE DEF n
  <2>2. Legal(t, n)
    BY <1>2, <1>3, <1>12, <2>1 DEF Legal
  <2>. QED  BY <1>0, <1>1, <1>13, <2>2, TaskMove DEF n
<1>15. /\ set' \in [Sources -> Queue] /\ set'[src] = r
       /\ \A s \in Sources \ {src} : set'[s] = set[s]
  BY <1>0, <1>9, <1>11 DEF EventTypes
<1>16. /\ Held(src)' = {f \in Held(src) : f.id # l.id}
       /\ \A s \in Sources \ {src} : Held(s)' = Held(s)
  BY <1>11, <1>15 DEF Held, q
<1>17. /\ lease' \in [Tasks -> Seq(Lease)] /\ lease'[t] = Tail(lease[t])
       /\ Leases(t)' = Leases(t) \ {l}
       /\ \A u \in Tasks \ {t} : lease'[u] = lease[u] /\ Leases(u)' = Leases(u)
  <2>1. lease' \in [Tasks -> Seq(Lease)] /\ lease'[t] = Tail(lease[t])
        /\ \A u \in Tasks \ {t} : lease'[u] = lease[u]
    BY <1>0, <1>4, <1>9 DEF EventTypes
  <2>. QED  BY <1>4, <1>6, <2>1 DEF Leases
<1>18. EventTypes'
  BY <1>0, <1>1, <1>14, <1>15, <1>17 DEF EventTypes
<1>19. PlaceInv'
  <2>1. \A j \in 1 .. Len(lease'[t]) : j + 1 \in 1 .. Len(lease[t]) /\ lease'[t][j] = lease[t][j + 1]
    BY <1>4, <1>5, <1>17, SMTT(30)
  <2>2. \A j, k \in 1 .. Len(lease'[t]) : lease'[t][j].src = lease'[t][k].src => j = k
    <3> SUFFICES ASSUME NEW j \in 1 .. Len(lease'[t]), NEW k \in 1 .. Len(lease'[t]),
                        lease'[t][j].src = lease'[t][k].src
                 PROVE  j = k
      OBVIOUS
    <3>1. PICK a, b \in 1 .. Len(lease[t]) :
            a = j + 1 /\ b = k + 1 /\ lease'[t][j] = lease[t][a] /\ lease'[t][k] = lease[t][b]
      BY <2>1
    <3>2. a = b
      BY <1>3, <3>1
    <3>. QED  BY <3>1, <3>2, SMTT(30)
  <2>a. lease'[t] \in Seq(Lease) /\ Len(lease'[t]) = Len(lease[t]) - 1
    BY <1>4, <1>17
  <2>3. p \in {"reset", "clear"} => lease'[t] # <<>>
    BY <1>5, <1>12, <2>a, SMTT(30)
  <2>4. p \in {"try", "done"} => lease'[t] = <<>>
    BY <1>5, <1>12, <2>a, SMTT(30)
  <2>5. PlaceAt(t)'
    BY <1>3, <1>12, <1>14, <2>2, <2>3, <2>4 DEF PlaceAt, Waits
  <2>6. ASSUME NEW u \in Tasks \ {t} PROVE PlaceAt(u)'
    <3>1. PlaceAt(u) /\ task'[u] = task[u] /\ lease'[u] = lease[u] /\ SourcesOf(u)' = SourcesOf(u)
      BY <1>0, <1>14, <1>17 DEF PlaceInv
    <3>. QED  BY <3>1 DEF PlaceAt
  <2>. QED  BY <2>5, <2>6 DEF PlaceInv
<1>20. /\ \A u \in Tasks : \A m \in Leases(u)' : m \in Leases(u) /\ m.src \in Sources
       /\ \A s \in Sources : \A f \in Held(s)' : f \in Held(s) /\ f.id \in Nat /\ f.task \in Tasks
       /\ \A s \in Sources : set'[s].nextId = set[s].nextId /\ set[s].nextId \in Nat
  <2>1. \A u \in Tasks : \A m \in Leases(u)' : m \in Leases(u)
    BY <1>17
  <2>2. \A s \in Sources : \A f \in Held(s)' : f \in Held(s)
    BY <1>16
  <2>3. \A s \in Sources : set'[s].nextId = set[s].nextId
    BY <1>11, <1>15 DEF q
  <2>4. \A s \in Sources : set[s].nextId \in Nat
    BY <1>0 DEF EventTypes, Queue
  <2>. QED  BY <1>0, <2>1, <2>2, <2>3, <2>4, Elements
<1>21. IdInv'
  <2>1. ASSUME NEW s \in Sources, NEW i \in 1 .. Len(set'[s].entries), NEW j \in 1 .. Len(set'[s].entries),
               set'[s].entries[i].id = set'[s].entries[j].id
        PROVE  i = j
    <3>1. CASE s = src
      BY <1>11, <1>15, <2>1, <3>1 DEF UniqueIds
    <3>2. CASE s # src
      BY <1>0, <1>15, <2>1, <3>2 DEF IdInv
    <3>. QED  BY <3>1, <3>2
  <2>2. \A s \in Sources : \A f \in Held(s)' : f.id < set'[s].nextId
    BY <1>0, <1>20 DEF IdInv
  <2>3. \A u \in Tasks : \A m \in Leases(u)' : m.id < set'[m.src].nextId
    BY <1>0, <1>20 DEF IdInv
  <2>4. \A u, v \in Tasks : \A m \in Leases(u)', k \in Leases(v)' :
          m.src = k.src /\ m.id = k.id => u = v
    BY <1>0, <1>20 DEF IdInv
  <2>. QED  BY <2>1, <2>2, <2>3, <2>4 DEF IdInv
<1>22. \A m \in Leases(t) : m.src = src => m = l
  <2> SUFFICES ASSUME NEW m \in Leases(t), m.src = src PROVE m = l
    OBVIOUS
  <2>1. Leases(t) = {lease[t][i] : i \in 1 .. Len(lease[t])}
    BY <1>2, SeqRange DEF Leases
  <2>2. PICK i \in 1 .. Len(lease[t]), j \in 1 .. Len(lease[t]) : m = lease[t][i] /\ l = lease[t][j]
    BY <2>1
  <2>. QED  BY <1>3, <1>8, <2>2
<1>23. PairInv'
  <2>1. ASSUME NEW s \in Sources, NEW f \in Held(s)'
        PROVE  /\ [src |-> s, id |-> f.id, notified |-> FALSE] \in Leases(f.task)'
               /\ f.interests = Interests(f.task, s)' /\ f.interests # {}
               /\ f.mode = Mode(f.task)'
    <3> DEFINE m == [src |-> s, id |-> f.id, notified |-> FALSE]
    <3>1. f \in Held(s) /\ f.task \in Tasks
      BY <1>20
    <3>2. /\ m \in Leases(f.task)
          /\ f.interests = Interests(f.task, s) /\ f.interests # {} /\ f.mode = Mode(f.task)
      BY <1>0, <3>1 DEF PairInv
    <3>3. m.src = s /\ m.id = f.id
      OBVIOUS
    <3> HIDE DEF m
    <3>4. m # l
      BY <1>8, <1>16, <3>3
    <3>5. m \in Leases(f.task)'
      BY <1>17, <3>1, <3>2, <3>4
    <3>. QED  BY <1>14, <3>1, <3>2, <3>5 DEF Mode, m
  <2>2. ASSUME NEW u \in Tasks, NEW m \in Leases(u)', ~m.notified
        PROVE  \E f \in Held(m.src)' : f.id = m.id /\ f.task = u
    <3>1. m \in Leases(u) /\ m.src \in Sources
      BY <1>20
    <3>2. PICK f \in Held(m.src) : f.id = m.id /\ f.task = u
      BY <1>0, <2>2, <3>1 DEF PairInv
    <3>3. ~(m.src = src /\ m.id = l.id)
      <4> SUFFICES ASSUME m.src = src, m.id = l.id PROVE FALSE
        OBVIOUS
      <4>1. u = t
        BY <1>0, <1>8, <3>1 DEF IdInv
      <4>. QED  BY <1>17, <1>22, <3>1, <4>1
    <3>4. f \in Held(m.src)'
      BY <1>16, <3>1, <3>2, <3>3
    <3>. QED  BY <3>2, <3>4
  <2>. QED  BY <2>1, <2>2 DEF PairInv
<1>24. WakeInv'
  <2> SUFFICES ASSUME NEW u \in Tasks PROVE WakeAt(u)'
    BY DEF WakeInv
  <2>1. WakeAt(u) /\ wake'[u] = wake[u]
    BY <1>0, <1>1 DEF WakeInv
  <2>2. /\ task'[u].pc \notin {"select", "fire"} => wake[u].chosen = <<>>
        /\ task'[u].pc = "fire" => wake[u].chosen # <<>>
    BY <1>1, <1>12, <1>14, <2>1 DEF WakeAt
  <2>3. \A s \in Sources : set'[s].nextId >= set[s].nextId
    BY <1>20, SMTT(30)
  <2>. QED  BY <1>0, <1>20, <2>1, <2>2, <2>3, WakeKept
<1>25. NotifiedInv'
  <2>1. \A u \in Tasks : task'[u].pc \in Waits /\ (\E m \in Leases(u)' : m.notified) =>
          /\ task[u].pc \in Waits /\ (\E m \in Leases(u) : m.notified)
          /\ woken'[u] = woken[u]
    BY <1>1, <1>12, <1>14, <1>17 DEF Waits
  <2>2. \A u \in Tasks : At(u, "fire") => At(u, "fire")' /\ wake'[u] = wake[u]
    BY <1>1, <1>14 DEF At
  <2>. QED  BY <1>0, <2>1, <2>2, NotifiedKept
<1>26. ObserverInv'
  <2>1. Undisturbed' => Undisturbed
    <3>1. task[t].pc \in {"clear", "done"} => p \in {"clear", "done"}
      BY <1>1, <1>12
    <3>. QED  BY <1>1, <1>13, <3>1, UndisturbedBefore
  <2>2. PollEvents' = PollEvents
    BY <1>1 DEF PollEvents
  <2>3. \A o \in Observers : o \in Tasks
    BY DEF Tasks
  <2>4. \A o \in Observers : task'[o].pc \in {"pending", "parked"} => o # t
    BY <1>12, <1>14
  <2>5. \A o \in Observers \ {t} : /\ Leases(o)' = Leases(o) /\ task'[o] = task[o]
                                   /\ \A m \in Leases(o) : Interests(o, m.src)' = Interests(o, m.src)
    <3> SUFFICES ASSUME NEW o \in Observers \ {t}
                 PROVE  /\ Leases(o)' = Leases(o) /\ task'[o] = task[o]
                        /\ \A m \in Leases(o) : Interests(o, m.src)' = Interests(o, m.src)
      OBVIOUS
    <3>1. o \in Tasks \ {t}
      BY <2>3
    <3>2. \A m \in Leases(o) : m.src \in Sources
      BY <1>0, <3>1, Elements
    <3>. QED  BY <1>14, <1>17, <3>1, <3>2
  <2>6. ASSUME NEW o \in Observers, NEW m \in Leases(o)', NEW u \in Tasks, WillTake(u, o, m.src)
        PROVE  WillTake(u, o, m.src)'
    <3>1. u # t
      BY <1>1, <2>6 DEF WillTake, At
    <3>2. task'[u] = task[u] /\ wake'[u] = wake[u]
      BY <1>1, <1>14, <3>1
    <3>3. m.src \in Sources
      BY <1>20, <2>3
    <3>4. \A f \in Held(m.src)' : f \in Held(m.src)
      BY <1>20, <3>3
    <3>5. Interests(o, m.src)' = Interests(o, m.src)
      BY <1>14, <2>3, <3>3
    <3>. QED  BY <2>6, <3>2, <3>4, <3>5 DEF WillTake, At
  <2>. QED  BY <1>0, <2>1, <2>2, <2>4, <2>5, <2>6, ObserverKept
<1>27. QueueStep(t)
  BY <1>16, <1>17 DEF QueueStep
<1>. QED  BY <1>14, <1>18, <1>19, <1>21, <1>23, <1>24, <1>25, <1>26, <1>27 DEF EventInv

-----------------------------------------------------------------------------
(* Taking an entry *)

(* The lease of the entry `id` of `src` is marked as notified. *)
LEMMA Marked ==
    ASSUME NEW src, NEW id, NEW L \in Seq(Lease)
    PROVE  LET M == Notified(L, src, id) IN
           /\ M \in Seq(Lease) /\ Len(M) = Len(L)
           /\ \A j \in 1 .. Len(L) : M[j].src = L[j].src /\ M[j].id = L[j].id
           /\ \A m \in Range(M) : \E l \in Range(L) : l.src = m.src /\ l.id = m.id
           /\ \A m \in Range(M) : ~m.notified => m \in Range(L) /\ ~(m.src = src /\ m.id = id)
           /\ \A l \in Range(L) : ~(l.src = src /\ l.id = id) => l \in Range(M)
<1> DEFINE mark(l) == IF l.src = src /\ l.id = id THEN [l EXCEPT !.notified = TRUE] ELSE l
           M == [j \in DOMAIN L |-> mark(L[j])]
<1>1. Len(L) \in Nat /\ DOMAIN L = 1 .. Len(L) /\ \A j \in 1 .. Len(L) : L[j] \in Lease
  BY SeqRange
<1>2. ASSUME NEW l \in Lease
      PROVE  /\ mark(l) \in Lease /\ mark(l).src = l.src /\ mark(l).id = l.id
             /\ l.src = src /\ l.id = id => mark(l).notified
             /\ ~(l.src = src /\ l.id = id) => mark(l) = l
  <2>1. CASE l.src = src /\ l.id = id
    BY <2>1 DEF Lease
  <2>2. CASE ~(l.src = src /\ l.id = id)
    BY <2>2
  <2>. QED  BY <2>1, <2>2
<1> HIDE DEF mark
<1>3. M \in [1 .. Len(L) -> Lease] /\ \A j \in 1 .. Len(L) : M[j] = mark(L[j])
  BY <1>1, <1>2
<1>4. M \in Seq(Lease) /\ Len(M) = Len(L)
  BY <1>1, <1>3, SMTT(30)
<1> HIDE DEF M
<1>5. Range(M) = {M[j] : j \in 1 .. Len(L)} /\ Range(L) = {L[j] : j \in 1 .. Len(L)}
  BY <1>4, SeqRange, SMTT(30)
<1>6. \A j \in 1 .. Len(L) : M[j].src = L[j].src /\ M[j].id = L[j].id
  BY <1>1, <1>2, <1>3
<1>7. \A m \in Range(M) : ~m.notified => m \in Range(L) /\ ~(m.src = src /\ m.id = id)
  BY <1>1, <1>2, <1>3, <1>5, SMTT(30)
<1>8. \A l \in Range(L) : ~(l.src = src /\ l.id = id) => l \in Range(M)
  BY <1>1, <1>2, <1>3, <1>5, SMTT(30)
<1>9. \A m \in Range(M) : \E l \in Range(L) : l.src = m.src /\ l.id = m.id
  BY <1>5, <1>6
<1>. QED  BY <1>4, <1>6, <1>7, <1>8, <1>9 DEF M, mark, Notified

(* A call has one entry in a queue. *)
LEMMA OneEntry ==
    ASSUME EventInv, NEW s \in Sources, NEW e \in Held(s), NEW f \in Held(s), e.task = f.task
    PROVE  e.id = f.id
<1>1. PICK x \in Tasks : x = e.task
  BY Elements DEF EventInv
<1>2. /\ [src |-> s, id |-> e.id, notified |-> FALSE] \in Leases(x)
      /\ [src |-> s, id |-> f.id, notified |-> FALSE] \in Leases(x)
  BY <1>1 DEF EventInv, PairInv
<1>3. PICK k \in Leases(x), l \in Leases(x) : k.src = s /\ l.src = s /\ k.id = e.id /\ l.id = f.id
  BY <1>2
<1>4. Leases(x) = {lease[x][j] : j \in 1 .. Len(lease[x])}
  BY WaitFacts, SeqRange DEF Leases
<1>5. PICK j \in 1 .. Len(lease[x]), h \in 1 .. Len(lease[x]) : k = lease[x][j] /\ l = lease[x][h]
  BY <1>4
<1>6. j = h
  <2>1. PlaceAt(x)
    BY WaitFacts
  <2>. QED  BY <1>3, <1>5, <2>1 DEF PlaceAt
<1>. QED  BY <1>3, <1>5, <1>6

(* The wake of t takes the entry e out of the queue s. *)
Takes(t, s, e) ==
    /\ \A f \in Held(s)' : f \in Held(s) /\ f.id # e.id
    /\ wake[t].src = s /\ wake'[t].src = s
    /\ wake'[t].ready = wake[t].ready /\ wake'[t].boundary = wake[t].boundary
    /\ ~wake'[t].exclusive => ~wake[t].exclusive \/ e.mode = "Exclusive"
    /\ \A u \in Tasks \ {t} : wake'[u] = wake[u]

LEMMA TakeEntryStep ==
    ASSUME EventInv, NEW t \in Tasks, TakeEntry(t)
    PROVE  EventInv' /\ QueueStep(t) /\ \E s \in Sources : \E e \in Held(s) : Takes(t, s, e)
<1> DEFINE i == NextEntry(wake[t])
<1>0. /\ EventTypes /\ CallsLegal /\ PlaceInv /\ IdInv /\ PairInv
      /\ WakeInv /\ NotifiedInv /\ ObserverInv
  BY DEF EventInv
<1>1. /\ task[t].pc = "select" /\ i # 0 /\ Goto(t, "fire")
      /\ UNCHANGED <<count, woken, aborted>>
  BY DEF TakeEntry, At
<1>2. PICK w \in WakeRec : w = wake[t]
  BY <1>0 DEF EventTypes
<1>3. PICK src \in Sources : src = w.src
  BY DEF WakeRec
<1> DEFINE q == set[src]
<1>4. q \in Queue /\ UniqueIds(q)
  BY <1>0 DEF EventTypes, IdInv, UniqueIds
<1>5. i = NextMatching(q, w.ready, w.boundary, w.exclusive)
  BY <1>2, <1>3 DEF NextEntry
<1>6. /\ i \in 1 .. Len(q.entries) /\ q.entries[i] \in Range(q.entries)
      /\ Selects(q.entries[i], w.ready, w.boundary, w.exclusive)
  <2> HIDE DEF i, q
  <2>. QED  BY <1>1, <1>4, <1>5, NextMatchingView
<1>7. PICK e \in Held(src) : e = q.entries[i]
  BY <1>6 DEF Held
<1>8. e.id < w.boundary /\ e.interests \cap w.ready # {} /\ (e.mode = "Shared" \/ w.exclusive)
  BY <1>6, <1>7 DEF Selects
<1>9. e.task \in Tasks /\ e.id \in Nat
  BY <1>0, Elements
<1>10. PICK x \in Tasks : x = e.task
  BY <1>9
<1> DEFINE r == Without(q, i)
           M == Notified(lease[x], src, e.id)
           n == Taking(w, e)
<1>11. /\ set' = [set EXCEPT ![src] = r] /\ lease' = [lease EXCEPT ![x] = M]
       /\ wake' = [wake EXCEPT ![t] = n]
  BY <1>2, <1>3, <1>7, <1>10 DEF TakeEntry
<1>12. /\ r \in Queue /\ r.nextId = q.nextId /\ UniqueIds(r)
       /\ Range(r.entries) = {f \in Range(q.entries) : f.id # e.id}
  <2>1. e.id = q.entries[i].id
    BY <1>7
  <2> HIDE DEF i, q
  <2>2. /\ r \in Queue /\ r.nextId = q.nextId /\ UniqueIds(r)
        /\ Range(r.entries) = {f \in Range(q.entries) : f.id # q.entries[i].id}
    BY <1>4, <1>6, WithoutView
  <2> HIDE DEF r
  <2>. QED  BY <2>1, <2>2
<1>13. lease[x] \in Seq(Lease)
  BY WaitFacts
<1>14. /\ M \in Seq(Lease) /\ Len(M) = Len(lease[x])
       /\ \A j \in 1 .. Len(lease[x]) : M[j].src = lease[x][j].src /\ M[j].id = lease[x][j].id
       /\ \A m \in Range(M) : \E l \in Range(lease[x]) : l.src = m.src /\ l.id = m.id
       /\ \A m \in Range(M) : ~m.notified => m \in Range(lease[x]) /\ ~(m.src = src /\ m.id = e.id)
       /\ \A l \in Range(lease[x]) : ~(l.src = src /\ l.id = e.id) => l \in Range(M)
  BY <1>13, Marked
<1> DEFINE c == w.chosen
           d == Append(c, x)
<1>15. c \in Seq(Tasks) /\ w.exclusive \in BOOLEAN /\ w.boundary \in Nat /\ w.ready \in SUBSET Events
  BY DEF WakeRec
<1>16. d \in Seq(Tasks) /\ Len(d) = Len(c) + 1 /\ Range(d) = Range(c) \cup {x}
       /\ (\A j \in 1 .. Len(c) : d[j] = c[j]) /\ d[Len(d)] = x
  BY <1>15, AppendRange, SMTT(30)
<1>17. /\ n \in WakeRec /\ n.src = src /\ n.ready = w.ready /\ n.boundary = w.boundary
       /\ (n.exclusive <=> w.exclusive /\ e.mode = "Shared") /\ n.chosen = d
  <2>1. PICK b \in BOOLEAN : b = (w.exclusive /\ e.mode = "Shared")
    OBVIOUS
  <2>2. n = [src |-> src, ready |-> w.ready, boundary |-> w.boundary, exclusive |-> b, chosen |-> d]
    BY <1>3, <1>10, <2>1 DEF Taking
  <2> HIDE DEF d, n
  <2>3. n \in WakeRec
    BY <1>15, <1>16, <2>2 DEF WakeRec
  <2>4. n.src = src /\ n.ready = w.ready /\ n.boundary = w.boundary /\ n.chosen = d /\ n.exclusive = b
    BY <2>2
  <2>. QED  BY <2>1, <2>3, <2>4
<1> HIDE DEF i, q, r, M, n, c, d
<1>18. "fire" \in Pcs
  BY DEF Pcs
<1>19. /\ task' \in [Tasks -> TaskRec]
       /\ task'[t].pc = "fire" /\ task'[t].op = task[t].op
       /\ \A u \in Tasks \ {t} : task'[u] = task[u]
       /\ \A u \in Tasks : SourcesOf(u)' = SourcesOf(u)
       /\ \A u \in Tasks : \A s \in Sources : Interests(u, s)' = Interests(u, s)
       /\ CallsLegal'
  <2> DEFINE g == [task[t] EXCEPT !.pc = "fire"]
  <2>1. g.pc = "fire" /\ g.op = task[t].op /\ g.events = task[t].events
    BY <1>1, GotoFacts
  <2> HIDE DEF g
  <2>2. Legal(t, g)
    BY <1>1, <2>1, WaitFacts DEF Legal
  <2>. QED  BY <1>0, <1>1, <1>18, <2>2, TaskMove DEF g
<1>20. /\ set' \in [Sources -> Queue] /\ set'[src] = r
       /\ \A s \in Sources \ {src} : set'[s] = set[s]
  BY <1>0, <1>11, <1>12 DEF EventTypes
<1>21. /\ Held(src)' = {f \in Held(src) : f.id # e.id}
       /\ \A s \in Sources \ {src} : Held(s)' = Held(s)
  BY <1>12, <1>20 DEF Held, q
<1>22. /\ lease' \in [Tasks -> Seq(Lease)] /\ lease'[x] = M /\ Leases(x)' = Range(M)
       /\ \A u \in Tasks \ {x} : lease'[u] = lease[u] /\ Leases(u)' = Leases(u)
  BY <1>0, <1>11, <1>14 DEF EventTypes, Leases
<1>23. wake' \in [Tasks -> WakeRec] /\ wake'[t] = n /\ \A u \in Tasks \ {t} : wake'[u] = wake[u]
  BY <1>0, <1>11, <1>17 DEF EventTypes
<1>24. EventTypes'
  BY <1>0, <1>1, <1>19, <1>20, <1>22, <1>23 DEF EventTypes
<1>25. \A f \in Held(src) : [src |-> src, id |-> f.id, notified |-> FALSE] \in Leases(f.task)
  BY <1>0 DEF PairInv
<1>26. PICK k \in Leases(x) : k.src = src /\ k.id = e.id
  <2>1. [src |-> src, id |-> e.id, notified |-> FALSE] \in Leases(x)
    BY <1>10, <1>25
  <2>. QED  BY <2>1
<1>27. \A f \in Held(src) : f.task = x => f.id = e.id
  BY <1>10, OneEntry
<1>28. PlaceInv'
  <2> SUFFICES ASSUME NEW u \in Tasks PROVE PlaceAt(u)'
    BY DEF PlaceInv
  <2>1. PlaceAt(u) /\ task'[u].op = task[u].op /\ SourcesOf(u)' = SourcesOf(u)
    BY <1>0, <1>19 DEF PlaceInv
  <2>2. /\ Len(lease'[u]) = Len(lease[u])
        /\ \A j \in 1 .. Len(lease[u]) : lease'[u][j].src = lease[u][j].src
    BY <1>14, <1>22
  <2>3. lease'[u] = <<>> <=> lease[u] = <<>>
    <3>1. lease[u] \in Seq(Lease) /\ lease'[u] \in Seq(Lease)
      BY <1>0, <1>22 DEF EventTypes
    <3>. QED  BY <2>2, <3>1, SMTT(30)
  <2>4. task'[u].pc = task[u].pc \/ task'[u].pc = "fire"
    BY <1>19
  <2>5. \A j, h \in 1 .. Len(lease'[u]) : lease'[u][j].src = lease'[u][h].src => j = h
    BY <2>1, <2>2 DEF PlaceAt
  <2>6. task'[u].op \in {"signal", "saturate"} => lease'[u] = <<>>
    BY <2>1, <2>3 DEF PlaceAt
  <2>7. CASE task'[u].pc = task[u].pc
    <3>1. task[u].pc \in {"idle", "try", "done"} => lease'[u] = <<>>
      BY <2>1, <2>3 DEF PlaceAt
    <3>2. task[u].pc \in Waits =>
            \A j \in 1 .. Len(lease'[u]) : lease'[u][j].src = SourcesOf(u)[j]
      BY <2>1, <2>2 DEF PlaceAt
    <3>3. /\ task[u].pc = "register" => Len(lease'[u]) < Len(SourcesOf(u))
          /\ task[u].pc \in {"retry", "pending", "parked"} => Len(lease'[u]) = Len(SourcesOf(u))
          /\ task[u].pc \in {"reset", "clear"} => lease'[u] # <<>>
      BY <2>1, <2>2, <2>3 DEF PlaceAt
    <3>. QED  BY <2>1, <2>5, <2>6, <2>7, <3>1, <3>2, <3>3 DEF PlaceAt
  <2>8. CASE task'[u].pc = "fire"
    BY <2>5, <2>6, <2>8 DEF PlaceAt, Waits
  <2>. QED  BY <2>4, <2>7, <2>8
<1>29. /\ \A u \in Tasks : \A m \in Leases(u)' : \E l \in Leases(u) : l.src = m.src /\ l.id = m.id
       /\ \A u \in Tasks : \A m \in Leases(u)' : ~m.notified => m \in Leases(u) /\ ~(m.src = src /\ m.id = e.id)
       /\ \A u \in Tasks : \A l \in Leases(u) : ~(l.src = src /\ l.id = e.id) => l \in Leases(u)'
       /\ \A u \in Tasks : \A m \in Leases(u)' : m.src \in Sources
  <2>1. \A u \in Tasks \ {x} : \A l \in Leases(u) : ~(l.src = src /\ l.id = e.id)
    BY <1>0, <1>26 DEF IdInv
  <2>2. \A u \in Tasks : \A m \in Leases(u)' : \E l \in Leases(u) : l.src = m.src /\ l.id = m.id
    BY <1>14, <1>22 DEF Leases
  <2>3. \A u \in Tasks : \A m \in Leases(u)' : ~m.notified => m \in Leases(u) /\ ~(m.src = src /\ m.id = e.id)
    BY <1>14, <1>22, <2>1 DEF Leases
  <2>4. \A u \in Tasks : \A l \in Leases(u) : ~(l.src = src /\ l.id = e.id) => l \in Leases(u)'
    BY <1>14, <1>22 DEF Leases
  <2>5. \A u \in Tasks : \A l \in Leases(u) : l.src \in Sources
    BY <1>0, Elements
  <2>. QED  BY <2>2, <2>3, <2>4, <2>5
<1>30. /\ \A s \in Sources : \A f \in Held(s)' : f \in Held(s) /\ f.id \in Nat /\ f.task \in Tasks
       /\ \A s \in Sources : set'[s].nextId = set[s].nextId /\ set[s].nextId \in Nat
  <2>1. \A s \in Sources : \A f \in Held(s)' : f \in Held(s)
    BY <1>21
  <2>2. \A s \in Sources : set'[s].nextId = set[s].nextId
    BY <1>12, <1>20 DEF q
  <2>3. \A s \in Sources : set[s].nextId \in Nat
    BY <1>0 DEF EventTypes, Queue
  <2>. QED  BY <1>0, <2>1, <2>2, <2>3, Elements
<1>31. IdInv'
  <2>1. ASSUME NEW s \in Sources, NEW j \in 1 .. Len(set'[s].entries), NEW h \in 1 .. Len(set'[s].entries),
               set'[s].entries[j].id = set'[s].entries[h].id
        PROVE  j = h
    <3>1. CASE s = src
      BY <1>12, <1>20, <2>1, <3>1 DEF UniqueIds
    <3>2. CASE s # src
      BY <1>0, <1>20, <2>1, <3>2 DEF IdInv
    <3>. QED  BY <3>1, <3>2
  <2>2. \A s \in Sources : \A f \in Held(s)' : f.id < set'[s].nextId
    BY <1>0, <1>30 DEF IdInv
  <2>3. \A u \in Tasks : \A m \in Leases(u)' : m.id < set'[m.src].nextId
    <3>1. \A u \in Tasks : \A l \in Leases(u) : l.id < set[l.src].nextId
      BY <1>0 DEF IdInv
    <3>. QED  BY <1>29, <1>30, <3>1, SMTT(30)
  <2>4. \A u, v \in Tasks : \A m \in Leases(u)', h \in Leases(v)' :
          m.src = h.src /\ m.id = h.id => u = v
    <3>1. \A u, v \in Tasks : \A m \in Leases(u), h \in Leases(v) :
            m.src = h.src /\ m.id = h.id => u = v
      BY <1>0 DEF IdInv
    <3>. QED  BY <1>29, <3>1, SMTT(30)
  <2>. QED  BY <2>1, <2>2, <2>3, <2>4 DEF IdInv
<1>32. PairInv'
  <2>1. ASSUME NEW s \in Sources, NEW f \in Held(s)'
        PROVE  /\ [src |-> s, id |-> f.id, notified |-> FALSE] \in Leases(f.task)'
               /\ f.interests = Interests(f.task, s)' /\ f.interests # {}
               /\ f.mode = Mode(f.task)'
    <3> DEFINE m == [src |-> s, id |-> f.id, notified |-> FALSE]
    <3>1. f \in Held(s) /\ f.task \in Tasks
      BY <1>30
    <3>2. /\ m \in Leases(f.task)
          /\ f.interests = Interests(f.task, s) /\ f.interests # {} /\ f.mode = Mode(f.task)
      BY <1>0, <3>1 DEF PairInv
    <3>3. m.src = s /\ m.id = f.id
      OBVIOUS
    <3> HIDE DEF m
    <3>4. ~(m.src = src /\ m.id = e.id)
      BY <1>21, <3>3
    <3>5. m \in Leases(f.task)'
      BY <1>29, <3>1, <3>2, <3>4
    <3>. QED  BY <1>19, <3>1, <3>2, <3>5 DEF Mode, m
  <2>2. ASSUME NEW u \in Tasks, NEW m \in Leases(u)', ~m.notified
        PROVE  \E f \in Held(m.src)' : f.id = m.id /\ f.task = u
    <3>1. m \in Leases(u) /\ m.src \in Sources /\ ~(m.src = src /\ m.id = e.id)
      BY <1>29, <2>2
    <3>2. PICK f \in Held(m.src) : f.id = m.id /\ f.task = u
      BY <1>0, <2>2, <3>1 DEF PairInv
    <3>3. f \in Held(m.src)'
      BY <1>21, <3>1, <3>2
    <3>. QED  BY <3>2, <3>3
  <2>. QED  BY <2>1, <2>2 DEF PairInv
<1>33. WakeInv'
  <2>1. ASSUME NEW u \in Tasks \ {t} PROVE WakeAt(u)'
    <3>1. WakeAt(u) /\ wake'[u] = wake[u] /\ task'[u] = task[u]
      BY <1>0, <1>19, <1>23 DEF WakeInv
    <3>2. /\ task'[u].pc \notin {"select", "fire"} => wake[u].chosen = <<>>
          /\ task'[u].pc = "fire" => wake[u].chosen # <<>>
      BY <3>1 DEF WakeAt
    <3>3. \A s \in Sources : set'[s].nextId >= set[s].nextId
      BY <1>30, SMTT(30)
    <3>. QED  BY <1>0, <1>30, <3>1, <3>2, <3>3, WakeKept
  <2>2. /\ w.boundary <= set[src].nextId
        /\ \A f \in Held(src) : f.id < w.boundary => f.task \notin Range(c)
        /\ w.exclusive => \A y \in Range(c) : y \in Observers
        /\ IsInjective(c)
        /\ \A y, z \in Range(c) \ Observers : y = z
    BY <1>0, <1>2, <1>3 DEF WakeInv, WakeAt, c
  <2>3. x \notin Range(c)
    BY <1>8, <1>10, <2>2
  <2>4. e.mode = Mode(x)
    BY <1>0, <1>10 DEF PairInv
  <2>5. d # <<>>
    BY <1>16, SeqRange, SMTT(30)
  <2>6. \A f \in Held(src)' : f.id < w.boundary => f.task \notin Range(d)
    BY <1>16, <1>21, <1>27, <2>2
  <2>7. n.exclusive => \A y \in Range(d) : y \in Observers
    BY <1>16, <1>17, <2>2, <2>4 DEF Mode
  <2>8. IsInjective(d)
    <3>1. DOMAIN c = 1 .. Len(c) /\ DOMAIN d = 1 .. Len(d) /\ Len(c) \in Nat
          /\ \A j \in 1 .. Len(c) : c[j] \in Range(c)
      BY <1>15, <1>16, SeqRange
    <3>2. \A j \in 1 .. Len(d) : j \in 1 .. Len(c) \/ j = Len(d)
      BY <1>16, <3>1, SMTT(30)
    <3>3. \A j, h \in 1 .. Len(c) : c[j] = c[h] => j = h
      BY <2>2, <3>1 DEF IsInjective
    <3>4. \A j, h \in 1 .. Len(d) : d[j] = d[h] => j = h
      BY <1>16, <2>3, <3>1, <3>2, <3>3
    <3>. QED  BY <3>1, <3>4 DEF IsInjective
  <2>9. \A y, z \in Range(d) \ Observers : y = z
    <3>1. x \notin Observers => Range(c) \ Observers = {}
      BY <1>8, <2>2, <2>4 DEF Mode
    <3>. QED  BY <1>16, <2>2, <3>1
  <2>10. w.boundary <= set'[src].nextId
    BY <1>30, <2>2
  <2>11. WakeAt(t)'
    BY <1>17, <1>19, <1>23, <2>5, <2>6, <2>7, <2>8, <2>9, <2>10 DEF WakeAt
  <2>. QED  BY <2>1, <2>11 DEF WakeInv
<1>34. NotifiedInv'
  <2> SUFFICES ASSUME NEW u \in Tasks, task'[u].pc \in Waits, \E m \in Leases(u)' : m.notified
               PROVE  woken'[u] \/ \E v \in Tasks : At(v, "fire")' /\ Chosen(wake'[v]) = u
    BY DEF NotifiedInv, Chosen
  <2>1. CASE u = x
    <3>1. At(t, "fire")' /\ Chosen(wake'[t]) = u
      BY <1>16, <1>17, <1>19, <1>23, <2>1 DEF At, Chosen
    <3>. QED  BY <3>1
  <2>2. CASE u # x
    <3>1. u # t /\ task[u].pc \in Waits /\ \E m \in Leases(u) : m.notified
      BY <1>19, <1>22, <2>2 DEF Waits
    <3>2. woken[u] \/ \E v \in Tasks : At(v, "fire") /\ Chosen(wake[v]) = u
      BY <1>0, <3>1 DEF NotifiedInv
    <3>3. \A v \in Tasks : At(v, "fire") => At(v, "fire")' /\ wake'[v] = wake[v]
      BY <1>1, <1>19, <1>23 DEF At
    <3>. QED  BY <1>1, <3>2, <3>3
  <2>. QED  BY <2>1, <2>2
<1>35. ObserverInv'
  <2>1. Undisturbed' => Undisturbed
    BY <1>1, <1>18, UndisturbedBefore
  <2>2. PollEvents' = PollEvents
    BY <1>1 DEF PollEvents
  <2>3. \A o \in Observers : o \in Tasks
    BY DEF Tasks
  <2>4. \A o \in Observers : task'[o].pc \in {"pending", "parked"} => task[o].pc \in {"pending", "parked"}
    BY <1>19, <2>3
  <2>5. \A o \in Observers : \A m \in Leases(o)' :
          /\ ~m.notified => m \in Leases(o)
          /\ Interests(o, m.src)' = Interests(o, m.src)
    BY <1>19, <1>29, <2>3
  <2>6. ASSUME NEW o \in Observers, NEW m \in Leases(o)', NEW u \in Tasks, WillTake(u, o, m.src)
        PROVE  WillTake(u, o, m.src)'
    <3>1. m.src \in Sources
      BY <1>29, <2>3
    <3>2. \A f \in Held(m.src)' : f \in Held(m.src)
      BY <1>30, <3>1
    <3>3. wake'[u].src = wake[u].src /\ wake'[u].ready = wake[u].ready /\ wake'[u].boundary = wake[u].boundary
      BY <1>2, <1>3, <1>17, <1>23
    <3>4. (At(u, "boundary") => At(u, "boundary")')
          /\ (task[u].pc \in {"select", "fire"} => task'[u].pc \in {"select", "fire"})
      BY <1>1, <1>19 DEF At
    <3>. QED  BY <2>5, <2>6, <3>2, <3>3, <3>4 DEF WillTake
  <2>. QED  BY <1>0, <2>1, <2>2, <2>4, <2>5, <2>6, ObserverKept
<1>36. QueueStep(t)
  <2>1. \A u \in Tasks : \A l \in Leases(u)' : ~l.notified => l \in Leases(u)
    BY <1>14, <1>22 DEF Leases
  <2>. QED  BY <1>21, <2>1 DEF QueueStep
<1>37. Takes(t, src, e)
  <2>1. e.mode = "Shared" \/ e.mode = "Exclusive"
    <3>1. e \in Entry
      BY <1>0, Elements
    <3>. QED  BY <3>1 DEF Entry, Modes
  <2>. QED  BY <1>2, <1>3, <1>17, <1>21, <1>23, <2>1 DEF Takes
<1>38. \E s \in Sources : \E f \in Held(s) : Takes(t, s, f)
  BY <1>37
<1>. QED  BY <1>19, <1>24, <1>28, <1>31, <1>32, <1>33, <1>34, <1>35, <1>36, <1>38 DEF EventInv

-----------------------------------------------------------------------------
(* The invariant and what follows from it *)

LEMMA EventInit ==
    ASSUME Init
    PROVE  EventInv
<1>1. /\ count \in 0 .. MaxCount - 1 /\ set = [s \in Sources |-> EmptySet]
      /\ task = [t \in Tasks |-> [op |-> "none", value |-> 0, events |-> {},
                                  nonblock |-> FALSE, pc |-> "idle"]]
      /\ lease = [t \in Tasks |-> <<>>] /\ wake = [t \in Tasks |-> NoWake]
      /\ woken = [t \in Tasks |-> FALSE] /\ aborted = [t \in Tasks |-> FALSE]
  BY DEF Init
<1>2. count \in 0 .. MaxCount
  <2>1. count \in 0 .. MaxCount - 1
    BY <1>1
  <2>. QED  BY <2>1, ConstantsAssumption, SMTT(30)
<1>3. EmptySet \in Queue /\ EmptySet.entries = <<>> /\ EmptySet.nextId = 0
      /\ Range(EmptySet.entries) = {} /\ Len(EmptySet.entries) = 0
  <2>1. <<>> \in Seq(Entry) /\ 0 \in Nat /\ Len(<<>>) = 0 /\ Range(<<>>) = {}
    BY SMTT(30) DEF Range
  <2>. QED  BY <2>1 DEF EmptySet, Queue
<1>4. NoWake \in WakeRec /\ NoWake.chosen = <<>> /\ NoWake.boundary = 0 /\ NoWake.src \in Sources
      /\ Range(NoWake.chosen) = {} /\ IsInjective(NoWake.chosen)
  <2>1. <<>> \in Seq(Tasks) /\ 0 \in Nat /\ Range(<<>>) = {} /\ IsInjective(<<>>)
    BY SMTT(30) DEF Range, IsInjective
  <2>. QED  BY <2>1 DEF NoWake, WakeRec, Sources
<1>5. \A t \in Tasks : /\ task[t] \in TaskRec /\ task[t].pc = "idle" /\ task[t].op = "none"
                       /\ lease[t] = <<>> /\ wake[t] = NoWake
  BY <1>1 DEF TaskRec, Ops, Pcs, Events
<1>6. <<>> \in Seq(Lease) /\ Len(<<>>) = 0 /\ Range(<<>>) = {} /\ 1 .. 0 = {}
  BY SMTT(30) DEF Range
<1>7. EventTypes
  BY <1>1, <1>2, <1>3, <1>4, <1>5, <1>6 DEF EventTypes
<1>8. CallsLegal
  BY <1>5 DEF CallsLegal, Legal
<1>9. PlaceInv
  BY <1>5, <1>6 DEF PlaceInv, PlaceAt, Waits
<1>10. (\A s \in Sources : set[s] = EmptySet /\ Held(s) = {}) /\ \A t \in Tasks : Leases(t) = {}
  BY <1>1, <1>3, <1>6 DEF Held, Leases
<1>11. IdInv
  BY <1>3, <1>6, <1>10 DEF IdInv
<1>12. PairInv
  BY <1>10 DEF PairInv
<1>13. WakeInv
  <2>1. NoWake.boundary <= set[NoWake.src].nextId
    BY <1>3, <1>4, <1>10, SMTT(30)
  <2>. QED  BY <1>4, <1>5, <1>10, <2>1 DEF WakeInv, WakeAt
<1>14. NotifiedInv
  BY <1>10 DEF NotifiedInv
<1>15. ObserverInv
  BY <1>10 DEF ObserverInv, Tasks
<1>. QED  BY <1>7, <1>8, <1>9, <1>11, <1>12, <1>13, <1>14, <1>15 DEF EventInv

LEMMA EventNext ==
    ASSUME EventInv, [Next]_vars
    PROVE  EventInv'
<1>1. CASE UNCHANGED vars
  <2>1. UNCHANGED <<count, set, task, lease, wake, woken>> /\ aborted' \in [Tasks -> BOOLEAN]
    BY <1>1 DEF vars, EventInv, EventTypes
  <2>. QED  BY <2>1, AbortStep
<1>2. ASSUME NEW t \in Tasks, Start(t) \/ Step(t) \/ Abort(t)
      PROVE  EventInv'
  <2>1. CASE Start(t)
    BY <2>1, StartStep
  <2>2. CASE Abort(t)
    <3>1. UNCHANGED <<count, set, task, lease, wake, woken>> /\ aborted' \in [Tasks -> BOOLEAN]
      BY <2>2 DEF Abort, EventInv, EventTypes
    <3>. QED  BY <3>1, AbortStep
  <2>3. CASE Operate(t)
    BY <2>3, OperateStep
  <2>4. CASE CopyOutFails(t)
    BY <2>4, CopyOutStep
  <2>5. CASE CheckReady(t)
    BY <2>5, CheckReadyStep
  <2>6. CASE WouldBlock(t)
    BY <2>6, WouldBlockStep
  <2>7. CASE Register(t)
    BY <2>7, RegisterStep
  <2>8. CASE DropLease(t)
    BY <2>8, DropLeaseStep
  <2>9. CASE Pending(t)
    BY <2>9, PendingStep
  <2>10. CASE Resume(t)
    BY <2>10, ResumeStep
  <2>11. CASE Boundary(t)
    BY <2>11, BoundaryStep
  <2>12. CASE TakeEntry(t)
    BY <2>12, TakeEntryStep
  <2>13. CASE Fire(t)
    BY <2>13, FireStep
  <2>14. CASE EndWake(t)
    BY <2>14, EndWakeStep
  <2>. QED  BY <1>2, <2>1, <2>2, <2>3, <2>4, <2>5, <2>6, <2>7, <2>8, <2>9, <2>10, <2>11, <2>12,
                <2>13, <2>14 DEF Step
<1>. QED  BY <1>1, <1>2 DEF Next

(* Every reachable state of the eventfd satisfies the invariant, however many *)
(* calls run on it.                                                           *)
THEOREM EventInvariant == Spec => []EventInv
<1>1. Init => EventInv
  BY EventInit
<1>2. EventInv /\ [Next]_vars => EventInv'
  BY EventNext
<1>. QED  BY <1>1, <1>2, PTL DEF Spec

LEMMA TypesHold ==
    ASSUME EventInv
    PROVE  TypeOK
<1>1. EventTypes /\ IdInv /\ PairInv
  BY DEF EventInv
<1>2. ASSUME NEW s \in Sources, NEW i \in DOMAIN set[s].entries
      PROVE  /\ set[s].entries[i].id \in 0 .. set[s].nextId - 1
             /\ set[s].entries[i].task \in Tasks
             /\ set[s].entries[i].interests \in (SUBSET Events) \ {{}}
             /\ set[s].entries[i].mode \in Modes
  <2>1. set[s] \in Queue
    BY <1>1 DEF EventTypes
  <2>2. set[s].entries \in Seq(Entry) /\ set[s].nextId \in Nat
    BY <2>1 DEF Queue
  <2>3. PICK e \in Held(s) : e = set[s].entries[i]
    BY <1>2, <2>2, SeqRange, SMTT(30) DEF Held
  <2>4. e \in Entry /\ e.id < set[s].nextId /\ e.interests # {}
    BY <1>1, Elements DEF IdInv, PairInv
  <2>5. e.id \in Nat /\ e.task \in Tasks /\ e.interests \in SUBSET Events /\ e.mode \in Modes
    BY <2>4 DEF Entry
  <2>6. e.id \in 0 .. set[s].nextId - 1
    BY <2>2, <2>4, <2>5, SMTT(30)
  <2>. QED  BY <2>3, <2>4, <2>5, <2>6
<1>. QED  BY <1>1, <1>2 DEF TypeOK, EventTypes, TaskRec, Ops, Pcs, Lease

(* The counter stays within a u64, and calls, leases and queues keep the types *)
(* of the Rust values, whatever interleaves.                                   *)
THEOREM EventTypeCorrect == Spec => []TypeOK
<1>1. EventInv => TypeOK
  BY TypesHold
<1>. QED  BY <1>1, EventInvariant, PTL

LEMMA LeasesExact ==
    ASSUME EventInv
    PROVE  ExactLeases
<1>1. EventTypes /\ IdInv /\ PairInv
  BY DEF EventInv
<1> SUFFICES ASSUME NEW s \in Sources
             PROVE  {<<set[s].entries[i].task, set[s].entries[i].id>> : i \in DOMAIN set[s].entries}
                    = UNION {{<<t, lease[t][j].id>> :
                                j \in {k \in DOMAIN lease[t] : lease[t][k].src = s
                                                               /\ ~lease[t][k].notified}} : t \in Tasks}
  BY DEF ExactLeases
<1> DEFINE own(t) == {<<t, lease[t][j].id>> :
                        j \in {k \in DOMAIN lease[t] : lease[t][k].src = s /\ ~lease[t][k].notified}}
           held == {<<set[s].entries[i].task, set[s].entries[i].id>> : i \in DOMAIN set[s].entries}
<1>2. held = {<<e.task, e.id>> : e \in Held(s)}
  <2>1. set[s] \in Queue
    BY <1>1 DEF EventTypes
  <2>2. set[s].entries \in Seq(Entry)
    BY <2>1 DEF Queue
  <2>3. Held(s) = {set[s].entries[i] : i \in DOMAIN set[s].entries}
    BY <2>2, SeqRange, SMTT(30) DEF Held
  <2>. QED  BY <2>3
<1>3. \A t \in Tasks : own(t) = {<<t, l.id>> : l \in {m \in Leases(t) : m.src = s /\ ~m.notified}}
  <2> SUFFICES ASSUME NEW t \in Tasks
               PROVE  own(t) = {<<t, l.id>> : l \in {m \in Leases(t) : m.src = s /\ ~m.notified}}
    OBVIOUS
  <2>1. lease[t] \in Seq(Lease)
    BY <1>1 DEF EventTypes
  <2>2. Leases(t) = {lease[t][j] : j \in DOMAIN lease[t]}
    BY <2>1, SeqRange, SMTT(30) DEF Leases
  <2>. QED  BY <2>2
<1> HIDE DEF own, held
<1>4. ASSUME NEW x \in held PROVE x \in UNION {own(t) : t \in Tasks}
  <2>1. PICK e \in Held(s) : x = <<e.task, e.id>>
    BY <1>2
  <2>2. e.task \in Tasks /\ [src |-> s, id |-> e.id, notified |-> FALSE] \in Leases(e.task)
    BY <1>1, Elements DEF PairInv
  <2>3. PICK l \in Leases(e.task) : l.src = s /\ l.id = e.id /\ ~l.notified
    BY <2>2
  <2>4. x \in own(e.task)
    BY <1>3, <2>1, <2>2, <2>3
  <2>. QED  BY <2>2, <2>4
<1>5. ASSUME NEW t \in Tasks, NEW x \in own(t) PROVE x \in held
  <2>1. PICK l \in Leases(t) : l.src = s /\ ~l.notified /\ x = <<t, l.id>>
    BY <1>3
  <2>2. PICK e \in Held(s) : e.id = l.id /\ e.task = t
    BY <1>1, <2>1 DEF PairInv
  <2>. QED  BY <1>2, <2>1, <2>2
<1>6. held = UNION {own(t) : t \in Tasks}
  BY <1>4, <1>5
<1>. QED  BY <1>6 DEF own, held

(* No entry outlives its lease and none is missing for a live one: dropping a *)
(* registration removes exactly the entry it stands for.                      *)
THEOREM LeasesAreExact == Spec => []ExactLeases
<1>1. EventInv => ExactLeases
  BY LeasesExact
<1>. QED  BY <1>1, EventInvariant, PTL

(* A wake takes a task once and one exclusive consumer at most, even when the *)
(* tasks it wakes register again while it is running.                         *)
THEOREM WakesOnce == Spec => []OncePerWake
<1>1. EventInv => OncePerWake
  BY DEF EventInv, WakeInv, WakeAt, OncePerWake
<1>. QED  BY <1>1, EventInvariant, PTL

LEMMA WakeOnItsWay ==
    ASSUME EventInv
    PROVE  ObserversWoken
<1>0. EventTypes /\ PlaceInv /\ PairInv /\ NotifiedInv /\ ObserverInv
  BY DEF EventInv
<1> SUFFICES ASSUME Undisturbed, NEW t \in Observers, Asleep(t), Succeeds(t)
             PROVE  WakeComing(t)
  BY DEF ObserversWoken, Undisturbed
<1>1. t \in Tasks /\ task[t].pc = "parked" /\ ~woken[t]
  BY DEF Asleep, At, Tasks
<1>2. Legal(t, task[t]) /\ PlaceAt(t) /\ task[t] \in TaskRec /\ lease[t] \in Seq(Lease)
  BY <1>1, WaitFacts
<1>3. task[t].op = "poll" /\ "ERR" \in task[t].events
  <2>1. t \notin Readers /\ t \notin Writers
    BY ConstantsAssumption
  <2>. QED  BY <1>1, <1>2, <2>1 DEF Legal
<1>4. PICK e \in task[t].events : e \in PollEvents
  BY <1>3, SMTT(30) DEF Succeeds
<1> DEFINE s == IF e = "OUT" THEN "tx" ELSE "rx"
<1>5. s \in Sources /\ e \in Interests(t, s)
  <2>1. e \in {"IN", "OUT", "ERR"}
    BY <1>4 DEF PollEvents, Events
  <2>. QED  BY <2>1 DEF Interests, Sources
<1>6. PICK l \in Leases(t) : l.src = s
  <2>1. /\ SourcesOf(t) \in Seq(Sources) /\ SourcesOf(t)[1] = "rx" /\ Len(SourcesOf(t)) \in {1, 2}
        /\ "OUT" \in task[t].events => Len(SourcesOf(t)) = 2 /\ SourcesOf(t)[2] = "tx"
    BY <1>1, <1>3, SourcesFacts
  <2>2. \E j \in 1 .. Len(SourcesOf(t)) : SourcesOf(t)[j] = s
    <3>1. CASE e = "OUT"
      <4>1. 2 \in 1 .. Len(SourcesOf(t)) /\ SourcesOf(t)[2] = s
        BY <2>1, <3>1, SMTT(30)
      <4>. QED  BY <4>1
    <3>2. CASE e # "OUT"
      <4>1. 1 \in 1 .. Len(SourcesOf(t)) /\ SourcesOf(t)[1] = s
        BY <2>1, <3>2, SMTT(30)
      <4>. QED  BY <4>1
    <3>. QED  BY <3>1, <3>2
  <2>3. Len(lease[t]) = Len(SourcesOf(t)) /\ \A j \in 1 .. Len(lease[t]) : lease[t][j].src = SourcesOf(t)[j]
    BY <1>1, <1>2 DEF PlaceAt, Waits
  <2>4. \A j \in 1 .. Len(lease[t]) : lease[t][j] \in Leases(t)
    BY <1>2, SeqRange DEF Leases
  <2>. QED  BY <2>2, <2>3, <2>4
<1> HIDE DEF s
<1>7. CASE l.notified
  <2>1. PICK u \in Tasks : At(u, "fire") /\ Chosen(wake[u]) = t
    BY <1>0, <1>1, <1>7 DEF NotifiedInv, Waits
  <2>. QED  BY <2>1 DEF WakeComing
<1>8. CASE ~l.notified
  <2>1. Interests(t, s) \cap PollEvents # {}
    BY <1>4, <1>5
  <2>2. PICK u \in Tasks : WillTake(u, t, s)
    BY <1>0, <1>1, <1>6, <1>8, <2>1 DEF ObserverInv
  <2>3. wake[u].src = s /\ wake[u].ready \cap Interests(t, s) # {}
    BY <2>2 DEF WillTake
  <2>4. CASE At(u, "boundary")
    <3>1. wake[u].ready \cap task[t].events # {}
      BY <2>3 DEF Interests
    <3>. QED  BY <2>4, <3>1 DEF WakeComing
  <2>5. CASE task[u].pc \in {"select", "fire"} /\ \A f \in Held(s) : f.task = t => f.id < wake[u].boundary
    <3>1. PICK f \in Held(s) : f.id = l.id /\ f.task = t
      BY <1>0, <1>1, <1>6, <1>8 DEF PairInv
    <3>2. f.interests = Interests(t, s) /\ f.mode = "Shared"
      BY <1>0, <1>5, <3>1 DEF PairInv, Mode
    <3>3. Selects(f, wake[u].ready, wake[u].boundary, wake[u].exclusive)
      BY <2>3, <2>5, <3>1, <3>2 DEF Selects
    <3>4. set[s] \in Queue
      BY <1>0, <1>5 DEF EventTypes
    <3>5. set[s].entries \in Seq(Entry)
      BY <3>4 DEF Queue
    <3>6. PICK i \in DOMAIN set[s].entries : f = set[s].entries[i]
      BY <3>5, SeqRange, SMTT(30) DEF Held
    <3>7. \E j \in DOMAIN set[wake[u].src].entries :
            /\ set[wake[u].src].entries[j].task = t
            /\ Selects(set[wake[u].src].entries[j], wake[u].ready, wake[u].boundary, wake[u].exclusive)
      BY <2>3, <3>1, <3>3, <3>6
    <3>. QED  BY <2>5, <3>7 DEF WakeComing
  <2>. QED  BY <2>2, <2>4, <2>5 DEF WillTake
<1>. QED  BY <1>7, <1>8

(* No poll(2) call sleeps through an event: while it is asleep on a ready      *)
(* descriptor a wake is on its way to it, for any number of calls, values and  *)
(* cancellations.                                                              *)
THEOREM ObserversAreWoken == Spec => []ObserversWoken
<1>1. EventInv => ObserversWoken
  BY WakeOnItsWay
<1>. QED  BY <1>1, EventInvariant, PTL

-----------------------------------------------------------------------------
(* Readers and writers.  An exclusive wake takes one of them, so that a       *)
(* consumer is not passed over is true only while the reads, and the writes,  *)
(* come one after the other.                                                  *)

Blocked == {"pending", "parked"}

(* The call has begun and has not returned. *)
InCall(t) == task[t].pc \notin {"idle", "done"}

(* One read at a time, and one write at a time.  Completions and poll(2) calls *)
(* come whenever they like, and a read may overlap a write.                    *)
CallsTakeTurns ==
    /\ \A t, u \in Readers : InCall(t) /\ InCall(u) => t = u
    /\ \A t, u \in Writers : InCall(t) /\ InCall(u) => t = u

(* A wake starts with the right to take one exclusive entry.  When it has used *)
(* it up, no entry that it could still meet is exclusive.                      *)
SpentAt(u) ==
    /\ task[u].pc = "boundary" => wake[u].exclusive
    /\ task[u].pc \in {"select", "fire"} /\ ~wake[u].exclusive =>
         \A e \in Held(wake[u].src) : e.mode = "Exclusive" => e.id >= wake[u].boundary

SpentInv == \A u \in Tasks : SpentAt(u)

(* A read or a write that went to sleep before it could succeed is taken. *)
ConsumerInv ==
    Undisturbed =>
        \A t \in Readers \cup Writers : \A l \in Leases(t) :
            /\ task[t].pc \in Blocked
            /\ ~l.notified
            /\ Succeeds(t)
            => \E u \in Tasks : WillTake(u, t, l.src)

LEMMA SpentKept ==
    ASSUME EventInv, SpentInv, NEW t \in Tasks, SpentAt(t)',
           \A u \in Tasks \ {t} : task'[u] = task[u] /\ wake'[u] = wake[u],
           \A s \in Sources : \A e \in Held(s)' :
               e \in Held(s) \/ (e.task = t /\ e.id \in Nat /\ e.id >= set[s].nextId)
    PROVE  SpentInv'
<1> SUFFICES ASSUME NEW u \in Tasks \ {t} PROVE SpentAt(u)'
  BY DEF SpentInv
<1>1. task'[u] = task[u] /\ wake'[u] = wake[u] /\ SpentAt(u) /\ WakeAt(u)
  BY DEF SpentInv, EventInv, WakeInv
<1>2. wake[u].src \in Sources /\ wake[u].boundary \in Nat
  BY DEF EventInv, EventTypes, WakeRec
<1>3. set[wake[u].src].nextId \in Nat
  BY <1>2 DEF EventInv, EventTypes, Queue
<1>4. ASSUME NEW e \in Held(wake[u].src)', e \notin Held(wake[u].src)
      PROVE  e.id >= wake[u].boundary
  <2>1. e.id \in Nat /\ e.id >= set[wake[u].src].nextId /\ wake[u].boundary <= set[wake[u].src].nextId
    <3>1. PICK s \in Sources : s = wake[u].src
      BY <1>2
    <3>2. e \in Held(s)' /\ e \notin Held(s)
      BY <1>1, <1>4, <3>1 DEF Held
    <3>. QED  BY <1>1, <3>1, <3>2 DEF WakeAt
  <2>. QED  BY <1>2, <1>3, <2>1, SMTT(30)
<1>. QED  BY <1>1, <1>2, <1>4 DEF SpentAt, Held

LEMMA SucceedsKept ==
    ASSUME EventInv, NEW t \in Tasks, NEW p, Goto(t, p), count' = count, NEW x \in Tasks
    PROVE  Succeeds(x)' = Succeeds(x)
<1>1. /\ task'[x].op = task[x].op /\ task'[x].value = task[x].value
      /\ task'[x].events = task[x].events
  <2>1. task \in [Tasks -> TaskRec] /\ task[t] \in TaskRec
    BY DEF EventInv, EventTypes
  <2>. QED  BY <2>1, SMTT(30) DEF Goto, TaskRec
<1>2. PollEvents' = PollEvents
  BY DEF PollEvents
<1>. QED  BY <1>1, <1>2 DEF Succeeds

(* A step that leaves the counter alone keeps a consumer's wake coming when *)
(* the wake of the task that moves, if it runs one, does.                   *)
LEMMA ConsumerMove ==
    ASSUME EventInv, ConsumerInv, NEW t \in Tasks, NEW p \in Pcs, Goto(t, p), count' = count,
           task[t].pc \in {"clear", "done"} => p \in {"clear", "done"},
           p \in Blocked => /\ task[t].pc \in Blocked \/ ~Succeeds(t)
                            /\ UNCHANGED <<set, lease>>,
           QueueStep(t),
           \A u \in Tasks \ {t} : wake'[u] = wake[u],
           \A x \in Readers \cup Writers : \A l \in Leases(x) :
               /\ ~l.notified /\ task[x].pc \in Blocked /\ WillTake(t, x, l.src)
               => WillTake(t, x, l.src)'
    PROVE  ConsumerInv'
<1> DEFINE C == Readers \cup Writers
<1>1. task'[t].pc = p /\ \A u \in Tasks \ {t} : task'[u] = task[u]
  BY GotoFacts
<1>2. \A x \in C : x \in Tasks
  BY DEF Tasks
<1>3. \A x \in Tasks : Succeeds(x)' = Succeeds(x)
  BY SucceedsKept
<1>4. \A x \in Tasks : \A s \in Sources : Interests(x, s)' = Interests(x, s)
  <2>1. task \in [Tasks -> TaskRec] /\ task[t] \in TaskRec
    BY DEF EventInv, EventTypes
  <2>2. \A x \in Tasks : task'[x].events = task[x].events
    BY <2>1, SMTT(30) DEF Goto, TaskRec
  <2>. QED  BY <2>2 DEF Interests
<1>5. Undisturbed' => Undisturbed
  BY UndisturbedBefore
<1>6. ASSUME NEW x \in C, NEW l \in Leases(x)', task'[x].pc \in Blocked, ~l.notified, Succeeds(x)'
      PROVE  task[x].pc \in Blocked /\ l \in Leases(x) /\ Succeeds(x)
  <2>1. Succeeds(x)
    BY <1>2, <1>3, <1>6
  <2>2. CASE x = t
    <3>1. UNCHANGED <<set, lease>> /\ task[x].pc \in Blocked
      BY <1>1, <1>6, <2>1, <2>2
    <3>2. l \in Leases(x)
      BY <1>6, <3>1 DEF Leases
    <3>. QED  BY <2>1, <3>1, <3>2
  <2>3. CASE x # t
    <3>1. x \in Tasks \ {t}
      BY <1>2, <2>3
    <3>2. l \in Leases(x)
      BY <1>6, <3>1 DEF QueueStep
    <3>3. task[x].pc \in Blocked
      BY <1>1, <1>6, <3>1
    <3>. QED  BY <2>1, <3>2, <3>3
  <2>. QED  BY <2>2, <2>3
<1>7. ASSUME NEW x \in C, NEW l \in Leases(x)', NEW u \in Tasks, ~l.notified, l \in Leases(x),
             task[x].pc \in Blocked, task'[x].pc \in Blocked, WillTake(u, x, l.src)
      PROVE  WillTake(u, x, l.src)'
  <2>1. l.src \in Sources /\ x \in Tasks
    BY <1>2, <1>7, Elements DEF EventInv
  <2>2. CASE u = t
    BY <1>7, <2>2
  <2>3. CASE u # t
    <3>1. task'[u] = task[u] /\ wake'[u] = wake[u]
      BY <1>1, <2>3
    <3>2. \A e \in Held(l.src)' : e.task = x => e \in Held(l.src)
      <4>1. CASE x = t
        <5>1. UNCHANGED set
          BY <1>1, <1>7, <4>1
        <5>. QED  BY <5>1 DEF Held
      <4>2. CASE x # t
        BY <2>1, <4>2 DEF QueueStep
      <4>. QED  BY <4>1, <4>2
    <3>. QED  BY <1>4, <1>7, <2>1, <3>1, <3>2 DEF WillTake, At
  <2>. QED  BY <2>2, <2>3
<1> SUFFICES ASSUME Undisturbed', NEW x \in C, NEW l \in Leases(x)',
                    task'[x].pc \in Blocked, ~l.notified, Succeeds(x)'
             PROVE  \E u \in Tasks : WillTake(u, x, l.src)'
  BY DEF ConsumerInv
<1>8. task[x].pc \in Blocked /\ l \in Leases(x) /\ Succeeds(x)
  BY <1>6
<1>9. PICK u \in Tasks : WillTake(u, x, l.src)
  BY <1>5, <1>8 DEF ConsumerInv
<1>. QED  BY <1>7, <1>8, <1>9

(* A step of a call that neither runs a wake nor touches a queue *)
LEMMA QuietConsumers ==
    ASSUME EventInv, SpentInv, ConsumerInv, NEW t \in Tasks, NEW p \in Pcs \ WakePcs, Goto(t, p),
           task[t].pc \notin WakePcs, UNCHANGED <<count, set, lease, wake>>,
           task[t].pc \in {"clear", "done"} => p \in {"clear", "done"},
           p \in Blocked => task[t].pc \in Blocked \/ ~Succeeds(t)
    PROVE  SpentInv' /\ ConsumerInv'
<1>1. task'[t].pc = p /\ \A u \in Tasks \ {t} : task'[u] = task[u]
  BY GotoFacts
<1>2. QueueStep(t)
  BY DEF QueueStep, Held, Leases
<1>3. SpentAt(t)'
  BY <1>1 DEF SpentAt, WakePcs
<1>4. SpentInv'
  BY <1>1, <1>2, <1>3, SpentKept DEF QueueStep
<1>5. \A x, s : ~WillTake(t, x, s)
  BY DEF WillTake, At, WakePcs
<1>. QED  BY <1>4, <1>2, <1>5, ConsumerMove

(* The exclusive entries of a queue belong to calls of one kind, which are *)
(* under way.                                                              *)
LEMMA ExclusiveEntry ==
    ASSUME EventInv, NEW s \in Sources, NEW e \in Held(s), e.mode = "Exclusive"
    PROVE  /\ e.task \in Tasks /\ InCall(e.task)
           /\ (s = "rx" => e.task \in Readers) /\ (s = "tx" => e.task \in Writers)
<1>1. PICK x \in Tasks : x = e.task
  BY Elements DEF EventInv
<1>2. /\ [src |-> s, id |-> e.id, notified |-> FALSE] \in Leases(x)
      /\ Interests(x, s) # {} /\ Mode(x) = "Exclusive"
  BY <1>1 DEF EventInv, PairInv
<1>3. lease[x] # <<>> /\ x \notin Observers
  BY <1>2, Elements DEF EventInv, Mode
<1>4. task[x] \in TaskRec /\ Legal(x, task[x]) /\ PlaceAt(x)
  BY WaitFacts
<1>5. /\ task[x].pc \notin {"idle", "try", "done"} /\ task[x].op \notin {"signal", "saturate"}
  BY <1>3, <1>4 DEF PlaceAt
<1>6. task[x].op \in {"read", "write"}
  <2>1. task[x].op \in Ops
    BY <1>4 DEF TaskRec
  <2>. QED  BY <1>3, <1>4, <1>5, <2>1 DEF Legal, Ops
<1>7. /\ task[x].op = "read" => x \in Readers /\ Interests(x, "tx") = {}
      /\ task[x].op = "write" => x \in Writers /\ Interests(x, "rx") = {}
  BY <1>4 DEF Legal, Interests
<1>. QED  BY <1>1, <1>2, <1>5, <1>6, <1>7 DEF InCall

LEMMA BoundaryConsumers ==
    ASSUME EventInv, SpentInv, ConsumerInv, NEW t \in Tasks, Boundary(t)
    PROVE  SpentInv' /\ ConsumerInv'
<1> DEFINE b == set[wake[t].src].nextId
           w == [wake[t] EXCEPT !.boundary = b]
<1>1. /\ task[t].pc = "boundary" /\ Goto(t, "select") /\ wake' = [wake EXCEPT ![t] = w]
      /\ UNCHANGED <<count, set, lease, woken, aborted>>
  BY DEF Boundary, At, WakeBoundary
<1>2. wake \in [Tasks -> WakeRec] /\ wake[t] \in WakeRec /\ SpentAt(t)
  BY DEF EventInv, EventTypes, SpentInv
<1> HIDE DEF b
<1>3. /\ w.src = wake[t].src /\ w.ready = wake[t].ready /\ w.boundary = b
      /\ w.exclusive = wake[t].exclusive
  BY <1>2, SMTT(30) DEF WakeRec
<1> HIDE DEF w
<1>4. wake'[t] = w /\ \A u \in Tasks \ {t} : wake'[u] = wake[u]
  BY <1>1, <1>2
<1>5. "select" \in Pcs /\ "select" \notin Blocked
  BY DEF Pcs, Blocked
<1>6. /\ \A s \in Sources : Held(s)' = Held(s)
      /\ \A u \in Tasks : Leases(u)' = Leases(u)
      /\ \A u \in Tasks : \A s \in Sources : Interests(u, s)' = Interests(u, s)
      /\ task'[t].pc = "select" /\ \A u \in Tasks \ {t} : task'[u] = task[u]
  BY <1>1, <1>5, TransactionFrame
<1>7. QueueStep(t)
  BY <1>6 DEF QueueStep
<1>8. SpentInv'
  <2>1. SpentAt(t)'
    BY <1>1, <1>2, <1>3, <1>4, <1>6 DEF SpentAt
  <2>. QED  BY <1>4, <1>6, <1>7, <2>1, SpentKept DEF QueueStep
<1>9. ASSUME NEW x \in Readers \cup Writers, NEW l \in Leases(x), WillTake(t, x, l.src)
      PROVE  WillTake(t, x, l.src)'
  <2>1. x \in Tasks /\ l.src \in Sources /\ l.src = wake[t].src
    BY <1>9, Elements DEF EventInv, Tasks, WillTake
  <2>2. \A e \in Held(l.src) : e.id < b
    BY <2>1 DEF EventInv, IdInv, b
  <2>. QED  BY <1>3, <1>4, <1>6, <1>9, <2>1, <2>2 DEF WillTake, At
<1>. QED  BY <1>1, <1>4, <1>5, <1>7, <1>8, <1>9, ConsumerMove

LEMMA FireConsumers ==
    ASSUME EventInv, SpentInv, ConsumerInv, NEW t \in Tasks, Fire(t)
    PROVE  SpentInv' /\ ConsumerInv'
<1>1. /\ task[t].pc = "fire" /\ Goto(t, "select") /\ UNCHANGED <<count, set, lease, wake, aborted>>
  BY DEF Fire, At
<1>2. "select" \in Pcs /\ "select" \notin Blocked
  BY DEF Pcs, Blocked
<1>3. /\ \A s \in Sources : Held(s)' = Held(s)
      /\ \A u \in Tasks : Leases(u)' = Leases(u)
      /\ \A u \in Tasks : \A s \in Sources : Interests(u, s)' = Interests(u, s)
      /\ task'[t].pc = "select" /\ \A u \in Tasks \ {t} : task'[u] = task[u]
  BY <1>1, <1>2, TransactionFrame
<1>4. QueueStep(t)
  BY <1>3 DEF QueueStep
<1>5. SpentInv'
  <2>1. SpentAt(t) /\ wake[t].src \in Sources
    BY DEF SpentInv, EventInv, EventTypes, WakeRec
  <2>2. SpentAt(t)'
    BY <1>1, <1>3, <2>1 DEF SpentAt
  <2>. QED  BY <1>1, <1>3, <1>4, <2>2, SpentKept DEF QueueStep
<1>6. ASSUME NEW x \in Readers \cup Writers, NEW l \in Leases(x), WillTake(t, x, l.src)
      PROVE  WillTake(t, x, l.src)'
  <2>1. x \in Tasks /\ l.src \in Sources
    BY <1>6, Elements DEF EventInv, Tasks
  <2>. QED  BY <1>1, <1>3, <1>6, <2>1 DEF WillTake, At
<1>. QED  BY <1>1, <1>2, <1>4, <1>5, <1>6, ConsumerMove

(* The wake takes an exclusive entry: by the turns it was the only one. *)
LEMMA TakeEntryConsumers ==
    ASSUME EventInv, SpentInv, ConsumerInv, CallsTakeTurns, NEW t \in Tasks, TakeEntry(t)
    PROVE  SpentInv' /\ ConsumerInv'
<1>1. task[t].pc = "select" /\ Goto(t, "fire") /\ count' = count
  BY DEF TakeEntry, At
<1>2. QueueStep(t) /\ \E s \in Sources : \E e \in Held(s) : Takes(t, s, e)
  BY TakeEntryStep
<1>3. PICK src \in Sources : \E e \in Held(src) : Takes(t, src, e)
  BY <1>2
<1>4. PICK e \in Held(src) : Takes(t, src, e)
  BY <1>3
<1>5. /\ \A f \in Held(src)' : f \in Held(src) /\ f.id # e.id
      /\ wake[t].src = src /\ wake'[t].src = src
      /\ wake'[t].ready = wake[t].ready /\ wake'[t].boundary = wake[t].boundary
      /\ ~wake'[t].exclusive => ~wake[t].exclusive \/ e.mode = "Exclusive"
      /\ \A u \in Tasks \ {t} : wake'[u] = wake[u]
  BY <1>4 DEF Takes
<1>6. "fire" \in Pcs /\ "fire" \notin Blocked
  BY DEF Pcs, Blocked
<1>7. task'[t].pc = "fire" /\ \A u \in Tasks \ {t} : task'[u] = task[u]
  BY <1>1, GotoFacts
<1>8. SpentAt(t)'
  <2> SUFFICES ASSUME ~wake'[t].exclusive, NEW f \in Held(src)', f.mode = "Exclusive"
               PROVE  f.id >= wake[t].boundary
    BY <1>5, <1>7 DEF SpentAt, Held
  <2>1. CASE ~wake[t].exclusive
    BY <1>1, <1>5, <2>1 DEF SpentInv, SpentAt
  <2>2. CASE e.mode = "Exclusive"
    <3>1. f \in Held(src) /\ f.id # e.id
      BY <1>5
    <3>2. /\ InCall(e.task) /\ InCall(f.task)
          /\ (src = "rx" => e.task \in Readers /\ f.task \in Readers)
          /\ (src = "tx" => e.task \in Writers /\ f.task \in Writers)
      BY <2>2, <3>1, ExclusiveEntry
    <3>3. e.task = f.task
      BY <3>2 DEF CallsTakeTurns, Sources
    <3>. QED  BY <3>1, <3>3, OneEntry
  <2>. QED  BY <1>5, <2>1, <2>2
<1>9. SpentInv'
  BY <1>2, <1>5, <1>7, <1>8, SpentKept DEF QueueStep
<1>10. ASSUME NEW x \in Readers \cup Writers, NEW l \in Leases(x), WillTake(t, x, l.src)
       PROVE  WillTake(t, x, l.src)'
  <2>1. l.src = src /\ wake[t].ready \cap Interests(x, src) # {}
    BY <1>5, <1>10 DEF WillTake
  <2>2. \A f \in Held(src) : f.task = x => f.id < wake[t].boundary
    BY <1>1, <1>10, <2>1 DEF WillTake, At
  <2>3. Interests(x, src)' = Interests(x, src)
    <3>1. task'[x].events = task[x].events
      <4>1. x \in Tasks
        BY DEF Tasks
      <4>2. task'[t].events = task[t].events
        BY <1>1, GotoFacts
      <4>. QED  BY <1>7, <4>1, <4>2
    <3>. QED  BY <3>1 DEF Interests
  <2>4. WillTake(t, x, src)'
    BY <1>5, <1>7, <2>1, <2>2, <2>3 DEF WillTake, At
  <2>. QED  BY <2>1, <2>4
<1>. QED  BY <1>1, <1>2, <1>5, <1>6, <1>9, <1>10, ConsumerMove

(* A wake that ends has met every entry it could take, and a consumer's among *)
(* them.                                                                      *)
LEMMA EndWakeConsumers ==
    ASSUME EventInv, SpentInv, ConsumerInv, NEW t \in Tasks, EndWake(t)
    PROVE  SpentInv' /\ ConsumerInv'
<1> DEFINE p == Finished(t)
           w == wake[t]
<1>1. /\ task[t].pc = "select" /\ NextEntry(w) = 0 /\ Goto(t, p) /\ wake' = [wake EXCEPT ![t] = NoWake]
      /\ UNCHANGED <<count, set, lease, woken, aborted>>
  BY DEF EndWake, At
<1>2. EventTypes /\ SpentAt(t) /\ PairInv
  BY DEF EventInv, SpentInv
<1>3. p \in {"clear", "done"} /\ p \in Pcs /\ p \notin Blocked
  BY DEF Finished, Pcs, Blocked
<1> HIDE DEF p
<1>4. task'[t].pc = p /\ \A u \in Tasks \ {t} : task'[u] = task[u]
  BY <1>1, GotoFacts
<1>5. \A u \in Tasks \ {t} : wake'[u] = wake[u]
  BY <1>1, <1>2 DEF EventTypes
<1>6. QueueStep(t)
  BY <1>1 DEF QueueStep, Held, Leases
<1>7. SpentInv'
  <2>1. SpentAt(t)'
    BY <1>3, <1>4 DEF SpentAt
  <2>. QED  BY <1>4, <1>5, <1>6, <2>1, SpentKept DEF QueueStep
<1>8. ASSUME NEW x \in Readers \cup Writers, NEW l \in Leases(x), ~l.notified, WillTake(t, x, l.src)
      PROVE  FALSE
  <2>1. x \in Tasks /\ l.src \in Sources /\ w.src = l.src
    BY <1>2, <1>8, Elements DEF Tasks, WillTake
  <2>2. PICK e \in Held(l.src) : e.id = l.id /\ e.task = x
    BY <1>2, <1>8, <2>1 DEF PairInv
  <2>3. e.id < w.boundary
    BY <1>1, <1>8, <2>2 DEF WillTake, At
  <2>4. e.interests \cap w.ready # {} /\ e.mode = "Exclusive"
    <3>1. e.interests = Interests(x, l.src) /\ e.mode = Mode(x)
      BY <1>2, <2>1, <2>2 DEF PairInv
    <3>2. x \notin Observers
      BY ConstantsAssumption
    <3>. QED  BY <1>8, <3>1, <3>2 DEF WillTake, Mode
  <2>5. w.exclusive
    <3>1. e.id \in Nat /\ w.boundary \in Nat
      BY <1>2, <2>1, Elements DEF EventTypes, WakeRec
    <3>2. ~(e.id >= w.boundary)
      BY <2>3, <3>1, SMTT(30)
    <3>. QED  BY <1>1, <1>2, <2>1, <2>4, <3>2 DEF SpentAt
  <2>6. set[w.src] \in Queue
    BY <1>2, <2>1 DEF EventTypes
  <2>7. \A f \in Held(w.src) : ~Selects(f, w.ready, w.boundary, w.exclusive)
    BY <1>1, <2>6, NextMatchingView DEF NextEntry, Held
  <2>. QED  BY <2>1, <2>2, <2>3, <2>4, <2>5, <2>7 DEF Selects
<1>. QED  BY <1>1, <1>3, <1>5, <1>6, <1>7, <1>8, ConsumerMove

(* Registering and cancelling: what is new in a queue has a new id. *)
LEMMA QueueConsumers ==
    ASSUME EventInv, SpentInv, ConsumerInv, NEW t \in Tasks, Register(t) \/ DropLease(t)
    PROVE  SpentInv' /\ ConsumerInv'
<1>1. PICK p \in {"retry", "register", "reset", "clear", "try", "done"} :
        /\ Goto(t, p) /\ (task[t].pc = "clear" => p \in {"clear", "done"})
  BY DEF Register, DropLease, At
<1>2. task[t].pc \in {"register", "reset", "clear"} /\ UNCHANGED <<count, wake>>
  BY DEF Register, DropLease, At
<1>3. QueueStep(t)
  BY RegisterStep, DropLeaseStep
<1>4. task'[t].pc = p /\ \A u \in Tasks \ {t} : task'[u] = task[u]
  BY <1>1, GotoFacts
<1>5. p \in Pcs /\ p \notin Blocked
  BY DEF Pcs, Blocked
<1>6. SpentInv'
  <2>1. SpentAt(t)'
    BY <1>4 DEF SpentAt
  <2>. QED  BY <1>2, <1>3, <1>4, <2>1, SpentKept DEF QueueStep
<1>7. \A x, s : ~WillTake(t, x, s)
  BY <1>2 DEF WillTake, At
<1>. QED  BY <1>1, <1>2, <1>3, <1>5, <1>6, <1>7, ConsumerMove

(* The steps of a call between its operation and its queues *)
LEMMA WaitingConsumers ==
    ASSUME EventInv, SpentInv, ConsumerInv, NEW t \in Tasks,
           CheckReady(t) \/ WouldBlock(t) \/ Pending(t) \/ Resume(t)
    PROVE  SpentInv' /\ ConsumerInv'
<1>1. UNCHANGED <<count, set, lease, wake>> /\ task[t].pc \in {"try", "retry", "pending", "parked"}
  BY DEF CheckReady, WouldBlock, Pending, Resume, At
<1>2. PICK p \in {"clear", "done", "register", "pending", "parked", "reset"} :
        Goto(t, p) /\ (p \in Blocked => task[t].pc \in Blocked \/ ~Succeeds(t))
  <2>1. CASE CheckReady(t)
    BY <2>1 DEF CheckReady, Finished, Blocked
  <2>2. CASE WouldBlock(t)
    BY <2>2 DEF WouldBlock
  <2>3. CASE Pending(t)
    BY <2>3 DEF Pending, Blocked, At
  <2>4. CASE Resume(t)
    BY <2>4 DEF Resume, Blocked
  <2>. QED  BY <2>1, <2>2, <2>3, <2>4
<1>3. p \in Pcs \ WakePcs /\ task[t].pc \notin WakePcs
  BY <1>1 DEF Pcs, WakePcs
<1>. QED  BY <1>1, <1>2, <1>3, QuietConsumers

(* A call begins: it holds no lease. *)
LEMMA StartConsumers ==
    ASSUME EventInv, SpentInv, ConsumerInv, NEW t \in Tasks, Start(t)
    PROVE  SpentInv' /\ ConsumerInv'
<1>1. PICK op, value, events, nonblock : \E p \in {"try", "done"} :
        Call(t, op, value, events, nonblock, p)
  BY DEF Start, Read, Write, SignalKernel, SignalKernelSaturating, Poll
<1>2. PICK p \in {"try", "done"} : Call(t, op, value, events, nonblock, p)
  BY <1>1
<1>3. /\ task[t].pc = "idle" /\ UNCHANGED <<count, set, lease, wake>>
      /\ task'[t].pc = p /\ \A u \in Tasks \ {t} : task'[u] = task[u]
  <2>1. task \in [Tasks -> TaskRec]
    BY DEF EventInv, EventTypes
  <2>. QED  BY <1>2, <2>1 DEF Call, At
<1>4. SpentInv'
  <2>1. SpentAt(t)'
    BY <1>3 DEF SpentAt
  <2>. QED  BY <1>3, <2>1, SpentKept DEF Held
<1>5. Undisturbed' => Undisturbed
  <2>1. Faulty \subseteq Tasks
    BY ConstantsAssumption DEF Tasks
  <2>2. \A u \in Tasks : task[u].pc \in {"clear", "done"} => task'[u].pc \in {"clear", "done"}
    BY <1>3
  <2>. QED  BY <2>1, <2>2 DEF Undisturbed
<1>6. ASSUME NEW x \in Readers \cup Writers, task'[x].pc \in Blocked
      PROVE  x # t /\ task'[x] = task[x] /\ Succeeds(x)' = Succeeds(x)
  <2>1. x # t
    BY <1>3, <1>6 DEF Blocked
  <2>2. task'[x] = task[x]
    BY <1>3, <2>1 DEF Tasks
  <2>. QED  BY <1>3, <2>1, <2>2 DEF Succeeds, PollEvents
<1>7. ASSUME NEW x \in Readers \cup Writers, x # t, NEW l \in Leases(x), NEW u \in Tasks,
             WillTake(u, x, l.src)
      PROVE  WillTake(u, x, l.src)'
  <2>1. u # t
    BY <1>3, <1>7 DEF WillTake, At
  <2>2. task'[u] = task[u] /\ task'[x] = task[x]
    BY <1>3, <1>7, <2>1 DEF Tasks
  <2>. QED  BY <1>3, <1>7, <2>2 DEF WillTake, At, Held, Interests
<1> SUFFICES ASSUME Undisturbed', NEW x \in Readers \cup Writers, NEW l \in Leases(x)',
                    task'[x].pc \in Blocked, ~l.notified, Succeeds(x)'
             PROVE  \E u \in Tasks : WillTake(u, x, l.src)'
  BY <1>4 DEF ConsumerInv
<1>8. l \in Leases(x)
  BY <1>3 DEF Leases
<1>9. PICK u \in Tasks : WillTake(u, x, l.src)
  BY <1>5, <1>6, <1>8 DEF ConsumerInv
<1>. QED  BY <1>6, <1>7, <1>8, <1>9

(* The counter is taken and nobody is told: a disturbance. *)
LEMMA CopyOutConsumers ==
    ASSUME EventInv, SpentInv, ConsumerInv, NEW t \in Tasks, CopyOutFails(t)
    PROVE  SpentInv' /\ ConsumerInv'
<1>1. t \in Faulty /\ Goto(t, Finished(t)) /\ UNCHANGED <<set, lease, wake>>
  BY DEF CopyOutFails
<1>2. task'[t].pc \in {"clear", "done"} /\ \A u \in Tasks \ {t} : task'[u] = task[u]
  BY <1>1, GotoFacts DEF Finished
<1>3. ConsumerInv'
  BY <1>1, <1>2 DEF ConsumerInv, Undisturbed
<1>4. SpentAt(t)'
  BY <1>2 DEF SpentAt
<1>. QED  BY <1>1, <1>2, <1>3, <1>4, SpentKept DEF Held

(* A blocked read waits for IN in poll_rx, a blocked write for OUT in poll_tx. *)
LEMMA ConsumerCall ==
    ASSUME EventInv, NEW x \in Readers \cup Writers, task[x].pc \in Blocked, NEW l \in Leases(x)
    PROVE  \/ task[x].op = "read" /\ l.src = "rx" /\ Interests(x, l.src) = {"IN"}
           \/ task[x].op = "write" /\ l.src = "tx" /\ Interests(x, l.src) = {"OUT"}
<1>1. x \in Tasks /\ x \notin Observers
  BY ConstantsAssumption DEF Tasks
<1>2. Legal(x, task[x]) /\ PlaceAt(x) /\ lease[x] \in Seq(Lease)
  BY <1>1, WaitFacts
<1>3. task[x].op \in {"read", "write"}
  BY <1>1, <1>2 DEF Legal, Blocked
<1>4. Len(lease[x]) = Len(SourcesOf(x)) /\ \A j \in 1 .. Len(lease[x]) : lease[x][j].src = SourcesOf(x)[j]
  BY <1>2 DEF PlaceAt, Blocked, Waits
<1>5. PICK j \in 1 .. Len(lease[x]) : l = lease[x][j]
  BY <1>2, SeqRange, SMTT(30) DEF Leases
<1>6. CASE task[x].op = "read"
  <2>1. SourcesOf(x) = <<"rx">>
    BY <1>6 DEF SourcesOf
  <2>2. l.src = "rx"
    BY <1>4, <1>5, <2>1, SMTT(30)
  <2>3. Interests(x, "rx") = {"IN"}
    BY <1>2, <1>6 DEF Legal, Interests
  <2>. QED  BY <1>6, <2>2, <2>3
<1>7. CASE task[x].op = "write"
  <2>1. SourcesOf(x) = <<"tx">>
    BY <1>7, SMTT(30) DEF SourcesOf
  <2>2. l.src = "tx"
    BY <1>4, <1>5, <2>1, SMTT(30)
  <2>3. Interests(x, "tx") = {"OUT"}
    BY <1>2, <1>7 DEF Legal, Interests
  <2>. QED  BY <1>7, <2>2, <2>3
<1>. QED  BY <1>3, <1>6, <1>7

(* An update of the counter that lets a blocked call succeed wakes the queue *)
(* in which that call waits.                                                 *)
LEMMA ConsumerAnnounced ==
    ASSUME EventInv, NEW t \in Tasks, Succeeds(t), count' = Updated(t),
           task[t].op \in {"read", "write", "signal", "saturate"},
           NEW x \in Readers \cup Writers, task[x].pc \in Blocked, NEW l \in Leases(x),
           task'[x] = task[x], Succeeds(x)', ~Succeeds(x)
    PROVE  l.src = WakeAfter(t).src /\ WakeAfter(t).ready \cap Interests(x, l.src) # {}
<1>1. task[t] \in TaskRec /\ count \in 0 .. MaxCount /\ MaxCount \in Nat /\ Values \subseteq 0 .. MaxCount
  BY WaitFacts, ConstantsAssumption
<1>0. \A v \in Values \cup {0} : v \in Nat
  <2>1. \A v \in 0 .. MaxCount : v \in Nat
    BY SMTT(30)
  <2>. QED  BY <1>1, <2>1, SMTT(30)
<1>2. task[t].value \in Nat /\ Updated(t) \in 0 .. MaxCount
  <2>1. task[t].value \in Values \cup {0}
    BY <1>1 DEF TaskRec
  <2>. QED  BY <1>0, <2>1, UpdatedType
<1>3. CASE task[x].op = "read" /\ l.src = "rx" /\ Interests(x, l.src) = {"IN"}
  <2>1. count' > 0 /\ ~(count > 0)
    BY <1>3 DEF Succeeds
  <2>2. task[t].op # "read"
    BY <2>1 DEF Succeeds
  <2>3. WakeAfter(t).src = "rx" /\ "IN" \in WakeAfter(t).ready
    BY <2>2 DEF WakeAfter
  <2>. QED  BY <1>3, <2>3
<1>4. CASE task[x].op = "write" /\ l.src = "tx" /\ Interests(x, l.src) = {"OUT"}
  <2>1. /\ task[x].value = 0 \/ MaxCount - count' > task[x].value
        /\ ~(task[x].value = 0 \/ MaxCount - count > task[x].value)
    BY <1>4, SMTT(30) DEF Succeeds
  <2>2. task[x].value \in Nat
    <3>1. x \in Tasks
      BY DEF Tasks
    <3>2. task[x].value \in Values \cup {0}
      BY <3>1, WaitFacts DEF TaskRec
    <3>. QED  BY <1>0, <3>2
  <2>3. count' < count
    BY <1>1, <1>2, <2>1, <2>2, SMTT(30)
  <2>4. task[t].op = "read"
    <3>1. CASE task[t].op \in {"write", "signal"}
      <4>1. count' = count + task[t].value
        BY <3>1, SMTT(30) DEF Updated
      <4>. QED  BY <1>1, <1>2, <2>3, <4>1, SMTT(30)
    <3>2. CASE task[t].op = "saturate"
      <4>1. count' = IF count + task[t].value > MaxCount THEN MaxCount ELSE count + task[t].value
        BY <3>2, SMTT(30) DEF Updated
      <4>. QED  BY <1>1, <1>2, <2>3, <4>1, SMTT(30)
    <3>. QED  BY <3>1, <3>2
  <2>5. WakeAfter(t).src = "tx" /\ "OUT" \in WakeAfter(t).ready
    BY <2>4 DEF WakeAfter
  <2>. QED  BY <1>4, <2>5
<1>. QED  BY <1>3, <1>4, ConsumerCall

LEMMA OperateConsumers ==
    ASSUME EventInv, SpentInv, ConsumerInv, NEW t \in Tasks, Operate(t)
    PROVE  SpentInv' /\ ConsumerInv'
<1>1. /\ task[t].pc \in {"try", "retry"} /\ task[t].op # "poll" /\ Succeeds(t)
      /\ count' = Updated(t) /\ UNCHANGED <<set, lease, woken, aborted>>
  BY DEF Operate
<1>2. Legal(t, task[t]) /\ task[t] \in TaskRec /\ count \in 0 .. MaxCount /\ MaxCount \in Nat
  BY WaitFacts, ConstantsAssumption
<1>3. task[t].op \in {"read", "write", "signal", "saturate"}
  <2>1. task[t].op \in Ops
    BY <1>2 DEF TaskRec
  <2>. QED  BY <1>1, <1>2, <2>1 DEF Legal, Ops
<1>4. CASE task[t].op \in {"write", "signal"} /\ task[t].value = 0
  <2>1. Goto(t, Finished(t)) /\ UNCHANGED wake
    BY <1>4 DEF Operate
  <2>2. count' = count
    <3>1. count' = count + 0
      BY <1>1, <1>4, SMTT(30) DEF Updated
    <3>. QED  BY <1>2, <3>1, SMTT(30)
  <2>3. Finished(t) \in Pcs \ WakePcs /\ Finished(t) \notin Blocked /\ task[t].pc \notin WakePcs
    BY <1>1 DEF Finished, Pcs, WakePcs, Blocked
  <2>. QED  BY <1>1, <2>1, <2>2, <2>3, QuietConsumers
<1>5. CASE ~(task[t].op \in {"write", "signal"} /\ task[t].value = 0)
  <2> DEFINE w == WakeAfter(t)
  <2>1. Goto(t, "boundary") /\ wake' = [wake EXCEPT ![t] = w]
    BY <1>5 DEF Operate
  <2>2. "boundary" \in Pcs
    BY DEF Pcs
  <2>3. /\ \A s \in Sources : Held(s)' = Held(s)
        /\ \A u \in Tasks : Leases(u)' = Leases(u)
        /\ \A u \in Tasks : \A s \in Sources : Interests(u, s)' = Interests(u, s)
        /\ task'[t].pc = "boundary" /\ \A u \in Tasks \ {t} : task'[u] = task[u]
    BY <1>1, <2>1, <2>2, TransactionFrame
  <2>4. wake'[t] = w /\ \A u \in Tasks \ {t} : wake'[u] = wake[u]
    BY <2>1 DEF EventInv, EventTypes
  <2>5. w.exclusive
    BY DEF WakeAfter
  <2> HIDE DEF w
  <2>6. SpentInv'
    <3>1. SpentAt(t)'
      BY <2>3, <2>4, <2>5 DEF SpentAt
    <3>. QED  BY <2>3, <2>4, <3>1, SpentKept
  <2>7. Undisturbed' => Undisturbed
    BY <1>1, <2>1, <2>2, UndisturbedBefore
  <2> SUFFICES ASSUME Undisturbed', NEW x \in Readers \cup Writers, NEW l \in Leases(x)',
                      task'[x].pc \in Blocked, ~l.notified, Succeeds(x)'
               PROVE  \E u \in Tasks : WillTake(u, x, l.src)'
    BY <2>6 DEF ConsumerInv
  <2>8. x \in Tasks \ {t} /\ task'[x] = task[x] /\ l \in Leases(x)
    BY <2>3 DEF Tasks, Blocked
  <2>9. l.src \in Sources
    BY <2>8, Elements DEF EventInv
  <2>10. CASE ~Succeeds(x)
    <3>1. l.src = w.src /\ w.ready \cap Interests(x, l.src) # {}
      BY <1>1, <1>3, <2>8, <2>10, ConsumerAnnounced DEF w
    <3>2. WillTake(t, x, l.src)'
      BY <2>3, <2>4, <2>8, <2>9, <3>1 DEF WillTake, At
    <3>. QED  BY <3>2
  <2>11. CASE Succeeds(x)
    <3>1. PICK u \in Tasks : WillTake(u, x, l.src)
      BY <2>7, <2>8, <2>11 DEF ConsumerInv
    <3>2. u # t
      BY <1>1, <3>1 DEF WillTake, At
    <3>3. WillTake(u, x, l.src)'
      BY <2>3, <2>4, <2>8, <2>9, <3>1, <3>2 DEF WillTake, At
    <3>. QED  BY <3>3
  <2>. QED  BY <2>10, <2>11
<1>. QED  BY <1>4, <1>5

LEMMA ConsumersNext ==
    ASSUME EventInv, SpentInv, ConsumerInv, CallsTakeTurns, [Next]_vars
    PROVE  SpentInv' /\ ConsumerInv'
<1>1. ASSUME UNCHANGED <<count, set, task, lease, wake>>
      PROVE  SpentInv' /\ ConsumerInv'
  <2>1. SpentInv'
    BY <1>1 DEF SpentInv, SpentAt, Held
  <2>2. \A x, s : WillTake(x, s, "rx")' = WillTake(x, s, "rx") /\ WillTake(x, s, "tx")' = WillTake(x, s, "tx")
    BY <1>1 DEF WillTake, At, Held, Interests
  <2>3. \A x : Succeeds(x)' = Succeeds(x) /\ Leases(x)' = Leases(x)
    BY <1>1 DEF Succeeds, PollEvents, Leases
  <2>4. Undisturbed' = Undisturbed
    BY <1>1 DEF Undisturbed
  <2>5. \A x \in Readers \cup Writers : \A l \in Leases(x) : l.src \in {"rx", "tx"}
    BY Elements DEF EventInv, Tasks, Sources
  <2>6. ConsumerInv'
    <3> SUFFICES ASSUME Undisturbed', NEW x \in Readers \cup Writers, NEW l \in Leases(x)',
                        task'[x].pc \in Blocked, ~l.notified, Succeeds(x)'
                 PROVE  \E u \in Tasks : WillTake(u, x, l.src)'
      BY DEF ConsumerInv
    <3>1. l \in Leases(x) /\ Succeeds(x) /\ Undisturbed /\ task[x].pc \in Blocked
      BY <1>1, <2>3, <2>4
    <3>2. PICK u \in Tasks : WillTake(u, x, l.src)
      BY <3>1 DEF ConsumerInv
    <3>3. WillTake(u, x, l.src)'
      BY <2>2, <2>5, <3>1, <3>2
    <3>. QED  BY <3>3
  <2>. QED  BY <2>1, <2>6
<1>2. CASE UNCHANGED vars
  BY <1>1, <1>2 DEF vars
<1>3. ASSUME NEW t \in Tasks, Start(t) \/ Step(t) \/ Abort(t)
      PROVE  SpentInv' /\ ConsumerInv'
  <2>1. CASE Start(t)
    BY <2>1, StartConsumers
  <2>2. CASE Abort(t)
    BY <1>1, <2>2 DEF Abort
  <2>3. CASE Operate(t)
    BY <2>3, OperateConsumers
  <2>4. CASE CopyOutFails(t)
    BY <2>4, CopyOutConsumers
  <2>5. CASE CheckReady(t) \/ WouldBlock(t) \/ Pending(t) \/ Resume(t)
    BY <2>5, WaitingConsumers
  <2>6. CASE Register(t) \/ DropLease(t)
    BY <2>6, QueueConsumers
  <2>7. CASE Boundary(t)
    BY <2>7, BoundaryConsumers
  <2>8. CASE TakeEntry(t)
    BY <2>8, TakeEntryConsumers
  <2>9. CASE Fire(t)
    BY <2>9, FireConsumers
  <2>10. CASE EndWake(t)
    BY <2>10, EndWakeConsumers
  <2>. QED  BY <1>3, <2>1, <2>2, <2>3, <2>4, <2>5, <2>6, <2>7, <2>8, <2>9, <2>10 DEF Step
<1>. QED  BY <1>2, <1>3 DEF Next

LEMMA ConsumersInit ==
    ASSUME Init
    PROVE  SpentInv /\ ConsumerInv
<1>1. \A t \in Tasks : task[t].pc = "idle"
  BY DEF Init
<1>2. SpentInv
  BY <1>1 DEF SpentInv, SpentAt
<1>3. \A t \in Readers \cup Writers : task[t].pc \notin Blocked
  BY <1>1 DEF Tasks, Blocked
<1>. QED  BY <1>2, <1>3 DEF ConsumerInv

LEMMA NoneStranded ==
    ASSUME EventInv, ConsumerInv, Undisturbed
    PROVE  NoStrandedConsumer
<1> SUFFICES ASSUME \A u \in Tasks : task[u].pc \in {"idle", "done"} \/ Asleep(u),
                    NEW t \in Readers \cup Writers, Asleep(t), Succeeds(t)
             PROVE  FALSE
  BY DEF NoStrandedConsumer
<1>1. t \in Tasks /\ task[t].pc = "parked" /\ ~woken[t]
  BY DEF Tasks, Asleep, At
<1>2. \A u \in Tasks : task[u].pc \in {"idle", "done", "parked"}
  BY DEF Asleep, At
<1>3. PICK l : l \in Leases(t)
  <2>1. PlaceAt(t) /\ lease[t] \in Seq(Lease) /\ Legal(t, task[t])
    BY <1>1, WaitFacts
  <2>2. task[t].op \in {"read", "write", "poll"} /\ Len(lease[t]) = Len(SourcesOf(t))
    BY <1>1, <2>1 DEF PlaceAt, Legal
  <2>3. Len(SourcesOf(t)) \in {1, 2}
    BY <1>1, <2>2, SourcesFacts
  <2>4. 1 \in 1 .. Len(lease[t])
    BY <2>2, <2>3, SMTT(30)
  <2>5. lease[t][1] \in Leases(t)
    BY <2>1, <2>4, SeqRange DEF Leases
  <2>. QED  BY <2>5
<1>4. CASE l.notified
  <2>1. PICK u \in Tasks : At(u, "fire")
    BY <1>1, <1>3, <1>4 DEF EventInv, NotifiedInv, Waits
  <2>. QED  BY <1>2, <2>1 DEF At
<1>5. CASE ~l.notified
  <2>1. PICK u \in Tasks : WillTake(u, t, l.src)
    BY <1>1, <1>3, <1>5 DEF ConsumerInv, Blocked
  <2>. QED  BY <1>2, <2>1 DEF WillTake, At
<1>. QED  BY <1>4, <1>5

(* While reads come one at a time and writes come one at a time, and no read  *)
(* has failed to copy out, no call that could complete is left asleep: the    *)
(* exclusive wake goes to the consumer that needs it, for any number of       *)
(* completions, poll(2) calls and cancellations around it.                    *)
THEOREM ConsumersInTurns == Spec /\ []CallsTakeTurns => [](Undisturbed => NoStrandedConsumer)
<1>1. Init => SpentInv /\ ConsumerInv
  BY ConsumersInit
<1>2. EventInv /\ CallsTakeTurns /\ SpentInv /\ ConsumerInv /\ [Next]_vars => SpentInv' /\ ConsumerInv'
  BY ConsumersNext
<1>3. EventInv /\ ConsumerInv => (Undisturbed => NoStrandedConsumer)
  BY NoneStranded
<1>. QED  BY <1>1, <1>2, <1>3, EventInvariant, PTL DEF Spec

(* With one reader and one writer whose buffers can be written, nothing more   *)
(* is asked of the callers.                                                    *)
THEOREM SoleConsumers ==
    ASSUME \A t, u \in Readers : t = u, \A t, u \in Writers : t = u, Faulty = {}
    PROVE  Spec => []NoStrandedConsumer
<1>1. CallsTakeTurns
  BY DEF CallsTakeTurns
<1>2. Undisturbed
  BY DEF Undisturbed
<1>. QED  BY <1>1, <1>2, ConsumersInTurns, PTL
=============================================================================
