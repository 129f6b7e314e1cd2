--------------------------- MODULE TaskSync_proofs ---------------------------
(********************************************************************************)
(* Proofs about the two semaphores of TaskSync, for any number of threads,      *)
(* producers and permits, and whatever becomes of the wakes of their parks:     *)
(* a writer is alone and the drain slot has one user; permits are conserved and *)
(* reach the threads that wait for them; every variable keeps its type.         *)
(********************************************************************************)
EXTENDS TaskSync, FiniteSetTheorems, SequenceTheorems, TLAPS

(* A step that names no prover is tried with Zenon, then with SMT. *)
USE ZenonT(30), SMTT(30)

-----------------------------------------------------------------------------
(* The reader-writer semaphore *)

Owners == {"counting", "enter", "begin", "publish", "commit", "asleep", "recheck", "trying",
           "writing"}
Labels == Owners \cup {"idle", "reading", "last", "wake"}

(* The part of the type invariant that does not speak of the parks. *)
LockTypes ==
    /\ gate \in Threads \cup {none} /\ drain \in Threads \cup {none}
    /\ readers \in Nat
    /\ pc \in [Threads -> Labels]
    /\ taken \in [Threads -> Threads \cup {none}]
    /\ asserted = FALSE

Reading == {t \in Threads : pc[t] = "reading"}

(* The inductive invariant.  The gate has one owner; the count is the number *)
(* of readers inside; a writer holds the gate and saw the count at zero; a    *)
(* handle in the drain slot is that of the owner, about to sleep or asleep; a *)
(* reader that goes on to wake has taken a handle.                            *)
LockInv ==
    /\ LockTypes
    /\ \A t \in Threads : pc[t] \in Owners => gate = t
    /\ readers = Cardinality(Reading)
    /\ \A t \in Threads : pc[t] = "writing" => readers = 0
    /\ drain # none => pc[drain] \in {"commit", "asleep"}
    /\ \A t \in Threads : pc[t] = "wake" => taken[t] # none

(* A thread that starts reading adds one to the number of readers inside. *)
LEMMA EnterReading ==
    ASSUME LockTypes, NEW t \in Threads, pc[t] # "reading", pc' = [pc EXCEPT ![t] = "reading"]
    PROVE  Cardinality(Reading') = Cardinality(Reading) + 1
<1>1. IsFiniteSet(Reading)
  BY ThreadsAssumption, FS_Subset DEF Reading
<1>2. Reading' = Reading \cup {t} /\ t \notin Reading
  BY DEF Reading, LockTypes
<1>3. Cardinality(Reading \cup {t}) = Cardinality(Reading) + 1
  BY <1>1, <1>2, FS_AddElement
<1>. QED  BY <1>2, <1>3

(* A thread that leaves takes one away, and there was one. *)
LEMMA LeaveReading ==
    ASSUME LockTypes, NEW t \in Threads, pc[t] = "reading", NEW l, l # "reading",
           pc' = [pc EXCEPT ![t] = l]
    PROVE  /\ Cardinality(Reading') = Cardinality(Reading) - 1
           /\ Cardinality(Reading) \in Nat \ {0}
<1>1. IsFiniteSet(Reading)
  BY ThreadsAssumption, FS_Subset DEF Reading
<1>2. Reading' = Reading \ {t} /\ t \in Reading
  BY DEF Reading, LockTypes
<1>3. Cardinality(Reading \ {t}) = Cardinality(Reading) - 1
  BY <1>1, <1>2, FS_RemoveElement
<1>4. Cardinality(Reading) \in Nat /\ Cardinality(Reading) # 0
  BY <1>1, <1>2, FS_CardinalityType, FS_EmptySet
<1>5. Cardinality(Reading') = Cardinality(Reading \ {t})
  BY <1>2
<1>. QED  BY <1>3, <1>4, <1>5

(* Any other step of a thread leaves the readers inside as they are. *)
LEMMA SameReading ==
    ASSUME LockTypes, NEW t \in Threads, pc[t] # "reading", NEW l, l # "reading",
           pc' = [pc EXCEPT ![t] = l]
    PROVE  Cardinality(Reading') = Cardinality(Reading)
<1>1. Reading' = Reading
  BY DEF Reading, LockTypes
<1>. QED  BY <1>1

LEMMA LockInit == Init => LockInv
<1> SUFFICES ASSUME Init PROVE LockInv
  OBVIOUS
<1>1. Reading = {}
  BY DEF Init, Rw!Init, Reading
<1>2. Cardinality(Reading) = 0
  BY <1>1, FS_EmptySet
<1>. QED  BY <1>2 DEF Init, Rw!Init, LockInv, LockTypes, Labels, Owners

(* Every step of the reader-writer semaphore keeps the invariant. *)
LEMMA LockStep ==
    ASSUME LockInv, NEW t \in Threads,
           \/ Rw!EnterShared(t) \/ Rw!LockExclusive(t) \/ Rw!TryLockExclusive(t)
           \/ Rw!UnlockShared(t) \/ Rw!UnlockExclusive(t) \/ Rw!Working(t)
    PROVE  LockInv'
<1> USE ThreadsAssumption
<1> USE DEF LockInv, LockTypes, Labels, Owners, Rw!At, Rw!Goto
<1>1. CASE Rw!EnterShared(t) \/ Rw!LockExclusive(t) \/ Rw!TryLockExclusive(t)
  <2>1. pc[t] # "reading" /\ Cardinality(Reading') = Cardinality(Reading)
    BY <1>1, SameReading DEF Rw!EnterShared, Rw!LockExclusive, Rw!TryLockExclusive
  <2>. QED  BY <1>1, <2>1 DEF Rw!EnterShared, Rw!LockExclusive, Rw!TryLockExclusive
<1>2. CASE Rw!CountReader(t)
  <2>1. Cardinality(Reading') = Cardinality(Reading) + 1
    BY <1>2, EnterReading DEF Rw!CountReader
  <2>. QED  BY <1>2, <2>1, SMTT(30) DEF Rw!CountReader
<1>3. CASE Rw!UnlockShared(t)
  <2>1. /\ Cardinality(Reading') = Cardinality(Reading) - 1
        /\ Cardinality(Reading) \in Nat \ {0}
    BY <1>3, LeaveReading DEF Rw!UnlockShared
  <2>. QED  BY <1>3, <2>1, SMTT(30) DEF Rw!UnlockShared
<1>4. CASE Rw!TakeDrain(t) \/ Rw!WakeDrain(t)
  <2>1. Cardinality(Reading') = Cardinality(Reading)
    BY <1>4, SameReading DEF Rw!TakeDrain, Rw!WakeDrain
  <2>. QED  BY <1>4, <2>1, SMTT(30) DEF Rw!TakeDrain, Rw!WakeDrain
<1>5. CASE Rw!EnterDrain(t) \/ Rw!BeginPark(t) \/ Rw!CommitDrain(t) \/ Rw!RecheckReaders(t)
  <2>1. Cardinality(Reading') = Cardinality(Reading)
    BY <1>5, SameReading DEF Rw!EnterDrain, Rw!BeginPark, Rw!CommitDrain, Rw!RecheckReaders
  <2>. QED  BY <1>5, <2>1, SMTT(30) DEF Rw!EnterDrain, Rw!BeginPark, Rw!CommitDrain, Rw!RecheckReaders
<1>6. CASE Rw!PublishDrain(t)
  <2>1. Cardinality(Reading') = Cardinality(Reading)
    BY <1>6, SameReading DEF Rw!PublishDrain
  <2>2. drain = none
    BY <1>6 DEF Rw!PublishDrain
  <2>. QED  BY <1>6, <2>1, <2>2 DEF Rw!PublishDrain
<1>7. CASE Rw!ClearDrain(t)
  <2>1. Cardinality(Reading') = Cardinality(Reading)
    BY <1>7, SameReading DEF Rw!ClearDrain
  <2>. QED  BY <1>7, <2>1 DEF Rw!ClearDrain
<1>8. CASE Rw!TryReaders(t) \/ Rw!UnlockExclusive(t)
  <2>1. Cardinality(Reading') = Cardinality(Reading)
    BY <1>8, SameReading DEF Rw!TryReaders, Rw!UnlockExclusive
  <2>. QED  BY <1>8, <2>1 DEF Rw!TryReaders, Rw!UnlockExclusive
<1>. QED  BY <1>1, <1>2, <1>3, <1>4, <1>5, <1>6, <1>7, <1>8 DEF Rw!Working

LEMMA LockUnchanged ==
    ASSUME LockInv, UNCHANGED rwOnly
    PROVE  LockInv'
<1>1. Reading' = Reading
  BY DEF rwOnly, Reading
<1>2. Cardinality(Reading') = Cardinality(Reading)
  BY <1>1
<1>. QED  BY <1>2 DEF LockInv, LockTypes, rwOnly

LEMMA LockNext == LockInv /\ [Next]_vars => LockInv'
<1> SUFFICES ASSUME LockInv, [Next]_vars PROVE LockInv'
  OBVIOUS
<1>1. CASE RwStep
  BY <1>1, LockStep DEF RwStep, Rw!Next
<1>2. CASE SemStep
  BY <1>2, LockUnchanged DEF SemStep, rwOnly
<1>3. CASE UNCHANGED vars
  BY <1>3, LockUnchanged DEF vars
<1>. QED  BY <1>1, <1>2, <1>3 DEF Next

(* A writer in its critical section is alone, for any number of threads. *)
LEMMA LockedOut == LockInv => Exclusive
<1> SUFFICES ASSUME LockInv, NEW w \in Threads, pc[w] = "writing"
             PROVE  gate = w /\ \A t \in Threads \ {w} : pc[t] \notin {"reading", "writing"}
  BY DEF Exclusive, Rw!Exclusive, Rw!At
<1>1. gate = w /\ \A t \in Threads \ {w} : pc[t] # "writing"
  BY DEF LockInv, LockTypes, Owners
<1>2. IsFiniteSet(Reading)
  BY ThreadsAssumption, FS_Subset DEF Reading
<1>3. Cardinality(Reading) = 0
  BY DEF LockInv
<1>4. Reading = {}
  BY <1>2, <1>3, FS_EmptySet
<1>. QED  BY <1>1, <1>4 DEF Reading

(* Writers exclude readers and writers in every behaviour: lock_exclusive   *)
(* and try_lock_exclusive return only when no counted reader is inside.     *)
THEOREM WritersExclude == Spec => []Exclusive
<1>1. Init => LockInv
  BY LockInit
<1>2. LockInv /\ [Next]_vars => LockInv'
  BY LockNext
<1>3. LockInv => Exclusive
  BY LockedOut
<1>. QED  BY <1>1, <1>2, <1>3, PTL DEF Spec

(* The assertion of drain_readers, that the writer gate owns one drain      *)
(* waiter, holds in every behaviour.                                        *)
THEOREM DrainSlotOwned == Spec => []OneDrainWaiter
<1>1. Init => LockInv
  BY LockInit
<1>2. LockInv /\ [Next]_vars => LockInv'
  BY LockNext
<1>3. LockInv => OneDrainWaiter
  BY DEF LockInv, LockTypes, OneDrainWaiter, Rw!OneDrainWaiter
<1>. QED  BY <1>1, <1>2, <1>3, PTL DEF Spec


-----------------------------------------------------------------------------
(* The counting semaphore *)

(* Where a thread has a waiter. *)
Waiting == {"sample", "check", "begin", "recheck", "arm", "commit", "asleep", "drop"}
Places == Waiting \cup {"idle", "enqueue", "restore", "handing"}

Acquisitions ==
    [pc : Places, granted : BOOLEAN, handoff : BOOLEAN, stop : BOOLEAN, interrupted : BOOLEAN,
     expired : BOOLEAN, armed : BOOLEAN]

(* The types, without the parks. *)
PermitTypes ==
    /\ permits \in 0 .. MaxPermits /\ waiters \in Seq(Threads)
    /\ acq \in [Threads -> Acquisitions]
    /\ handing \in [Sem!Contexts -> Threads \cup {none}] /\ woke \in [Sem!Contexts -> BOOLEAN]
    /\ ups \in Nat /\ downs \in Nat /\ panicked \in BOOLEAN

(* Only a waiting thread is granted or has a timer; a queued one waits, is    *)
(* not granted and is queued once.                                            *)
QueueInv ==
    /\ \A t \in Threads : acq[t].granted \/ acq[t].armed => acq[t].pc \in Waiting
    /\ \A t \in Threads : acq[t].handoff => acq[t].granted
    /\ \A i \in 1 .. Len(waiters) : acq[waiters[i]].pc \in Waiting /\ ~acq[waiters[i]].granted
    /\ \A i, j \in 1 .. Len(waiters) : waiters[i] = waiters[j] => i = j

(* An up() in progress hands over to a granted thread whose handoff is not    *)
(* complete, and no two hand over to the same; a thread does it inside Drop.  *)
HandoffInv ==
    /\ \A c \in Sem!Contexts : handing[c] # none =>
         acq[handing[c]].granted /\ ~acq[handing[c]].handoff
    /\ \A c, d \in Sem!Contexts : handing[c] # none /\ handing[c] = handing[d] => c = d
    /\ \A t \in Threads : handing[t] # none => acq[t].pc = "handing"

(* The inductive invariant: what is granted, queued and handed over fit, so   *)
(* that each grant reserves one permit more and each return gives one up.     *)
PermitInv ==
    /\ PermitTypes /\ QueueInv /\ HandoffInv
    /\ NoStrandedWaiter
    /\ PermitsConserved

-----------------------------------------------------------------------------
(* Lemmas about the waiters and the reserved permits *)

(* What is left of a sequence when one element is taken out. *)
Without(s, i) == SubSeq(s, 1, i - 1) \o SubSeq(s, i + 1, Len(s))

LEMMA Removal ==
    ASSUME NEW S, NEW s \in Seq(S), NEW i \in 1 .. Len(s)
    PROVE  /\ Without(s, i) \in Seq(S)
           /\ Len(Without(s, i)) = Len(s) - 1
           /\ \A j \in 1 .. Len(s) - 1 :
                Without(s, i)[j] = IF j < i THEN s[j] ELSE s[j + 1]
<1> DEFINE a == SubSeq(s, 1, i - 1)  b == SubSeq(s, i + 1, Len(s))
<1>0. Len(s) \in Nat
  BY LenProperties
<1>1. a \in Seq(S) /\ Len(a) = i - 1 /\ \A j \in 1 .. i - 1 : a[j] = s[j]
  <2>1. \A j \in 1 .. i - 1 : s[j] \in S
    BY <1>0, ElementOfSeq, SMTT(30)
  <2>2. /\ a \in Seq(S) /\ Len(a) = IF 1 <= i - 1 THEN (i - 1) - 1 + 1 ELSE 0
        /\ \A j \in 1 .. (i - 1) - 1 + 1 : a[j] = s[1 + j - 1]
    BY <2>1, SubSeqProperties, SMTT(30)
  <2> HIDE DEF a
  <2>. QED  BY <1>0, <2>2, SMTT(30)
<1>2. b \in Seq(S) /\ Len(b) = Len(s) - i /\ \A j \in 1 .. Len(s) - i : b[j] = s[i + j]
  <2>1. \A j \in i + 1 .. Len(s) : s[j] \in S
    BY <1>0, ElementOfSeq, SMTT(30)
  <2>2. /\ b \in Seq(S) /\ Len(b) = IF i + 1 <= Len(s) THEN Len(s) - (i + 1) + 1 ELSE 0
        /\ \A j \in 1 .. Len(s) - (i + 1) + 1 : b[j] = s[(i + 1) + j - 1]
    BY <1>0, <2>1, SubSeqProperties, SMTT(30)
  <2> HIDE DEF b
  <2>. QED  BY <1>0, <2>2, SMTT(30)
<1> HIDE DEF a, b
<1>3. /\ a \o b \in Seq(S) /\ Len(a \o b) = Len(a) + Len(b)
      /\ \A j \in 1 .. Len(a) + Len(b) :
           (a \o b)[j] = IF j <= Len(a) THEN a[j] ELSE b[j - Len(a)]
  BY <1>1, <1>2, ConcatProperties
<1> DEFINE c == a \o b
<1> HIDE DEF c
<1>4. /\ c \in Seq(S) /\ Len(c) = Len(a) + Len(b)
      /\ \A j \in 1 .. Len(a) + Len(b) : c[j] = IF j <= Len(a) THEN a[j] ELSE b[j - Len(a)]
  BY <1>3 DEF c
<1>5. Len(c) = Len(s) - 1
  BY <1>0, <1>1, <1>2, <1>4, SMTT(30)
<1>6. ASSUME NEW j \in 1 .. Len(s) - 1
      PROVE  c[j] = IF j < i THEN s[j] ELSE s[j + 1]
  <2>0. j \in 1 .. Len(a) + Len(b) /\ Len(a) = i - 1
    BY <1>0, <1>1, <1>2, SMTT(30)
  <2>a. c[j] = IF j <= Len(a) THEN a[j] ELSE b[j - Len(a)]
    BY <1>4, <2>0
  <2>1. CASE j < i
    <3>1. j \in 1 .. i - 1 /\ j <= Len(a)
      BY <1>0, <2>0, <2>1, SMTT(30)
    <3>2. a[j] = s[j]
      BY <1>1, <3>1
    <3>. QED  BY <2>1, <2>a, <3>1, <3>2
  <2>2. CASE ~(j < i)
    <3>1. j - Len(a) \in 1 .. Len(s) - i /\ ~(j <= Len(a)) /\ i + (j - Len(a)) = j + 1
      BY <1>0, <2>0, <2>2, SMTT(30)
    <3>2. b[j - Len(a)] = s[i + (j - Len(a))]
      BY <1>2, <3>1
    <3>3. s[i + (j - Len(a))] = s[j + 1]
      BY <3>1
    <3>. QED  BY <2>2, <2>a, <3>1, <3>2, <3>3
  <2>. QED  BY <2>1, <2>2
<1>7. Without(s, i) = c
  BY DEF Without, a, b, c
<1>. QED  BY <1>4, <1>5, <1>6, <1>7

(* remove_locked takes the thread out of the queue and nothing else. *)
LEMMA RemovedFacts ==
    ASSUME PermitTypes, QueueInv, NEW t \in Threads
    PROVE  LET r == Sem!Removed(t) IN
           /\ r \in Seq(Threads)
           /\ \A j \in 1 .. Len(r) : r[j] # t /\ \E k \in 1 .. Len(waiters) : r[j] = waiters[k]
           /\ \A j, k \in 1 .. Len(r) : r[j] = r[k] => j = k
           /\ waiters = <<>> => r = <<>>
<1>0. waiters \in Seq(Threads) /\ Len(waiters) \in Nat
  BY LenProperties DEF PermitTypes
<1>1. CASE \E i \in 1 .. Len(waiters) : waiters[i] = t
  <2> DEFINE i == CHOOSE k \in 1 .. Len(waiters) : waiters[k] = t
  <2>1. i \in 1 .. Len(waiters) /\ waiters[i] = t
    BY <1>1
  <2>2. Sem!Removed(t) = Without(waiters, i)
    BY <1>1 DEF Sem!Removed, Without
  <2> HIDE DEF i
  <2> DEFINE r == Without(waiters, i)
  <2>3. /\ r \in Seq(Threads) /\ Len(r) = Len(waiters) - 1
        /\ \A j \in 1 .. Len(waiters) - 1 : r[j] = IF j < i THEN waiters[j] ELSE waiters[j + 1]
    BY <1>0, <2>1, Removal
  <2> HIDE DEF r
  <2>4. \A j \in 1 .. Len(r) : r[j] # t /\ \E k \in 1 .. Len(waiters) : r[j] = waiters[k]
    BY <1>0, <2>1, <2>3, SMTT(30) DEF QueueInv
  <2>5. \A j, k \in 1 .. Len(r) : r[j] = r[k] => j = k
    BY <1>0, <2>1, <2>3, SMTT(30) DEF QueueInv
  <2>6. waiters # <<>>
    BY <1>0, <2>1, EmptySeq, SMTT(30)
  <2>7. Sem!Removed(t) = r
    BY <2>2 DEF r
  <2>. QED  BY <2>3, <2>4, <2>5, <2>6, <2>7
<1>2. CASE ~\E i \in 1 .. Len(waiters) : waiters[i] = t
  <2>1. Sem!Removed(t) = waiters
    BY <1>2 DEF Sem!Removed
  <2>. QED  BY <1>0, <1>2, <2>1 DEF QueueInv
<1>. QED  BY <1>1, <1>2

(* A permit is reserved for the thread. *)
Holds(t) == acq[t].granted \/ acq[t].pc = "restore"

LEMMA ReservedNat == Cardinality(Sem!Reserved) \in Nat /\ IsFiniteSet(Sem!Reserved)
<1>1. IsFiniteSet(Sem!Reserved)
  BY ThreadsAssumption, FS_Subset DEF Sem!Reserved
<1>. QED  BY <1>1, FS_CardinalityType

LEMMA ReservedSame ==
    ASSUME \A t \in Threads : Holds(t)' <=> Holds(t)
    PROVE  Cardinality(Sem!Reserved') = Cardinality(Sem!Reserved)
<1>1. Sem!Reserved' = Sem!Reserved
  BY DEF Sem!Reserved, Holds
<1>. QED  BY <1>1

LEMMA ReservedOneMore ==
    ASSUME NEW x \in Threads, ~Holds(x), Holds(x)',
           \A t \in Threads \ {x} : Holds(t)' <=> Holds(t)
    PROVE  Cardinality(Sem!Reserved') = Cardinality(Sem!Reserved) + 1
<1>1. Sem!Reserved' = Sem!Reserved \cup {x} /\ x \notin Sem!Reserved
  BY DEF Sem!Reserved, Holds
<1>2. Cardinality(Sem!Reserved \cup {x}) = Cardinality(Sem!Reserved) + 1
  BY <1>1, ReservedNat, FS_AddElement
<1>. QED  BY <1>1, <1>2

LEMMA ReservedOneLess ==
    ASSUME NEW x \in Threads, Holds(x), ~Holds(x)',
           \A t \in Threads \ {x} : Holds(t)' <=> Holds(t)
    PROVE  Cardinality(Sem!Reserved') = Cardinality(Sem!Reserved) - 1
<1>1. Sem!Reserved' = Sem!Reserved \ {x} /\ x \in Sem!Reserved
  BY DEF Sem!Reserved, Holds
<1>2. Cardinality(Sem!Reserved \ {x}) = Cardinality(Sem!Reserved) - 1
  BY <1>1, ReservedNat, FS_RemoveElement
<1>. QED  BY <1>1, <1>2

LEMMA ReservedMoved ==
    ASSUME NEW x \in Threads, NEW y \in Threads, Holds(x), ~Holds(x)', ~Holds(y), Holds(y)',
           \A t \in Threads \ {x, y} : Holds(t)' <=> Holds(t)
    PROVE  Cardinality(Sem!Reserved') = Cardinality(Sem!Reserved)
<1> DEFINE R == Sem!Reserved \ {x}
<1>1. Sem!Reserved' = R \cup {y} /\ x \in Sem!Reserved /\ y \notin R
  BY DEF Sem!Reserved, Holds
<1>2. IsFiniteSet(R) /\ Cardinality(R) = Cardinality(Sem!Reserved) - 1
  BY <1>1, ReservedNat, FS_RemoveElement
<1> HIDE DEF R
<1>3. Cardinality(R \cup {y}) = Cardinality(R) + 1
  BY <1>1, <1>2, FS_AddElement
<1>4. Cardinality(Sem!Reserved') = Cardinality(R \cup {y})
  BY <1>1
<1>. QED  BY <1>2, <1>3, <1>4, ReservedNat, SMTT(30)

-----------------------------------------------------------------------------
(* The steps of an acquisition *)

(* A step within a wait that leaves the grant, the handoff, the queue and the *)
(* counters alone.                                                            *)
LEMMA WithinWait ==
    ASSUME PermitInv, NEW t \in Threads, acq[t].pc \in Waiting,
           NEW r \in Acquisitions, r.pc \in Waiting, r.granted = acq[t].granted,
           r.handoff = acq[t].handoff, acq' = [acq EXCEPT ![t] = r],
           UNCHANGED <<permits, waiters, handing, woke, ups, downs, panicked>>
    PROVE  PermitInv'
<1> USE DEF PermitInv, PermitTypes
<1>1. PermitTypes'
  OBVIOUS
<1>2. \A u \in Threads : Holds(u)' <=> Holds(u)
  BY DEF Holds, Waiting
<1>3. Cardinality(Sem!Reserved') = Cardinality(Sem!Reserved)
  BY <1>2, ReservedSame
<1>4. QueueInv'
  BY ElementOfSeq DEF QueueInv
<1>5. HandoffInv'
  <2>1. \A u \in Threads : handing[u] # none => acq'[u].pc = "handing"
    BY DEF HandoffInv, Waiting
  <2>2. \A u \in Threads : acq'[u].granted = acq[u].granted /\ acq'[u].handoff = acq[u].handoff
    OBVIOUS
  <2>3. \A c \in Sem!Contexts : handing[c] # none => handing[c] \in Threads
    OBVIOUS
  <2>. QED  BY <2>1, <2>2, <2>3 DEF HandoffInv
<1>6. NoStrandedWaiter' /\ PermitsConserved'
  BY <1>3 DEF NoStrandedWaiter, Sem!NoStrandedWaiter, PermitsConserved
<1>. QED  BY <1>1, <1>4, <1>5, <1>6

LEMMA WaitSteps ==
    ASSUME PermitInv, NEW t \in Threads,
           \/ Sem!Sample(t) \/ Sem!CheckWait(t) \/ Sem!BeginPark(t) \/ Sem!BeginFails(t)
           \/ Sem!Recheck(t) \/ Sem!Arm(t) \/ Sem!ArmFails(t) \/ Sem!Commit(t) \/ Sem!CommitFails(t)
           \/ Sem!Resume(t) \/ Sem!ResumeFails(t)
           \/ Sem!CheckGrant(t) /\ ~acq[t].handoff
           \/ Sem!Expire(t) \/ Sem!TimerWake(t) \/ Sem!Interrupt(t)
    PROVE  PermitInv'
<1>0. acq \in [Threads -> Acquisitions] /\ acq[t] \in Acquisitions
  BY DEF PermitInv, PermitTypes
<1>1. /\ acq[t].pc \in Waiting
      /\ \E r \in Acquisitions :
           /\ r.pc \in Waiting /\ r.granted = acq[t].granted /\ r.handoff = acq[t].handoff
           /\ acq' = [acq EXCEPT ![t] = r]
  <2> USE <1>0 DEF Waiting, Places, Acquisitions, Sem!At, Sem!Goto, Sem!Registered
  <2>1. CASE Sem!Sample(t)
    BY <2>1 DEF Sem!Sample
  <2>2. CASE Sem!CheckWait(t) \/ Sem!BeginPark(t) \/ Sem!BeginFails(t) \/ Sem!Recheck(t)
    BY <2>2 DEF Sem!CheckWait, Sem!BeginPark, Sem!BeginFails, Sem!Recheck
  <2>3. CASE Sem!Arm(t) \/ Sem!ArmFails(t) \/ Sem!Commit(t) \/ Sem!Resume(t)
    BY <2>3, SMTT(30) DEF Sem!Arm, Sem!ArmFails, Sem!Commit, Sem!Resume
  <2>4. CASE Sem!CheckGrant(t) /\ ~acq[t].handoff
    <3>1. acq[t].pc = "check" /\ acq' = [acq EXCEPT ![t].pc = "sample"]
      BY <2>4 DEF Sem!CheckGrant
    <3>. QED  BY <3>1
  <2>5. CASE Sem!Expire(t) \/ Sem!Interrupt(t)
    BY <2>5 DEF Sem!Expire, Sem!Interrupt
  <2>6. CASE Sem!TimerWake(t)
    BY <2>6 DEF Sem!TimerWake, PermitInv, QueueInv
  <2>7. CASE Sem!CommitFails(t) \/ Sem!ResumeFails(t)
    BY <2>7, SMTT(30) DEF Sem!CommitFails, Sem!ResumeFails
  <2>. QED  BY <2>1, <2>2, <2>3, <2>4, <2>5, <2>6, <2>7
<1>2. UNCHANGED <<permits, waiters, handing, woke, ups, downs, panicked>>
  BY DEF Sem!Sample, Sem!CheckWait, Sem!BeginPark, Sem!BeginFails, Sem!Recheck, Sem!Arm,
     Sem!ArmFails, Sem!Commit, Sem!CommitFails, Sem!Resume, Sem!ResumeFails, Sem!CheckGrant,
     Sem!Expire, Sem!TimerWake, Sem!Interrupt, Sem!others
<1>. QED  BY <1>1, <1>2, WithinWait

(* The types of what a step writes. *)
LEMMA NoAcqType == /\ Sem!NoAcq \in Acquisitions /\ Sem!NoAcq.pc = "idle"
                   /\ ~Sem!NoAcq.granted /\ ~Sem!NoAcq.handoff /\ ~Sem!NoAcq.armed
  BY DEF Sem!NoAcq, Acquisitions, Places, Waiting

(* A free permit is taken, before or after the first look. *)
LEMMA TakeStep ==
    ASSUME PermitInv, NEW t \in Threads, Sem!TakePermit(t)
    PROVE  PermitInv'
<1> USE DEF PermitInv, PermitTypes
<1>0. /\ acq[t].pc \in {"idle", "enqueue"} /\ permits > 0 /\ permits' = permits - 1
      /\ downs' = downs + 1 /\ acq' = [acq EXCEPT ![t] = Sem!NoAcq]
      /\ UNCHANGED <<waiters, handing, woke, ups, panicked>>
  BY DEF Sem!TakePermit, Sem!Leave, Sem!others
<1>1. PermitTypes'
  BY <1>0, SemaphoreAssumption, NoAcqType, SMTT(30)
<1>2. \A u \in Threads : Holds(u)' <=> Holds(u)
  BY <1>0, NoAcqType DEF Holds, QueueInv, Waiting
<1>3. Cardinality(Sem!Reserved') = Cardinality(Sem!Reserved)
  BY <1>2, ReservedSame
<1>4. waiters = <<>>
  BY <1>0 DEF NoStrandedWaiter, Sem!NoStrandedWaiter
<1>5. QueueInv'
  BY <1>0, <1>4, NoAcqType, SMTT(30) DEF QueueInv
<1>6. HandoffInv'
  <2>1. \A u \in Threads : handing[u] # none => acq'[u].pc = "handing"
    BY <1>0 DEF HandoffInv
  <2>2. \A c \in Sem!Contexts : handing[c] # none =>
          handing[c] # t /\ acq'[handing[c]] = acq[handing[c]]
    BY <1>0, SMTT(30) DEF HandoffInv, QueueInv, Waiting
  <2>. QED  BY <1>0, <2>1, <2>2 DEF HandoffInv
<1>7. NoStrandedWaiter' /\ PermitsConserved'
  BY <1>0, <1>3, <1>4, SemaphoreAssumption, ReservedNat, SMTT(30)
     DEF NoStrandedWaiter, Sem!NoStrandedWaiter, PermitsConserved
<1>. QED  BY <1>1, <1>5, <1>6, <1>7
(* The first look finds no permit. *)
LEMMA TryStep ==
    ASSUME PermitInv, NEW t \in Threads, Sem!TryDownFails(t)
    PROVE  PermitInv'
<1> USE DEF PermitInv, PermitTypes
<1>0. /\ acq[t].pc = "idle" /\ acq' = [acq EXCEPT ![t].pc = "enqueue"]
      /\ UNCHANGED <<permits, waiters, handing, woke, ups, downs, panicked>>
  BY DEF Sem!TryDownFails, Sem!At, Sem!Goto, Sem!others
<1>1. PermitTypes'
  BY <1>0, SMTT(30) DEF Acquisitions, Places
<1>2. \A u \in Threads : Holds(u)' <=> Holds(u)
  BY <1>0, SMTT(30) DEF Holds
<1>3. Cardinality(Sem!Reserved') = Cardinality(Sem!Reserved)
  BY <1>2, ReservedSame
<1>4. \A i \in 1 .. Len(waiters) : waiters[i] \in Threads /\ waiters[i] # t
  BY <1>0, ElementOfSeq DEF QueueInv, Waiting
<1>5. QueueInv'
  BY <1>0, <1>4, SMTT(30) DEF QueueInv, Waiting
<1>6. HandoffInv'
  <2>1. \A u \in Threads : handing[u] # none => acq'[u].pc = "handing"
    BY <1>0 DEF HandoffInv
  <2>2. \A c \in Sem!Contexts : handing[c] # none =>
          handing[c] # t /\ acq'[handing[c]] = acq[handing[c]]
    BY <1>0, SMTT(30) DEF HandoffInv, QueueInv, Waiting
  <2>. QED  BY <1>0, <2>1, <2>2 DEF HandoffInv
<1>7. NoStrandedWaiter' /\ PermitsConserved'
  BY <1>0, <1>3 DEF NoStrandedWaiter, Sem!NoStrandedWaiter, PermitsConserved
<1>. QED  BY <1>1, <1>5, <1>6, <1>7

(* The second look, under the lock, finds none either. *)
LEMMA EnqueueStep ==
    ASSUME PermitInv, NEW t \in Threads, Sem!Enqueue(t)
    PROVE  PermitInv'
<1> USE DEF PermitInv, PermitTypes
<1>0. /\ acq[t].pc = "enqueue" /\ permits = 0 /\ acq' = [acq EXCEPT ![t].pc = "sample"]
      /\ waiters' = Append(waiters, t)
      /\ UNCHANGED <<permits, handing, woke, ups, downs, panicked>>
  BY DEF Sem!Enqueue, Sem!At, Sem!Goto, Sem!others
<1>1. /\ waiters' \in Seq(Threads) /\ Len(waiters') = Len(waiters) + 1
      /\ \A i \in 1 .. Len(waiters) : waiters'[i] = waiters[i]
      /\ waiters'[Len(waiters) + 1] = t
      /\ Len(waiters) \in Nat
  BY <1>0, AppendProperties, LenProperties, SMTT(30)
<1>2. PermitTypes'
  BY <1>0, <1>1, SMTT(30) DEF Acquisitions, Places, Waiting
<1>3. \A u \in Threads : Holds(u)' <=> Holds(u)
  BY <1>0, SMTT(30) DEF Holds
<1>4. Cardinality(Sem!Reserved') = Cardinality(Sem!Reserved)
  BY <1>3, ReservedSame
<1>5. \A i \in 1 .. Len(waiters) : waiters[i] \in Threads /\ waiters[i] # t
  BY <1>0, ElementOfSeq DEF QueueInv, Waiting
<1>6. ~acq[t].granted
  BY <1>0 DEF QueueInv, Waiting
<1>7. QueueInv'
  <2>1. \A u \in Threads : /\ acq'[u].granted \/ acq'[u].armed => acq'[u].pc \in Waiting
                           /\ acq'[u].handoff => acq'[u].granted
    BY <1>0, SMTT(30) DEF QueueInv, Waiting
  <2>2. \A i \in 1 .. Len(waiters') :
          \/ i \in 1 .. Len(waiters) /\ waiters'[i] = waiters[i]
          \/ i = Len(waiters) + 1 /\ waiters'[i] = t
    BY <1>1, SMTT(30)
  <2>3. \A i \in 1 .. Len(waiters') :
          acq'[waiters'[i]].pc \in Waiting /\ ~acq'[waiters'[i]].granted
    <3> TAKE i \in 1 .. Len(waiters')
    <3>1. /\ acq'[t].pc = "sample" /\ acq'[t].granted = acq[t].granted
          /\ \A u \in Threads \ {t} : acq'[u] = acq[u]
      BY <1>0, SMTT(30) DEF Acquisitions
    <3>2. CASE waiters'[i] = t
      BY <1>6, <3>1, <3>2 DEF Waiting
    <3>3. CASE i \in 1 .. Len(waiters) /\ waiters'[i] = waiters[i]
      <4>1. acq'[waiters[i]] = acq[waiters[i]]
        BY <1>5, <3>1, <3>3
      <4>. QED  BY <3>3, <4>1 DEF QueueInv
    <3>. QED  BY <2>2, <3>2, <3>3
  <2>4. \A i, j \in 1 .. Len(waiters') : waiters'[i] = waiters'[j] => i = j
    BY <1>5, <2>2 DEF QueueInv
  <2>. QED  BY <2>1, <2>3, <2>4 DEF QueueInv
<1>8. HandoffInv'
  <2>1. \A u \in Threads : handing[u] # none => acq'[u].pc = "handing"
    BY <1>0 DEF HandoffInv
  <2>2. \A c \in Sem!Contexts : handing[c] # none =>
          handing[c] # t /\ acq'[handing[c]] = acq[handing[c]]
    BY <1>0, <1>6 DEF HandoffInv
  <2>. QED  BY <1>0, <2>1, <2>2 DEF HandoffInv
<1>9. NoStrandedWaiter' /\ PermitsConserved'
  BY <1>0, <1>4, SMTT(30) DEF NoStrandedWaiter, Sem!NoStrandedWaiter, PermitsConserved
<1>. QED  BY <1>2, <1>7, <1>8, <1>9

(* A granted acquisition returns. *)
LEMMA ReturnStep ==
    ASSUME PermitInv, NEW t \in Threads, Sem!CheckGrant(t), acq[t].handoff
    PROVE  PermitInv'
<1> USE DEF PermitInv, PermitTypes
<1>0. /\ acq[t].pc = "check" /\ acq[t].granted /\ downs' = downs + 1
      /\ acq' = [acq EXCEPT ![t] = Sem!NoAcq]
      /\ UNCHANGED <<permits, waiters, handing, woke, ups, panicked>>
  BY DEF Sem!CheckGrant, Sem!At, Sem!Leave, Sem!others
<1>1. PermitTypes'
  BY <1>0, NoAcqType, SMTT(30)
<1>2. Holds(t) /\ ~Holds(t)' /\ \A u \in Threads \ {t} : Holds(u)' <=> Holds(u)
  BY <1>0, NoAcqType DEF Holds
<1>3. Cardinality(Sem!Reserved') = Cardinality(Sem!Reserved) - 1
  BY <1>2, ReservedOneLess
<1>4. \A i \in 1 .. Len(waiters) : waiters[i] \in Threads /\ waiters[i] # t
  BY <1>0, ElementOfSeq DEF QueueInv
<1>5. QueueInv'
  BY <1>0, <1>4, NoAcqType DEF QueueInv
<1>6. HandoffInv'
  <2>1. \A u \in Threads : handing[u] # none => acq'[u].pc = "handing"
    BY <1>0 DEF HandoffInv
  <2>2. \A c \in Sem!Contexts : handing[c] # none =>
          handing[c] # t /\ acq'[handing[c]] = acq[handing[c]]
    BY <1>0 DEF HandoffInv
  <2>. QED  BY <1>0, <2>1, <2>2 DEF HandoffInv
<1>7. NoStrandedWaiter' /\ PermitsConserved'
  BY <1>0, <1>3, SemaphoreAssumption, ReservedNat, SMTT(30)
     DEF NoStrandedWaiter, Sem!NoStrandedWaiter, PermitsConserved
<1>. QED  BY <1>1, <1>5, <1>6, <1>7
(* An acquisition ends without its grant being taken: the thread leaves the  *)
(* queue and keeps the reservation exactly when it was granted.              *)
LEMMA AbandonStep ==
    ASSUME PermitInv, NEW t \in Threads, acq[t].pc \in Waiting, acq[t].granted => acq[t].handoff,
           NEW r \in Acquisitions, ~r.granted, ~r.handoff, ~r.armed,
           r.pc = IF acq[t].granted THEN "restore" ELSE "idle",
           acq' = [acq EXCEPT ![t] = r], waiters' = Sem!Removed(t),
           UNCHANGED <<permits, handing, woke, ups, downs, panicked>>
    PROVE  PermitInv'
<1> USE DEF PermitInv, PermitTypes
<1>0. /\ waiters' \in Seq(Threads)
      /\ \A j \in 1 .. Len(waiters') :
           waiters'[j] # t /\ \E k \in 1 .. Len(waiters) : waiters'[j] = waiters[k]
      /\ \A j, k \in 1 .. Len(waiters') : waiters'[j] = waiters'[k] => j = k
      /\ waiters = <<>> => waiters' = <<>>
  BY RemovedFacts, SMTT(30)
<1>1. PermitTypes'
  BY <1>0
<1>2. \A u \in Threads : Holds(u)' <=> Holds(u)
  BY DEF Holds, Waiting
<1>3. Cardinality(Sem!Reserved') = Cardinality(Sem!Reserved)
  BY <1>2, ReservedSame
<1>4. QueueInv'
  <2>1. \A u \in Threads : /\ acq'[u].granted \/ acq'[u].armed => acq'[u].pc \in Waiting
                           /\ acq'[u].handoff => acq'[u].granted
    BY DEF QueueInv
  <2>2. \A k \in 1 .. Len(waiters) :
          waiters[k] \in Threads /\ acq[waiters[k]].pc \in Waiting /\ ~acq[waiters[k]].granted
    BY ElementOfSeq DEF QueueInv
  <2>3. ASSUME NEW j \in 1 .. Len(waiters')
        PROVE  acq'[waiters'[j]].pc \in Waiting /\ ~acq'[waiters'[j]].granted
    <3>1. PICK k \in 1 .. Len(waiters) : waiters'[j] = waiters[k] /\ waiters'[j] # t
      BY <1>0
    <3>. QED  BY <2>2, <3>1
  <2>. QED  BY <1>0, <2>1, <2>3 DEF QueueInv
<1>5. HandoffInv'
  <2>1. \A u \in Threads : handing[u] # none => acq'[u].pc = "handing"
    BY DEF HandoffInv, Waiting
  <2>2. \A c \in Sem!Contexts : handing[c] # none =>
          handing[c] # t /\ acq'[handing[c]] = acq[handing[c]]
    BY DEF HandoffInv
  <2>. QED  BY <2>1, <2>2 DEF HandoffInv
<1>6. NoStrandedWaiter' /\ PermitsConserved'
  BY <1>0, <1>3 DEF NoStrandedWaiter, Sem!NoStrandedWaiter, PermitsConserved
<1>. QED  BY <1>1, <1>4, <1>5, <1>6

LEMMA AbandonSteps ==
    ASSUME PermitInv, NEW t \in Threads, Sem!CheckStop(t) \/ Sem!DropRegistration(t)
    PROVE  PermitInv'
<1>1. CASE Sem!CheckStop(t)
  <2>1. /\ acq[t].pc \in Waiting /\ ~acq[t].granted
        /\ acq' = [acq EXCEPT ![t] = Sem!NoAcq] /\ waiters' = Sem!Removed(t)
        /\ UNCHANGED <<permits, handing, woke, ups, downs, panicked>>
    BY <1>1 DEF Sem!CheckStop, Sem!At, Sem!Leave, Sem!others, Waiting
  <2>. QED  BY <2>1, AbandonStep, NoAcqType
<1>2. CASE Sem!DropRegistration(t)
  <2> DEFINE r == IF acq[t].granted THEN [Sem!NoAcq EXCEPT !.pc = "restore"] ELSE Sem!NoAcq
  <2>1. /\ acq[t].pc \in Waiting /\ (acq[t].granted => acq[t].handoff)
        /\ acq' = [acq EXCEPT ![t] = r] /\ waiters' = Sem!Removed(t)
        /\ UNCHANGED <<permits, handing, woke, ups, downs, panicked>>
    BY <1>2 DEF Sem!DropRegistration, Sem!At, Sem!others, Waiting
  <2>2. /\ r \in Acquisitions /\ ~r.granted /\ ~r.handoff /\ ~r.armed
        /\ r.pc = IF acq[t].granted THEN "restore" ELSE "idle"
    <3>1. CASE acq[t].granted
      <4>1. r = [Sem!NoAcq EXCEPT !.pc = "restore"]
        BY <3>1
      <4>2. /\ [Sem!NoAcq EXCEPT !.pc = "restore"] \in Acquisitions
            /\ ~[Sem!NoAcq EXCEPT !.pc = "restore"].granted
            /\ ~[Sem!NoAcq EXCEPT !.pc = "restore"].handoff
            /\ ~[Sem!NoAcq EXCEPT !.pc = "restore"].armed
            /\ [Sem!NoAcq EXCEPT !.pc = "restore"].pc = "restore"
        BY DEF Sem!NoAcq, Acquisitions, Places
      <4>. QED  BY <3>1, <4>1, <4>2
    <3>2. CASE ~acq[t].granted
      <4>1. r = Sem!NoAcq
        BY <3>2
      <4>. QED  BY <3>2, <4>1, NoAcqType
    <3>. QED  BY <3>1, <3>2
  <2> HIDE DEF r
  <2>. QED  BY <2>1, <2>2, AbandonStep
<1>. QED  BY <1>1, <1>2


(* A permit nobody waits for is counted; a thread that gave it back is done. *)
LEMMA UpPermitStep ==
    ASSUME PermitInv, NEW c \in Sem!Contexts, Sem!UpPermit(c)
    PROVE  PermitInv'
<1> USE DEF PermitInv, PermitTypes
<1>0. /\ Sem!Releasing(c) /\ waiters = <<>> /\ permits < MaxPermits /\ permits' = permits + 1
      /\ acq' = [t \in Threads |-> IF t = c THEN Sem!NoAcq ELSE acq[t]]
      /\ ups' = IF c \in Threads THEN ups ELSE ups + 1
      /\ UNCHANGED <<waiters, handing, woke, panicked, downs>>
  BY DEF Sem!UpPermit, Sem!Counted
<1>1. PermitTypes'
  BY <1>0, NoAcqType, SemaphoreAssumption, SMTT(30)
<1>2. QueueInv'
  BY <1>0, NoAcqType, SMTT(30) DEF QueueInv
<1>3. c \in Threads => acq[c].pc = "restore" /\ handing[c] = none
  BY <1>0 DEF Sem!Releasing, Sem!At, HandoffInv
<1>4. HandoffInv'
  <2>1. \A u \in Threads : handing[u] # none => acq'[u].pc = "handing"
    BY <1>0, <1>3 DEF HandoffInv
  <2>2. \A d \in Sem!Contexts : handing[d] # none => acq'[handing[d]] = acq[handing[d]]
    BY <1>0, <1>3, SMTT(30) DEF HandoffInv, QueueInv, Waiting
  <2>. QED  BY <1>0, <2>1, <2>2 DEF HandoffInv
<1>5. CASE c \in Threads
  <2>1. Holds(c) /\ ~Holds(c)' /\ \A u \in Threads \ {c} : Holds(u)' <=> Holds(u)
    BY <1>0, <1>3, <1>5, NoAcqType DEF Holds
  <2>2. Cardinality(Sem!Reserved') = Cardinality(Sem!Reserved) - 1
    BY <1>5, <2>1, ReservedOneLess
  <2>. QED  BY <1>0, <1>1, <1>2, <1>4, <1>5, <2>2, SemaphoreAssumption, ReservedNat, SMTT(30)
            DEF NoStrandedWaiter, Sem!NoStrandedWaiter, PermitsConserved
<1>6. CASE c \notin Threads
  <2>1. \A u \in Threads : Holds(u)' <=> Holds(u)
    BY <1>0, <1>6 DEF Holds
  <2>2. Cardinality(Sem!Reserved') = Cardinality(Sem!Reserved)
    BY <2>1, ReservedSame
  <2>. QED  BY <1>0, <1>1, <1>2, <1>4, <1>6, <2>2, SemaphoreAssumption, ReservedNat, SMTT(30)
            DEF NoStrandedWaiter, Sem!NoStrandedWaiter, PermitsConserved
<1>. QED  BY <1>5, <1>6
(* The first waiter is granted; a thread that gave its permit back hands it  *)
(* over from inside Drop.                                                    *)
LEMMA UpGrantStep ==
    ASSUME PermitInv, NEW c \in Sem!Contexts, Sem!UpGrant(c)
    PROVE  PermitInv'
<1> USE DEF PermitInv, PermitTypes
<1> DEFINE restored == [Sem!NoAcq EXCEPT !.pc = "handing"]
<1>a. waiters # <<>> /\ Head(waiters) \in Threads
  BY HeadTailProperties DEF Sem!UpGrant
<1>b. PICK h \in Threads : h = Head(waiters)
  BY <1>a
<1>0. /\ Sem!Releasing(c) /\ waiters # <<>> /\ waiters' = Tail(waiters)
      /\ acq' = [t \in Threads |-> IF t = h THEN [acq[t] EXCEPT !.granted = TRUE]
                                   ELSE IF t = c THEN restored ELSE acq[t]]
      /\ handing' = [handing EXCEPT ![c] = h]
      /\ ups' = IF c \in Threads THEN ups ELSE ups + 1
      /\ UNCHANGED <<permits, woke, panicked, downs>>
  BY <1>b DEF Sem!UpGrant, Sem!Counted
<1>1. /\ h = waiters[1] /\ Len(waiters) \in Nat \ {0}
      /\ waiters' \in Seq(Threads) /\ Len(waiters') = Len(waiters) - 1
      /\ \A i \in 1 .. Len(waiters') : waiters'[i] = waiters[i + 1]
  BY <1>0, <1>b, HeadTailProperties, EmptySeq, LenProperties, SMTT(30)
<1>2. /\ restored \in Acquisitions /\ ~restored.granted /\ ~restored.handoff /\ ~restored.armed
      /\ restored.pc = "handing"
  BY DEF Sem!NoAcq, Acquisitions, Places
<1> HIDE DEF restored
<1>3. acq[h].pc \in Waiting /\ ~acq[h].granted
  BY <1>1, SMTT(30) DEF QueueInv
<1>4. c \in Threads => acq[c].pc = "restore" /\ handing[c] = none /\ c # h
  BY <1>0, <1>3 DEF Sem!Releasing, Sem!At, HandoffInv, Waiting
<1>5. c \notin Threads => handing[c] = none
  BY <1>0 DEF Sem!Releasing
<1>6. /\ acq' \in [Threads -> Acquisitions]
      /\ acq'[h].granted /\ acq'[h].pc = acq[h].pc
      /\ acq'[h].handoff = acq[h].handoff
      /\ c \in Threads => acq'[c] = restored
      /\ \A t \in Threads \ {h, c} : acq'[t] = acq[t]
  BY <1>0, <1>1, <1>2, <1>4 DEF Acquisitions
<1>7. PermitTypes'
  BY <1>0, <1>1, <1>6, SMTT(30)
<1>8. QueueInv'
  <2>1. \A u \in Threads : /\ acq'[u].granted \/ acq'[u].armed => acq'[u].pc \in Waiting
                           /\ acq'[u].handoff => acq'[u].granted
    <3> TAKE u \in Threads
    <3>1. CASE u = h
      BY <1>3, <1>6, <3>1
    <3>2. CASE u = c /\ u # h
      BY <1>2, <1>6, <3>2
    <3>3. CASE u \notin {h, c}
      <4>1. acq'[u] = acq[u]
        BY <1>6, <3>3
      <4>. QED  BY <4>1 DEF QueueInv
    <3>. QED  BY <3>1, <3>2, <3>3
  <2>2. \A i \in 1 .. Len(waiters') : i + 1 \in 1 .. Len(waiters) /\ waiters'[i] = waiters[i + 1]
    BY <1>1, SMTT(30)
  <2>3. \A i \in 1 .. Len(waiters) : waiters[i] \in Threads /\ (c \in Threads => waiters[i] # c)
    BY <1>4, ElementOfSeq DEF QueueInv, Waiting
  <2>4. \A i \in 1 .. Len(waiters') : waiters'[i] # h
    BY <1>1, <2>2, SMTT(30) DEF QueueInv
  <2>5. \A i \in 1 .. Len(waiters') : acq'[waiters'[i]] = acq[waiters[i + 1]]
    BY <1>6, <2>2, <2>3, <2>4, SMTT(30)
  <2>6. \A i \in 1 .. Len(waiters') :
          acq'[waiters'[i]].pc \in Waiting /\ ~acq'[waiters'[i]].granted
    BY <2>2, <2>5, SMTT(30) DEF QueueInv
  <2>7. \A i, j \in 1 .. Len(waiters') : waiters'[i] = waiters'[j] => i = j
    BY <1>1, <2>2, SMTT(30) DEF QueueInv
  <2>. QED  BY <2>1, <2>6, <2>7 DEF QueueInv
<1>9. HandoffInv'
  <2>0. handing'[c] = h /\ \A d \in Sem!Contexts \ {c} : handing'[d] = handing[d]
    BY <1>0
  <2>1. ~acq[h].handoff
    BY <1>1, <1>3 DEF QueueInv
  <2>2. \A d \in Sem!Contexts : handing[d] # none =>
          handing[d] \in Threads \ {h, c} /\ acq'[handing[d]] = acq[handing[d]]
    BY <1>3, <1>4, <1>6, SMTT(30) DEF HandoffInv, QueueInv, Waiting
  <2>3. \A u \in Threads : handing'[u] # none => acq'[u].pc = "handing"
    BY <1>2, <1>3, <1>4, <1>6, <2>0, SMTT(30) DEF HandoffInv, Waiting, Sem!Contexts
  <2>4. \A d \in Sem!Contexts : handing'[d] # none =>
          acq'[handing'[d]].granted /\ ~acq'[handing'[d]].handoff
    <3> TAKE d \in Sem!Contexts
    <3>1. CASE d = c
      BY <1>6, <2>0, <2>1, <3>1
    <3>2. CASE d # c
      <4>1. handing'[d] = handing[d]
        BY <2>0, <3>2
      <4>. QED  BY <2>2, <4>1 DEF HandoffInv
    <3>. QED  BY <3>1, <3>2
  <2>5. \A d, e \in Sem!Contexts : handing'[d] # none /\ handing'[d] = handing'[e] => d = e
    BY <2>0, <2>2, SMTT(30) DEF HandoffInv
  <2>. QED  BY <2>3, <2>4, <2>5 DEF HandoffInv
<1>10. permits = 0
  BY <1>0, SMTT(30) DEF NoStrandedWaiter, Sem!NoStrandedWaiter
<1>11. CASE c \in Threads
  <2>1. /\ Holds(c) /\ ~Holds(c)' /\ ~Holds(h) /\ Holds(h)'
        /\ \A u \in Threads \ {c, h} : Holds(u)' <=> Holds(u)
    BY <1>2, <1>3, <1>4, <1>6, <1>11 DEF Holds, Waiting
  <2>2. Cardinality(Sem!Reserved') = Cardinality(Sem!Reserved)
    BY <1>1, <1>11, <2>1, ReservedMoved
  <2>. QED  BY <1>0, <1>7, <1>8, <1>9, <1>10, <1>11, <2>2
            DEF NoStrandedWaiter, Sem!NoStrandedWaiter, PermitsConserved
<1>12. CASE c \notin Threads
  <2>1. ~Holds(h) /\ Holds(h)' /\ \A u \in Threads \ {h} : Holds(u)' <=> Holds(u)
    BY <1>3, <1>6, <1>12 DEF Holds, Waiting
  <2>2. Cardinality(Sem!Reserved') = Cardinality(Sem!Reserved) + 1
    BY <1>1, <2>1, ReservedOneMore
  <2>. QED  BY <1>0, <1>7, <1>8, <1>9, <1>10, <1>12, <2>2, SemaphoreAssumption, ReservedNat, SMTT(30)
            DEF NoStrandedWaiter, Sem!NoStrandedWaiter, PermitsConserved
<1>. QED  BY <1>11, <1>12
(* The waiter may leave now: up() has dropped its reference. *)
LEMMA UpCompleteStep ==
    ASSUME PermitInv, NEW c \in Sem!Contexts, Sem!UpComplete(c)
    PROVE  PermitInv'
<1> USE DEF PermitInv, PermitTypes
<1>a. PICK h \in Threads : h = handing[c]
  BY DEF Sem!UpComplete
<1>0. /\ acq' = [t \in Threads |-> IF t = h THEN [acq[t] EXCEPT !.handoff = TRUE]
                                   ELSE IF t = c THEN Sem!NoAcq ELSE acq[t]]
      /\ handing' = [handing EXCEPT ![c] = none] /\ woke' = [woke EXCEPT ![c] = FALSE]
      /\ UNCHANGED <<permits, waiters, ups, panicked, downs>>
  BY <1>a DEF Sem!UpComplete
<1>1. acq[h].granted /\ acq[h].pc \in Waiting
  BY <1>a, ThreadsAssumption DEF HandoffInv, QueueInv
<1>2. c \in Threads => c # h /\ acq[c].pc = "handing" /\ ~acq[c].granted
  BY <1>1, <1>a, ThreadsAssumption DEF HandoffInv, QueueInv, Waiting
<1>3. /\ acq' \in [Threads -> Acquisitions]
      /\ acq'[h].granted = acq[h].granted /\ acq'[h].pc = acq[h].pc
      /\ c \in Threads => acq'[c] = Sem!NoAcq
      /\ \A t \in Threads \ {h, c} : acq'[t] = acq[t]
  BY <1>0, <1>2, NoAcqType DEF Acquisitions
<1>4. PermitTypes'
  BY <1>0, <1>3
<1>5. \A u \in Threads : Holds(u)' <=> Holds(u)
  BY <1>2, <1>3, NoAcqType DEF Holds
<1>6. Cardinality(Sem!Reserved') = Cardinality(Sem!Reserved)
  BY <1>5, ReservedSame
<1>7. QueueInv'
  <2>1. \A u \in Threads : /\ acq'[u].granted \/ acq'[u].armed => acq'[u].pc \in Waiting
                           /\ acq'[u].handoff => acq'[u].granted
    <3> TAKE u \in Threads
    <3>1. CASE u = h
      BY <1>1, <1>3, <3>1
    <3>2. CASE u = c
      BY <1>3, <3>2, NoAcqType
    <3>3. CASE u \notin {h, c}
      <4>1. acq'[u] = acq[u]
        BY <1>3, <3>3
      <4>. QED  BY <4>1 DEF QueueInv
    <3>. QED  BY <3>1, <3>2, <3>3
  <2>2. \A i \in 1 .. Len(waiters) :
          waiters[i] \in Threads \ {h, c} /\ acq'[waiters[i]] = acq[waiters[i]]
    <3> TAKE i \in 1 .. Len(waiters)
    <3>1. waiters[i] \in Threads
      BY ElementOfSeq
    <3>2. acq[waiters[i]].pc \in Waiting /\ ~acq[waiters[i]].granted
      BY DEF QueueInv
    <3>3. waiters[i] # h /\ waiters[i] # c
      BY <1>1, <1>2, <3>1, <3>2 DEF Waiting
    <3>. QED  BY <1>3, <3>1, <3>3
  <2>. QED  BY <1>0, <2>1, <2>2 DEF QueueInv
<1>8. HandoffInv'
  <2>0. handing'[c] = none /\ \A d \in Sem!Contexts \ {c} : handing'[d] = handing[d]
    BY <1>0
  <2>1. \A u \in Threads : handing'[u] # none => acq'[u].pc = "handing"
    BY <1>1, <1>3, <2>0 DEF HandoffInv, Waiting, Sem!Contexts
  <2>2. \A d \in Sem!Contexts \ {c} : handing[d] # none =>
          handing[d] \in Threads \ {h, c} /\ acq'[handing[d]] = acq[handing[d]]
    BY <1>2, <1>3, <1>a, ThreadsAssumption, SMTT(30) DEF HandoffInv
  <2>3. \A d \in Sem!Contexts : handing'[d] # none =>
          acq'[handing'[d]].granted /\ ~acq'[handing'[d]].handoff
    BY <2>0, <2>2 DEF HandoffInv
  <2>4. \A d, e \in Sem!Contexts : handing'[d] # none /\ handing'[d] = handing'[e] => d = e
    BY <2>0 DEF HandoffInv
  <2>. QED  BY <2>1, <2>3, <2>4 DEF HandoffInv
<1>9. NoStrandedWaiter' /\ PermitsConserved'
  BY <1>0, <1>6 DEF NoStrandedWaiter, Sem!NoStrandedWaiter, PermitsConserved
<1>. QED  BY <1>4, <1>7, <1>8, <1>9

(* What changes nothing but parks, the wake flag or the panic flag. *)
LEMMA OtherStep ==
    ASSUME PermitInv, UNCHANGED <<permits, waiters, acq, handing, ups, downs>>,
           woke' \in [Sem!Contexts -> BOOLEAN], panicked' \in BOOLEAN
    PROVE  PermitInv'
<1>1. Sem!Reserved' = Sem!Reserved
  BY DEF Sem!Reserved
<1>2. Cardinality(Sem!Reserved') = Cardinality(Sem!Reserved)
  BY <1>1
<1>3. PermitTypes'
  BY DEF PermitInv, PermitTypes
<1>4. QueueInv' /\ HandoffInv'
  BY DEF PermitInv, QueueInv, HandoffInv
<1>5. NoStrandedWaiter' /\ PermitsConserved'
  BY <1>2 DEF PermitInv, NoStrandedWaiter, Sem!NoStrandedWaiter, PermitsConserved
<1>. QED  BY <1>3, <1>4, <1>5 DEF PermitInv

LEMMA PermitStep == PermitInv /\ Sem!Next => PermitInv'
<1> SUFFICES ASSUME PermitInv, Sem!Next PROVE PermitInv'
  OBVIOUS
<1>0. woke \in [Sem!Contexts -> BOOLEAN] /\ panicked \in BOOLEAN
  BY DEF PermitInv, PermitTypes
<1>1. ASSUME NEW t \in Threads, Sem!TryDownFails(t) \/ Sem!Acquiring(t)
      PROVE  PermitInv'
  <2>1. CASE Sem!CheckGrant(t) /\ acq[t].handoff
    BY <2>1, ReturnStep
  <2>2. CASE ~(Sem!CheckGrant(t) /\ acq[t].handoff)
    BY <1>1, <2>2, TryStep, TakeStep, EnqueueStep, WaitSteps, AbandonSteps DEF Sem!Acquiring
  <2>. QED  BY <2>1, <2>2
<1>2. ASSUME NEW c \in Sem!Contexts, Sem!Releases(c) \/ Sem!Handing(c)
      PROVE  PermitInv'
  <2>1. CASE Sem!UpOverflow(c)
    BY <1>0, <2>1, OtherStep DEF Sem!UpOverflow
  <2>2. CASE Sem!UpWake(c)
    BY <1>0, <2>2, OtherStep DEF Sem!UpWake
  <2>3. CASE Sem!UpGrant(c) \/ Sem!UpPermit(c) \/ Sem!UpComplete(c)
    BY <2>3, UpGrantStep, UpPermitStep, UpCompleteStep
  <2>. QED  BY <1>2, <2>1, <2>2, <2>3 DEF Sem!Releases, Sem!Handing
<1>3. ASSUME NEW t \in Threads,
             Sem!Expire(t) \/ Sem!TimerWake(t) \/ Sem!Interrupt(t) \/ Sem!InterruptWake(t)
      PROVE  PermitInv'
  <2>1. CASE Sem!InterruptWake(t)
    BY <1>0, <2>1, OtherStep DEF Sem!InterruptWake
  <2>. QED  BY <1>3, <2>1, WaitSteps
<1>. QED  BY <1>1, <1>2, <1>3 DEF Sem!Next

LEMMA PermitNext == PermitInv /\ [Next]_vars => PermitInv'
<1> SUFFICES ASSUME PermitInv, [Next]_vars PROVE PermitInv'
  OBVIOUS
<1>0. woke \in [Sem!Contexts -> BOOLEAN] /\ panicked \in BOOLEAN
  BY DEF PermitInv, PermitTypes
<1>1. CASE SemStep
  BY <1>1, PermitStep DEF SemStep
<1>2. CASE RwStep \/ UNCHANGED vars
  <2>1. UNCHANGED semOnly
    BY <1>2 DEF RwStep, vars, semOnly
  <2>. QED  BY <1>0, <2>1, OtherStep DEF semOnly
<1>. QED  BY <1>1, <1>2 DEF Next

LEMMA PermitInit == Init => PermitInv
<1> SUFFICES ASSUME Init PROVE PermitInv
  OBVIOUS
<1> USE DEF Init, Sem!Init
<1>1. PermitTypes
  <2>1. permits \in 0 .. MaxPermits /\ waiters \in Seq(Threads) /\ ups \in Nat /\ downs \in Nat
    BY SemaphoreAssumption, EmptySeq, SMTT(30)
  <2>2. /\ acq \in [Threads -> Acquisitions] /\ panicked \in BOOLEAN
        /\ handing \in [Sem!Contexts -> Threads \cup {none}] /\ woke \in [Sem!Contexts -> BOOLEAN]
    BY NoAcqType
  <2>. QED  BY <2>1, <2>2 DEF PermitTypes
<1>2. QueueInv /\ HandoffInv /\ NoStrandedWaiter
  BY NoAcqType, SMTT(30) DEF QueueInv, HandoffInv, NoStrandedWaiter, Sem!NoStrandedWaiter, Sem!Contexts
<1>3. Sem!Reserved = {}
  BY NoAcqType DEF Sem!Reserved
<1>4. Cardinality(Sem!Reserved) = 0
  BY <1>3, FS_EmptySet
<1>5. PermitsConserved
  BY <1>4, SemaphoreAssumption, SMTT(30) DEF PermitsConserved
<1>. QED  BY <1>1, <1>2, <1>5 DEF PermitInv

-----------------------------------------------------------------------------
(* Theorems *)

(* In every behaviour, with any number of threads and producers, the permits *)
(* released are taken, free or reserved for a thread inside acquire.         *)
THEOREM PermitsAreConserved == Spec => []PermitsConserved
<1>1. PermitInv => PermitsConserved
  BY DEF PermitInv
<1>. QED  BY <1>1, PermitInit, PermitNext, PTL DEF Spec

(* In every behaviour no thread is queued while a permit is free. *)
THEOREM NobodyIsStranded == Spec => []NoStrandedWaiter
<1>1. PermitInv => NoStrandedWaiter
  BY DEF PermitInv
<1>. QED  BY <1>1, PermitInit, PermitNext, PTL DEF Spec

(* In every behaviour the waiter that an up() holds a reference to is still  *)
(* in acquire: handoff_complete keeps it there.                              *)
THEOREM HandoffIsOutlived == Spec => []WaiterOutlivesHandoff
<1>1. PermitInv => WaiterOutlivesHandoff
  BY DEF PermitInv, PermitTypes, QueueInv, HandoffInv, WaiterOutlivesHandoff,
     Sem!WaiterOutlivesHandoff, Sem!Registered, Waiting
<1>. QED  BY <1>1, PermitInit, PermitNext, PTL DEF Spec

-----------------------------------------------------------------------------
(* Types *)

ParkTypes == park \in [Threads -> Parks]

(* Every operation on a park yields a park. *)
ParkResults(p) ==
    {p, TakeNotification(p), PreparePark(p), CancelPark(p), CommitPark(p), WakePark(p)}

LEMMA ParkClosed == ASSUME NEW p \in Parks  PROVE ParkResults(p) \subseteq Parks
<1> USE DEF Parks, ParkStates
<1>1. TakeNotification(p) \in Parks
  BY DEF TakeNotification
<1>2. PreparePark(p) \in Parks /\ CancelPark(p) \in Parks
  BY DEF PreparePark, CancelPark
<1>3. CommitPark(p) \in Parks
  BY DEF CommitPark
<1>4. WakePark(p) \in Parks
  BY DEF WakePark
<1> HIDE DEF Parks
<1>. QED  BY <1>1, <1>2, <1>3, <1>4 DEF ParkResults

(* A step operates on at most one park. *)
ParkMoves(t) == \E q \in ParkResults(park[t]) : park' = [park EXCEPT ![t] = q]
OneParkMoves == park' = park \/ \E t : ParkMoves(t)

LEMMA ParksKept == ASSUME ParkTypes, OneParkMoves  PROVE ParkTypes'
<1>1. ASSUME NEW t, ParkMoves(t)  PROVE ParkTypes'
  <2>1. PICK q \in ParkResults(park[t]) : park' = [park EXCEPT ![t] = q]
    BY <1>1 DEF ParkMoves
  <2>2. t \in Threads => q \in Parks
    BY <2>1, ParkClosed DEF ParkTypes
  <2>. QED  BY <2>1, <2>2 DEF ParkTypes
<1>. QED  BY <1>1 DEF OneParkMoves, ParkTypes

LEMMA SemaphoreParks == Sem!Next => OneParkMoves
<1>1. ASSUME NEW t, Sem!BeginPark(t)  PROVE ParkMoves(t)
  BY <1>1 DEF Sem!BeginPark, ParkMoves, ParkResults,
     Sem!TakeNotification, TakeNotification, Sem!PreparePark, PreparePark
<1>2. ASSUME NEW t, Sem!Recheck(t)  PROVE ParkMoves(t) \/ park' = park
  BY <1>2 DEF Sem!Recheck, ParkMoves, ParkResults,
     Sem!CancelPark, CancelPark
<1>3. ASSUME NEW t, Sem!ArmFails(t)  PROVE ParkMoves(t)
  BY <1>3 DEF Sem!ArmFails, ParkMoves, ParkResults,
     Sem!CancelPark, CancelPark
<1>4. ASSUME NEW t, Sem!Commit(t) \/ Sem!CommitFails(t)  PROVE ParkMoves(t)
  BY <1>4 DEF Sem!Commit, Sem!CommitFails, ParkMoves, ParkResults,
     Sem!CommitPark, CommitPark, Sem!CancelPark, CancelPark
<1>5. ASSUME NEW t, Sem!Wake(t)  PROVE ParkMoves(t) \/ park' = park
  BY <1>5 DEF Sem!Wake, ParkMoves, ParkResults,
     Sem!WakePark, WakePark
<1>6. ASSUME NEW t \in Threads,
             \/ Sem!TryDownFails(t) \/ Sem!Acquiring(t)
             \/ Sem!Expire(t) \/ Sem!Interrupt(t)
      PROVE  ParkMoves(t) \/ park' = park
  <2> DEFINE Parking == \/ Sem!BeginPark(t) \/ Sem!Recheck(t) \/ Sem!ArmFails(t)
                        \/ Sem!Commit(t) \/ Sem!CommitFails(t)
  <2>1. CASE Parking
    BY <1>1, <1>2, <1>3, <1>4, <2>1
  <2>2. CASE ~Parking
    BY <1>6, <2>2 DEF Sem!TryDownFails, Sem!Acquiring, Sem!TakePermit, Sem!Enqueue,
       Sem!Sample, Sem!CheckGrant, Sem!CheckStop, Sem!CheckWait, Sem!BeginFails, Sem!Arm,
       Sem!Resume, Sem!ResumeFails, Sem!DropRegistration, Sem!Expire, Sem!Interrupt
  <2>. QED  BY <2>1, <2>2
<1>7. ASSUME NEW c, Sem!Releases(c) \/ Sem!Handing(c)  PROVE OneParkMoves
  <2>1. CASE Sem!UpWake(c)
    BY <1>5, <2>1 DEF Sem!UpWake, OneParkMoves
  <2>2. CASE ~Sem!UpWake(c)
    BY <1>7, <2>2 DEF Sem!Releases, Sem!Handing, Sem!UpGrant, Sem!UpPermit, Sem!UpOverflow,
       Sem!UpComplete, OneParkMoves
  <2>. QED  BY <2>1, <2>2
<1>8. ASSUME NEW t, Sem!TimerWake(t) \/ Sem!InterruptWake(t)
      PROVE  ParkMoves(t) \/ park' = park
  BY <1>5, <1>8 DEF Sem!TimerWake, Sem!InterruptWake
<1>. QED  BY <1>6, <1>7, <1>8 DEF Sem!Next, OneParkMoves

LEMMA LockParks == Rw!Next => OneParkMoves
<1>1. ASSUME NEW t, Rw!BeginPark(t)  PROVE ParkMoves(t)
  BY <1>1 DEF Rw!BeginPark, ParkMoves, ParkResults,
     Rw!TakeNotification, TakeNotification, Rw!PreparePark, PreparePark
<1>2. ASSUME NEW t, Rw!PublishDrain(t)  PROVE ParkMoves(t) \/ park' = park
  BY <1>2 DEF Rw!PublishDrain, ParkMoves, ParkResults,
     Rw!CancelPark, CancelPark
<1>3. ASSUME NEW t, Rw!CommitDrain(t)  PROVE ParkMoves(t)
  BY <1>3 DEF Rw!CommitDrain, ParkMoves, ParkResults,
     Rw!CommitPark, CommitPark
<1>4. ASSUME NEW t, Rw!WakeDrain(t)  PROVE ParkMoves(taken[t]) \/ park' = park
  BY <1>4 DEF Rw!WakeDrain, ParkMoves, ParkResults,
     Rw!WakePark, WakePark
<1>5. ASSUME NEW t, \/ Rw!EnterShared(t) \/ Rw!LockExclusive(t) \/ Rw!TryLockExclusive(t)
                    \/ Rw!UnlockShared(t) \/ Rw!UnlockExclusive(t) \/ Rw!CountReader(t)
                    \/ Rw!TakeDrain(t) \/ Rw!EnterDrain(t) \/ Rw!ClearDrain(t)
                    \/ Rw!RecheckReaders(t) \/ Rw!TryReaders(t)
      PROVE  park' = park
  BY <1>5 DEF Rw!EnterShared, Rw!LockExclusive, Rw!TryLockExclusive, Rw!UnlockShared,
     Rw!UnlockExclusive, Rw!CountReader, Rw!TakeDrain, Rw!EnterDrain, Rw!ClearDrain,
     Rw!RecheckReaders, Rw!TryReaders
<1>. QED  BY <1>1, <1>2, <1>3, <1>4, <1>5 DEF Rw!Next, Rw!Working, OneParkMoves

LEMMA ParksNext == ParkTypes /\ [Next]_vars => ParkTypes'
<1> SUFFICES ASSUME [Next]_vars  PROVE OneParkMoves
  BY ParksKept
<1>1. CASE UNCHANGED vars
  BY <1>1 DEF vars, OneParkMoves
<1>. QED  BY <1>1, SemaphoreParks, LockParks DEF Next, SemStep, RwStep

(* Only threads are interrupted, and only threads are refused a wake. *)
WakeTypes == publishing \subseteq Threads /\ refused \subseteq Threads

LEMMA SemaphoreWakes == PermitTypes /\ WakeTypes /\ Sem!Next => WakeTypes'
<1> SUFFICES ASSUME PermitTypes, WakeTypes, Sem!Next  PROVE WakeTypes'
  OBVIOUS
<1>1. ASSUME NEW t \in Threads, Sem!Wake(t)  PROVE refused' \subseteq Threads
  BY <1>1 DEF Sem!Wake, WakeTypes
<1>2. ASSUME NEW t \in Threads, Sem!TryDownFails(t) \/ Sem!Acquiring(t) \/ Sem!Expire(t)
      PROVE  UNCHANGED <<publishing, refused>>
  BY <1>2 DEF Sem!TryDownFails, Sem!Acquiring, Sem!TakePermit, Sem!Enqueue, Sem!Sample,
     Sem!CheckGrant, Sem!CheckStop, Sem!CheckWait, Sem!BeginPark, Sem!BeginFails, Sem!Recheck,
     Sem!Arm, Sem!ArmFails, Sem!Commit, Sem!CommitFails, Sem!Resume, Sem!ResumeFails,
     Sem!DropRegistration, Sem!Expire, Sem!others
<1>3. ASSUME NEW c \in Sem!Contexts, Sem!Releases(c) \/ Sem!Handing(c)  PROVE WakeTypes'
  <2>1. CASE Sem!UpWake(c)
    <3>1. handing[c] \in Threads
      BY <2>1 DEF Sem!UpWake, PermitTypes
    <3>. QED  BY <1>1, <2>1, <3>1 DEF Sem!UpWake, WakeTypes
  <2>2. CASE ~Sem!UpWake(c)
    BY <1>3, <2>2 DEF Sem!Releases, Sem!Handing, Sem!UpGrant, Sem!UpPermit, Sem!UpOverflow,
       Sem!UpComplete, WakeTypes
  <2>. QED  BY <2>1, <2>2
<1>4. ASSUME NEW t \in Threads, Sem!TimerWake(t)  PROVE WakeTypes'
  BY <1>1, <1>4 DEF Sem!TimerWake, WakeTypes
<1>5. ASSUME NEW t \in Threads, Sem!Interrupt(t)  PROVE WakeTypes'
  BY <1>5 DEF Sem!Interrupt, WakeTypes
<1>6. ASSUME NEW t \in Threads, Sem!InterruptWake(t)  PROVE WakeTypes'
  BY <1>1, <1>6 DEF Sem!InterruptWake, WakeTypes
<1>7. UNCHANGED <<publishing, refused>> => WakeTypes'
  BY DEF WakeTypes
<1>. QED  BY <1>2, <1>3, <1>4, <1>5, <1>6, <1>7 DEF Sem!Next

LEMMA LockWakes == LockInv /\ WakeTypes /\ RwStep => WakeTypes'
<1> SUFFICES ASSUME LockInv, WakeTypes, RwStep  PROVE WakeTypes'
  OBVIOUS
<1>1. publishing' = publishing
  BY DEF RwStep, semOnly
<1>2. ASSUME NEW t \in Threads, Rw!WakeDrain(t)  PROVE refused' \subseteq Threads
  <2>1. taken[t] \in Threads
    BY <1>2 DEF Rw!WakeDrain, Rw!At, LockInv, LockTypes
  <2>. QED  BY <1>2, <2>1 DEF Rw!WakeDrain, WakeTypes
<1>3. ASSUME NEW t \in Threads,
             \/ Rw!EnterShared(t) \/ Rw!LockExclusive(t) \/ Rw!TryLockExclusive(t)
             \/ Rw!UnlockShared(t) \/ Rw!UnlockExclusive(t) \/ Rw!Working(t),
             ~Rw!WakeDrain(t)
      PROVE  refused' = refused
  BY <1>3 DEF Rw!Working, Rw!EnterShared, Rw!LockExclusive, Rw!TryLockExclusive,
     Rw!UnlockShared, Rw!UnlockExclusive, Rw!CountReader, Rw!TakeDrain, Rw!EnterDrain,
     Rw!BeginPark, Rw!PublishDrain, Rw!CommitDrain, Rw!ClearDrain, Rw!RecheckReaders,
     Rw!TryReaders
<1>4. PICK t \in Threads :
        \/ Rw!EnterShared(t) \/ Rw!LockExclusive(t) \/ Rw!TryLockExclusive(t)
        \/ Rw!UnlockShared(t) \/ Rw!UnlockExclusive(t) \/ Rw!Working(t)
  BY DEF RwStep, Rw!Next
<1>5. refused' \subseteq Threads
  BY <1>2, <1>3, <1>4 DEF WakeTypes
<1>. QED  BY <1>1, <1>5 DEF WakeTypes

LEMMA WakesNext == PermitInv /\ LockInv /\ WakeTypes /\ [Next]_vars => WakeTypes'
<1>1. UNCHANGED vars /\ WakeTypes => WakeTypes'
  BY DEF vars, semOnly, WakeTypes
<1>. QED  BY <1>1, SemaphoreWakes, LockWakes DEF Next, SemStep, PermitInv

(* Every variable of the two semaphores keeps its type; in particular the      *)
(* permits stay within their width, and no park leaves its three states.       *)
THEOREM SemaphoreTypes == Spec => []TypeOK
<1>1. Init => ParkTypes
  <2>1. Unparked \in Parks
    BY DEF Unparked, Parks, ParkStates
  <2>. QED  BY <2>1 DEF Init, Sem!Init, Sem!Unparked, Unparked, ParkTypes
<1>2. PermitInv /\ LockInv /\ ParkTypes /\ WakeTypes => TypeOK
  <2> SUFFICES ASSUME PermitInv, LockInv, ParkTypes, WakeTypes  PROVE TypeOK
    OBVIOUS
  <2>1. Places = {"idle", "enqueue", "sample", "check", "begin", "recheck", "arm", "commit",
                  "asleep", "drop", "restore", "handing"}
    BY DEF Places, Waiting
  <2>2. Sem!TypeOK
    BY <2>1 DEF PermitInv, PermitTypes, ParkTypes, WakeTypes, Acquisitions, Sem!TypeOK,
       Sem!Parks, Sem!ParkStates, Parks, ParkStates
  <2>3. Labels = {"idle", "counting", "reading", "last", "wake", "enter", "begin",
                  "publish", "commit", "asleep", "recheck", "trying", "writing"}
    BY DEF Labels, Owners
  <2>4. asserted \in BOOLEAN
    BY DEF LockInv, LockTypes
  <2>5. Rw!TypeOK
    BY <2>3, <2>4 DEF LockInv, LockTypes, ParkTypes, WakeTypes, Rw!TypeOK, Rw!Parks, Rw!ParkStates,
       Parks, ParkStates
  <2>. QED  BY <2>2, <2>5 DEF TypeOK
<1>3. Init => WakeTypes
  BY DEF Init, Sem!Init, WakeTypes
<1>. QED
  BY <1>1, <1>2, <1>3, ParksNext, WakesNext, PermitInit, PermitNext, LockInit, LockNext, PTL DEF Spec
==============================================================================
