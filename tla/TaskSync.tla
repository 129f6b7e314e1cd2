------------------------------ MODULE TaskSync ------------------------------
(***************************************************************************)
(* Threads that use one semaphore and one reader-writer semaphore in turn.  *)
(* Both wait on the thread's own park, so a notification that one of them   *)
(* leaves behind, a drain handle that a slow reader wakes late, or the wake *)
(* of an interruption whose call has returned, lands in the middle of the   *)
(* other's wait.                                                            *)
(***************************************************************************)
EXTENDS ParkOps, FiniteSets, Sequences

CONSTANTS
    Threads, none, Producers, Interruptible, Timed, Initial, MaxPermits, MaxUps

ASSUME ThreadsAssumption == IsFiniteSet(Threads) /\ none \notin Threads

ASSUME SemaphoreAssumption ==
    /\ Interruptible \subseteq Threads /\ Timed \subseteq Threads
    /\ Threads \cap Producers = {}
    /\ Initial \in Nat /\ MaxPermits \in Nat /\ Initial <= MaxPermits

ASSUME BoundsAssumption == MaxUps \in Nat

VARIABLES
    permits, waiters, acq, handing, woke, ups, downs, panicked, publishing,   \* the semaphore
    gate, readers, drain, pc, taken, asserted,                  \* the reader-writer semaphore
    park, refused                                               \* shared by both

Sem == INSTANCE Semaphore
Rw == INSTANCE RwSem

semOnly == <<permits, waiters, acq, handing, woke, ups, downs, panicked, publishing>>
rwOnly == <<gate, readers, drain, pc, taken, asserted>>
vars == <<semOnly, rwOnly, park, refused>>

Init == Sem!Init /\ Rw!Init

(* A thread is in one call at a time, and waits for no permit with the lock held. *)
OneCall(t) == acq[t].pc = "idle" \/ pc[t] = "idle"

SemStep == Sem!Next /\ UNCHANGED rwOnly /\ \A t \in Threads : OneCall(t)'
RwStep == Rw!Next /\ UNCHANGED semOnly /\ \A t \in Threads : OneCall(t)'

Next == SemStep \/ RwStep

Spec == Init /\ [][Next]_vars /\ Sem!Fairness /\ Rw!Fairness
-----------------------------------------------------------------------------
(* Properties *)

(* The semaphore's state stays within its types: the permits never exceed  *)
(* usize::MAX, whatever up() and a returned permit add.                    *)
TypeOK == Sem!TypeOK /\ Rw!TypeOK

(* No permit is lost or made up: those released by up() are taken by a     *)
(* down, free, or reserved for a thread that is still in its acquisition,  *)
(* also when a granted acquisition fails and Drop gives its permit back.   *)
PermitsConserved == Initial + ups = downs + permits + Cardinality(Sem!Reserved)

(* A permit is never left free while a thread is queued for one: enqueue   *)
(* looks again under the lock, and up() grants before it counts.           *)
NoStrandedWaiter == Sem!NoStrandedWaiter

(* The waiter that an up() is waking stays in acquire until that up() has  *)
(* dropped its reference, so up() never releases the last one in interrupt *)
(* context (handoff_complete).                                             *)
WaiterOutlivesHandoff == Sem!WaiterOutlivesHandoff

(* A thread that was granted a permit returns from its acquisition: no     *)
(* wake is lost between the check, the park and the commit.  A wake is     *)
(* assumed to find a CPU: up() ignores Unavailable, and the thread whose   *)
(* last wake was refused so is exempt until the next wake reaches it.      *)
GrantReturns == Sem!GrantReturns

(* An interrupted or expired acquisition returns, granted or not: the one  *)
(* wake of the publisher or of the timer is enough, unless it is refused.  *)
StoppedReturns == Sem!StoppedReturns

(* A writer in its critical section is alone, although readers only hold   *)
(* the gate while they are counted.                                        *)
Exclusive == Rw!Exclusive

(* The assertion that the gate owns one drain waiter never fails, although *)
(* a wake of someone else may send the writer round its loop again.        *)
OneDrainWaiter == Rw!OneDrainWaiter

(* A writer that holds the gate gets its turn once the readers have left:  *)
(* its handle is in the slot when the last reader looks, or it sees the    *)
(* count at zero itself.  The wake of the slot's handle is assumed to find *)
(* a CPU: DrainWake::wake ignores Unavailable, and nobody wakes the writer *)
(* after it.                                                               *)
WriterDrains == Rw!WriterDrains
==============================================================================
