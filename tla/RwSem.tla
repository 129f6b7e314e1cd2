-------------------------------- MODULE RwSem --------------------------------
(***************************************************************************)
(* ax-task's reader-writer semaphore: a gate mutex held by a writer, and    *)
(* for a moment by each entering reader; a reader count; and one slot in    *)
(* which the draining writer leaves its wake handle for the last reader.    *)
(* The count is atomic, the slot has its own spin lock, and the handle is   *)
(* woken after the slot is unlocked.  The gate is taken as a mutex; its     *)
(* priority inheritance, and the RT-lock variant of the wait, are left out. *)
(* TaskSync, which shares the parks out, states the specification.          *)
(***************************************************************************)
EXTENDS ParkOps

CONSTANTS
    Threads,   \* they take the lock shared or exclusive
    none       \* no thread

VARIABLES
    gate,       \* the owner of the gate mutex, or none
    readers,    \* the counted readers
    drain,      \* the thread whose wake handle is in the drain slot, or none
    pc,         \* each thread's place in its call
    park,       \* each thread's park
    taken,      \* the wake handle an unlocking reader took from the slot
    asserted,   \* the drain-slot assertion failed
    refused     \* the sleepers whose last wake was Unavailable

vars == <<gate, readers, drain, pc, park, taken, asserted, refused>>

Init ==
    /\ gate = none /\ readers = 0 /\ drain = none
    /\ pc = [t \in Threads |-> "idle"]
    /\ park = [t \in Threads |-> Unparked]
    /\ taken = [t \in Threads |-> none]
    /\ asserted = FALSE /\ refused = {}

At(t, l) == pc[t] = l
Goto(t, l) == pc' = [pc EXCEPT ![t] = l]

-----------------------------------------------------------------------------
(* Readers *)

EnterShared(t) ==
    /\ At(t, "idle") /\ gate = none
    /\ gate' = t
    /\ Goto(t, "counting")
    /\ UNCHANGED <<readers, drain, park, taken, asserted, refused>>

(* Mutant: the gate is released before the reader is counted. *)
CountReaderLate(t) ==
    \/ /\ At(t, "counting") /\ gate = t
       /\ gate' = none
       /\ UNCHANGED <<readers, drain, pc, park, taken, asserted, refused>>
    \/ /\ At(t, "counting") /\ gate # t
       /\ readers' = readers + 1
       /\ Goto(t, "reading")
       /\ UNCHANGED <<gate, drain, park, taken, asserted, refused>>

CountReader(t) ==
    /\ At(t, "counting")
    /\ readers' = readers + 1
    /\ gate' = none
    /\ Goto(t, "reading")
    /\ UNCHANGED <<drain, park, taken, asserted, refused>>

UnlockShared(t) ==
    /\ At(t, "reading")
    /\ readers' = readers - 1
    /\ Goto(t, IF readers = 1 THEN "last" ELSE "idle")
    /\ UNCHANGED <<gate, drain, park, taken, asserted, refused>>

TakeDrain(t) ==
    /\ At(t, "last")
    /\ taken' = [taken EXCEPT ![t] = drain]
    /\ drain' = none
    /\ Goto(t, IF drain = none THEN "idle" ELSE "wake")
    /\ UNCHANGED <<gate, readers, park, asserted, refused>>

(* The result of the wake is ignored: a writer that no CPU may take stays *)
(* asleep, and its handle is gone from the slot.                          *)
WakeDrain(t) ==
    /\ At(t, "wake")
    /\ \/ /\ park' = [park EXCEPT ![taken[t]] = WakePark(@)]
          /\ refused' = refused \ {taken[t]}
       \/ /\ park[taken[t]].state = "blocked"
          /\ refused' = refused \cup {taken[t]}
          /\ UNCHANGED park
    /\ taken' = [taken EXCEPT ![t] = none]
    /\ Goto(t, "idle")
    /\ UNCHANGED <<gate, readers, drain, asserted>>

-----------------------------------------------------------------------------
(* Writers *)

LockExclusive(t) ==
    /\ At(t, "idle") /\ gate = none
    /\ gate' = t
    /\ Goto(t, "enter")
    /\ UNCHANGED <<readers, drain, park, taken, asserted, refused>>

EnterDrain(t) ==
    /\ At(t, "enter")
    /\ Goto(t, IF readers = 0 THEN "writing" ELSE "begin")
    /\ UNCHANGED <<gate, readers, drain, park, taken, asserted, refused>>

BeginPark(t) ==
    /\ At(t, "begin")
    /\ park' = [park EXCEPT ![t] = IF @.notified THEN TakeNotification(@) ELSE PreparePark(@)]
    /\ Goto(t, IF park[t].notified THEN "begin" ELSE "publish")
    /\ UNCHANGED <<gate, readers, drain, taken, asserted, refused>>

(* Mutant: the count is not looked at again under the slot's lock. *)
PublishDrainBlind(t) ==
    /\ At(t, "publish")
    /\ drain' = t /\ asserted' = (asserted \/ drain # none) /\ Goto(t, "commit")
    /\ UNCHANGED <<gate, readers, park, taken, refused>>

(* Under the slot's lock: the last reader may have gone already. *)
PublishDrain(t) ==
    /\ At(t, "publish")
    /\ IF readers = 0
       THEN /\ park' = [park EXCEPT ![t] = CancelPark(@)]
            /\ Goto(t, "writing")
            /\ UNCHANGED <<drain, asserted, refused>>
       ELSE /\ drain' = t
            /\ asserted' = (asserted \/ drain # none)
            /\ Goto(t, "commit")
            /\ UNCHANGED park
    /\ UNCHANGED <<gate, readers, taken, refused>>

CommitDrain(t) ==
    /\ At(t, "commit")
    /\ park' = [park EXCEPT ![t] = CommitPark(@)]
    /\ Goto(t, "asleep")
    /\ UNCHANGED <<gate, readers, drain, taken, asserted, refused>>

(* Mutant: a wake by anyone but the last reader leaves the handle in the slot. *)
ClearDrainKept(t) ==
    /\ At(t, "asleep") /\ park[t].state = "running"
    /\ Goto(t, "recheck")
    /\ UNCHANGED <<gate, readers, drain, park, taken, asserted, refused>>

ClearDrain(t) ==
    /\ At(t, "asleep") /\ park[t].state = "running"
    /\ drain' = none
    /\ Goto(t, "recheck")
    /\ UNCHANGED <<gate, readers, park, taken, asserted, refused>>

RecheckReaders(t) ==
    /\ At(t, "recheck")
    /\ Goto(t, IF readers = 0 THEN "writing" ELSE "begin")
    /\ UNCHANGED <<gate, readers, drain, park, taken, asserted, refused>>

TryLockExclusive(t) ==
    /\ At(t, "idle") /\ gate = none
    /\ gate' = t
    /\ Goto(t, "trying")
    /\ UNCHANGED <<readers, drain, park, taken, asserted, refused>>

TryReaders(t) ==
    /\ At(t, "trying")
    /\ IF readers = 0 THEN Goto(t, "writing") /\ UNCHANGED gate
                      ELSE Goto(t, "idle") /\ gate' = none
    /\ UNCHANGED <<readers, drain, park, taken, asserted, refused>>

UnlockExclusive(t) ==
    /\ At(t, "writing")
    /\ gate' = none
    /\ Goto(t, "idle")
    /\ UNCHANGED <<readers, drain, park, taken, asserted, refused>>

-----------------------------------------------------------------------------

Working(t) ==
    \/ CountReader(t) \/ TakeDrain(t) \/ WakeDrain(t) \/ EnterDrain(t) \/ BeginPark(t)
    \/ PublishDrain(t) \/ CommitDrain(t) \/ ClearDrain(t) \/ RecheckReaders(t) \/ TryReaders(t)

Next ==
    \E t \in Threads :
        \/ EnterShared(t) \/ LockExclusive(t) \/ TryLockExclusive(t)
        \/ UnlockShared(t) \/ UnlockExclusive(t) \/ Working(t)

(* A runnable thread executes, and a reader leaves its critical section. *)
Fairness == \A t \in Threads : WF_vars(Working(t)) /\ WF_vars(UnlockShared(t))
-----------------------------------------------------------------------------
(* Properties *)

TypeOK ==
    /\ gate \in Threads \cup {none} /\ drain \in Threads \cup {none}
    /\ readers \in Nat
    /\ pc \in [Threads -> {"idle", "counting", "reading", "last", "wake", "enter", "begin",
                           "publish", "commit", "asleep", "recheck", "trying", "writing"}]
    /\ park \in [Threads -> Parks]
    /\ taken \in [Threads -> Threads \cup {none}]
    /\ asserted \in BOOLEAN /\ refused \subseteq Threads

(* A writer in its critical section is alone: no reader, no other writer. *)
Exclusive ==
    \A w \in Threads : At(w, "writing") =>
        gate = w /\ \A t \in Threads \ {w} : pc[t] \notin {"reading", "writing"}

(* The assertion that the gate owns one drain waiter holds, although a slow  *)
(* reader of an earlier writer may still be on its way to the slot.          *)
OneDrainWaiter == ~asserted

(* A writer that holds the gate gets its turn once the readers have left: the *)
(* handle is in the slot when the last reader looks, or a wake is under way.  *)
(* The one exception is a sleeper whose last wake found no CPU.               *)
Draining(t) == pc[t] \in {"enter", "begin", "publish", "commit", "asleep", "recheck"}
WriterDrains == \A t \in Threads : Draining(t) ~> At(t, "writing") \/ t \in refused
==============================================================================
