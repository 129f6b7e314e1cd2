------------------------------- MODULE PollSet -------------------------------
(***************************************************************************)
(* The readiness queue of axpoll-set: the operations of `Inner`, each one   *)
(* critical section of its spin lock, as functions on the queue's value.    *)
(* The state machines of the files that own such queues (EventFd) apply     *)
(* them one step at a time, since wake_with unlocks between two entries.    *)
(***************************************************************************)
EXTENDS Integers, Sequences, Functions

Events == {"IN", "OUT", "ERR"}
Modes == {"Shared", "Exclusive"}

(* `closed` is left out: PollSet::close runs in Drop, when no call on the file *)
(* is left, so none of the callers modelled here meets a closed set.           *)
EmptySet == [entries |-> <<>>, nextId |-> 0]

Registered(set, task, interests, mode) ==
    [entries |-> Append(set.entries, [id |-> set.nextId, task |-> task,
                                      interests |-> interests, mode |-> mode]),
     nextId |-> set.nextId + 1]

(* Iterator::position, with 0 for None, and Vec::remove *)
First(indices) ==
    IF indices = {} THEN 0 ELSE CHOOSE i \in indices : \A j \in indices : i <= j

Without(set, index) ==
    [set EXCEPT !.entries =
        [i \in 1 .. Len(@) - 1 |-> IF i < index THEN @[i] ELSE @[i + 1]]]

(* Mutant: drops the oldest entry instead of the lease's own. *)
UnregisteredOldest(set, id) ==
    IF set.entries = <<>> THEN set ELSE Without(set, 1)

Unregistered(set, id) ==
    LET index == First({i \in 1 .. Len(set.entries) : set.entries[i].id = id})
    IN  IF index = 0 THEN set ELSE Without(set, index)

WakeBoundary(set) == set.nextId

(* Mutant: no boundary, so entries added during the wake are taken as well. *)
SelectsUnbounded(entry, ready, boundary, exclusiveAvailable) ==
    /\ entry.interests \cap ready # {}
    /\ entry.mode = "Shared" \/ exclusiveAvailable

Selects(entry, ready, boundary, exclusiveAvailable) ==
    /\ entry.id < boundary
    /\ entry.interests \cap ready # {}
    /\ entry.mode = "Shared" \/ exclusiveAvailable

(* The index of the first entry a wake transaction may take, or 0. *)
NextMatching(set, ready, boundary, exclusiveAvailable) ==
    First({i \in 1 .. Len(set.entries) :
            Selects(set.entries[i], ready, boundary, exclusiveAvailable)})
==============================================================================
