--------------------------- MODULE ParkWake_proofs ---------------------------
(*********************************************************************************)
(* The inductive invariant of the park and wake handshake, for any number of     *)
(* wakers and CPUs, the safety properties that follow from it, and that the      *)
(* handshake implements the specification of module Park: its initial states map *)
(* to initial states, and each of its steps to a step of Park or to a stutter.   *)
(*********************************************************************************)
EXTENDS ParkWake, TLAPS

(* A step that names no prover is tried with Zenon, then with SMT. *)
USE ZenonT(30), SMTT(30)

(* The waker that holds the thread lock is between taking and dropping it. *)
Locked == {"publish", "place", "notify", "onrq", "activate"}
TaskLockInv == \A w \in Wakers : waker[w].at \in Locked <=> taskLock = w

(* The parker holds the run-queue lock of the CPU it runs on, and the marker *)
(* stands while the slot is reserved.                                        *)
ParkerInv ==
    /\ rqLock = IF pc \in {"rq", "taken", "reserve", "publish", "dequeue", "install", "pick"}
                THEN onCpu ELSE none
    /\ onCpu = IF pc = "off" THEN none ELSE taskCpu
    /\ marker <=> pc \in {"publish", "dequeue", "install"}

(* The word against the placement: a thread off every queue is asleep, and a *)
(* queued one is Running unless it is parking or a delayed sleeper.          *)
PlaceInv ==
    /\ onRq = IF entity = "rq" THEN taskCpu ELSE none
    /\ pc \in {"run", "prepare"} => word.state = "Running"
    /\ pc \in {"parking", "withdrawn", "rq", "taken", "reserve", "publish"} => word.state = "Parking"
    /\ pc = "dequeue" => word.state = "Blocked"
    /\ pc \notin {"install", "pick", "switch", "off"} => entity = "rq" /\ ~delayed
    /\ pc = "install" <=> entity = "moving"
    /\ pc \in {"pick", "switch", "off"} /\ entity = "rq" =>
          word.state = IF delayed THEN "Blocked" ELSE "Running"
    /\ entity # "rq" => ~delayed /\ word.state \in {"Blocked", "Waking"}

(* A waker past the publication has found the thread asleep in the park it is *)
(* for, and the thread stays so until that waker places it.                   *)
WakerInv ==
    /\ \A w \in Wakers : waker[w].at = "place" => word.state = "Blocked" /\ word.pending
    /\ \A w \in Wakers : waker[w].at = "onrq" =>
          word.state = "Blocked" /\ waker[w].cpu = taskCpu /\ ~word.notified
    /\ \A w \in Wakers : waker[w].at = "activate" =>
          word.state = "Waking" /\ waker[w].cpu \in Cpus /\ ~word.notified
    /\ word.state = "Waking" => \E w \in Wakers : waker[w].at = "activate"

(* A call's kind follows its position; a claim is of this park or an earlier *)
(* one, and of this one when it has found the thread asleep.                 *)
CallInv ==
    \A w \in Wakers :
        /\ waker[w].at = "idle" <=> waker[w].kind = "none"
        /\ waker[w].at = "refused" <=> waker[w].kind = "refused"
        /\ waker[w].at \in {"publish", "place"} => waker[w].kind = "wake"
        /\ waker[w].at \in {"notify", "relock"} => waker[w].kind = "claim"
        /\ waker[w].kind \in {"none", "refused", "wake"} => waker[w].gen = 0
        /\ waker[w].gen <= gen
        /\ waker[w].kind = "claim" /\ waker[w].at \in {"onrq", "activate"} => waker[w].gen = gen

(* A claim that came back to the lock in its own park finds its notification *)
(* pending, or the thread already woken by another.                          *)
RelockInv ==
    \A w \in Wakers : waker[w].at = "relock" /\ waker[w].gen = gen =>
        /\ word.state # "Parking"
        /\ word.state = "Blocked" => word.pending \/ \E v \in Wakers : waker[v].at = "onrq"

(* The claim of the current park is selected by one waker at most, and only *)
(* the end of the park takes it away from the waker on its way to the lock. *)
Claiming(w) == waker[w].at = "lock" /\ waker[w].kind = "claim" /\ waker[w].gen = gen
ClaimInv ==
    /\ claim = "inactive" => pc \in {"run", "prepare", "withdrawn"}
    /\ claim \in {"queued", "delivered", "cancelled"} => \A w \in Wakers : ~Claiming(w)
    /\ claim = "selected" => \A v, w \in Wakers : Claiming(v) /\ Claiming(w) => v = w

ParkInv ==
    /\ TypeOK /\ NeverFatal /\ TaskLockInv /\ ParkerInv /\ PlaceInv
    /\ WakerInv /\ CallInv /\ RelockInv /\ ClaimInv
-----------------------------------------------------------------------------
(* The parker's steps *)

Words == [state : {"Running", "Parking", "Blocked", "Waking"},
          pending : BOOLEAN, notified : BOOLEAN]

Requests == [kind : {"none", "wake", "claim", "refused"}, gen : 0 .. MaxGen,
             cpu : Cpus \cup {none},
             at : {"idle", "lock", "publish", "place", "notify",
                   "relock", "onrq", "activate", "refused"}]

LEMMA WordTypes ==
    ASSUME word \in Words
    PROVE  /\ Cleared(word) \in Words /\ ~Cleared(word).notified /\ ~Cleared(word).pending
           /\ Cleared(word).state = word.state
           /\ Published(word) \in Words /\ Published(word).pending
           /\ Published(word).state = word.state
           /\ PublishBlocked \in Words
<1>1. Cleared(word) \in Words /\ ~Cleared(word).notified /\ Cleared(word).state = word.state
  BY DEF Words, Cleared
<1>2. ~Cleared(word).pending
  BY DEF Words, Cleared
<1>3. Published(word) \in Words /\ Published(word).pending /\ Published(word).state = word.state
  BY DEF Words, Published
<1>4. PublishBlocked \in Words
  BY <1>1 DEF Words, PublishBlocked
<1>. QED  BY <1>1, <1>2, <1>3, <1>4

LEMMA TakeNotifiedStep == ASSUME ParkInv, TakeNotified PROVE ParkInv'
<1> USE ConstantsAssumption DEF ParkInv, TakeNotified, sched, Cleared
<1>1. TypeOK'
  <2>1. word' \in Words
    BY WordTypes DEF TypeOK, Words
  <2>. QED  BY <2>1, SMTT(30) DEF TypeOK, Words
<1>2. NeverFatal' /\ ParkerInv' /\ PlaceInv'
  BY DEF TypeOK, NeverFatal, ParkerInv, PlaceInv, WakerInv, TaskLockInv, Locked
<1>3. TaskLockInv' /\ WakerInv'
  BY DEF TypeOK, TaskLockInv, WakerInv, PlaceInv, Locked
<1>4. CallInv'
  BY DEF CallInv
<1>5. RelockInv'
  BY DEF TypeOK, RelockInv, PlaceInv
<1>6. ClaimInv'
  BY DEF TypeOK, ClaimInv, Claiming, PlaceInv
<1>. QED  BY <1>1, <1>2, <1>3, <1>4, <1>5, <1>6

LEMMA PrepareStep == ASSUME ParkInv, Prepare PROVE ParkInv'
<1> USE ConstantsAssumption DEF ParkInv, Prepare, sched, Transition, TransitionValid
<1>1. TypeOK'
  BY SMTT(30) DEF TypeOK
<1>2. NeverFatal' /\ ParkerInv' /\ PlaceInv'
  BY DEF TypeOK, NeverFatal, ParkerInv, PlaceInv, WakerInv, TaskLockInv, Locked
<1>3. TaskLockInv' /\ WakerInv'
  BY DEF TypeOK, TaskLockInv, WakerInv, PlaceInv, Locked
<1>4. CallInv'
  BY SMTT(30) DEF TypeOK, CallInv, PlaceInv, WakerInv
<1>5. RelockInv' /\ ClaimInv'
  BY SMTT(30) DEF TypeOK, CallInv, RelockInv, ClaimInv, Claiming
<1>. QED  BY <1>1, <1>2, <1>3, <1>4, <1>5

LEMMA GenerationExhaustedStep == ASSUME ParkInv, GenerationExhausted PROVE ParkInv'
<1> USE ConstantsAssumption DEF ParkInv, GenerationExhausted, sched
<1>1. TypeOK'
  BY SMTT(30) DEF TypeOK
<1>2. NeverFatal' /\ ParkerInv' /\ PlaceInv'
  BY DEF TypeOK, NeverFatal, ParkerInv, PlaceInv, WakerInv, TaskLockInv, Locked
<1>3. TaskLockInv' /\ WakerInv'
  BY DEF TypeOK, TaskLockInv, WakerInv, PlaceInv, Locked
<1>4. CallInv'
  BY DEF CallInv
<1>5. RelockInv'
  BY DEF TypeOK, RelockInv, PlaceInv
<1>6. ClaimInv'
  BY DEF TypeOK, ClaimInv, Claiming, PlaceInv
<1>. QED  BY <1>1, <1>2, <1>3, <1>4, <1>5, <1>6

LEMMA WithdrawStep == ASSUME ParkInv, Withdraw PROVE ParkInv'
<1> USE ConstantsAssumption DEF ParkInv, Withdraw, sched
<1>1. TypeOK'
  BY SMTT(30) DEF TypeOK
<1>2. NeverFatal' /\ ParkerInv' /\ PlaceInv'
  BY DEF TypeOK, NeverFatal, ParkerInv, PlaceInv, WakerInv, TaskLockInv, Locked
<1>3. TaskLockInv' /\ WakerInv'
  BY DEF TypeOK, TaskLockInv, WakerInv, PlaceInv, Locked
<1>4. CallInv' /\ RelockInv' /\ ClaimInv'
  BY DEF TypeOK, CallInv, RelockInv, ClaimInv, Claiming, PlaceInv
<1>. QED  BY <1>1, <1>2, <1>3, <1>4

LEMMA CancelStep == ASSUME ParkInv, Cancel PROVE ParkInv'
<1> USE ConstantsAssumption DEF ParkInv, Cancel, sched, Transition
<1>1. TypeOK'
  BY SMTT(30) DEF TypeOK
<1>2. NeverFatal' /\ ParkerInv' /\ PlaceInv'
  BY DEF TypeOK, NeverFatal, ParkerInv, PlaceInv, WakerInv, TaskLockInv, Locked
<1>3. TaskLockInv' /\ WakerInv'
  BY DEF TypeOK, TaskLockInv, WakerInv, PlaceInv, Locked
<1>4. CallInv'
  BY DEF CallInv
<1>5. RelockInv'
  BY DEF TypeOK, RelockInv, PlaceInv
<1>6. ClaimInv'
  BY DEF TypeOK, ClaimInv, Claiming, PlaceInv
<1>. QED  BY <1>1, <1>2, <1>3, <1>4, <1>5, <1>6

LEMMA EnterRqStep == ASSUME ParkInv, EnterRq PROVE ParkInv'
<1> USE ConstantsAssumption DEF ParkInv, EnterRq, sched
<1>1. TypeOK'
  BY SMTT(30) DEF TypeOK
<1>2. NeverFatal' /\ ParkerInv' /\ PlaceInv'
  BY DEF TypeOK, NeverFatal, ParkerInv, PlaceInv, WakerInv, TaskLockInv, Locked
<1>3. TaskLockInv' /\ WakerInv'
  BY DEF TypeOK, TaskLockInv, WakerInv, PlaceInv, Locked
<1>4. CallInv'
  BY DEF CallInv
<1>5. RelockInv'
  BY DEF TypeOK, RelockInv, PlaceInv
<1>6. ClaimInv'
  BY DEF TypeOK, ClaimInv, Claiming, PlaceInv
<1>. QED  BY <1>1, <1>2, <1>3, <1>4, <1>5, <1>6

LEMMA TakeInRqStep == ASSUME ParkInv, TakeInRq PROVE ParkInv'
<1> USE ConstantsAssumption DEF ParkInv, TakeInRq, sched, Cleared
<1>1. TypeOK'
  <2>1. word' \in Words
    BY WordTypes DEF TypeOK, Words
  <2>. QED  BY <2>1, SMTT(30) DEF TypeOK, Words
<1>2. NeverFatal' /\ ParkerInv' /\ PlaceInv'
  BY DEF TypeOK, NeverFatal, ParkerInv, PlaceInv, WakerInv, TaskLockInv, Locked
<1>3. TaskLockInv' /\ WakerInv'
  BY DEF TypeOK, TaskLockInv, WakerInv, PlaceInv, Locked
<1>4. CallInv'
  BY DEF CallInv
<1>5. RelockInv'
  BY DEF TypeOK, RelockInv, PlaceInv
<1>6. ClaimInv'
  BY DEF TypeOK, ClaimInv, Claiming, PlaceInv
<1>. QED  BY <1>1, <1>2, <1>3, <1>4, <1>5, <1>6

LEMMA ResumeTakenStep == ASSUME ParkInv, ResumeTaken PROVE ParkInv'
<1> USE ConstantsAssumption DEF ParkInv, ResumeTaken, sched, Transition, TransitionValid
<1>1. TypeOK'
  BY DEF TypeOK
<1>2. NeverFatal' /\ ParkerInv' /\ PlaceInv'
  BY DEF TypeOK, NeverFatal, ParkerInv, PlaceInv, WakerInv, TaskLockInv, Locked
<1>3. TaskLockInv' /\ WakerInv'
  BY DEF TypeOK, TaskLockInv, WakerInv, PlaceInv, Locked
<1>4. CallInv'
  BY DEF CallInv
<1>5. RelockInv'
  BY DEF TypeOK, RelockInv, PlaceInv
<1>6. ClaimInv'
  BY DEF TypeOK, ClaimInv, Claiming, PlaceInv
<1>. QED  BY <1>1, <1>2, <1>3, <1>4, <1>5, <1>6

LEMMA BeginPublicationStep == ASSUME ParkInv, BeginPublication PROVE ParkInv'
<1> USE ConstantsAssumption DEF ParkInv, BeginPublication, sched
<1>1. TypeOK'
  BY SMTT(30) DEF TypeOK
<1>2. NeverFatal' /\ ParkerInv' /\ PlaceInv'
  BY DEF TypeOK, NeverFatal, ParkerInv, PlaceInv, WakerInv, TaskLockInv, Locked
<1>3. TaskLockInv' /\ WakerInv'
  BY DEF TypeOK, TaskLockInv, WakerInv, PlaceInv, Locked
<1>4. CallInv'
  BY DEF CallInv
<1>5. RelockInv'
  BY DEF TypeOK, RelockInv, PlaceInv
<1>6. ClaimInv'
  BY DEF TypeOK, ClaimInv, Claiming, PlaceInv
<1>. QED  BY <1>1, <1>2, <1>3, <1>4, <1>5, <1>6

LEMMA PublishInRqStep == ASSUME ParkInv, PublishInRq PROVE ParkInv'
<1> USE ConstantsAssumption DEF ParkInv, PublishInRq, sched, Cleared, PublishBlocked
<1>1. TypeOK'
  <2>1. word' \in Words
    BY WordTypes DEF TypeOK, Words
  <2>2. marker' \in BOOLEAN /\ fatal' \in BOOLEAN
    BY DEF TypeOK
  <2>. QED  BY <2>1, <2>2, SMTT(30) DEF TypeOK, Words
<1>2. NeverFatal' /\ ParkerInv' /\ PlaceInv'
  BY DEF TypeOK, NeverFatal, ParkerInv, PlaceInv, WakerInv, TaskLockInv, Locked
<1>3. TaskLockInv' /\ WakerInv'
  BY DEF TypeOK, TaskLockInv, WakerInv, PlaceInv, Locked
<1>4. CallInv'
  BY DEF CallInv
<1>5. RelockInv'
  BY DEF TypeOK, RelockInv, PlaceInv
<1>6. ClaimInv'
  BY DEF TypeOK, ClaimInv, Claiming, PlaceInv
<1>. QED  BY <1>1, <1>2, <1>3, <1>4, <1>5, <1>6

LEMMA DelayInRqStep == ASSUME ParkInv, DelayInRq PROVE ParkInv'
<1> USE ConstantsAssumption DEF ParkInv, DelayInRq
<1>1. TypeOK'
  <2>1. marker' \in BOOLEAN /\ delayed' \in BOOLEAN /\ fatal' \in BOOLEAN
    BY DEF TypeOK
  <2>. QED  BY <2>1, SMTT(30) DEF TypeOK
<1>2. NeverFatal' /\ ParkerInv' /\ PlaceInv'
  BY DEF TypeOK, NeverFatal, ParkerInv, PlaceInv, WakerInv, TaskLockInv, Locked
<1>3. TaskLockInv' /\ WakerInv'
  BY DEF TypeOK, TaskLockInv, WakerInv, PlaceInv, Locked
<1>4. CallInv'
  BY DEF CallInv
<1>5. RelockInv'
  BY DEF TypeOK, RelockInv, PlaceInv
<1>6. ClaimInv'
  BY DEF TypeOK, ClaimInv, Claiming, PlaceInv
<1>. QED  BY <1>1, <1>2, <1>3, <1>4, <1>5, <1>6

LEMMA DequeueInRqStep == ASSUME ParkInv, DequeueInRq PROVE ParkInv'
<1> USE ConstantsAssumption DEF ParkInv, DequeueInRq
<1>1. TypeOK'
  BY SMTT(30) DEF TypeOK
<1>2. NeverFatal' /\ ParkerInv' /\ PlaceInv'
  BY DEF TypeOK, NeverFatal, ParkerInv, PlaceInv, WakerInv, TaskLockInv, Locked
<1>3. TaskLockInv' /\ WakerInv'
  BY DEF TypeOK, TaskLockInv, WakerInv, PlaceInv, Locked
<1>4. CallInv'
  BY DEF CallInv
<1>5. RelockInv'
  BY DEF TypeOK, RelockInv, PlaceInv
<1>6. ClaimInv'
  BY DEF TypeOK, ClaimInv, Claiming, PlaceInv
<1>. QED  BY <1>1, <1>2, <1>3, <1>4, <1>5, <1>6

LEMMA FinishPublicationStep == ASSUME ParkInv, FinishPublication PROVE ParkInv'
<1> USE ConstantsAssumption DEF ParkInv, FinishPublication
<1>1. TypeOK'
  <2>1. marker' \in BOOLEAN /\ delayed' \in BOOLEAN /\ fatal' \in BOOLEAN
    BY DEF TypeOK
  <2>. QED  BY <2>1, SMTT(30) DEF TypeOK
<1>2. NeverFatal' /\ ParkerInv' /\ PlaceInv'
  BY DEF TypeOK, NeverFatal, ParkerInv, PlaceInv, WakerInv, TaskLockInv, Locked
<1>3. TaskLockInv' /\ WakerInv'
  BY DEF TypeOK, TaskLockInv, WakerInv, PlaceInv, Locked
<1>4. CallInv'
  BY DEF CallInv
<1>5. RelockInv'
  BY DEF TypeOK, RelockInv, PlaceInv
<1>6. ClaimInv'
  BY DEF TypeOK, ClaimInv, Claiming, PlaceInv
<1>. QED  BY <1>1, <1>2, <1>3, <1>4, <1>5, <1>6

LEMMA PickNextStep == ASSUME ParkInv, PickNext PROVE ParkInv'
<1> USE ConstantsAssumption DEF ParkInv, PickNext, FinishDelayedDequeue
<1>1. TypeOK'
  <2>1. marker' \in BOOLEAN /\ delayed' \in BOOLEAN /\ fatal' \in BOOLEAN
    BY DEF TypeOK
  <2>. QED  BY <2>1, SMTT(30) DEF TypeOK
<1>2. NeverFatal' /\ ParkerInv' /\ PlaceInv'
  <2>1. NeverFatal'
    BY DEF TypeOK, NeverFatal, ParkerInv, PlaceInv
  <2>2. ParkerInv'
    BY SMTT(30) DEF TypeOK, ParkerInv, PlaceInv
  <2>3. PlaceInv'
    BY SMTT(30) DEF TypeOK, ParkerInv, PlaceInv
  <2>. QED  BY <2>1, <2>2, <2>3
<1>3. TaskLockInv' /\ WakerInv'
  BY DEF TypeOK, TaskLockInv, WakerInv, PlaceInv, Locked
<1>4. CallInv'
  BY DEF CallInv
<1>5. RelockInv'
  BY DEF TypeOK, RelockInv, PlaceInv
<1>6. ClaimInv'
  BY DEF TypeOK, ClaimInv, Claiming, PlaceInv
<1>. QED  BY <1>1, <1>2, <1>3, <1>4, <1>5, <1>6

LEMMA CommitLockedStep == ASSUME ParkInv, CommitLocked PROVE ParkInv'
<1> USE ConstantsAssumption DEF ParkInv, CommitLocked, sched, Cleared, PublishBlocked
<1>1. TypeOK'
  <2>1. word' \in Words
    BY WordTypes DEF TypeOK, Words
  <2>2. delayed' \in BOOLEAN /\ fatal' \in BOOLEAN
    BY DEF TypeOK
  <2>. QED  BY <2>1, <2>2 DEF TypeOK, Words
<1>2. NeverFatal' /\ ParkerInv' /\ PlaceInv'
  BY DEF TypeOK, NeverFatal, ParkerInv, PlaceInv, WakerInv, TaskLockInv, Locked
<1>3. TaskLockInv' /\ WakerInv'
  BY DEF TypeOK, TaskLockInv, WakerInv, PlaceInv, Locked
<1>4. CallInv'
  BY DEF CallInv
<1>5. RelockInv'
  BY DEF TypeOK, RelockInv, PlaceInv
<1>6. ClaimInv'
  BY DEF TypeOK, ClaimInv, Claiming, PlaceInv
<1>. QED  BY <1>1, <1>2, <1>3, <1>4, <1>5, <1>6

LEMMA SwitchTailStep == ASSUME ParkInv, SwitchTail PROVE ParkInv'
<1> USE ConstantsAssumption DEF ParkInv, SwitchTail, sched
<1>1. TypeOK'
  BY SMTT(30) DEF TypeOK
<1>2. NeverFatal' /\ ParkerInv' /\ PlaceInv'
  BY DEF TypeOK, NeverFatal, ParkerInv, PlaceInv, WakerInv, TaskLockInv, Locked
<1>3. TaskLockInv' /\ WakerInv'
  BY DEF TypeOK, TaskLockInv, WakerInv, PlaceInv, Locked
<1>4. CallInv'
  BY DEF CallInv
<1>5. RelockInv'
  BY DEF TypeOK, RelockInv, PlaceInv
<1>6. ClaimInv'
  BY DEF TypeOK, ClaimInv, Claiming, PlaceInv
<1>. QED  BY <1>1, <1>2, <1>3, <1>4, <1>5, <1>6

LEMMA PickDelayedStep == ASSUME ParkInv, PickDelayed PROVE ParkInv'
<1> USE ConstantsAssumption DEF ParkInv, PickDelayed, FinishDelayedDequeue
<1>1. TypeOK'
  BY DEF TypeOK
<1>2. NeverFatal' /\ ParkerInv' /\ PlaceInv'
  BY DEF TypeOK, NeverFatal, ParkerInv, PlaceInv, WakerInv, TaskLockInv, Locked
<1>3. TaskLockInv' /\ WakerInv'
  BY DEF TypeOK, TaskLockInv, WakerInv, PlaceInv, Locked
<1>4. CallInv'
  BY DEF CallInv
<1>5. RelockInv'
  BY DEF TypeOK, RelockInv, PlaceInv
<1>6. ClaimInv'
  BY DEF TypeOK, ClaimInv, Claiming, PlaceInv
<1>. QED  BY <1>1, <1>2, <1>3, <1>4, <1>5, <1>6

LEMMA SetNextTaskStep == ASSUME ParkInv, SetNextTask PROVE ParkInv'
<1> USE ConstantsAssumption DEF ParkInv, SetNextTask, sched
<1>1. TypeOK'
  BY DEF TypeOK
<1>2. NeverFatal' /\ ParkerInv' /\ PlaceInv'
  BY DEF TypeOK, NeverFatal, ParkerInv, PlaceInv, WakerInv, TaskLockInv, Locked
<1>3. TaskLockInv' /\ WakerInv'
  BY DEF TypeOK, TaskLockInv, WakerInv, PlaceInv, Locked
<1>4. CallInv'
  BY DEF CallInv
<1>5. RelockInv'
  BY DEF TypeOK, RelockInv, PlaceInv
<1>6. ClaimInv'
  BY DEF TypeOK, ClaimInv, Claiming, PlaceInv
<1>. QED  BY <1>1, <1>2, <1>3, <1>4, <1>5, <1>6

-----------------------------------------------------------------------------
(* The wakers' steps *)

LEMMA CallWakeStep == ASSUME ParkInv, NEW w \in Wakers, CallWake(w) PROVE ParkInv'
<1> USE ConstantsAssumption DEF ParkInv, CallWake, sched, At
<1>0. word' \in Words
  BY WordTypes DEF TypeOK, Words
<1>1. TypeOK'
  BY <1>0, SMTT(30) DEF TypeOK, Words
<1>2. NeverFatal' /\ ParkerInv' /\ PlaceInv'
  BY WordTypes DEF TypeOK, Words, NeverFatal, ParkerInv, PlaceInv, WakerInv, TaskLockInv, Locked
<1>3. TaskLockInv'
  BY DEF TypeOK, TaskLockInv, Locked
<1>4. WakerInv'
  BY WordTypes, SMTT(30) DEF TypeOK, Words, TaskLockInv, WakerInv, PlaceInv, Locked
<1>5. CallInv'
  BY SMTT(30) DEF TypeOK, CallInv, TaskLockInv, WakerInv
<1>6. RelockInv'
  BY WordTypes, SMTT(30) DEF TypeOK, Words, RelockInv, TaskLockInv, WakerInv, Locked
<1>7. ClaimInv'
  BY SMTT(30) DEF TypeOK, ClaimInv, Claiming, CallInv, PlaceInv
<1>. QED  BY <1>1, <1>2, <1>3, <1>4, <1>5, <1>6, <1>7

LEMMA CallClaimStep == ASSUME ParkInv, NEW w \in Wakers, CallClaim(w) PROVE ParkInv'
<1> USE ConstantsAssumption DEF ParkInv, CallClaim, sched, At
<1>0. word' \in Words
  BY WordTypes DEF TypeOK, Words
<1>1. TypeOK'
  BY <1>0, SMTT(30) DEF TypeOK, Words
<1>2. NeverFatal' /\ ParkerInv' /\ PlaceInv'
  BY WordTypes DEF TypeOK, Words, NeverFatal, ParkerInv, PlaceInv, WakerInv, TaskLockInv, Locked
<1>3. TaskLockInv'
  BY DEF TypeOK, TaskLockInv, Locked
<1>4. WakerInv'
  BY WordTypes, SMTT(30) DEF TypeOK, Words, TaskLockInv, WakerInv, PlaceInv, Locked
<1>5. CallInv'
  BY SMTT(30) DEF TypeOK, CallInv, TaskLockInv, WakerInv
<1>6. RelockInv'
  BY WordTypes, SMTT(30) DEF TypeOK, Words, RelockInv, TaskLockInv, WakerInv, Locked
<1>7. ClaimInv'
  BY SMTT(30) DEF TypeOK, ClaimInv, Claiming, CallInv, PlaceInv
<1>. QED  BY <1>1, <1>2, <1>3, <1>4, <1>5, <1>6, <1>7

LEMMA LockTaskStep == ASSUME ParkInv, NEW w \in Wakers, LockTask(w) PROVE ParkInv'
<1> USE ConstantsAssumption DEF ParkInv, LockTask, sched, At, FreeTaskLock, Goto
<1>0. word' \in Words
  BY WordTypes DEF TypeOK, Words
<1>1. TypeOK'
  BY <1>0, SMTT(30) DEF TypeOK, Words
<1>2. NeverFatal' /\ ParkerInv' /\ PlaceInv'
  BY WordTypes DEF TypeOK, Words, NeverFatal, ParkerInv, PlaceInv, WakerInv, TaskLockInv, Locked
<1>3. TaskLockInv'
  BY DEF TypeOK, TaskLockInv, Locked
<1>4. WakerInv'
  BY WordTypes, SMTT(30) DEF TypeOK, Words, TaskLockInv, WakerInv, PlaceInv, Locked
<1>5. CallInv'
  BY SMTT(30) DEF TypeOK, CallInv, TaskLockInv, WakerInv
<1>6. RelockInv'
  BY WordTypes, SMTT(30) DEF TypeOK, Words, RelockInv, TaskLockInv, WakerInv, Locked
<1>7. ClaimInv'
  BY SMTT(30) DEF TypeOK, ClaimInv, Claiming, CallInv, PlaceInv
<1>. QED  BY <1>1, <1>2, <1>3, <1>4, <1>5, <1>6, <1>7

LEMMA PublishWakeStep == ASSUME ParkInv, NEW w \in Wakers, PublishWake(w) PROVE ParkInv'
<1> USE ConstantsAssumption DEF ParkInv, PublishWake, sched, At, Goto, Return, Idle
<1>0. word' \in Words
  BY WordTypes DEF TypeOK, Words
<1>1. TypeOK'
  BY <1>0, SMTT(30) DEF TypeOK, Words
<1>2. NeverFatal' /\ ParkerInv' /\ PlaceInv'
  BY WordTypes DEF TypeOK, Words, NeverFatal, ParkerInv, PlaceInv, WakerInv, TaskLockInv, Locked
<1>3. TaskLockInv'
  BY SMTT(30) DEF TypeOK, TaskLockInv, Locked
<1>4. WakerInv'
  BY WordTypes, SMTT(30) DEF TypeOK, Words, TaskLockInv, WakerInv, PlaceInv, Locked
<1>5. CallInv'
  BY SMTT(30) DEF TypeOK, CallInv, TaskLockInv, WakerInv
<1>6. RelockInv'
  BY WordTypes, SMTT(30) DEF TypeOK, Words, RelockInv, TaskLockInv, WakerInv, Locked
<1>7. ClaimInv'
  BY SMTT(30) DEF TypeOK, ClaimInv, Claiming, CallInv, PlaceInv
<1>. QED  BY <1>1, <1>2, <1>3, <1>4, <1>5, <1>6, <1>7

LEMMA ReportUnavailableStep == ASSUME ParkInv, NEW w \in Wakers, ReportUnavailable(w) PROVE ParkInv'
<1> USE ConstantsAssumption DEF ParkInv, ReportUnavailable, sched, At, Return, Idle
<1>0. word' \in Words
  BY WordTypes DEF TypeOK, Words
<1>1. TypeOK'
  BY <1>0, SMTT(30) DEF TypeOK, Words
<1>2. NeverFatal' /\ ParkerInv' /\ PlaceInv'
  BY WordTypes DEF TypeOK, Words, NeverFatal, ParkerInv, PlaceInv, WakerInv, TaskLockInv, Locked
<1>3. TaskLockInv'
  BY DEF TypeOK, TaskLockInv, Locked
<1>4. WakerInv'
  BY WordTypes, SMTT(30) DEF TypeOK, Words, TaskLockInv, WakerInv, PlaceInv, Locked
<1>5. CallInv'
  BY DEF TypeOK, CallInv, TaskLockInv, WakerInv
<1>6. RelockInv'
  BY WordTypes DEF TypeOK, Words, RelockInv, TaskLockInv, WakerInv, Locked
<1>7. ClaimInv'
  BY SMTT(30) DEF TypeOK, ClaimInv, Claiming, CallInv, PlaceInv
<1>. QED  BY <1>1, <1>2, <1>3, <1>4, <1>5, <1>6, <1>7

(* The three outcomes of a wake that found the thread Blocked. *)
LEMMA PlacedStep ==
    ASSUME ParkInv, NEW w \in Wakers, NEW c \in Cpus, NEW here \in {"onrq", "activate"},
           taskLock \in {none, w}, word.state = "Blocked",
           waker[w].kind \in {"wake", "claim"}, waker[w].kind = "claim" => waker[w].gen = gen,
           here = "onrq" => onRq = c /\ word' = Cleared(word),
           here = "activate" => onRq = none /\ word' = [Cleared(word) EXCEPT !.state = "Waking"],
           waker' = [waker EXCEPT ![w].cpu = c, ![w].at = here],
           taskLock' = w, fatal' = fatal,
           claim' # claim => claim' = "delivered" /\ claim = "selected" /\ Claiming(w),
           UNCHANGED <<gen, sched, marker, onCpu, rqLock, pc>>
    PROVE  ParkInv'
<1> USE ConstantsAssumption DEF ParkInv, sched
<1>0. /\ word' \in Words /\ ~word'.notified
      /\ word'.state = IF here = "onrq" THEN "Blocked" ELSE "Waking"
  BY WordTypes DEF TypeOK, Words
<1>a. /\ waker'[w].at = here /\ waker'[w].cpu = c
      /\ waker'[w].kind = waker[w].kind /\ waker'[w].gen = waker[w].gen
      /\ \A v \in Wakers \ {w} : waker'[v] = waker[v] /\ waker[v].at \notin Locked
  BY SMTT(30) DEF TypeOK, TaskLockInv
<1>1. TypeOK'
  <2>0. waker \in [Wakers -> Requests]
    BY DEF TypeOK, Requests
  <2>1. waker' \in [Wakers -> Requests]
    <3>1. [waker[w] EXCEPT !.cpu = c, !.at = here] \in Requests
      BY <2>0 DEF Requests
    <3>2. waker' = [waker EXCEPT ![w] = [waker[w] EXCEPT !.cpu = c, !.at = here]]
      BY <2>0 DEF Requests
    <3>. QED  BY <2>0, <3>1, <3>2
  <2>2. claim' \in {"inactive", "queued", "selected", "delivered", "cancelled"} /\ fatal' \in BOOLEAN
    BY DEF TypeOK
  <2>. QED  BY <1>0, <2>1, <2>2, SMTT(30) DEF TypeOK, Words, Requests
<1>2. NeverFatal' /\ ParkerInv' /\ PlaceInv'
  BY <1>0 DEF TypeOK, NeverFatal, ParkerInv, PlaceInv
<1>3. TaskLockInv'
  BY <1>a DEF TypeOK, TaskLockInv, Locked
<1>4. WakerInv'
  BY <1>0, <1>a, SMTT(30) DEF TypeOK, WakerInv, PlaceInv, Locked
<1>5. CallInv'
  BY <1>a, SMTT(30) DEF TypeOK, CallInv, Locked
<1>6. RelockInv'
  BY <1>0, <1>a, SMTT(30) DEF TypeOK, RelockInv
<1>7. ClaimInv'
  BY <1>a, SMTT(30) DEF TypeOK, ClaimInv, Claiming
<1>. QED  BY <1>1, <1>2, <1>3, <1>4, <1>5, <1>6, <1>7

LEMMA UnavailableStep ==
    ASSUME ParkInv, NEW w \in Wakers, Unavailable(w), taskLock \in {none, w},
           word.state = "Blocked", waker[w].at \in {"place", "lock"},
           claim' # claim => claim' = "queued" /\ claim = "selected" /\ Claiming(w),
           UNCHANGED <<gen, sched, marker, onCpu, rqLock, pc>>
    PROVE  ParkInv'
<1> USE ConstantsAssumption DEF ParkInv, sched, Unavailable
<1>a. /\ waker'[w].at = "refused" /\ waker'[w].kind = "refused" /\ waker'[w].gen = 0
      /\ \A v \in Wakers \ {w} : waker'[v] = waker[v] /\ waker[v].at \notin Locked
  BY DEF TypeOK, TaskLockInv, Refused
<1>1. TypeOK'
  <2>0. waker \in [Wakers -> Requests]
    BY DEF TypeOK, Requests
  <2>1. waker' \in [Wakers -> Requests]
    <3>1. Refused \in Requests
      BY SMTT(30) DEF Refused, Requests
    <3>. QED  BY <2>0, <3>1
  <2>2. claim' \in {"inactive", "queued", "selected", "delivered", "cancelled"}
    BY DEF TypeOK
  <2>. QED  BY <2>1, <2>2, SMTT(30) DEF TypeOK, Requests
<1>2. NeverFatal' /\ ParkerInv' /\ PlaceInv'
  BY DEF TypeOK, NeverFatal, ParkerInv, PlaceInv
<1>3. TaskLockInv'
  BY <1>a DEF TypeOK, TaskLockInv, Locked
<1>4. WakerInv'
  BY <1>a DEF TypeOK, WakerInv, PlaceInv, Locked
<1>5. CallInv'
  BY <1>a, SMTT(30) DEF TypeOK, CallInv, Locked
<1>6. RelockInv'
  BY <1>a DEF TypeOK, RelockInv, Locked
<1>7. ClaimInv'
  BY <1>a, SMTT(30) DEF TypeOK, ClaimInv, Claiming
<1>. QED  BY <1>1, <1>2, <1>3, <1>4, <1>5, <1>6, <1>7

LEMMA ConsumeSteps ==
    ASSUME ParkInv, NEW w \in Wakers, taskLock \in {none, w},
           word.state = "Blocked", word.pending,
           waker[w].kind \in {"wake", "claim"}, waker[w].kind = "claim" => waker[w].gen = gen,
           UNCHANGED <<gen, sched, marker, onCpu, rqLock, pc, claim>>
    PROVE  /\ onRq # none /\ ConsumeOnRq(w) => ParkInv'
           /\ \A c \in Cpus : onRq = none /\ ConsumeOffRq(w, c) => ParkInv'
<1>0. ~fatal /\ fatal \in BOOLEAN /\ onRq \in Cpus \cup {none}
  BY DEF ParkInv, TypeOK, NeverFatal
<1>1. ASSUME onRq # none, ConsumeOnRq(w) PROVE ParkInv'
  <2>1. fatal' = fatal /\ onRq \in Cpus
    BY <1>0, <1>1 DEF ConsumeOnRq
  <2>. QED  BY <1>1, <2>1, PlacedStep DEF ConsumeOnRq, Cleared
<1>2. ASSUME NEW c \in Cpus, onRq = none, ConsumeOffRq(w, c) PROVE ParkInv'
  <2>1. fatal' = fatal
    BY <1>0, <1>2 DEF ConsumeOffRq
  <2>. QED  BY <1>2, <2>1, PlacedStep DEF ConsumeOffRq, Cleared
<1>. QED  BY <1>1, <1>2

LEMMA PlaceWakeStep == ASSUME ParkInv, NEW w \in Wakers, PlaceWake(w) PROVE ParkInv'
<1>0. /\ taskLock = w /\ word.state = "Blocked" /\ word.pending
      /\ waker[w].kind = "wake" /\ waker[w].at = "place"
      /\ UNCHANGED <<gen, sched, marker, onCpu, rqLock, pc, claim>>
  BY DEF ParkInv, PlaceWake, At, TaskLockInv, Locked, WakerInv, CallInv
<1>1. CASE Unavailable(w)
  BY <1>0, <1>1, UnavailableStep
<1>2. CASE ~Unavailable(w)
  BY <1>0, <1>2, ConsumeSteps DEF PlaceWake
<1>. QED  BY <1>1, <1>2

LEMMA LockClaimStep == ASSUME ParkInv, NEW w \in Wakers, LockClaim(w) PROVE ParkInv'
<1>0. /\ taskLock = none /\ waker[w].at = "lock" /\ waker[w].kind = "claim"
      /\ UNCHANGED <<gen, sched, marker, onCpu, rqLock, pc>>
  BY DEF LockClaim, At, FreeTaskLock
<1>1. ASSUME Return(w), UNCHANGED <<word, taskLock, fatal>>,
             claim' = IF gen = waker[w].gen /\ claim = "selected" THEN "cancelled" ELSE claim
      PROVE  ParkInv'
  <2> USE <1>0, <1>1, ConstantsAssumption DEF ParkInv, Return, Idle, sched
  <2>1. TypeOK' /\ NeverFatal' /\ ParkerInv' /\ PlaceInv'
    BY SMTT(30) DEF TypeOK, NeverFatal, ParkerInv, PlaceInv
  <2>2. TaskLockInv' /\ WakerInv'
    BY DEF TypeOK, TaskLockInv, Locked, WakerInv
  <2>3. CallInv'
    BY SMTT(30) DEF TypeOK, CallInv
  <2>4. RelockInv'
    BY SMTT(30) DEF TypeOK, RelockInv
  <2>5. ClaimInv'
    BY SMTT(30) DEF TypeOK, ClaimInv, Claiming
  <2>. QED  BY <2>1, <2>2, <2>3, <2>4, <2>5
<1>2. ASSUME ~Declined(w), claim' = "delivered", taskLock' = w, Goto(w, "notify"),
             UNCHANGED <<word, fatal>>
      PROVE  ParkInv'
  <2> USE <1>0, <1>2, ConstantsAssumption DEF ParkInv, Goto, Declined, sched
  <2>1. TypeOK' /\ NeverFatal' /\ ParkerInv' /\ PlaceInv'
    BY SMTT(30) DEF TypeOK, NeverFatal, ParkerInv, PlaceInv
  <2>2. TaskLockInv' /\ WakerInv'
    BY SMTT(30) DEF TypeOK, TaskLockInv, Locked, WakerInv
  <2>3. CallInv'
    BY SMTT(30) DEF TypeOK, CallInv
  <2>4. RelockInv'
    BY SMTT(30) DEF TypeOK, RelockInv
  <2>5. ClaimInv'
    BY SMTT(30) DEF TypeOK, ClaimInv, Claiming
  <2>. QED  BY <2>1, <2>2, <2>3, <2>4, <2>5
<1>3. ASSUME ~Declined(w), word.state = "Blocked", claim' = "delivered", taskLock' = w,
             UNCHANGED fatal, onRq # none, word' = Cleared(word),
             waker' = [waker EXCEPT ![w].cpu = onRq, ![w].at = "onrq"]
      PROVE  ParkInv'
  <2>1. onRq \in Cpus
    BY <1>3 DEF ParkInv, TypeOK
  <2>. QED  BY <1>0, <1>3, <2>1, PlacedStep DEF Declined, Claiming
<1>4. ASSUME ~Declined(w), word.state = "Blocked", claim' = "delivered", taskLock' = w,
             UNCHANGED fatal, onRq = none, word' = [Cleared(word) EXCEPT !.state = "Waking"],
             NEW c \in Cpus, waker' = [waker EXCEPT ![w].cpu = c, ![w].at = "activate"]
      PROVE  ParkInv'
  BY <1>0, <1>4, PlacedStep DEF Declined, Claiming
<1>5. ASSUME ~Declined(w), word.state = "Blocked", claim' = "queued", Unavailable(w)
      PROVE  ParkInv'
  BY <1>0, <1>5, UnavailableStep DEF Declined, Claiming
<1>. QED  BY <1>1, <1>2, <1>3, <1>4, <1>5 DEF LockClaim

LEMMA NotifyClaimStep == ASSUME ParkInv, NEW w \in Wakers, NotifyClaim(w) PROVE ParkInv'
<1> USE ConstantsAssumption DEF ParkInv, NotifyClaim, sched, At, Goto, Return, Idle
<1>0. word' \in Words
  BY WordTypes DEF TypeOK, Words
<1>1. TypeOK'
  BY <1>0, SMTT(30) DEF TypeOK, Words
<1>2. NeverFatal' /\ ParkerInv' /\ PlaceInv'
  BY WordTypes DEF TypeOK, Words, NeverFatal, ParkerInv, PlaceInv, WakerInv, TaskLockInv, Locked
<1>3. TaskLockInv'
  BY SMTT(30) DEF TypeOK, TaskLockInv, Locked
<1>4. WakerInv'
  BY WordTypes, SMTT(30) DEF TypeOK, Words, TaskLockInv, WakerInv, PlaceInv, Locked
<1>5. CallInv'
  <2>1. CASE waker' = [waker EXCEPT ![w].at = "relock"] /\ gen' = gen
    BY <2>1, SMTT(30) DEF TypeOK, CallInv
  <2>2. CASE waker' = [waker EXCEPT ![w] = Idle] /\ gen' = gen
    BY <2>2, SMTT(30) DEF TypeOK, CallInv
  <2>. QED  BY <2>1, <2>2
<1>6. RelockInv'
  BY WordTypes, SMTT(30) DEF TypeOK, Words, RelockInv, TaskLockInv, WakerInv, Locked
<1>7. ClaimInv'
  BY SMTT(30) DEF TypeOK, ClaimInv, Claiming, CallInv, PlaceInv
<1>. QED  BY <1>1, <1>2, <1>3, <1>4, <1>5, <1>6, <1>7

LEMMA RelockClaimStep == ASSUME ParkInv, NEW w \in Wakers, RelockClaim(w) PROVE ParkInv'
<1> USE ConstantsAssumption DEF ParkInv, RelockClaim, sched, At, FreeTaskLock, Return, Idle,
       Cleared, ConsumeOnRq, ConsumeOffRq
<1>0. word' \in Words
  BY WordTypes DEF TypeOK, Words
<1>1. TypeOK'
  BY <1>0, SMTT(30) DEF TypeOK, Words
<1>2. NeverFatal' /\ ParkerInv' /\ PlaceInv'
  BY WordTypes, SMTT(30) DEF TypeOK, Words, NeverFatal, ParkerInv, PlaceInv, WakerInv, TaskLockInv, Locked
<1>3. TaskLockInv'
  BY SMTT(30) DEF TypeOK, TaskLockInv, Locked
<1>4. WakerInv'
  BY WordTypes, SMTT(30) DEF TypeOK, Words, TaskLockInv, WakerInv, PlaceInv, Locked
<1>5. CallInv'
  BY SMTT(30) DEF TypeOK, CallInv, TaskLockInv, WakerInv
<1>6. RelockInv'
  BY WordTypes, SMTT(30) DEF TypeOK, Words, RelockInv, TaskLockInv, WakerInv, Locked
<1>7. ClaimInv'
  BY SMTT(30) DEF TypeOK, ClaimInv, Claiming, CallInv, PlaceInv
<1>. QED  BY <1>1, <1>2, <1>3, <1>4, <1>5, <1>6, <1>7

LEMMA WakeOnRqStep == ASSUME ParkInv, NEW w \in Wakers, WakeOnRq(w) PROVE ParkInv'
<1> USE ConstantsAssumption DEF ParkInv, WakeOnRq, At, Goto, Return, Idle, Transition
<1>0. word' \in Words
  BY WordTypes DEF TypeOK, Words
<1>1. TypeOK'
  <2>1. delayed' \in BOOLEAN /\ fatal' \in BOOLEAN
    BY DEF TypeOK
  <2>2. waker[w].cpu \in Cpus
    BY DEF WakerInv, TypeOK
  <2>. QED  BY <1>0, <2>1, <2>2, SMTT(30) DEF TypeOK, Words
<1>2. NeverFatal' /\ ParkerInv' /\ PlaceInv'
  BY WordTypes DEF TypeOK, Words, NeverFatal, ParkerInv, PlaceInv, WakerInv, TaskLockInv, Locked
<1>3. TaskLockInv'
  BY SMTT(30) DEF TypeOK, TaskLockInv, Locked
<1>4. WakerInv'
  BY WordTypes, SMTT(30) DEF TypeOK, Words, TaskLockInv, WakerInv, PlaceInv, Locked
<1>5. CallInv'
  BY SMTT(30) DEF TypeOK, CallInv, TaskLockInv, WakerInv
<1>6. RelockInv'
  BY WordTypes, SMTT(30) DEF TypeOK, Words, RelockInv, TaskLockInv, WakerInv, Locked
<1>7. ClaimInv'
  BY SMTT(30) DEF TypeOK, ClaimInv, Claiming, CallInv, PlaceInv
<1>. QED  BY <1>1, <1>2, <1>3, <1>4, <1>5, <1>6, <1>7

LEMMA ActivateStep == ASSUME ParkInv, NEW w \in Wakers, Activate(w) PROVE ParkInv'
<1> USE ConstantsAssumption DEF ParkInv, Activate, At, Return, Idle, Transition
<1>0. word' \in Words
  BY WordTypes DEF TypeOK, Words
<1>1. TypeOK'
  <2>1. delayed' \in BOOLEAN /\ fatal' \in BOOLEAN
    BY DEF TypeOK
  <2>2. waker[w].cpu \in Cpus
    BY DEF WakerInv, TypeOK
  <2>. QED  BY <1>0, <2>1, <2>2, SMTT(30) DEF TypeOK, Words
<1>2. NeverFatal' /\ ParkerInv' /\ PlaceInv'
  BY WordTypes, SMTT(30) DEF TypeOK, Words, NeverFatal, ParkerInv, PlaceInv, WakerInv, TaskLockInv, Locked
<1>3. TaskLockInv'
  BY DEF TypeOK, TaskLockInv, Locked
<1>4. WakerInv'
  BY WordTypes DEF TypeOK, Words, TaskLockInv, WakerInv, PlaceInv, Locked
<1>5. CallInv'
  BY SMTT(30) DEF TypeOK, CallInv, TaskLockInv, WakerInv
<1>6. RelockInv'
  BY WordTypes DEF TypeOK, Words, RelockInv, TaskLockInv, WakerInv, Locked
<1>7. ClaimInv'
  BY SMTT(30) DEF TypeOK, ClaimInv, Claiming, CallInv, PlaceInv
<1>. QED  BY <1>1, <1>2, <1>3, <1>4, <1>5, <1>6, <1>7

-----------------------------------------------------------------------------
(* Theorems *)

LEMMA ParkInit == Init => ParkInv
<1> SUFFICES ASSUME Init PROVE ParkInv
  OBVIOUS
<1> USE ConstantsAssumption DEF Init, Idle
<1>1. TypeOK
  <2>1. word \in Words /\ marker \in BOOLEAN /\ delayed \in BOOLEAN /\ fatal \in BOOLEAN
    BY DEF Words
  <2>2. waker \in [Wakers -> Requests]
    BY SMTT(30) DEF Requests
  <2>. QED  BY <2>1, <2>2, SMTT(30) DEF TypeOK, Words, Requests
<1>2. NeverFatal /\ ParkerInv /\ PlaceInv
  BY DEF NeverFatal, ParkerInv, PlaceInv
<1>3. TaskLockInv /\ WakerInv /\ CallInv
  BY SMTT(30) DEF TaskLockInv, Locked, WakerInv, CallInv
<1>4. RelockInv /\ ClaimInv
  BY DEF RelockInv, ClaimInv, Claiming
<1>. QED  BY <1>1, <1>2, <1>3, <1>4 DEF ParkInv

LEMMA ParkNext == ParkInv /\ [Next]_vars => ParkInv'
<1> SUFFICES ASSUME ParkInv, [Next]_vars PROVE ParkInv'
  OBVIOUS
<1>1. CASE TakeNotified \/ Prepare \/ GenerationExhausted \/ Committing \/ PickDelayed \/ SetNextTask
  BY <1>1, TakeNotifiedStep, PrepareStep, GenerationExhaustedStep, WithdrawStep, CancelStep,
     EnterRqStep, TakeInRqStep, ResumeTakenStep, BeginPublicationStep, PublishInRqStep,
     DelayInRqStep, DequeueInRqStep, FinishPublicationStep, PickNextStep, CommitLockedStep,
     SwitchTailStep, PickDelayedStep, SetNextTaskStep DEF Committing
<1>2. ASSUME NEW w \in Wakers, CallWake(w) \/ CallClaim(w) \/ Locking(w) \/ Waking(w)
      PROVE  ParkInv'
  BY <1>2, CallWakeStep, CallClaimStep, LockTaskStep, LockClaimStep, RelockClaimStep,
     PublishWakeStep, PlaceWakeStep, NotifyClaimStep, WakeOnRqStep, ActivateStep,
     ReportUnavailableStep DEF Locking, Waking
<1>3. CASE UNCHANGED vars
  <2>1. TypeOK' /\ NeverFatal'
    BY <1>3 DEF vars, sched, ParkInv, TypeOK, NeverFatal
  <2>2. TaskLockInv' /\ ParkerInv' /\ PlaceInv' /\ WakerInv'
    BY <1>3 DEF vars, sched, ParkInv, TaskLockInv, ParkerInv, PlaceInv, WakerInv
  <2>3. CallInv' /\ RelockInv' /\ ClaimInv'
    BY <1>3 DEF vars, sched, ParkInv, CallInv, RelockInv, ClaimInv, Claiming
  <2>. QED  BY <2>1, <2>2, <2>3 DEF ParkInv
<1>. QED  BY <1>1, <1>2, <1>3 DEF Next

(* The invariant above holds in every behaviour of the handshake. *)
THEOREM ParkInvariant == Spec => []ParkInv
  BY ParkInit, ParkNext, PTL DEF Spec

(* No interleaving of a park with any number of wakers on any number of CPUs *)
(* reaches a fatal_invariant, the slot's expect or a refused transition.     *)
THEOREM HandshakeNeverFatal == Spec => []NeverFatal
<1>1. ParkInv => NeverFatal
  BY DEF ParkInv
<1>. QED  BY <1>1, ParkInvariant, PTL

(* A Running thread is always a runnable entity of its CPU's queue. *)
THEOREM RunningIsQueued == Spec => []RunnableIsQueued
<1>1. ParkInv => RunnableIsQueued
  BY DEF ParkInv, TypeOK, PlaceInv, RunnableIsQueued
<1>. QED  BY <1>1, ParkInvariant, PTL

(* Every variable of the handshake keeps its type; the generation stays within *)
(* its width.                                                                  *)
THEOREM HandshakeTypes == Spec => []TypeOK
<1>1. ParkInv => TypeOK
  BY DEF ParkInv
<1>. QED  BY <1>1, ParkInvariant, PTL


-----------------------------------------------------------------------------
(* The refinement of Park *)


LEMMA RefineInit == Init => Abstract!Init
<1> SUFFICES ASSUME Init PROVE Abstract!Init
  OBVIOUS
<1>1. absPark = Abstract!Unparked
  BY DEF Init, absPark, Abstract!Unparked, Resumed, Asleep
<1>2. absCall = [w \in Wakers |-> Abstract!NoCall]
  BY DEF Init, absCall, Abstract!NoCall, Served, At, Idle
<1>. QED  BY <1>1, <1>2 DEF Init, Abstract!Init

-----------------------------------------------------------------------------
(* What the view of a park or of the calls depends on *)

LEMMA SameCalls ==
    ASSUME gen' = gen, waker' = waker,
           \A w \in Wakers : At(w, "relock") /\ waker[w].gen = gen => (Asleep' <=> Asleep)
    PROVE  absCall' = absCall
<1>1. \A w \in Wakers : Served(w)' <=> Served(w)
  BY DEF Served, At
<1>. QED  BY <1>1 DEF absCall

(* The view of the park, as a record of its state and its notification. *)
View(st, notified) == [state |-> st, notified |-> notified]
Views ==
    /\ Resumed => absPark = View("running", word.notified) /\ ~Asleep
    /\ Asleep => absPark = View("blocked", FALSE) /\ ~Resumed
    /\ ~Resumed /\ ~Asleep => absPark = View("parking", word.notified)

LEMMA ParkViews ==
    ASSUME ParkInv, ParkInv'
    PROVE  /\ Views /\ Views' /\ word \in Words /\ word' \in Words
           /\ \A w \in Wakers : At(w, "relock") /\ waker[w].gen = gen => word.state # "Parking"
<1>0. word \in Words /\ word' \in Words
  BY DEF ParkInv, TypeOK, Words
<1>1. Resumed => ~Asleep
  BY DEF ParkInv, PlaceInv, Resumed, Asleep
<1>2. Resumed' => ~Asleep'
  BY DEF ParkInv, PlaceInv, Resumed, Asleep
<1>3. Views
  BY <1>0, <1>1 DEF Views, View, absPark, Words
<1>4. Views'
  BY <1>0, <1>2 DEF Views, View, absPark, Words
<1>. QED  BY <1>0, <1>3, <1>4 DEF ParkInv, RelockInv, At

LEMMA OnViews ==
    ASSUME NEW n \in BOOLEAN, NEW st
    PROVE  /\ Abstract!TakeNotification(View(st, n)) = View(st, FALSE)
           /\ Abstract!PreparePark(View(st, n)) = View("parking", n)
           /\ Abstract!CancelPark(View(st, n)) = View("running", n)
           /\ Abstract!CommitPark(View(st, n)) = View(IF n THEN "running" ELSE "blocked", FALSE)
           /\ Abstract!WakePark(View(st, n)) =
                 IF st = "blocked" THEN View("running", n) ELSE View(st, TRUE)
           /\ View(st, n).state = st /\ View(st, n).notified = n
<1>0. Abstract!TakeNotification(View(st, n)) = View(st, FALSE)
  <2>1. \A m \in BOOLEAN : [View(st, n) EXCEPT !.notified = m] = View(st, m)
    BY SMTT(30) DEF View
  <2>. QED  BY <2>1 DEF Abstract!TakeNotification
<1>1. /\ Abstract!PreparePark(View(st, n)) = View("parking", n)
      /\ Abstract!CancelPark(View(st, n)) = View("running", n)
  BY SMTT(30) DEF View, Abstract!PreparePark, Abstract!CancelPark
<1>2. View(st, n).state = st /\ View(st, n).notified = n
  BY DEF View
<1>3. Abstract!CommitPark(View(st, n)) = View(IF n THEN "running" ELSE "blocked", FALSE)
  BY <1>2 DEF View, Abstract!CommitPark
<1>4. CASE st = "blocked"
  <2>1. Abstract!WakePark(View(st, n)) = View("running", n)
    BY <1>2, <1>4 DEF View, Abstract!WakePark
  <2>. QED  BY <1>0, <1>1, <1>2, <1>3, <1>4, <2>1
<1>5. CASE st # "blocked"
  <2>1. Abstract!WakePark(View(st, n)) = View(st, TRUE)
    BY <1>2, <1>5 DEF View, Abstract!WakePark
  <2>. QED  BY <1>0, <1>1, <1>2, <1>3, <1>5, <2>1
<1>. QED  BY <1>4, <1>5

(* A step that leaves the calls, the state and, of a thread that is not      *)
(* asleep, the notification is a stutter.                                    *)
LEMMA Stutters ==
    ASSUME ParkInv, ParkInv', gen' = gen, waker' = waker, Resumed' <=> Resumed,
           Asleep' <=> Asleep, ~Asleep => word'.notified = word.notified
    PROVE  UNCHANGED Abstract!vars
<1>1. absCall' = absCall
  BY SameCalls
<1>2. absPark' = absPark
  <2>0. Views /\ Views'
    BY ParkViews
  <2>1. CASE Asleep
    BY <2>0, <2>1 DEF Views
  <2>2. CASE ~Asleep /\ Resumed
    BY <2>0, <2>2 DEF Views
  <2>3. CASE ~Asleep /\ ~Resumed
    BY <2>0, <2>3 DEF Views
  <2>. QED  BY <2>1, <2>2, <2>3
<1>. QED  BY <1>1, <1>2 DEF Abstract!vars

-----------------------------------------------------------------------------
(* The parker's steps *)

LEMMA TakeNotifiedRefines ==
    ASSUME ParkInv, ParkInv', TakeNotified
    PROVE  [Abstract!Next]_(Abstract!vars)
<1>0. word.state = "Running" /\ word' = Cleared(word) /\ gen' = gen /\ waker' = waker
  BY DEF TakeNotified, ParkInv, PlaceInv
<1>1. Views /\ Views' /\ word \in Words /\ word'.state = "Running" /\ word'.notified = FALSE
  BY <1>0, ParkViews DEF Cleared, Words
<1>2. absPark = View("running", word.notified) /\ absPark' = View("running", FALSE)
  BY <1>0, <1>1 DEF Views, Resumed
<1>3. absCall' = absCall
  BY <1>0, <1>1, SameCalls DEF Asleep
<1>4. CASE word.notified
  <2>1. Abstract!Consume
    BY <1>0, <1>1, <1>2, <1>3, <1>4, OnViews DEF Abstract!Consume, Words
  <2>. QED  BY <2>1 DEF Abstract!Next
<1>5. CASE ~word.notified
  <2>1. absPark = absPark'
    BY <1>1, <1>2, <1>5 DEF Words
  <2>. QED  BY <1>0, <1>3, <2>1 DEF Abstract!vars
<1>. QED  BY <1>4, <1>5
LEMMA PrepareRefines ==
    ASSUME ParkInv, ParkInv', Prepare
    PROVE  Abstract!Prepare
<1>0. /\ word.state = "Running" /\ word' = [word EXCEPT !.state = "Parking"]
      /\ gen' = gen + 1 /\ waker' = waker /\ pc' = "parking" /\ gen \in Nat
  BY ConstantsAssumption, SMTT(30) DEF Prepare, Transition, ParkInv, PlaceInv, TypeOK
<1>1. /\ Views /\ Views' /\ word \in Words
      /\ word'.state = "Parking" /\ word'.notified = word.notified
  BY <1>0, ParkViews DEF Words
<1>2. absPark = View("running", word.notified) /\ absPark' = View("parking", word.notified)
  BY <1>0, <1>1 DEF Views, Resumed, Asleep
<1>3. \A w \in Wakers : waker[w].gen \in Nat /\ waker[w].gen <= gen
  BY ConstantsAssumption, SMTT(30) DEF ParkInv, TypeOK, CallInv
<1>4. \A w \in Wakers : Served(w)' <=> Served(w)
  BY <1>0, <1>1, <1>3 DEF Served, At, Asleep
<1>5. absCall' = absCall
  BY <1>0, <1>4 DEF absCall
<1>. QED  BY <1>0, <1>1, <1>2, <1>5, OnViews DEF Abstract!Prepare, Words

LEMMA WithdrawRefines ==
    ASSUME ParkInv, ParkInv', Withdraw
    PROVE  Abstract!Cancel
<1>0. /\ word.state = "Parking" /\ word' = word /\ pc = "parking" /\ pc' = "withdrawn"
      /\ gen' = gen /\ waker' = waker
  BY DEF Withdraw, ParkInv, PlaceInv
<1>1. Views /\ Views' /\ word \in Words
  BY ParkViews
<1>2. absPark = View("parking", word.notified) /\ absPark' = View("running", word.notified)
  BY <1>0, <1>1 DEF Views, Resumed, Asleep
<1>3. absCall' = absCall
  BY <1>0, SameCalls DEF Asleep
<1>. QED  BY <1>0, <1>1, <1>2, <1>3, OnViews DEF Abstract!Cancel, Words

(* The commit: on the fast path when the notification is taken or when       *)
(* Blocked is published, else under both locks.                              *)
LEMMA CommitRefines ==
    ASSUME ParkInv, ParkInv', gen' = gen, waker' = waker, word.state = "Parking",
           pc \notin {"taken", "withdrawn"}, word'.notified = FALSE,
           word.notified => \/ word'.state = "Running"
                            \/ word'.state = "Parking" /\ pc' = "taken",
           ~word.notified => word'.state = "Blocked"
    PROVE  Abstract!Commit
<1>1. /\ Views /\ Views' /\ word \in Words
      /\ \A w \in Wakers : At(w, "relock") => waker[w].gen # gen
  BY ParkViews
<1>2. absPark = View("parking", word.notified)
  BY <1>1 DEF Views, Resumed, Asleep
<1>3. absPark' = View(IF word.notified THEN "running" ELSE "blocked", FALSE)
  <2>1. CASE word.notified
    BY <1>1, <2>1 DEF Views, Resumed
  <2>2. CASE ~word.notified
    BY <1>1, <2>2 DEF Views, Asleep
  <2>. QED  BY <2>1, <2>2
<1>4. absCall' = absCall
  BY <1>1, SameCalls
<1>. QED  BY <1>1, <1>2, <1>3, <1>4, OnViews DEF Abstract!Commit, Words

LEMMA TakeInRqRefines ==
    ASSUME ParkInv, ParkInv', TakeInRq
    PROVE  [Abstract!Next]_(Abstract!vars)
<1>0. /\ word.state = "Parking" /\ word \in Words /\ word'.state = "Parking"
      /\ word'.notified = FALSE /\ gen' = gen /\ waker' = waker
      /\ pc = "rq" /\ pc' = IF word.notified THEN "taken" ELSE "reserve"
  BY DEF TakeInRq, Cleared, ParkInv, PlaceInv, TypeOK, Words
<1>1. CASE word.notified
  BY <1>0, <1>1, CommitRefines DEF Abstract!Next
<1>2. CASE ~word.notified
  BY <1>0, <1>2, Stutters DEF Resumed, Asleep, Words
<1>. QED  BY <1>1, <1>2

LEMMA PublishRefines ==
    ASSUME ParkInv, ParkInv', PublishInRq \/ CommitLocked
    PROVE  Abstract!Commit
<1>0. /\ word.state = "Parking" /\ word \in Words /\ gen' = gen /\ waker' = waker
      /\ word' = PublishBlocked /\ pc \in {"publish", "parking"}
  BY DEF PublishInRq, CommitLocked, ParkInv, PlaceInv, TypeOK, Words
<1>1. /\ word'.notified = FALSE
      /\ word.notified => word'.state = "Running"
      /\ ~word.notified => word'.state = "Blocked"
  BY <1>0 DEF PublishBlocked, Cleared, Words
<1>. QED  BY <1>0, <1>1, CommitRefines

(* Every other step of the parker and of the owner CPU is a stutter. *)
LEMMA ParkerStutters ==
    ASSUME ParkInv, ParkInv',
           \/ GenerationExhausted \/ Cancel \/ EnterRq \/ ResumeTaken \/ BeginPublication
           \/ DelayInRq \/ DequeueInRq \/ FinishPublication \/ PickNext \/ SwitchTail
           \/ PickDelayed \/ SetNextTask
    PROVE  UNCHANGED Abstract!vars
<1>1. CASE Cancel \/ ResumeTaken
  <2>1. /\ word.state = "Parking" /\ word'.state = "Running" /\ word'.notified = word.notified
        /\ pc \in {"withdrawn", "taken"} /\ gen' = gen /\ waker' = waker
    BY <1>1 DEF Cancel, ResumeTaken, Transition, ParkInv, PlaceInv, TypeOK
  <2>. QED  BY <2>1, Stutters DEF Resumed, Asleep
<1>2. CASE ~(Cancel \/ ResumeTaken)
  <2>1. /\ word' = word /\ gen' = gen /\ waker' = waker
        /\ pc \notin {"taken", "withdrawn"} /\ pc' \notin {"taken", "withdrawn"}
    BY <1>2 DEF GenerationExhausted, EnterRq, BeginPublication, DelayInRq, DequeueInRq,
       FinishPublication, PickNext, SwitchTail, PickDelayed, SetNextTask
  <2>. QED  BY <2>1, Stutters DEF Resumed, Asleep
<1>. QED  BY <1>1, <1>2
-----------------------------------------------------------------------------
(* The wakers' steps *)

(* A step of one waker changes the view of its own call only, unless it ends *)
(* the sleep.                                                                *)
CallView(w) == [kind |-> waker[w].kind, gen |-> waker[w].gen]

LEMMA OneCall ==
    ASSUME ParkInv, ParkInv', NEW w \in Wakers, gen' = gen, Asleep' <=> Asleep,
           \A v \in Wakers \ {w} : waker'[v] = waker[v]
    PROVE  absCall' = [absCall EXCEPT ![w] = IF Served(w)' THEN Abstract!NoCall ELSE CallView(w)']
<1>1. \A v \in Wakers \ {w} : Served(v)' <=> Served(v)
  BY DEF Served, At
<1>. QED  BY <1>1 DEF absCall, CallView, Abstract!NoCall

LEMMA WakerStutters ==
    ASSUME ParkInv, ParkInv', NEW w \in Wakers, gen' = gen, pc' = pc,
           \A v \in Wakers \ {w} : waker'[v] = waker[v],
           CallView(w)' = CallView(w), ~Served(w), ~Served(w)',
           word'.state = word.state \/ (Asleep /\ Asleep'),
           ~Asleep => word'.notified = word.notified
    PROVE  UNCHANGED Abstract!vars
<1>0. (Asleep' <=> Asleep) /\ (Resumed' <=> Resumed)
  BY ParkViews DEF Asleep, Resumed, Views
<1>1. absCall' = absCall
  BY <1>0, OneCall DEF absCall, CallView
<1>2. absPark' = absPark
  <2>0. Views /\ Views'
    BY ParkViews
  <2>1. CASE Asleep
    BY <1>0, <2>0, <2>1 DEF Views
  <2>2. CASE ~Asleep /\ Resumed
    BY <1>0, <2>0, <2>2 DEF Views
  <2>3. CASE ~Asleep /\ ~Resumed
    BY <1>0, <2>0, <2>3 DEF Views
  <2>. QED  BY <2>1, <2>2, <2>3
<1>. QED  BY <1>1, <1>2 DEF Abstract!vars

(* The notification of a thread that is not asleep. *)
LEMMA NotifyRefines ==
    ASSUME ParkInv, ParkInv', NEW w \in Wakers, gen' = gen, pc' = pc, Return(w),
           waker[w].kind \in {"wake", "claim"}, waker[w].at # "relock",
           ~Asleep, word'.state = word.state, word'.notified = TRUE
    PROVE  Abstract!TakeEffect({w})
<1>0. (Asleep' <=> Asleep) /\ (Resumed' <=> Resumed)
  BY DEF Asleep, Resumed
<1>1. /\ waker'[w] = Idle /\ \A v \in Wakers \ {w} : waker'[v] = waker[v]
  BY DEF Return, ParkInv, TypeOK
<1>2. absCall' = [absCall EXCEPT ![w] = Abstract!NoCall]
  <2>1. absCall' = [absCall EXCEPT ![w] = IF Served(w)' THEN Abstract!NoCall ELSE CallView(w)']
    BY <1>0, <1>1, OneCall
  <2>2. CallView(w)' = Abstract!NoCall
    BY <1>1 DEF CallView, Abstract!NoCall, Idle
  <2>. QED  BY <2>1, <2>2
<1>3. Abstract!Returned({w})
  BY <1>2 DEF absCall, Abstract!Returned, Abstract!NoCall
<1>4. absCall[w].kind \in {"wake", "claim"}
  BY DEF absCall, Served, At
<1>5. PICK st \in {"running", "parking"} : /\ absPark = View(st, word.notified)
                                          /\ absPark' = View(st, TRUE)
  BY <1>0, ParkViews DEF Views
<1>6. word.notified \in BOOLEAN
  BY DEF ParkInv, TypeOK
<1>7. absPark' = Abstract!WakePark(absPark) /\ absPark.state # "blocked"
  BY <1>5, <1>6, OnViews
<1>. QED  BY <1>3, <1>4, <1>7 DEF Abstract!TakeEffect, Abstract!Active

(* The wake of a thread that is asleep ends the calls of all that came back *)
(* to the lock for this park.                                               *)
LEMMA UnblockRefines ==
    ASSUME ParkInv, ParkInv', NEW w \in Wakers, gen' = gen, pc' = pc, Return(w),
           waker[w].at \in {"onrq", "activate"}, word'.state = "Running", word'.notified = FALSE
    PROVE  \E S \in SUBSET Wakers : Abstract!TakeEffect(S)
<1>0. /\ Asleep /\ ~Asleep' /\ Resumed'
      /\ waker[w].kind \in {"wake", "claim"} /\ (waker[w].kind = "claim" => waker[w].gen = gen)
  BY DEF ParkInv, WakerInv, CallInv, TypeOK, Asleep, Resumed
<1>1. /\ waker'[w] = Idle /\ \A v \in Wakers \ {w} : waker'[v] = waker[v]
  BY DEF Return, ParkInv, TypeOK
<1> DEFINE S == {v \in Wakers : v = w \/ (waker[v].at = "relock" /\ waker[v].gen = gen)}
<1>2. \A v \in S : /\ absCall[v] = CallView(v) /\ CallView(v).kind \in {"wake", "claim"}
                   /\ CallView(v).kind = "claim" => CallView(v).gen = gen
  BY <1>0 DEF absCall, CallView, Served, At, ParkInv, CallInv
<1>3. absCall' = [v \in Wakers |-> IF v \in S THEN Abstract!NoCall ELSE absCall[v]]
  <2> SUFFICES ASSUME NEW v \in Wakers
               PROVE  absCall'[v] = IF v \in S THEN Abstract!NoCall ELSE absCall[v]
    BY DEF absCall
  <2>1. CASE v = w
    BY <1>1, <2>1, SMTT(30) DEF absCall, Served, At, Idle, Abstract!NoCall
  <2>2. CASE v # w /\ v \in S
    BY <1>0, <1>1, <2>2 DEF absCall, Served, At, Abstract!NoCall
  <2>3. CASE v \notin S
    BY <1>0, <1>1, <2>3 DEF absCall, Served, At, Abstract!NoCall
  <2>. QED  BY <2>1, <2>2, <2>3
<1>4. absPark = View("blocked", FALSE) /\ absPark' = View("running", FALSE)
  BY <1>0, ParkViews DEF Views
<1>5. absPark' = Abstract!WakePark(absPark)
  BY <1>4, OnViews
<1>6. Abstract!TakeEffect(S)
  BY <1>2, <1>3, <1>5 DEF Abstract!TakeEffect, Abstract!Active, Abstract!MayUnblock, Abstract!Returned
<1>. QED  BY <1>6

(* A claim of a park that is over. *)
LEMMA DeclineRefines ==
    ASSUME ParkInv, ParkInv', NEW w \in Wakers, gen' = gen, pc' = pc,
           \A v \in Wakers \ {w} : waker'[v] = waker[v],
           waker[w].kind = "claim", waker[w].at # "relock",
           waker[w].gen # gen \/ Resumed,
           waker'[w] = Idle \/ Served(w)', word'.state = word.state,
           ~Asleep => word'.notified = word.notified
    PROVE  Abstract!Decline(w)
<1>0. (Asleep' <=> Asleep) /\ (Resumed' <=> Resumed) /\ Views /\ Views'
  BY ParkViews DEF Asleep, Resumed
<1>1. absCall' = [absCall EXCEPT ![w] = Abstract!NoCall]
  BY <1>0, OneCall, SMTT(30) DEF CallView, Abstract!NoCall, Idle
<1>2. Abstract!Returned({w})
  BY <1>1 DEF absCall, Abstract!Returned, Abstract!NoCall
<1>3. absCall[w] = CallView(w)
  BY DEF absCall, CallView, Served, At
<1>4. absPark' = absPark
  <2>1. CASE Asleep
    BY <1>0, <2>1 DEF Views
  <2>2. CASE ~Asleep /\ Resumed
    BY <1>0, <2>2 DEF Views
  <2>3. CASE ~Asleep /\ ~Resumed
    BY <1>0, <2>3 DEF Views
  <2>. QED  BY <2>1, <2>2, <2>3
<1>5. absPark.state = "running" \/ waker[w].gen # gen
  BY DEF absPark
<1>. QED  BY <1>2, <1>3, <1>4, <1>5, SMTT(30) DEF Abstract!Decline, CallView
(* No CPU accepts the thread. *)
LEMMA RefuseRefines ==
    ASSUME ParkInv, ParkInv', NEW w \in Wakers, gen' = gen, pc' = pc, Unavailable(w),
           waker[w].kind \in {"wake", "claim"}, waker[w].at # "relock", word.state = "Blocked"
    PROVE  Abstract!Refuse(w)
<1>0. Asleep /\ Asleep' /\ Views /\ Views'
  BY ParkViews DEF Unavailable, Asleep
<1>1. /\ waker'[w] = Refused /\ \A v \in Wakers \ {w} : waker'[v] = waker[v]
  BY DEF Unavailable, ParkInv, TypeOK
<1>2. absCall' = [absCall EXCEPT ![w] = Abstract!Refused]
  BY <1>0, <1>1, OneCall, SMTT(30) DEF CallView, Abstract!Refused, Refused, Served, At
<1>3. absCall[w].kind \in {"wake", "claim"}
  BY DEF absCall, Served, At
<1>4. absPark' = absPark /\ absPark.state = "blocked"
  BY <1>0, OnViews DEF Views
<1>. QED  BY <1>2, <1>3, <1>4 DEF Abstract!Refuse, Abstract!Active

LEMMA CallsRefine ==
    ASSUME ParkInv, ParkInv', NEW w \in Wakers, CallWake(w) \/ CallClaim(w) \/ ReportUnavailable(w)
    PROVE  Abstract!CallWake(w) \/ Abstract!CallClaim(w) \/ Abstract!ReportRefusal(w)
<1>0. /\ word' = word /\ pc' = pc /\ gen' = gen
      /\ \A v \in Wakers \ {w} : waker'[v] = waker[v]
  BY DEF CallWake, CallClaim, ReportUnavailable, Return, ParkInv, TypeOK
<1>1. absPark' = absPark /\ (Asleep' <=> Asleep)
  BY <1>0 DEF absPark, Resumed, Asleep
<1>2. CASE CallWake(w)
  <2>1. /\ waker[w].kind = "none" /\ waker[w].gen = 0 /\ ~Served(w)
        /\ waker'[w].kind = "wake" /\ waker'[w].gen = 0 /\ ~Served(w)'
    <3>1. /\ waker[w].at = "idle"
          /\ waker' = [waker EXCEPT ![w].kind = "wake", ![w].at = "lock"]
      BY <1>2 DEF CallWake, At
    <3>2. waker[w].kind = "none" /\ waker[w].gen = 0
      BY <3>1 DEF ParkInv, CallInv
    <3>3. waker'[w].kind = "wake" /\ waker'[w].gen = waker[w].gen /\ waker'[w].at = "lock"
      BY <3>1, SMTT(30) DEF ParkInv, TypeOK
    <3>. QED  BY <3>1, <3>2, <3>3 DEF Served, At
  <2>2. absCall' = [absCall EXCEPT ![w] = [kind |-> "wake", gen |-> 0]]
    BY <1>0, <1>1, <2>1, OneCall DEF CallView
  <2>. QED  BY <1>0, <1>1, <2>1, <2>2 DEF Abstract!CallWake, Abstract!Idle, absCall
<1>3. CASE CallClaim(w)
  <2>1. /\ waker[w].kind = "none" /\ ~Served(w)
        /\ waker'[w].kind = "claim" /\ waker'[w].gen = gen /\ ~Served(w)'
    <3>1. /\ waker[w].at = "idle"
          /\ waker' = [waker EXCEPT ![w].kind = "claim", ![w].gen = gen, ![w].at = "lock"]
      BY <1>3 DEF CallClaim, At
    <3>2. waker[w].kind = "none"
      BY <3>1 DEF ParkInv, CallInv
    <3>3. waker'[w].kind = "claim" /\ waker'[w].gen = gen /\ waker'[w].at = "lock"
      BY <3>1, SMTT(30) DEF ParkInv, TypeOK
    <3>. QED  BY <3>1, <3>2, <3>3 DEF Served, At
  <2>2. absCall' = [absCall EXCEPT ![w] = [kind |-> "claim", gen |-> gen]]
    BY <1>0, <1>1, <2>1, OneCall DEF CallView
  <2>. QED  BY <1>0, <1>1, <2>1, <2>2 DEF Abstract!CallClaim, Abstract!Idle, absCall
<1>4. CASE ReportUnavailable(w)
  <2>1. waker[w].kind = "refused" /\ ~Served(w) /\ waker'[w] = Idle /\ ~Served(w)'
    BY <1>4 DEF ReportUnavailable, Return, Idle, At, Served, ParkInv, TypeOK, CallInv
  <2>2. absCall' = [absCall EXCEPT ![w] = Abstract!NoCall]
    BY <1>0, <1>1, <2>1, OneCall, SMTT(30) DEF CallView, Idle, Abstract!NoCall
  <2>3. Abstract!Returned({w})
    BY <2>2 DEF absCall, Abstract!Returned, Abstract!NoCall
  <2>. QED  BY <1>0, <1>1, <2>1, <2>3 DEF Abstract!ReportRefusal, absCall
<1>. QED  BY <1>2, <1>3, <1>4

LEMMA LockTaskRefines ==
    ASSUME ParkInv, ParkInv', NEW w \in Wakers, LockTask(w)
    PROVE  UNCHANGED Abstract!vars
<1>1. /\ word' = word /\ pc' = pc /\ gen' = gen
      /\ CallView(w)' = CallView(w) /\ ~Served(w) /\ ~Served(w)'
      /\ \A v \in Wakers \ {w} : waker'[v] = waker[v]
  BY SMTT(30) DEF LockTask, Goto, At, Served, CallView, ParkInv, TypeOK
<1>. QED  BY <1>1, WakerStutters

(* A waker that publishes its notification holds the thread lock, so no other *)
(* waker is between publishing Waking and queueing the thread.                *)
LEMMA PublishedUnderLock ==
    ASSUME ParkInv, NEW w \in Wakers, waker[w].at \in {"publish", "notify"}, word' = Published(word)
    PROVE  /\ word \in Words /\ word.state # "Waking"
           /\ word'.state = word.state /\ word'.notified = TRUE
<1>1. word \in Words
  BY DEF ParkInv, TypeOK, Words
<1>2. word'.state = word.state /\ word'.notified = TRUE
  BY <1>1 DEF Published, Words
<1>3. \A v \in Wakers : waker[v].at \in Locked => taskLock = v
  BY DEF ParkInv, TaskLockInv
<1>4. taskLock = w
  BY <1>3 DEF Locked
<1>5. \A v \in Wakers : waker[v].at # "activate"
  BY <1>3, <1>4 DEF Locked
<1>6. word.state # "Waking"
  BY <1>5 DEF ParkInv, WakerInv
<1>. QED  BY <1>1, <1>2, <1>6

LEMMA PublishWakeRefines ==
    ASSUME ParkInv, ParkInv', NEW w \in Wakers, PublishWake(w)
    PROVE  [Abstract!Next]_(Abstract!vars)
<1>0. /\ waker[w].at = "publish" /\ waker[w].kind = "wake" /\ pc' = pc /\ gen' = gen
      /\ word'.state = word.state /\ word'.notified = TRUE
      /\ word.state # "Waking" /\ word \in Words
  <2>1. /\ waker[w].at = "publish" /\ pc' = pc /\ gen' = gen /\ word' = Published(word)
    BY DEF PublishWake, At
  <2>2. waker[w].kind = "wake"
    BY <2>1 DEF ParkInv, CallInv
  <2>. QED  BY <2>1, <2>2, PublishedUnderLock
<1>1. CASE word.state = "Blocked"
  <2>1. /\ CallView(w)' = CallView(w) /\ ~Served(w) /\ ~Served(w)'
        /\ \A v \in Wakers \ {w} : waker'[v] = waker[v]
    BY <1>0, <1>1, SMTT(30) DEF PublishWake, Goto, At, Served, CallView, ParkInv, TypeOK
  <2>. QED  BY <1>0, <1>1, <2>1, WakerStutters DEF Asleep
<1>2. CASE word.state # "Blocked"
  <2>1. Return(w) /\ ~Asleep
    BY <1>0, <1>2 DEF PublishWake, Asleep
  <2>2. Abstract!TakeEffect({w})
    BY <1>0, <2>1, NotifyRefines
  <2>. QED  BY <2>2 DEF Abstract!Next
<1>. QED  BY <1>1, <1>2

LEMMA PlaceWakeRefines ==
    ASSUME ParkInv, ParkInv', NEW w \in Wakers, PlaceWake(w)
    PROVE  [Abstract!Next]_(Abstract!vars)
<1>0. /\ waker[w].at = "place" /\ waker[w].kind = "wake" /\ word.state = "Blocked"
      /\ pc' = pc /\ gen' = gen
  BY DEF PlaceWake, At, ParkInv, CallInv, WakerInv
<1>1. CASE Unavailable(w)
  BY <1>0, <1>1, RefuseRefines DEF Abstract!Next
<1>2. CASE ~Unavailable(w)
  <2>1. PICK c, at : waker' = [waker EXCEPT ![w].cpu = c, ![w].at = at] /\ at \in {"onrq", "activate"}
    BY <1>2 DEF PlaceWake, ConsumeOnRq, ConsumeOffRq
  <2>2. /\ CallView(w)' = CallView(w) /\ ~Served(w) /\ ~Served(w)'
        /\ \A v \in Wakers \ {w} : waker'[v] = waker[v]
    BY <1>0, <2>1, SMTT(30) DEF Served, At, CallView, ParkInv, TypeOK
  <2>3. word'.state \in {"Blocked", "Waking"}
    BY <1>0, <1>2 DEF PlaceWake, ConsumeOnRq, ConsumeOffRq, Cleared, ParkInv, TypeOK
  <2>. QED  BY <1>0, <2>2, <2>3, WakerStutters DEF Asleep
<1>. QED  BY <1>1, <1>2
LEMMA LockClaimRefines ==
    ASSUME ParkInv, ParkInv', NEW w \in Wakers, LockClaim(w)
    PROVE  [Abstract!Next]_(Abstract!vars)
<1>0. /\ waker[w].at = "lock" /\ waker[w].kind = "claim" /\ word.state # "Waking"
      /\ pc' = pc /\ gen' = gen /\ word \in Words
  BY ConstantsAssumption
     DEF LockClaim, At, FreeTaskLock, ParkInv, TypeOK, Words, WakerInv, TaskLockInv, Locked
<1>1. CASE Declined(w)
  <2>1. Return(w) /\ word' = word
    BY <1>1 DEF LockClaim
  <2>2. waker'[w] = Idle /\ \A v \in Wakers \ {w} : waker'[v] = waker[v]
    BY <2>1 DEF Return, ParkInv, TypeOK
  <2>3. waker[w].gen # gen \/ Resumed
    BY <1>0, <1>1 DEF Declined, Resumed, ParkInv, TypeOK, PlaceInv, ClaimInv, Claiming
  <2>4. Abstract!Decline(w)
    BY <1>0, <2>1, <2>2, <2>3, DeclineRefines
  <2>. QED  BY <2>4 DEF Abstract!Next
<1>2. CASE ~Declined(w) /\ word.state = "Parking"
  <2>1. word' = word /\ Goto(w, "notify")
    BY <1>2 DEF LockClaim
  <2>2. /\ CallView(w)' = CallView(w) /\ ~Served(w) /\ ~Served(w)'
        /\ \A v \in Wakers \ {w} : waker'[v] = waker[v]
    BY <1>0, <2>1, SMTT(30) DEF Goto, Served, At, CallView, ParkInv, TypeOK
  <2>. QED  BY <1>0, <2>1, <2>2, WakerStutters
<1>3. CASE word.state = "Blocked" /\ Unavailable(w)
  BY <1>0, <1>3, RefuseRefines DEF Abstract!Next
<1>4. CASE ~Declined(w) /\ word.state = "Blocked" /\ ~Unavailable(w)
  <2>1. PICK c, at : waker' = [waker EXCEPT ![w].cpu = c, ![w].at = at] /\ at \in {"onrq", "activate"}
    BY <1>4 DEF LockClaim
  <2>2. /\ CallView(w)' = CallView(w) /\ ~Served(w) /\ ~Served(w)'
        /\ \A v \in Wakers \ {w} : waker'[v] = waker[v]
    BY <1>0, <2>1 DEF Served, At, CallView, ParkInv, TypeOK
  <2>3. word'.state \in {"Blocked", "Waking"}
    BY <1>0, <1>4 DEF LockClaim, Cleared, Words
  <2>. QED  BY <1>0, <1>4, <2>2, <2>3, WakerStutters DEF Asleep
<1>5. word.state \in {"Running", "Parking", "Blocked"}
  BY <1>0 DEF Words
<1>. QED  BY <1>1, <1>2, <1>3, <1>4, <1>5 DEF Declined

LEMMA NotifyClaimRefines ==
    ASSUME ParkInv, ParkInv', NEW w \in Wakers, NotifyClaim(w)
    PROVE  [Abstract!Next]_(Abstract!vars)
<1>0. /\ waker[w].at = "notify" /\ waker[w].kind = "claim" /\ pc' = pc /\ gen' = gen
      /\ word'.state = word.state /\ word'.notified = TRUE
      /\ word.state # "Waking" /\ word \in Words
  <2>1. /\ waker[w].at = "notify" /\ pc' = pc /\ gen' = gen /\ word' = Published(word)
    BY DEF NotifyClaim, At, sched
  <2>2. waker[w].kind = "claim"
    BY <2>1 DEF ParkInv, CallInv
  <2>. QED  BY <2>1, <2>2, PublishedUnderLock
<1>1. CASE word.state = "Blocked"
  <2>1. /\ CallView(w)' = CallView(w) /\ ~Served(w) /\ waker'[w].at = "relock"
        /\ \A v \in Wakers \ {w} : waker'[v] = waker[v]
    BY <1>0, <1>1, SMTT(30) DEF NotifyClaim, Goto, At, Served, CallView, ParkInv, TypeOK
  <2>2. Served(w)' <=> waker[w].gen # gen
    BY <1>0, <1>1, <2>1 DEF Served, At, Asleep, CallView
  <2>3. CASE waker[w].gen = gen
    BY <1>0, <1>1, <2>1, <2>2, <2>3, WakerStutters DEF Asleep
  <2>4. CASE waker[w].gen # gen
    <3>1. Abstract!Decline(w)
      BY <1>0, <1>1, <2>1, <2>2, <2>4, DeclineRefines DEF Asleep
    <3>. QED  BY <3>1 DEF Abstract!Next
  <2>. QED  BY <2>3, <2>4
<1>2. CASE word.state # "Blocked"
  <2>1. Return(w) /\ ~Asleep
    BY <1>0, <1>2 DEF NotifyClaim, Asleep
  <2>2. Abstract!TakeEffect({w})
    BY <1>0, <2>1, NotifyRefines
  <2>. QED  BY <2>2 DEF Abstract!Next
<1>. QED  BY <1>1, <1>2

LEMMA RelockClaimRefines ==
    ASSUME ParkInv, ParkInv', NEW w \in Wakers, RelockClaim(w)
    PROVE  UNCHANGED Abstract!vars
<1>0. /\ waker[w].at = "relock" /\ word.state # "Waking" /\ pc' = pc /\ gen' = gen
  BY ConstantsAssumption
     DEF RelockClaim, At, FreeTaskLock, ParkInv, WakerInv, TaskLockInv, Locked
<1>1. CASE gen # waker[w].gen \/ word.state # "Blocked"
  <2>1. Return(w) /\ word' = word
    BY <1>1 DEF RelockClaim
  <2>2. waker'[w] = Idle /\ \A v \in Wakers \ {w} : waker'[v] = waker[v]
    BY <2>1 DEF Return, ParkInv, TypeOK
  <2>3. (Asleep' <=> Asleep) /\ absPark' = absPark
    BY <1>0, <2>1 DEF Asleep, Resumed, absPark
  <2>4. absCall' = [absCall EXCEPT ![w] = Abstract!NoCall]
    BY <1>0, <2>2, <2>3, OneCall, SMTT(30) DEF CallView, Idle, Abstract!NoCall
  <2>5. Served(w)
    BY <1>0, <1>1 DEF Served, At, Asleep, ParkInv, TypeOK
  <2>6. absCall' = absCall
    BY <2>4, <2>5 DEF absCall, Abstract!NoCall
  <2>. QED  BY <1>0, <2>3, <2>6 DEF Abstract!vars
<1>2. CASE gen = waker[w].gen /\ word.state = "Blocked"
  <2>1. PICK c, at : waker' = [waker EXCEPT ![w].cpu = c, ![w].at = at] /\ at \in {"onrq", "activate"}
    BY <1>2 DEF RelockClaim, ConsumeOnRq, ConsumeOffRq
  <2>2. /\ CallView(w)' = CallView(w) /\ ~Served(w) /\ ~Served(w)'
        /\ \A v \in Wakers \ {w} : waker'[v] = waker[v]
    BY <1>0, <1>2, <2>1 DEF Served, At, Asleep, CallView, ParkInv, TypeOK
  <2>3. word'.state \in {"Blocked", "Waking"}
    BY <1>2 DEF RelockClaim, ConsumeOnRq, ConsumeOffRq, Cleared, ParkInv, TypeOK
  <2>. QED  BY <1>0, <1>2, <2>2, <2>3, WakerStutters DEF Asleep
<1>. QED  BY <1>1, <1>2

LEMMA ActivateRefines ==
    ASSUME ParkInv, ParkInv', NEW w \in Wakers, WakeOnRq(w) \/ Activate(w)
    PROVE  [Abstract!Next]_(Abstract!vars)
<1>0. /\ waker[w].at \in {"onrq", "activate"} /\ pc' = pc /\ gen' = gen /\ ~word.notified
      /\ word.state \in {"Blocked", "Waking"} /\ word \in Words
  BY DEF WakeOnRq, Activate, At, ParkInv, WakerInv, TypeOK, Words
<1>1. CASE Return(w) /\ word' = Transition("Running")
  <2>1. word'.state = "Running" /\ word'.notified = FALSE
    BY <1>0, <1>1 DEF Transition, Words
  <2>2. \E S \in SUBSET Wakers : Abstract!TakeEffect(S)
    BY <1>0, <1>1, <2>1, UnblockRefines
  <2>. QED  BY <2>2 DEF Abstract!Next
<1>2. CASE Goto(w, "activate") /\ word' = Transition("Waking")
  <2>1. /\ CallView(w)' = CallView(w) /\ ~Served(w) /\ ~Served(w)'
        /\ \A v \in Wakers \ {w} : waker'[v] = waker[v]
    BY <1>0, <1>2, SMTT(30) DEF Goto, Served, At, CallView, ParkInv, TypeOK
  <2>2. word'.state = "Waking"
    BY <1>0, <1>2 DEF Transition, Words
  <2>. QED  BY <1>0, <2>1, <2>2, WakerStutters DEF Asleep
<1>. QED  BY <1>1, <1>2 DEF WakeOnRq, Activate

-----------------------------------------------------------------------------
(* Theorems *)

LEMMA RefineNext == ParkInv /\ ParkInv' /\ [Next]_vars => [Abstract!Next]_(Abstract!vars)
<1> SUFFICES ASSUME ParkInv, ParkInv', [Next]_vars PROVE [Abstract!Next]_(Abstract!vars)
  OBVIOUS
<1>1. CASE Prepare \/ Withdraw \/ PublishInRq \/ CommitLocked
  BY <1>1, PrepareRefines, WithdrawRefines, PublishRefines DEF Abstract!Next
<1>2. CASE \/ TakeNotified \/ GenerationExhausted \/ Committing \/ PickDelayed \/ SetNextTask
  BY <1>1, <1>2, TakeNotifiedRefines, TakeInRqRefines, ParkerStutters DEF Committing
<1>3. ASSUME NEW w \in Wakers, CallWake(w) \/ CallClaim(w) \/ Locking(w) \/ Waking(w)
      PROVE  [Abstract!Next]_(Abstract!vars)
  <2>1. CASE CallWake(w) \/ CallClaim(w) \/ ReportUnavailable(w)
    <3>1. Abstract!CallWake(w) \/ Abstract!CallClaim(w) \/ Abstract!ReportRefusal(w)
      BY <2>1, CallsRefine
    <3>. QED  BY <3>1 DEF Abstract!Next
  <2>2. CASE Locking(w) \/ PublishWake(w) \/ PlaceWake(w) \/ NotifyClaim(w) \/ WakeOnRq(w) \/ Activate(w)
    BY <2>2, LockTaskRefines, LockClaimRefines, RelockClaimRefines, PublishWakeRefines,
       PlaceWakeRefines, NotifyClaimRefines, ActivateRefines DEF Locking
  <2>. QED  BY <1>3, <2>1, <2>2 DEF Waking
<1>4. CASE UNCHANGED vars
  <2>1. word' = word /\ pc' = pc /\ gen' = gen /\ waker' = waker
    BY <1>4 DEF vars
  <2>. QED  BY <2>1, Stutters DEF Resumed, Asleep
<1>. QED  BY <1>1, <1>2, <1>3, <1>4 DEF Next

(* Every behaviour of the handshake, with any number of wakers on any number *)
(* of CPUs, is one of module Park: no wake call is lost, takes effect twice, *)
(* or unblocks a park that its claim was not published for.                  *)
THEOREM HandshakeImplementsPark == Spec => ImplementsPark
  BY RefineInit, RefineNext, ParkInvariant, PTL DEF Spec, ImplementsPark, Abstract!Spec
==============================================================================
