CONSTANTS
    t1 = t1
    t2 = t2
    p1 = p1
    none = none
    Threads = {t1, t2}
    Producers = {p1}
    Interruptible = {t1}
    Timed = {t2}
    Initial = 0
    MaxPermits = 1
    MaxUps = 2
SPECIFICATION Spec
INVARIANTS TypeOK PermitsConserved NoStrandedWaiter WaiterOutlivesHandoff Exclusive OneDrainWaiter
PROPERTIES GrantReturns StoppedReturns WriterDrains
CHECK_DEADLOCK FALSE
