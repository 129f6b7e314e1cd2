CONSTANTS
    r1 = r1
    r2 = r2
    w1 = w1
    p1 = p1
    o1 = o1
    Readers = {r1, r2}
    Writers = {w1}
    Producers = {}
    Observers = {}
    Values = {2}
    MaxCount = 3
    Semaphore = TRUE
    NonBlocking = {FALSE}
    Faulty = {}
    Abortable = {}
SPECIFICATION Spec
CHECK_DEADLOCK FALSE
INVARIANT NoStrandedConsumer
