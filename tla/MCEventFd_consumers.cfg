CONSTANTS
    r1 = r1
    r2 = r2
    w1 = w1
    p1 = p1
    o1 = o1
    Readers = {r1, r2}
    Writers = {w1}
    Producers = {}
    Observers = {o1}
    Values = {1}
    MaxCount = 2
    Semaphore = TRUE
    NonBlocking = {FALSE}
    Faulty = {r2}
    Abortable = {o1}
SPECIFICATION Spec
CHECK_DEADLOCK FALSE
INVARIANTS ExactLeases OncePerWake ObserversWoken
