CONSTANTS
    r1 = r1
    r2 = r2
    w1 = w1
    p1 = p1
    o1 = o1
    Readers = {r1}
    Writers = {w1}
    Producers = {p1}
    Observers = {}
    Values = {0, 2}
    MaxCount = 3
    Semaphore = FALSE
    NonBlocking = {TRUE, FALSE}
    Faulty = {}
    Abortable = {r1, w1}
SPECIFICATION FairSpec
CHECK_DEADLOCK FALSE
INVARIANTS TypeOK NoStrandedConsumer
PROPERTIES AbortedCallReturns SoleConsumerServed
