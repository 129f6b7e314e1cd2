CONSTANTS
    w1 = w1
    w2 = w2
    w3 = w3
    c1 = c1
    c2 = c2
    none = none
    Wakers = {w1, w2, w3}
    Cpus = {c1, c2}
    MaxGen = 2
SPECIFICATION Spec
INVARIANTS TypeOK NeverFatal RunnableIsQueued
PROPERTIES ImplementsPark CallsReturn
