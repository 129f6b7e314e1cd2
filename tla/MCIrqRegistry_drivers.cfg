SPECIFICATION Spec
CONSTANTS
    Cpus = {1}
    Boot = {1}
    Dispatching = {1}
    Callers = {t1, t2}
    Requests <- GlobalRequests
    MaxActions = 2
    MaxErrors = 0
SYMMETRY CallerSymmetry
INVARIANTS OneFreer Sharing
