SPECIFICATION Spec
CONSTANTS
    Cpus = {1}
    Boot = {1}
    Dispatching = {}
    Callers = {t1, t2}
    Requests <- ExclusiveRequests
    MaxActions = 1
    MaxErrors = 0
SYMMETRY CallerSymmetry
INVARIANTS LinesFollowActions
