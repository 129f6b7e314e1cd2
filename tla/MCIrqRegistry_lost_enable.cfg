SPECIFICATION Spec
CONSTANTS
    Cpus = {1, 2}
    Boot = {1}
    Dispatching = {}
    Callers = {t1}
    Requests <- PerCpuRequests
    MaxActions = 1
    MaxErrors = 0
INVARIANTS LinesFollowActions
