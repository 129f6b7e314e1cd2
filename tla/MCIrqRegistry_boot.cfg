SPECIFICATION Spec
CONSTANTS
    Cpus = {1, 2}
    Boot = {1}
    Dispatching = {}
    Callers = {t1}
    Requests <- FaultyRequests
    MaxActions = 2
    MaxErrors = 1
INVARIANTS AppliedIsController OfflineEnablesPending
