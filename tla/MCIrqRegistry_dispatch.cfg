SPECIFICATION FairSpec
CONSTANTS
    Cpus = {1, 2}
    Boot = {1, 2}
    Dispatching = {1, 2}
    Callers = {t1}
    Requests <- MixedRequests
    MaxActions = 2
    MaxErrors = 0
INVARIANTS TypeOK NoDanglingAction NonReentrant QuietAfterSynchronize LinesFollowActions
PROPERTIES FreeCompletes
