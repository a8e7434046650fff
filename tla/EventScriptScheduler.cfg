\* Three script calls, one of which may throw, cancelled and disposed at any moment.
CONSTANTS
    a1 = a1
    a2 = a2
    a3 = a3
    Actions <- MCActions3
    MaxTask = 3
    MonitorLife = 2
    MayThrow <- MCMayThrow
    MayDispose = TRUE
SPECIFICATION FairSpec
INVARIANTS
    TypeOK
    DisposedIsQuiet
    AgainOnlyAfterException
PROPERTIES
    EventuallyRun
CHECK_DEADLOCK FALSE
