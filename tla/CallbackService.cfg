SPECIFICATION Spec
CONSTANTS
    t1 = t1
    t2 = t2
    t3 = t3
    Threads = {t1, t2, t3}
    Procs = {"p", "q"}
    ProcOf <- MCProcOf
    TTL = 2
    MaxGet = 1
    N = 3
    Batch = 2
    Scenarios <- MCScenarios
CHECK_DEADLOCK FALSE
INVARIANTS TypeOK StaleBounded AnsweredOnce NoSilentLoss
PROPERTIES CallEnds
