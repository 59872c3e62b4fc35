SPECIFICATION FairSpec
CONSTANTS
    tick = tick
    server = server
    conn1 = conn1
    conn2 = conn2
    PoolSize = 3
    MainTasks <- MCMainTasks
    Connections <- MCConnections
    KindOf <- MCKindOf
INVARIANTS
    PoolBound
    TaskHeldOnce
    NoLostWakeup
PROPERTIES
    EveryTaskStarts
    TerminateReturns
CHECK_DEADLOCK FALSE
