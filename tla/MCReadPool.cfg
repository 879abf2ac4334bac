SPECIFICATION FairSpec
CONSTANTS
    t1 = t1
    t2 = t2
    t3 = t3
    t4 = t4
    w1 = w1
    w2 = w2
    c1 = c1
    c2 = c2
    NoTask = NoTask
    Task = {t1, t2, t3, t4}
    Worker = {w1, w2}
    Caller = {c1, c2}
    Limit = 3
INVARIANTS TypeOK QueueBounds WorkConserving NoLostWakeup ExitLeavesNothing
PROPERTIES PoolLive ImplementsService
