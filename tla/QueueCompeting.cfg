SPECIFICATION Spec
CONSTANTS
    w1 = w1
    w2 = w2
    t1 = t1
    t2 = t2
    t3 = t3
    op = op
    Admin = op
    Subs <- TwoSubs
    Mode <- GroupedAndFifo
    Concurrency = 2
    MaxAttempts = 2
    Configured <- TwoSubs
    SubMax <- OverrideSecond
    Group <- OneGroup
    Tasks <- TwoTasks
    Ops <- DelaysAndUnsubscribes
    MaxCalls = 0
    MaxJobs = 2
\* Every subscription may end: the queue then stops.
CHECK_DEADLOCK FALSE
SYMMETRY TaskSymmetry
INVARIANTS
    SinglePlace
    GroupExclusion
    ActiveAccounted
PROPERTY ImplementsDurableQueue
