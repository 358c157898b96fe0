SPECIFICATION FairSpec
CONSTANTS
    w1 = w1
    w2 = w2
    t1 = t1
    t2 = t2
    t3 = t3
    op = op
    Admin = op
    Subs <- OneSub
    Mode <- AllFifo
    Concurrency = 1
    MaxAttempts = 2
    Configured <- NoneConfigured
    SubMax <- NoOverride
    Group <- OneGroup
    Tasks <- TwoTasks
    Ops <- NoOps
    MaxCalls = 0
    MaxJobs = 3
PROPERTIES
    GroupOrder
    EveryJobSettles
