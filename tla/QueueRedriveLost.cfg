SPECIFICATION Spec
CONSTANTS
    w1 = w1
    w2 = w2
    t1 = t1
    t2 = t2
    t3 = t3
    op = op
    Admin = op
    Subs <- OneSub
    Mode <- AllConcurrent
    Concurrency = 1
    MaxAttempts = 1
    Configured <- NoneConfigured
    SubMax <- NoOverride
    Group <- OneGroup
    Tasks <- TwoTasks
    Ops <- Redrives
    MaxCalls = 1
    MaxJobs = 1
INVARIANT NoJobLost
