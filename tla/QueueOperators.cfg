SPECIFICATION Spec
CONSTANTS
    w1 = w1
    w2 = w2
    t1 = t1
    t2 = t2
    t3 = t3
    op = op
    Admin = op
    Subs <- OneSub
    Mode <- AllConcurrent
    Concurrency = 2
    MaxAttempts = 2
    Configured <- NoneConfigured
    SubMax <- NoOverride
    Group <- OneGroup
    Tasks <- ThreeTasks
    Ops <- Redrives
    MaxCalls = 2
    MaxJobs = 2
SYMMETRY TaskSymmetry
INVARIANTS
    NoResurrection
    RetryBudget
    ConcurrencyBound
