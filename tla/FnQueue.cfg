SPECIFICATION FairSpec
CONSTANTS
    MaxJobs = 2
    MaxGens = 2
    Concurrency = 1
    Type = "standard"
    MaxRetries = 2
    Removals = TRUE
\* A removed queue stops once its tasks have ended.
CHECK_DEADLOCK FALSE
INVARIANTS
    SingleDelivery
    NoMessageLost
    DeliveryBudget
    OldRunVoid
PROPERTIES
    PollersEnd
    EveryMessageSettles
