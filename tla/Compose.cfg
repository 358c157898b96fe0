SPECIFICATION FairSpec
CONSTANTS
    Declared <- Chain
    StartAfter <- ChainAfter
    Policy <- ChainPolicy
    Required = {"db", "api"}
    Everything = Everything
    NoOne = NoOne
    MaxAttempts = 2
    Budgets <- Scenarios
INVARIANTS OneTrackedProcess RollbackExact TargetStaysDown QuietAfterShutdown
PROPERTIES StopOrder ExitIsAnswered
CHECK_DEADLOCK FALSE
