SPECIFICATION Spec
CONSTANTS
    Declared <- Chain
    StartAfter <- ChainAfter
    Policy <- ChainPolicy
    Required = {"db", "api"}
    Everything = Everything
    NoOne = NoOne
    MaxAttempts = 2
    Budgets <- TwoOperations
INVARIANT DependentsStayDown
CHECK_DEADLOCK FALSE
