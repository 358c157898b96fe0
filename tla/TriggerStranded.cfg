SPECIFICATION Spec
CONSTANTS
    Worker = {"h1", "h2"}
    Owner = {"o1"}
    NoOwner = NoOwner
    NsOf <- BothHome
    Wants = {"unnamed"}
    Task = {1, 2}
    Budgets <- Replacement
    None = None
INVARIANT NeverStranded
CHECK_DEADLOCK FALSE
