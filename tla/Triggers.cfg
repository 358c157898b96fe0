SPECIFICATION FairSpec
CONSTANTS
    Worker = {"h1", "d1"}
    Owner = {"o1", "h1"}
    NoOwner = NoOwner
    NsOf <- HomeAndDefault
    Wants = {"unnamed"}
    Task = {1, 2}
    Budgets <- Scenarios
    None = None
INVARIANTS OneBucket NotLost NewestWins TokenHeld NoGhost
PROPERTY ComesToRest
CHECK_DEADLOCK FALSE
