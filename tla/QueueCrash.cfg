SPECIFICATION Spec
CONSTANTS
    Legacy = {1}
    Fresh = {2,3}
    Starts <- Ages
    MaxCrashes = 1
    MaxFailures = 1
    MaxTicks = 1
    File <- Files
    Writer <- Writers
    Loop <- Loops
    Serves <- ServedBy
    NoFile = NoFile
CHECK_DEADLOCK FALSE
INVARIANTS
    NoChangeForgotten
    RestoredOnce
    DrainedOnce
