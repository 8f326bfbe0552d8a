SPECIFICATION Spec
CONSTANTS
    TokenId = {t1}
    WriteId = {w1}
    Faults = {"put", "sync_dir", "commit", "crash", "power", "restore"}
    MaxOp = 3
    MaxGeneration = 2
    MaxCrash = 3
INVARIANTS
    AnswersHold
    ReplayRight
PROPERTIES
    Restarts
    Answered
CHECK_DEADLOCK FALSE
