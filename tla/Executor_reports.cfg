CONSTANTS
    Timeout = 3
    LoopDelay = 1
    MaxTime = 5
SPECIFICATION FairSpec
CHECK_DEADLOCK FALSE
INVARIANTS
    TypeOK
    ReportTrue
    NoProcessLeft
PROPERTY ExecutionReported
