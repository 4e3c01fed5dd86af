SPECIFICATION FairSpec
CONSTANTS
    Targets = {t1, t2, t3}
    Commands <- MCAll
    DialMayFail = TRUE
INVARIANTS
    TypeOK
    SendIsSafe
    EveryTargetAccounted
    TotalFailureReported
    NoFalseAlarm
PROPERTIES
    CollectsErrors
    CommandEnds
CHECK_DEADLOCK FALSE
