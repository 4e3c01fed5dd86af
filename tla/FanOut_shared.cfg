SPECIFICATION Spec
CONSTANTS
    Targets = {t1, t2}
    Commands <- MCInstall
    DialMayFail = FALSE
INVARIANT FailureReported
CHECK_DEADLOCK FALSE
