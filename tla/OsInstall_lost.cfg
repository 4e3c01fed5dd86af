SPECIFICATION OsSpec
CONSTANTS
    RPCs = {"Install"}
    Blocks = 2
    UpWindow = 2
    DownWindow = 2
CHECK_DEADLOCK FALSE
INVARIANT OsValidatedIsSuccess
