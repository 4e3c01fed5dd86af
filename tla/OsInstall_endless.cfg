SPECIFICATION OsSpec
CONSTANTS
    RPCs = {"ZeroInstall"}
    Blocks = 2
    UpWindow = 2
    DownWindow = 2
CHECK_DEADLOCK FALSE
PROPERTY OsContentEnds
