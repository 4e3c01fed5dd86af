SPECIFICATION UploadSpec
CONSTANTS
    RPCs = {"ZeroSetPackage"}
    Blocks = 3
    UpWindow = 2
    DownWindow = 1
CHECK_DEADLOCK FALSE
INVARIANT UploadLeavesFile
