SPECIFICATION DeploySpec
CONSTANTS
    RPCs = {"MockDeploy"}
    Blocks = 2
    UpWindow = 1
    DownWindow = 2
CHECK_DEADLOCK FALSE
INVARIANT DeployNoStandoff
