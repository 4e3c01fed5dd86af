SPECIFICATION ClientsSpec
CONSTANTS
    RPCs = {"Install", "ZeroInstall", "Deploy", "ClosingDeploy", "MockDeploy", "Put", "SetPackage", "ZeroSetPackage"}
    Blocks = 3
    UpWindow = 1
    DownWindow = 2
    DlTargets = {t1, t2}
    DlBlocks = 2
    CertTargets = {t1, t2}
    Names = {a, b}
    TreeDepth = 2
    TreeChanges = 1
    Hosts = {"router"}
    TargetNames = {"leaf"}
CHECK_DEADLOCK FALSE
INVARIANT OsTypeOK
INVARIANT OsSuccessIsValidated
INVARIANT OsWholePackage
INVARIANT OsNeverStuck
INVARIANT DeployTypeOK
INVARIANT DeploySuccessIsWhole
INVARIANT UploadTypeOK
INVARIANT UploadSuccessIsStored
INVARIANT DlTypeOK
INVARIANT DownloadKeepsCopy
INVARIANT DownloadNilIsSaved
INVARIANT DownloadSharesVerified
INVARIANT CertTypeOK
INVARIANT CertLocalHasKeys
INVARIANT CertSuccessIsLoaded
INVARIANT RequestKeepsEveryOption
INVARIANT CommandsBuildRequests
INVARIANT WalkNilIsWhole
INVARIANT TargetsNoneLost
INVARIANT TargetsDialAsAsked
PROPERTY OsEnds
PROPERTY DeployEnds
PROPERTY UploadEnds
PROPERTY CertNoneOnTrial
PROPERTY WalkEnds
