SPECIFICATION Spec
CONSTANTS
    c1 = c1
    c2 = c2
    NoInode = NoInode
    Puts = {p1, p2}
    Gets = {}
    Transfers = {}
    Removes = {r1}
    Stats = {}
    Paths = {f, g}
    Chunks = {c1, c2}
    MaxLen = 1
    Digests <- MCDigests
    OldData <- MCOldData
    Bits = {o}
    OldMode = {o}
    Umask0 = {o}
    FileHashes = {"md5"}
    MayCrash = TRUE
INVARIANTS
    AckedPutIsServed
    TempsAreOfUnfinished
    ModesAreRequested
PROPERTY StoresFiles
SYMMETRY MCSymmetry
CHECK_DEADLOCK FALSE
