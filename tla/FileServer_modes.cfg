SPECIFICATION Spec
CONSTANTS
    c1 = c1
    c2 = c2
    NoInode = NoInode
    Puts = {p1, p2}
    Gets = {}
    Transfers = {}
    Removes = {}
    Stats = {}
    Paths = {f}
    Chunks = {c1, c2}
    MaxLen = 1
    Digests <- MCDigests
    OldData <- MCOldData
    Bits = {o}
    OldMode = {o}
    Umask0 = {o}
    FileHashes = {"md5"}
    MayCrash = FALSE
INVARIANT PutSetsItsMode
CHECK_DEADLOCK FALSE
