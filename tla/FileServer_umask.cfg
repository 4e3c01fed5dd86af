SPECIFICATION Spec
CONSTANTS
    c1 = c1
    c2 = c2
    NoInode = NoInode
    Puts = {}
    Gets = {}
    Transfers = {}
    Removes = {}
    Stats = {s1, s2}
    Paths = {f}
    Chunks = {c1, c2}
    MaxLen = 1
    Digests <- MCDigests
    OldData <- MCOldData
    Bits = {o}
    OldMode = {o}
    Umask0 = {o}
    FileHashes = {"md5"}
    MayCrash = FALSE
INVARIANT StatReportsUmask
CHECK_DEADLOCK FALSE
