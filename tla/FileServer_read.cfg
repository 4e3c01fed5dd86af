SPECIFICATION Spec
CONSTANTS
    c1 = c1
    c2 = c2
    NoInode = NoInode
    Puts = {p1, p2}
    Gets = {g1}
    Transfers = {x1}
    Removes = {r1}
    Stats = {s1}
    Paths = {f}
    Chunks = {c1, c2}
    MaxLen = 2
    Digests <- MCDigests
    OldData <- MCOldData
    Bits = {}
    OldMode = {}
    Umask0 = {}
    FileHashes = {"sha256", "sha1"}
    MayCrash = TRUE
INVARIANTS
    TypeOK
    PublishedWhole
    GetOneVersion
    TransferOneVersion
CONSTRAINT MCReaders
SYMMETRY MCSymmetry
CHECK_DEADLOCK FALSE
